--------------------------- MODULE MCIdempotence ---------------------------
(* Idempotence with the constants its .cfg files give.                     *)
EXTENDS Idempotence
=============================================================================
