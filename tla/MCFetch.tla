------------------------------- MODULE MCFetch -------------------------------
(* Fetch with the constants its .cfg files give.                             *)
EXTENDS Fetch

CONSTANTS b1, b2

MCBrokers == {b1, b2}
MCStarts  == {BEGINNING, TAIL_BASE - 1}
MCSeeks   == {1}
MCReset   == BEGINNING
=============================================================================
