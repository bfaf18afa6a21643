----------------------------- MODULE MCProducer -----------------------------
(* Values for the constants of Producer that a .cfg cannot write down.     *)
EXTENDS ProducerContract, TLC

AnyRetry      == {-1, 0, 1, 2}
MixedRetry    == {-1, 1}

AnyFlush      == {-1, 0, 1}
InfiniteFlush == {-1}

=============================================================================
