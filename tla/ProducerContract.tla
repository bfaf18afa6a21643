-------------------------- MODULE ProducerContract --------------------------
(***************************************************************************)
(* Producer implements DeliveryContract.                                   *)
(***************************************************************************)
EXTENDS Producer

(* What a client can tell about message m: the callback, the return code.  *)
StatusOf(m) ==
    IF reports[m] > 1            THEN "duplicated"
    ELSE IF reports[m] = 1       THEN "reported"
    ELSE IF m \in purged         THEN "lost"
    ELSE IF m \in InLibrary      THEN "accepted"
    ELSE IF outcome[m] = "ERROR" THEN "refused"
    ELSE "unsent"

Contract ==
    INSTANCE DeliveryContract
        WITH MayLose <- \E w \in FlushWaits : w >= 0,
             status  <- [m \in Msgs |-> StatusOf(m)]

(* Every step of the threads, of the library and of destroy is a step of   *)
(* the delivery contract or invisible to it: no message is refused after   *)
(* it was taken, or reported twice, or reported after                      *)
(* kafkatools_produce_timedwait() refused it, and none is lost when        *)
(* kafkatools_producer_destroy() waits without limit.                      *)
ImplementsContract == Contract!Spec

=============================================================================
