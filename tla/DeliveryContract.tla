-------------------------- MODULE DeliveryContract --------------------------
(***************************************************************************)
(* What the producer promises for a message, with nothing about queues,    *)
(* threads, retries or polls: a message is taken or refused once, and a    *)
(* message that was taken is reported once.  Reports can only be lost when *)
(* the producer is shut down, and only if MayLose.                         *)
(***************************************************************************)
CONSTANTS Msgs, MayLose

VARIABLE status

Status == {"unsent", "accepted", "refused", "reported", "lost"}

Init == status = [m \in Msgs |-> "unsent"]

Move(m, from, to) ==
    /\ status[m] = from
    /\ status' = [status EXCEPT ![m] = to]

Accept(m) == Move(m, "unsent", "accepted")
Refuse(m) == Move(m, "unsent", "refused")
Report(m) == Move(m, "accepted", "reported")

Shutdown ==
    /\ MayLose
    /\ status' = [m \in Msgs |->
                     IF status[m] = "accepted" THEN "lost" ELSE status[m]]

Next ==
    \/ \E m \in Msgs : Accept(m) \/ Refuse(m) \/ Report(m)
    \/ Shutdown

Spec == Init /\ [][Next]_status

=============================================================================
