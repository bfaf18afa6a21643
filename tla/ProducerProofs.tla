--------------------------- MODULE ProducerProofs ---------------------------
(***************************************************************************)
(* Proofs about Producer, for every number of threads and messages, every  *)
(* queue limit and every retry and flush budget: its invariants, and   *)
(* that it implements the delivery contract.                               *)
(***************************************************************************)
EXTENDS ProducerContract, TLAPS, FiniteSetTheorems

(* The message of a running call is one of the messages. *)
LEMMA MsgType ==
    ASSUME ControlType, NEW t \in Threads, pc[t] \notin {"idle", "done"}
    PROVE  Msg(t) \in Msgs /\ i[t] \in 0 .. Messages - 1
  BY ProducerAssumption DEF ControlType, Msg, Msgs

(* The partition formula of produce.c stays within the configured scope. *)
LEMMA PartitionScope ==
    ASSUME NEW id \in Nat
    PROVE  GET_PARTITIONID(id) \in Partition
  <1>1. /\ MaxId - MinId + 1 \in Nat \ {0}
        /\ MinId \in Nat /\ MaxId \in Nat
    BY ProducerAssumption
  <1>2. id % (MaxId - MinId + 1) \in 0 .. MaxId - MinId
    BY <1>1
  <1> QED
    BY <1>1, <1>2 DEF GET_PARTITIONID, Partition

(* The main thread polls too, and is none of the producing threads. *)
LEMMA MainNotThread ==
    /\ Main \in Pollers /\ Threads \subseteq Pollers
    /\ Main \notin Threads
    /\ \A p \in Pollers : p \in Threads \/ p = Main
  BY ProducerAssumption, Zenon DEF Pollers

(* The initial values have their types. *)
LEMMA TypeInit == Init => TypeOK
  <1> SUFFICES ASSUME Init PROVE TypeOK
    BY Zenon
  <1>1. MinId \in Partition
    BY ProducerAssumption DEF Partition
  <1> QED
    BY <1>1, MainNotThread, ProducerAssumption
    DEF Init, TypeOK, ControlType, CallType, WrapType, LibType, Pollers, ThreadPC, MainPC,
        Msgs, Unplaced, Errors

(* Type correctness is inductive on its own. *)
LEMMA TypeStep == TypeOK /\ [Next]_vars => TypeOK'
  <1> SUFFICES ASSUME TypeOK, [Next]_vars
               PROVE  TypeOK'
    BY Zenon
  <1> USE MainNotThread, ProducerAssumption
      DEF TypeOK, ControlType, CallType, WrapType, LibType, ThreadPC, MainPC, Goto
  <1>1. ASSUME NEW t \in Threads, Call(t)
        PROVE  TypeOK'
    <2>1. GET_PARTITIONID(i[t]) \in Partition
      BY PartitionScope
    <2> QED
      BY <1>1, <2>1, ZenonT(40) DEF Call, libVars
  <1>2. ASSUME NEW t \in Threads, ProduceNew(t)
        PROVE  TypeOK'
    BY <1>2 DEF ProduceNew, Attempt, Decrement, wrapVars
  <1>3. ASSUME NEW t \in Threads, ProduceOk(t)
        PROVE  TypeOK'
    <2>1. Msg(t) \in Msgs
      BY <1>3, MsgType, Zenon DEF ProduceOk
    <2> QED
      BY <1>3, <2>1, Zenon DEF ProduceOk, Result, Errors, wrapVars
  <1>4. ASSUME NEW t \in Threads, PartitionerError(t)
        PROVE  TypeOK'
    BY <1>4 DEF PartitionerError, Result, Errors, wrapVars
  <1>5. ASSUME NEW t \in Threads, ProduceFull(t)
        PROVE  TypeOK'
    BY <1>5 DEF ProduceFull, Attempt, Result, Decrement, Errors, wrapVars, libVars
  <1>6. ASSUME NEW t \in Threads, ProduceError(t)
        PROVE  TypeOK'
    BY <1>6 DEF ProduceError, Attempt, Result, Decrement, Errors, wrapVars, libVars
  <1>7. ASSUME NEW t \in Threads, Exhausted(t) \/ Finish(t)
        PROVE  TypeOK'
    BY <1>7 DEF Exhausted, Finish, callVars, wrapVars, libVars
  <1>8. ASSUME NEW t \in Threads, ReturnSuccess(t)
        PROVE  TypeOK'
    <2>1. Msg(t) \in Msgs
      BY <1>8, MsgType, Zenon DEF ReturnSuccess
    <2> QED
      BY <1>8, <2>1 DEF ReturnSuccess, NextMessage, libVars
  <1>9. ASSUME NEW t \in Threads, ReturnError(t)
        PROVE  TypeOK'
    <2>1. Msg(t) \in Msgs
      BY <1>9, MsgType, Zenon DEF ReturnError
    <2> QED
      BY <1>9, <2>1, Zenon DEF ReturnError, libVars
  <1>10. ASSUME NEW t \in Threads, GetErrstr(t)
         PROVE  TypeOK'
    BY <1>10, SMTT(30) DEF GetErrstr, NextMessage, libVars
  <1>11. ASSUME NEW p \in Pollers, PollTake(p)
         PROVE  TypeOK'
    BY <1>11, Zenon DEF PollTake, callVars, wrapVars
  <1>12. ASSUME NEW p \in Pollers, PollTimeout(p)
         PROVE  TypeOK'
    BY <1>12, SMTT(30) DEF PollTimeout, AfterPoll, callVars, wrapVars, libVars
  <1>13. ASSUME NEW p \in Pollers, NEW m \in Msgs, Callback(p, m)
         PROVE  TypeOK'
    BY <1>13 DEF Callback, AfterPoll, callVars, wrapVars
  <1>14. CASE DestroyLock
    BY <1>14, Zenon DEF DestroyLock, callVars, libVars
  <1>15. CASE FlushLoop
    BY <1>15, SMTT(30) DEF FlushLoop, Decrement, callVars, libVars
  <1>16. CASE FlushCheck
    BY <1>16 DEF FlushCheck, callVars, wrapVars, libVars
  <1>17. CASE DestroyFinal
    BY <1>17 DEF DestroyFinal, callVars
  <1>18. ASSUME NEW m \in Msgs, Complete(m)
         PROVE  TypeOK'
    BY <1>18, Zenon DEF Complete, callVars, wrapVars
  <1>19. CASE UNCHANGED vars
    BY <1>19, Zenon DEF vars, callVars, wrapVars, libVars
  <1> HIDE DEF TypeOK
  <1> QED
    BY <1>1, <1>2, <1>3, <1>4, <1>5, <1>6, <1>7, <1>8, <1>9, <1>10, <1>11, <1>12,
       <1>13, <1>14, <1>15, <1>16, <1>17, <1>18, <1>19, SMTT(30)
    DEF Next, ThreadStep, MainStep, EndProgram, PollStep, Terminated

(* Every variable keeps its type, so every partition written to the site   *)
(* (produce.c:145) is within [partitionid_min, partitionid_max].           *)
THEOREM TypeCorrect == Spec => []TypeOK
  BY TypeInit, TypeStep, PTL DEF Spec

-----------------------------------------------------------------------------
(* Frames: what the steps leave alone. *)

(* Only a thread's own steps touch its control, its call and its messages. *)
LEMMA OwnSteps ==
    ASSUME TypeOK, Next, NEW u \in Threads, ~ThreadStep(u)
    PROVE  /\ UNCHANGED <<pc[u], i[u], budget[u], retry[u], ret[u], lasterr[u], arg[u]>>
           /\ \A k \in 0 .. Messages - 1 : UNCHANGED <<outcome[<<u, k>>], placed[<<u, k>>]>>
  <1> DEFINE Frame ==
          /\ UNCHANGED <<pc[u], i[u], budget[u], retry[u], ret[u], lasterr[u], arg[u]>>
          /\ \A k \in 0 .. Messages - 1 : UNCHANGED <<outcome[<<u, k>>], placed[<<u, k>>]>>
  <1>0. ControlType /\ CallType
    BY Zenon DEF TypeOK
  <1>p. placed \in [Msgs -> Partition \cup {Unplaced}]
    BY Zenon DEF TypeOK, LibType
  <1> USE <1>0, <1>p, MainNotThread DEF ControlType, CallType, Goto
  <1>1. ASSUME NEW t \in Threads, t # u, ThreadStep(t)
        PROVE  Frame
    <2>1. CASE Call(t)
      BY <1>1, <2>1, Zenon DEF Call, libVars
    <2>2. CASE ProduceNew(t)
      BY <1>1, <2>2, Zenon DEF ProduceNew, Attempt
    <2>3. CASE ProduceOk(t)
      BY <1>1, <2>3 DEF ProduceOk, Result, Msg
    <2>4. CASE PartitionerError(t)
      BY <1>1, <2>4, Zenon DEF PartitionerError, Result
    <2>5. CASE ProduceFull(t) \/ ProduceError(t)
      BY <1>1, <2>5, Zenon DEF ProduceFull, ProduceError, Attempt, Result, libVars
    <2>6. CASE Exhausted(t) \/ Finish(t)
      BY <1>1, <2>6, Zenon DEF Exhausted, Finish, callVars, libVars
    <2>7. CASE ReturnSuccess(t)
      BY <1>1, <2>7 DEF ReturnSuccess, NextMessage, Msg, libVars
    <2>8. CASE ReturnError(t)
      BY <1>1, <2>8 DEF ReturnError, Msg, libVars
    <2>9. CASE GetErrstr(t)
      BY <1>1, <2>9, Zenon DEF GetErrstr, NextMessage, libVars
    <2>10. CASE PollStep(t)
      BY <1>1, <2>10, Zenon DEF PollStep, PollTake, PollTimeout, Callback, callVars, libVars
    <2> QED
      BY <1>1, <2>1, <2>2, <2>3, <2>4, <2>5, <2>6, <2>7, <2>8, <2>9, <2>10, Zenon
      DEF ThreadStep
  <1>2. CASE MainStep
    <2>1. CASE DestroyLock \/ FlushLoop \/ FlushCheck
      BY <2>1, Zenon DEF DestroyLock, FlushLoop, FlushCheck, callVars, libVars
    <2>2. CASE DestroyFinal
      BY <2>2, Zenon DEF DestroyFinal, callVars
    <2>3. CASE PollStep(Main)
      BY <2>3, Zenon DEF PollStep, PollTake, PollTimeout, Callback, callVars, libVars
    <2> QED
      BY <1>2, <2>1, <2>2, <2>3, Zenon DEF MainStep, EndProgram
  <1>3. ASSUME NEW m \in Msgs, Complete(m)
        PROVE  Frame
    BY <1>3, Zenon DEF Complete, callVars
  <1>4. CASE Terminated
    BY <1>4, ZenonT(40) DEF Terminated, vars, callVars, libVars
  <1> QED
    BY <1>1, <1>2, <1>3, <1>4, Zenon DEF Next

(* Most steps leave librdkafka's queues alone. *)
LEMMA LibrarySteps ==
    ASSUME Next
    PROVE  \/ UNCHANGED <<outq, rep, localq, placed, reports, purged>>
           \/ \E t \in Threads : ProduceOk(t)
           \/ \E m \in Msgs : Complete(m)
           \/ \E p \in Pollers : PollTake(p)
           \/ \E p \in Pollers, m \in Msgs : Callback(p, m)
           \/ DestroyFinal
  BY MainNotThread
  DEF Next, ThreadStep, MainStep, EndProgram, PollStep, Terminated, vars, libVars, Call, ProduceNew,
      PartitionerError, ProduceFull, ProduceError, Exhausted, ReturnSuccess, ReturnError,
      GetErrstr, Finish, PollTimeout, DestroyLock, FlushLoop, FlushCheck

(* Only produce, the callback and destroy change the count. *)
LEMMA CountSteps ==
    ASSUME Next
    PROVE  \/ cnt' = cnt
           \/ \E t \in Threads : ProduceNew(t) \/ PartitionerError(t)
           \/ \E p \in Pollers, m \in Msgs : Callback(p, m)
           \/ DestroyFinal
  BY MainNotThread, Zenon
  DEF Next, ThreadStep, MainStep, EndProgram, PollStep, Terminated, vars, libVars, Call, ProduceOk,
      ProduceFull, ProduceError, Exhausted, ReturnSuccess, ReturnError, GetErrstr, Finish,
      PollTake, PollTimeout, DestroyLock, FlushLoop, FlushCheck, Complete

(* Sets of messages are finite. *)
LEMMA MsgsFinite == IsFiniteSet(Msgs) /\ \A S \in SUBSET Msgs : IsFiniteSet(S)
  <1>1. IsFiniteSet(0 .. Messages - 1)
    BY FS_Interval, ProducerAssumption
  <1>2. IsFiniteSet(Msgs)
    BY <1>1, FS_Product, ProducerAssumption, Zenon DEF Msgs
  <1> QED
    BY <1>2, FS_Subset, Zenon

-----------------------------------------------------------------------------
(* Steps that preserve the conjuncts of the inductive invariant. *)

(* A local queue is filled on entry to "serve" and empty on leaving it. *)
LEMMA LocalStep ==
    ASSUME TypeOK, LocalInv, Next
    PROVE  LocalInv'
  <1>0. ControlType /\ localq \in [Pollers -> SUBSET Msgs]
    BY Zenon DEF TypeOK, LibType
  <1> USE <1>0, MainNotThread DEF LocalInv, ControlType, Goto
  <1>1. ASSUME NEW p \in Pollers, PollTake(p)
        PROVE  LocalInv'
    BY <1>1, Zenon DEF PollTake
  <1>2. ASSUME NEW p \in Pollers, PollTimeout(p)
        PROVE  LocalInv'
    BY <1>2, Zenon DEF PollTimeout, libVars
  <1>3. ASSUME NEW p \in Pollers, NEW m \in Msgs, Callback(p, m)
        PROVE  LocalInv'
    BY <1>3, Zenon DEF Callback
  <1>4. ASSUME NEW t \in Threads, ThreadStep(t), ~PollStep(t)
        PROVE  LocalInv'
    <2>1. localq' = localq /\ pc[t] # "serve"
      BY <1>4, ZenonT(40) DEF ThreadStep, Call, ProduceNew, ProduceOk, PartitionerError, ProduceFull,
                  ProduceError, Attempt, Exhausted, ReturnSuccess, ReturnError, GetErrstr,
                  Finish, libVars
    <2>2. \A p \in Pollers : p # t => pc'[p] = pc[p]
      BY <1>4 DEF ThreadStep, Call, ProduceNew, ProduceOk, PartitionerError, ProduceFull,
                  ProduceError, Exhausted, ReturnSuccess, ReturnError, GetErrstr,
                  NextMessage, Finish
    <2> QED
      BY <2>1, <2>2, ZenonT(40)
  <1>5. CASE DestroyLock \/ FlushLoop \/ FlushCheck \/ DestroyFinal
    BY <1>5, Zenon DEF DestroyLock, FlushLoop, FlushCheck, DestroyFinal, libVars
  <1>6. ASSUME NEW m \in Msgs, Complete(m)
        PROVE  LocalInv'
    BY <1>6, Zenon DEF Complete
  <1>7. CASE Terminated
    BY <1>7, Zenon DEF Terminated, vars, libVars
  <1> HIDE DEF LocalInv
  <1> QED
    BY <1>1, <1>2, <1>3, <1>4, <1>5, <1>6, <1>7, Zenon DEF Next, MainStep, EndProgram, ThreadStep, PollStep

(* A budget that is not 0 yields at least one result, and a poll follows   *)
(* only a failed attempt.                                                  *)
LEMMA RetryStep ==
    ASSUME TypeOK, RetryInv, Next
    PROVE  RetryInv'
  <1> DEFINE R(t) ==
        /\ pc[t] = "try" /\ budget[t] = 0 => retry[t] = 0 /\ ret[t] = 0
        /\ pc[t] = "try" /\ budget[t] # 0 /\ retry[t] = 0 => ret[t] = -1
        /\ pc[t] \in {"poll", "serve"} => budget[t] # 0 /\ ret[t] = -1
        /\ pc[t] = "part" => budget[t] # 0
        /\ pc[t] = "ret" /\ budget[t] = 0 => ret[t] = 0
  <1> SUFFICES ASSUME NEW t \in Threads PROVE R(t)'
    BY Zenon DEF RetryInv
  <1>0. R(t) /\ ControlType /\ CallType
    BY Zenon DEF RetryInv, TypeOK
  <1>1. CASE ~ThreadStep(t)
    BY <1>0, <1>1, OwnSteps, Zenon
  <1>2. CASE ThreadStep(t)
    <2> USE <1>0, MainNotThread, ProducerAssumption DEF ControlType, CallType, Goto
    <2>1. CASE Call(t)
      BY <2>1, Zenon DEF Call
    <2>2. CASE ProduceNew(t)
      BY <2>2, Zenon DEF ProduceNew, Attempt, Decrement
    <2>3. CASE ProduceOk(t) \/ PartitionerError(t)
      BY <2>3, Zenon DEF ProduceOk, PartitionerError, Result
    <2>4. CASE ProduceFull(t) \/ ProduceError(t)
      BY <2>4, Zenon DEF ProduceFull, ProduceError, Attempt, Result
    <2>5. CASE Exhausted(t) \/ Finish(t)
      BY <2>5, Zenon DEF Exhausted, Finish, callVars
    <2>6. CASE ReturnSuccess(t) \/ ReturnError(t) \/ GetErrstr(t)
      BY <2>6, Zenon DEF ReturnSuccess, ReturnError, GetErrstr, NextMessage
    <2>7. CASE PollStep(t)
      BY <2>7, Zenon DEF PollStep, PollTake, PollTimeout, Callback, AfterPoll, callVars
    <2> QED
      BY <1>2, <2>1, <2>2, <2>3, <2>4, <2>5, <2>6, <2>7, Zenon DEF ThreadStep
  <1> QED
    BY <1>1, <1>2, Zenon

(* Only a failed call writes errcode, and it writes its own error. *)
LEMMA ErrorStep ==
    ASSUME TypeOK, ErrorInv, Next
    PROVE  ErrorInv'
  <1> DEFINE E(t) == pc[t] \in {"try", "poll", "serve", "ret"} /\ ret[t] = -1
                         => lasterr[t] # "NO_ERROR"
  <1>0. /\ ControlType /\ CallType
        /\ \A t \in Threads : E(t) /\ (pc[t] = "geterr" => errcode # "NO_ERROR")
    BY Zenon DEF ErrorInv, ErrcodeIsError, TypeOK
  <1>1. ASSUME NEW t \in Threads
        PROVE  /\ E(t)'
               /\ pc'[t] = "geterr" => pc[t] = "geterr" \/ ReturnError(t)
    <2>1. CASE ~ThreadStep(t)
      BY <1>0, <2>1, OwnSteps, Zenon
    <2>2. CASE ThreadStep(t)
      <3> USE <1>0, MainNotThread DEF ControlType, CallType, Goto
      <3>1. CASE Call(t)
        BY <3>1 DEF Call
      <3>2. CASE ProduceNew(t)
        BY <3>2, Zenon DEF ProduceNew
      <3>3. CASE ProduceOk(t) \/ PartitionerError(t)
        BY <3>3 DEF ProduceOk, PartitionerError, Result
      <3>4. CASE ProduceFull(t) \/ ProduceError(t)
        BY <3>4 DEF ProduceFull, ProduceError, Result
      <3>5. CASE Exhausted(t) \/ Finish(t)
        BY <3>5, Zenon DEF Exhausted, Finish, callVars
      <3>6. CASE ReturnSuccess(t) \/ ReturnError(t) \/ GetErrstr(t)
        BY <3>6, Zenon DEF ReturnSuccess, ReturnError, GetErrstr, NextMessage
      <3>7. CASE PollStep(t)
        BY <3>7, Zenon DEF PollStep, PollTake, PollTimeout, Callback, AfterPoll, callVars
      <3> QED
        BY <2>2, <3>1, <3>2, <3>3, <3>4, <3>5, <3>6, <3>7, Zenon DEF ThreadStep
    <2> QED
      BY <2>1, <2>2, Zenon
  <1>2. ASSUME NEW u \in Threads, ReturnError(u)
        PROVE  errcode' # "NO_ERROR"
    BY <1>0, <1>2, Zenon DEF ReturnError
  <1>3. CASE ~\E u \in Threads : ReturnError(u)
    <2>1. errcode' = errcode
      BY <1>3, ZenonT(40)
      DEF Next, ThreadStep, MainStep, EndProgram, PollStep, Terminated, vars, wrapVars, Call,
          ProduceNew, ProduceOk, PartitionerError, ProduceFull, ProduceError, Result, Exhausted,
          ReturnSuccess, GetErrstr, Finish, PollTake, PollTimeout, Callback, DestroyLock,
          FlushLoop, FlushCheck, DestroyFinal, Complete
    <2> QED
      BY <1>0, <1>1, <1>3, <2>1, Zenon DEF ErrorInv, ErrcodeIsError
  <1> QED
    BY <1>1, <1>2, <1>3, Zenon DEF ErrorInv, ErrcodeIsError

(* The message of a call is taken exactly when the call is about to return *)
(* success; later messages are untouched.                                  *)
LEMMA FreshStep ==
    ASSUME TypeOK, TypeOK', RetryInv, FreshInv, Next
    PROVE  FreshInv'
  <1> SUFFICES ASSUME NEW u \in Threads, NEW k \in 0 .. Messages - 1
               PROVE  /\ (k > i[u] => <<u, k>> \notin Accepted /\ outcome[<<u, k>>] = "none")'
                      /\ (k = i[u] => /\ <<u, k>> \in Accepted <=> Taken(u)
                                      /\ pc[u] # "geterr" => outcome[<<u, k>>] = "none")'
    BY Zenon DEF FreshInv
  <1> DEFINE m == <<u, k>>
             Acc == placed[m] # Unplaced
             F == /\ k > i[u] => ~Acc /\ outcome[m] = "none"
                  /\ k = i[u] => /\ Acc <=> Taken(u)
                                 /\ pc[u] # "geterr" => outcome[m] = "none"
  <1>1. /\ m \in Msgs
        /\ m \in Accepted <=> Acc
        /\ m \in Accepted' <=> Acc'
    BY Zenon DEF Msgs, Accepted
  <1>2. F
    BY <1>1, Zenon DEF FreshInv
  <1> SUFFICES F'
    BY <1>1, Zenon
  <1>3. CASE ~ThreadStep(u)
    BY <1>2, <1>3, OwnSteps, Zenon DEF Taken
  <1>4. CASE ThreadStep(u)
    <2>0. ControlType /\ CallType /\ k \in Nat /\ i[u] \in Nat
          /\ placed \in [Msgs -> Partition \cup {Unplaced}]
      BY ProducerAssumption DEF TypeOK, ControlType, LibType
    <2> USE <1>1, <1>2, <2>0, MainNotThread DEF ControlType, CallType, Goto, Taken
    <2>1. CASE Call(u)
      BY <2>1, Zenon DEF Call, libVars
    <2>2. CASE ProduceNew(u)
      BY <2>2, Zenon DEF ProduceNew, Attempt
    <2>3. CASE ProduceOk(u)
      <3>1. arg[u] # Unplaced
        BY ProducerAssumption DEF Partition, Unplaced
      <3>2. budget[u] # 0
        BY <2>3, Zenon DEF ProduceOk, RetryInv
      <3> QED
        BY <2>3, <3>1, <3>2, SMTT(30) DEF ProduceOk, Result, Msg
    <2>4. CASE PartitionerError(u)
      BY <2>4, SMTT(30) DEF PartitionerError, Result
    <2>5. CASE ProduceFull(u) \/ ProduceError(u)
      BY <2>5, SMTT(30) DEF ProduceFull, ProduceError, Attempt, Result, libVars
    <2>6. CASE Exhausted(u)
      <3>1. budget[u] # 0 => ret[u] = -1
        BY <2>6, Zenon DEF Exhausted, RetryInv
      <3> QED
        BY <2>6, <3>1 DEF Exhausted, callVars, libVars
    <2>7. CASE Finish(u)
      BY <2>7, Zenon DEF Finish, callVars, libVars
    <2>8. CASE ReturnSuccess(u)
      BY <2>8, SMTT(30) DEF ReturnSuccess, NextMessage, Msg, libVars
    <2>9. CASE ReturnError(u)
      BY <2>9, SMTT(30) DEF ReturnError, Msg, libVars
    <2>10. CASE GetErrstr(u)
      BY <2>10 DEF GetErrstr, NextMessage, libVars
    <2>11. CASE PollStep(u)
      BY <2>11, Zenon DEF PollStep, PollTake, PollTimeout, Callback, AfterPoll, callVars, libVars
    <2> QED
      BY <1>4, <2>1, <2>2, <2>3, <2>4, <2>5, <2>6, <2>7, <2>8, <2>9, <2>10, <2>11, ZenonT(40)
      DEF ThreadStep
  <1> QED
    BY <1>3, <1>4, Zenon

(* What FreshInv says of the message of a running call. *)
LEMMA FreshNow ==
    ASSUME TypeOK, FreshInv, NEW t \in Threads, pc[t] \notin {"idle", "done"}
    PROVE  /\ Msg(t) \in Msgs
           /\ Msg(t) \in Accepted <=> Taken(t)
           /\ pc[t] # "geterr" => outcome[Msg(t)] = "none"
  <1>1. Msg(t) \in Msgs /\ i[t] \in 0 .. Messages - 1
    BY MsgType, Zenon DEF TypeOK
  <1> QED
    BY <1>1, Zenon DEF FreshInv, Msg

(* ... and so of one that librdkafka has not put in a queue yet. *)
LEMMA NotYetQueued ==
    ASSUME TypeOK, FreshInv, AcceptedInOnePlace, NEW t \in Threads,
           pc[t] \in {"try", "part"}
    PROVE  Msg(t) \in Msgs /\ Msg(t) \notin InLibrary
  BY FreshNow, Zenon DEF Taken, AcceptedInOnePlace

(* A return code is given once, and says what happened to the message. *)
LEMMA TruthStep ==
    ASSUME TypeOK, FreshInv, ReturnCodeTruthful, Next
    PROVE  ReturnCodeTruthful'
  <1> DEFINE T(m) == /\ outcome[m] = "ERROR" => placed[m] = Unplaced
                     /\ outcome[m] = "SUCCESS" => (placed[m] # Unplaced <=> budget[m[1]] # 0)
  <1> SUFFICES ASSUME NEW u \in Threads, NEW k \in 0 .. Messages - 1
               PROVE  T(<<u, k>>)'
    BY DEF ReturnCodeTruthful, Accepted, Msgs
  <1> DEFINE m == <<u, k>>
  <1>1. m \in Msgs /\ m[1] = u /\ T(m)
    BY Zenon DEF ReturnCodeTruthful, Accepted, Msgs
  <1>2. CASE ~ThreadStep(u)
    BY <1>1, <1>2, OwnSteps, Zenon
  <1>3. CASE ThreadStep(u)
    <2>0. CallType /\ placed \in [Msgs -> Partition \cup {Unplaced}]
      BY Zenon DEF TypeOK, LibType
    <2>1. CASE ProduceOk(u)
      <3>1. Msg(u) \in Msgs /\ outcome[Msg(u)] = "none"
        BY <2>1, FreshNow, Zenon DEF ProduceOk
      <3> QED
        BY <1>1, <2>0, <2>1, <3>1, Zenon DEF ProduceOk, Result, CallType
    <2>2. CASE ReturnSuccess(u)
      <3>1. Msg(u) \in Msgs /\ (placed[Msg(u)] # Unplaced <=> budget[u] # 0)
        BY <2>2, FreshNow, Zenon DEF ReturnSuccess, Taken, Accepted
      <3> QED
        BY <1>1, <2>0, <2>2, <3>1, Zenon DEF ReturnSuccess, CallType, libVars
    <2>3. CASE ReturnError(u)
      <3>1. Msg(u) \in Msgs /\ placed[Msg(u)] = Unplaced
        <4>1. pc[u] = "ret" /\ ret[u] = -1
          BY <2>3, Zenon DEF ReturnError
        <4>2. Msg(u) \in Msgs /\ (Msg(u) \in Accepted <=> Taken(u))
          BY <4>1, FreshNow, Zenon
        <4> QED
          BY <4>1, <4>2 DEF Taken, Accepted
      <3> QED
        BY <1>1, <2>0, <2>3, <3>1, Zenon DEF ReturnError, CallType, libVars
    <2>4. CASE UNCHANGED <<outcome, budget, placed>>
      BY <1>1, <2>4, Zenon
    <2>5. ProduceOk(u) \/ ReturnSuccess(u) \/ ReturnError(u)
          \/ UNCHANGED <<outcome, budget, placed>>
      BY <1>3, Zenon
      DEF ThreadStep, Call, ProduceNew, PartitionerError, ProduceError, ProduceFull, Attempt,
          Result, Exhausted, Finish, GetErrstr, PollStep, PollTake, PollTimeout, Callback,
          callVars, libVars
    <2> QED
      BY <2>1, <2>2, <2>3, <2>4, <2>5, Zenon
  <1> QED
    BY <1>2, <1>3, Zenon

(* Every step of librdkafka moves a message from one place to the next. *)
LEMMA PlacesStep ==
    ASSUME TypeOK, AcceptedInOnePlace, DestroyInv, LocalInv, FreshInv, Next
    PROVE  AcceptedInOnePlace'
  <1>0. LibType
    BY Zenon DEF TypeOK
  <1> USE <1>0, MainNotThread DEF LibType, AcceptedInOnePlace, InLibrary, Serving, Reported
  <1>1. CASE UNCHANGED <<outq, rep, localq, placed, reports, purged>>
    BY <1>1, Zenon DEF Accepted
  <1>2. ASSUME NEW t \in Threads, ProduceOk(t)
        PROVE  AcceptedInOnePlace'
    <2> DEFINE m == Msg(t)
    <2>1. m \in Msgs /\ m \notin Accepted
      BY <1>2, FreshNow, Zenon DEF ProduceOk, Taken
    <2>2. arg[t] # Unplaced
      BY ProducerAssumption DEF TypeOK, CallType, Partition, Unplaced
    <2>3. Accepted' = Accepted \cup {m}
      <3>1. placed' = [placed EXCEPT ![m] = arg[t]]
        BY <1>2, Zenon DEF ProduceOk
      <3>2. \A n \in Msgs : placed'[n] = IF n = m THEN arg[t] ELSE placed[n]
        BY <2>1, <3>1, Zenon
      <3> QED
        BY <2>1, <2>2, <3>2, Zenon DEF Accepted
    <2>4. /\ outq' = outq \cup {m}
          /\ UNCHANGED <<rep, localq, reports, purged>>
      BY <1>2, Zenon DEF ProduceOk
    <2> QED
      BY <2>1, <2>3, <2>4
  <1>3. ASSUME NEW m \in Msgs, Complete(m)
        PROVE  AcceptedInOnePlace'
    BY <1>3 DEF Complete, Accepted
  <1>4. ASSUME NEW p \in Pollers, PollTake(p)
        PROVE  AcceptedInOnePlace'
    <2>1. localq[p] = {}
      BY <1>4, Zenon DEF PollTake, LocalInv
    <2> QED
      BY <1>4, <2>1, ZenonT(40) DEF PollTake, Accepted
  <1>5. ASSUME NEW p \in Pollers, NEW m \in Msgs, Callback(p, m)
        PROVE  AcceptedInOnePlace'
    <2>1. m \in localq[p] /\ reports[m] = 0
      BY <1>5 DEF Callback
    <2> QED
      BY <1>5, <2>1, SMTT(30) DEF Callback, Accepted
  <1>6. CASE DestroyFinal
    BY <1>6, ZenonT(40) DEF DestroyFinal, DestroyInv, LocalInv, Accepted
  <1> HIDE DEF AcceptedInOnePlace
  <1> QED
    BY <1>1, <1>2, <1>3, <1>4, <1>5, <1>6, LibrarySteps, Zenon

(* Messages enter and leave the partitioner one at a time. *)
LEMMA PartitioningStep ==
    ASSUME TypeOK, Next
    PROVE  \/ Partitioning' = Partitioning
           \/ \E t \in Threads : ProduceNew(t)
           \/ \E t \in Threads : ProduceOk(t) \/ PartitionerError(t)
  <1> SUFFICES ASSUME ~\E t \in Threads : ProduceNew(t),
                      ~\E t \in Threads : ProduceOk(t) \/ PartitionerError(t)
               PROVE  Partitioning' = Partitioning
    BY Zenon
  <1>0. ControlType
    BY Zenon DEF TypeOK
  <1>1. ASSUME NEW t \in Threads
        PROVE  \/ pc[t] = "part" /\ pc'[t] = "part" /\ i'[t] = i[t]
               \/ pc[t] # "part" /\ pc'[t] # "part"
    <2>1. CASE ~ThreadStep(t)
      BY <2>1, OwnSteps, Zenon
    <2>2. CASE ThreadStep(t)
      BY <1>0, <2>2, MainNotThread, Zenon
      DEF ControlType, Goto, ThreadStep, Call, ProduceFull, ProduceError, Attempt, Exhausted,
          ReturnSuccess, ReturnError, GetErrstr, NextMessage, Finish, PollStep, PollTake,
          PollTimeout, Callback, AfterPoll
    <2> QED
      BY <2>1, <2>2, Zenon
  <1>2. ASSUME NEW m \in Msgs
        PROVE  m \in Partitioning' <=> m \in Partitioning
    <2>1. m[1] \in Threads
      BY Zenon DEF Msgs
    <2> QED
      BY <1>1, <2>1, Zenon DEF Partitioning, Msg
  <1> QED
    BY <1>2, Zenon DEF Partitioning

(* ... and a thread leaving it takes only its own message out. *)
LEMMA PartitioningMove ==
    ASSUME TypeOK, NEW t \in Threads, i' = i, Msg(t) \in Msgs
    PROVE  /\ pc[t] # "part" /\ pc' = [pc EXCEPT ![t] = "part"]
              => Msg(t) \notin Partitioning /\ Partitioning' = Partitioning \cup {Msg(t)}
           /\ pc[t] = "part" /\ pc' = [pc EXCEPT ![t] = "ret"]
              => Msg(t) \in Partitioning /\ Partitioning' = Partitioning \ {Msg(t)}
  <1>1. pc \in [Pollers -> ThreadPC \cup MainPC] /\ t \in Pollers
    BY MainNotThread, Zenon DEF TypeOK, ControlType
  <1>2. /\ Msg(t)[1] = t
        /\ \A m \in Msgs : m[1] \in Threads /\ m[1] \in Pollers
        /\ \A m \in Msgs : m = Msg(m[1]) /\ m[1] = t => m = Msg(t)
        /\ \A u \in Threads : Msg(u)' = Msg(u)
    BY MainNotThread, Zenon DEF Msg, Msgs
  <1>3. ASSUME pc[t] # "part", pc' = [pc EXCEPT ![t] = "part"]
        PROVE  Msg(t) \notin Partitioning /\ Partitioning' = Partitioning \cup {Msg(t)}
    BY <1>1, <1>2, <1>3, Zenon DEF Partitioning
  <1>4. ASSUME pc[t] = "part", pc' = [pc EXCEPT ![t] = "ret"]
        PROVE  Msg(t) \in Partitioning /\ Partitioning' = Partitioning \ {Msg(t)}
    BY <1>1, <1>2, <1>4, Zenon DEF Partitioning
  <1> QED
    BY <1>3, <1>4, Zenon

(* The count follows every message in and out of the library. *)
LEMMA QueueStep ==
    ASSUME TypeOK, AcceptedInOnePlace, QueueAccounted, DestroyInv, LocalInv, FreshInv, Next
    PROVE  QueueAccounted'
  <1> DEFINE Counted == InLibrary \cup Partitioning
             Q == cnt = Cardinality(Counted) /\ cnt <= MaxQueue
  <1>0. LibType /\ Q
    BY Zenon DEF TypeOK, QueueAccounted
  <1>1. /\ Counted \subseteq Msgs /\ IsFiniteSet(Counted)
        /\ Cardinality(Counted) \in Nat
        /\ MaxQueue \in Nat
    <2>1. Counted \subseteq Msgs
      BY <1>0, Zenon DEF LibType, InLibrary, Serving, Partitioning
    <2> QED
      BY <2>1, MsgsFinite, FS_CardinalityType, ProducerAssumption, Zenon
  <1> SUFFICES Q'
    BY Zenon DEF QueueAccounted
  <1>2. ASSUME NEW m \in Msgs, m \notin Counted, Counted' = Counted \cup {m}, HasRoom,
               cnt' = cnt + 1
        PROVE  Q'
    <2>1. Cardinality(Counted') = Cardinality(Counted) + 1
      BY <1>1, <1>2, FS_AddElement, Zenon
    <2> QED
      BY <1>0, <1>1, <1>2, <2>1 DEF HasRoom
  <1>3. ASSUME NEW m \in Msgs, m \in Counted, Counted' = Counted \ {m}, cnt' = cnt - 1
        PROVE  Q'
    <2>1. Cardinality(Counted') = Cardinality(Counted) - 1
      BY <1>1, <1>3, FS_RemoveElement, ZenonT(40)
    <2> QED
      BY <1>0, <1>1, <1>3, <2>1
  <1>4. CASE Counted' = Counted /\ cnt' = cnt
    BY <1>0, <1>4, Zenon
  <1> HIDE DEF Q
  <1>5. ASSUME NEW t \in Threads, ProduceNew(t)
        PROVE  Q'
    <2>1. pc[t] = "try" /\ pc' = [pc EXCEPT ![t] = "part"] /\ i' = i
      BY <1>5, Zenon DEF ProduceNew, Attempt, Goto
    <2>2. Msg(t) \in Msgs /\ Msg(t) \notin InLibrary
      BY <2>1, NotYetQueued, Zenon
    <2>3. Msg(t) \notin Partitioning /\ Partitioning' = Partitioning \cup {Msg(t)}
      BY <2>1, <2>2, PartitioningMove, Zenon
    <2>4. InLibrary' = InLibrary /\ HasRoom /\ cnt' = cnt + 1
      BY <1>5, Zenon DEF ProduceNew, InLibrary, Serving
    <2> QED
      BY <1>2, <2>2, <2>3, <2>4, Zenon
  <1>6. ASSUME NEW t \in Threads, ProduceOk(t)
        PROVE  Q'
    <2>1. pc[t] = "part" /\ pc' = [pc EXCEPT ![t] = "ret"] /\ i' = i /\ cnt' = cnt
      BY <1>6, Zenon DEF ProduceOk, Result, Goto
    <2>2. Msg(t) \in Msgs
      BY <2>1, NotYetQueued, Zenon
    <2>3. Msg(t) \in Partitioning /\ Partitioning' = Partitioning \ {Msg(t)}
      BY <2>1, <2>2, PartitioningMove, Zenon
    <2>4. InLibrary' = InLibrary \cup {Msg(t)}
      BY <1>6, Zenon DEF ProduceOk, InLibrary, Serving
    <2> QED
      BY <1>4, <2>1, <2>3, <2>4, Zenon
  <1>7. ASSUME NEW t \in Threads, PartitionerError(t)
        PROVE  Q'
    <2>1. pc[t] = "part" /\ pc' = [pc EXCEPT ![t] = "ret"] /\ i' = i /\ cnt' = cnt - 1
      BY <1>7, Zenon DEF PartitionerError, Result, Goto
    <2>2. Msg(t) \in Msgs /\ Msg(t) \notin InLibrary
      BY <2>1, NotYetQueued, Zenon
    <2>3. Msg(t) \in Partitioning /\ Partitioning' = Partitioning \ {Msg(t)}
      BY <2>1, <2>2, PartitioningMove, Zenon
    <2>4. InLibrary' = InLibrary
      BY <1>7, Zenon DEF PartitionerError, InLibrary, Serving
    <2> QED
      BY <1>3, <2>1, <2>2, <2>3, <2>4, Zenon
  <1>8. CASE Partitioning' = Partitioning
    <2>1. ASSUME NEW p \in Pollers, NEW m \in Msgs, Callback(p, m)
          PROVE  Q'
      <3>1. m \in InLibrary /\ cnt' = cnt - 1
        BY <2>1, Zenon DEF Callback, InLibrary, Serving
      <3>2. InLibrary' = InLibrary \ {m}
        BY <1>0, <2>1 DEF LibType, Callback, InLibrary, Serving, AcceptedInOnePlace
      <3>3. m \notin Partitioning
        BY <3>1, NotYetQueued, Zenon DEF Partitioning, Msgs
      <3> QED
        BY <1>3, <1>8, <3>1, <3>2, <3>3, Zenon
    <2>2. CASE DestroyFinal
      <3>1. /\ \A p \in Pollers : localq[p] = {}
            /\ \A t \in Threads : pc[t] = "done"
        BY <2>2, MainNotThread, Zenon DEF DestroyFinal, DestroyInv, LocalInv
      <3>2. InLibrary' = {} /\ cnt' = 0
        BY <2>2, <3>1, Zenon DEF DestroyFinal, InLibrary, Serving
      <3>3. Partitioning = {}
        BY <3>1, Zenon DEF Partitioning, Msgs
      <3> QED
        BY <1>1, <1>8, <3>2, <3>3, FS_EmptySet DEF Q
    <2>3. CASE cnt' = cnt
      <3>1. CASE UNCHANGED <<outq, rep, localq, placed, reports, purged>>
        BY <1>4, <1>8, <2>3, <3>1, Zenon DEF InLibrary, Serving
      <3>2. ASSUME NEW m \in Msgs, Complete(m)
            PROVE  Q'
        <4>1. InLibrary' = InLibrary
          BY <3>2, Zenon DEF Complete, InLibrary, Serving
        <4> QED
          BY <1>4, <1>8, <2>3, <4>1, Zenon
      <3>3. ASSUME NEW p \in Pollers, PollTake(p)
            PROVE  Q'
        <4>1. localq[p] = {}
          BY <3>3, Zenon DEF PollTake, LocalInv
        <4>2. InLibrary' = InLibrary
          BY <1>0, <3>3, <4>1, Zenon DEF LibType, PollTake, InLibrary, Serving
        <4> QED
          BY <1>4, <1>8, <2>3, <4>2, Zenon
      <3> QED
        BY <1>6, <2>1, <2>2, <3>1, <3>2, <3>3, LibrarySteps, Zenon
    <2> QED
      BY <1>5, <1>7, <2>1, <2>2, <2>3, CountSteps, Zenon
  <1> QED
    BY <1>5, <1>6, <1>7, <1>8, PartitioningStep, Zenon

(* destroy takes the handle only from threads that are done, and leaves    *)
(* its loop with an endless budget only when everything is reported.       *)
LEMMA DestroyStep ==
    ASSUME TypeOK, QueueAccounted, DestroyInv, LocalInv, Next
    PROVE  DestroyInv'
  <1>0. /\ ControlType /\ flush \in Int
        /\ cnt = 0 => InLibrary = {}
    <2>1. InLibrary \cup Partitioning \subseteq Msgs
      BY Zenon DEF InLibrary, Serving, Partitioning, TypeOK, LibType
    <2> QED
      BY <2>1, MsgsFinite, FS_EmptySet, Zenon DEF QueueAccounted, TypeOK, WrapType
  <1> USE <1>0, MainNotThread DEF ControlType, DestroyInv, Goto
  <1>1. ASSUME NEW t \in Threads, ThreadStep(t)
        PROVE  DestroyInv'
    <2>1. pc[Main] = "run"
      BY <1>1, SMTT(30) DEF ThreadStep, Call, ProduceNew, ProduceOk, PartitionerError, ProduceFull,
          ProduceError, Attempt, Exhausted, ReturnSuccess, ReturnError, GetErrstr, Finish,
          PollStep, PollTake, PollTimeout, Callback
    <2>2. pc'[Main] = "run"
      BY <1>1, <2>1, SMTT(30) DEF ThreadStep, Call, ProduceNew, ProduceOk, PartitionerError, ProduceFull,
          ProduceError, Exhausted, ReturnSuccess, ReturnError, GetErrstr, NextMessage, Finish,
          PollStep, PollTake, PollTimeout, Callback
    <2>3. rkProducer' = rkProducer /\ purged' = purged
      BY <1>1 DEF ThreadStep, Call, ProduceNew, ProduceOk, PartitionerError, ProduceFull,
          ProduceError, Result, Exhausted, ReturnSuccess, ReturnError, GetErrstr, Finish,
          PollStep, PollTake, PollTimeout, Callback, wrapVars, libVars
    <2> QED
      BY <2>1, <2>2, <2>3, Zenon
  <1>2. CASE EndProgram
    BY <1>2, Zenon DEF EndProgram, DestroyLock, LoopsOver, libVars
  <1>3. CASE FlushLoop
    BY <1>3 DEF FlushLoop, Decrement, libVars
  <1>4. CASE FlushCheck
    <2>1. UNCHANGED <<rkProducer, flush, InLibrary, purged>>
      BY <1>4, Zenon DEF FlushCheck, wrapVars, libVars, InLibrary, Serving
    <2>2. /\ pc[Main] = "check"
          /\ pc'[Main] \in {"clean", "flush", "poll"}
          /\ pc'[Main] = "clean" => cnt = 0
          /\ \A t \in Threads : pc'[t] = pc[t]
      BY <1>4, Zenon DEF FlushCheck
    <2> QED
      BY <2>1, <2>2, Zenon
  <1>5. CASE DestroyFinal
    <2>1. \A p \in Pollers : localq[p] = {}
      BY <1>5, Zenon DEF DestroyFinal, LocalInv
    <2>2. InLibrary' = {}
      BY <1>5, <2>1, Zenon DEF DestroyFinal, InLibrary, Serving
    <2>3. purged' \subseteq purged \cup InLibrary
      BY <1>5, Zenon DEF DestroyFinal, InLibrary
    <2> QED
      BY <1>5, <2>2, <2>3, Zenon DEF DestroyFinal
  <1>6. CASE PollStep(Main)
    <2>1. /\ pc[Main] \in {"poll", "serve"}
          /\ pc'[Main] \in {"serve", "check"}
          /\ \A t \in Threads : pc'[t] = pc[t]
          /\ UNCHANGED <<rkProducer, flush, purged>>
      BY <1>6, Zenon DEF PollStep, PollTake, PollTimeout, Callback, AfterPoll, wrapVars, libVars
    <2> QED
      BY <2>1, Zenon
  <1>7. ASSUME NEW m \in Msgs, Complete(m)
        PROVE  DestroyInv'
    BY <1>7, Zenon DEF Complete, InLibrary, Serving, wrapVars
  <1>8. CASE Terminated
    BY <1>8, Zenon DEF Terminated, vars, wrapVars, libVars, InLibrary, Serving
  <1> HIDE DEF DestroyInv
  <1> QED
    BY <1>1, <1>2, <1>3, <1>4, <1>5, <1>6, <1>7, <1>8, Zenon DEF Next, MainStep

-----------------------------------------------------------------------------
(* The inductive invariant holds initially. *)
LEMMA IInvInit == Init => IInv
  <1> SUFFICES ASSUME Init PROVE IInv
    BY Zenon
  <1>1. TypeOK
    BY TypeInit, Zenon
  <1>2. InLibrary = {} /\ Accepted = {} /\ Reported = {} /\ Partitioning = {}
    BY MainNotThread DEF Init, InLibrary, Serving, Accepted, Reported, Partitioning, Msgs
  <1>3. AcceptedInOnePlace
    BY <1>2 DEF Init, AcceptedInOnePlace
  <1>4. QueueAccounted
    BY <1>2, FS_EmptySet, ProducerAssumption DEF Init, QueueAccounted
  <1>5. ReturnCodeTruthful
    BY Zenon DEF Init, ReturnCodeTruthful
  <1>6. DestroyInv
    BY MainNotThread, <1>2, Zenon DEF Init, DestroyInv
  <1>7. LocalInv /\ RetryInv
    BY MainNotThread, Zenon DEF Init, LocalInv, RetryInv, Pollers
  <1>8. FreshInv
    BY <1>2, MainNotThread, Zenon DEF Init, FreshInv, Taken, Msgs
  <1>9. ErrorInv
    BY MainNotThread DEF Init, ErrorInv, ErrcodeIsError, Pollers
  <1> QED
    BY <1>1, <1>3, <1>4, <1>5, <1>6, <1>7, <1>8, <1>9, Zenon DEF IInv

(* Every step preserves it. *)
LEMMA IInvStep == IInv /\ [Next]_vars => IInv'
  <1> SUFFICES ASSUME IInv, [Next]_vars PROVE IInv'
    BY Zenon
  <1>1. TypeOK'
    BY TypeStep, Zenon DEF IInv
  <1>2. CASE Next
    BY <1>1, <1>2, PlacesStep, QueueStep, TruthStep, DestroyStep, LocalStep, RetryStep,
       ErrorStep, FreshStep, ZenonT(40)
    DEF IInv
  <1>3. CASE UNCHANGED vars
    BY <1>1, <1>3, SMTT(30)
    DEF IInv, vars, callVars, wrapVars, libVars, AcceptedInOnePlace, QueueAccounted,
        ReturnCodeTruthful, DestroyInv, LocalInv, RetryInv, ErrorInv, ErrcodeIsError,
        FreshInv, Taken, InLibrary, Serving, Accepted, Reported, Partitioning, Msg
  <1> QED
    BY <1>2, <1>3, Zenon

(* The inductive invariant holds throughout every run of the program. *)
THEOREM Invariance == Spec => []IInv
  BY IInvInit, IInvStep, PTL DEF Spec

(* An accepted message is in one place and reported at most once, however  *)
(* many threads poll.                                                      *)
THEOREM OnePlace == Spec => []AcceptedInOnePlace
  <1>1. IInv => AcceptedInOnePlace
    BY Zenon DEF IInv
  <1> QED
    BY <1>1, Invariance, PTL

(* The queue count is exact and within its limit. *)
THEOREM QueueBounded == Spec => []QueueAccounted
  <1>1. IInv => QueueAccounted
    BY Zenon DEF IInv
  <1> QED
    BY <1>1, Invariance, PTL

(* The return code of kafkatools_produce_timedwait() is the truth about    *)
(* the message.                                                            *)
THEOREM Truthful == Spec => []ReturnCodeTruthful
  <1>1. IInv => ReturnCodeTruthful
    BY Zenon DEF IInv
  <1> QED
    BY <1>1, Invariance, PTL

(* What a thread reads after a failed call is an error, whichever thread's *)
(* it is.                                                                  *)
THEOREM ErrorsAreErrors == Spec => []ErrcodeIsError
  <1>1. IInv => ErrcodeIsError
    BY Zenon DEF IInv, ErrorInv
  <1> QED
    BY <1>1, Invariance, PTL

(* destroy with an endless flush returns with every message reported. *)
THEOREM NothingLost == Spec => []InfiniteFlushLosesNothing
  <1>1. IInv => InfiniteFlushLosesNothing
    BY Zenon DEF IInv, DestroyInv, TypeOK, ControlType, MainPC, InfiniteFlushLosesNothing, AcceptedInOnePlace
  <1> QED
    BY <1>1, Invariance, PTL

-----------------------------------------------------------------------------
(* The delivery contract *)

(* The flush budget stays endless once it is. *)
LEMMA FlushInvariance == Spec => []FlushInv
  <1>1. Init => FlushInv
    BY MainNotThread, Zenon DEF Init, FlushInv
  <1>2. TypeOK /\ FlushInv /\ [Next]_vars => FlushInv'
    <2> SUFFICES ASSUME TypeOK, FlushInv, [Next]_vars PROVE FlushInv'
      BY Zenon
    <2>0. ControlType /\ WrapType
      BY Zenon DEF TypeOK
    <2> USE <2>0, MainNotThread, ProducerAssumption DEF FlushInv, ControlType, WrapType, Goto
    <2>1. CASE DestroyLock
      BY <2>1 DEF DestroyLock
    <2>2. CASE FlushLoop
      BY <2>2 DEF FlushLoop, Decrement
    <2>3. ASSUME NEW p \in Pollers, PollStep(p)
          PROVE  FlushInv'
      BY <2>3, Zenon DEF PollStep, PollTake, PollTimeout, Callback, wrapVars
    <2>4. ASSUME NEW t \in Threads, ThreadStep(t), ~PollStep(t)
          PROVE  FlushInv'
      BY <2>4, Zenon
      DEF ThreadStep, Call, ProduceNew, ProduceOk, PartitionerError, ProduceFull,
          ProduceError, Result, Exhausted, ReturnSuccess, ReturnError, GetErrstr,
          NextMessage, Finish, wrapVars
    <2>5. CASE FlushCheck \/ DestroyFinal \/ (\E m \in Msgs : Complete(m)) \/ UNCHANGED vars
      BY <2>5, Zenon DEF FlushCheck, DestroyFinal, Complete, vars, wrapVars
    <2> QED
      BY <2>1, <2>2, <2>3, <2>4, <2>5, Zenon DEF Next, MainStep, EndProgram, Terminated
  <1> QED
    BY <1>1, <1>2, TypeCorrect, PTL DEF Spec

(* What an invisible step leaves unchanged. *)
LEMMA StatusFrame ==
    ASSUME UNCHANGED <<InLibrary, reports, purged>>,
           \A m \in Msgs : outcome'[m] = "ERROR" <=> outcome[m] = "ERROR"
    PROVE  [m \in Msgs |-> StatusOf(m)]' = [m \in Msgs |-> StatusOf(m)]
  BY Zenon DEF StatusOf

(* A step that moves message m only. *)
LEMMA StatusMove ==
    ASSUME NEW m \in Msgs, NEW to,
           \A n \in Msgs : StatusOf(n)' = IF n = m THEN to ELSE StatusOf(n)
    PROVE  [n \in Msgs |-> StatusOf(n)]' =
               [[n \in Msgs |-> StatusOf(n)] EXCEPT ![m] = to]
  BY Zenon

(* A message librdkafka has not accepted is in none of its places. *)
LEMMA NotAcceptedNowhere ==
    ASSUME AcceptedInOnePlace, NEW m \in Msgs, m \notin Accepted, reports[m] \in {0, 1}
    PROVE  reports[m] = 0 /\ m \notin purged /\ m \notin InLibrary
  <1>1. Accepted = InLibrary \cup Reported \cup purged
    BY Zenon DEF AcceptedInOnePlace
  <1>2. m \notin InLibrary /\ m \notin Reported /\ m \notin purged
    BY <1>1, Zenon
  <1>3. ~(reports[m] > 0)
    BY <1>2, Zenon DEF Reported
  <1> QED
    BY <1>2, <1>3

(* Every step is a step of the contract or leaves the status alone. *)
LEMMA ContractStep ==
    ASSUME IInv, IInv', FlushInv, Next
    PROVE  [Contract!Next]_[m \in Msgs |-> StatusOf(m)]
  <1> DEFINE status == [m \in Msgs |-> StatusOf(m)]
  <1> USE MainNotThread
  <1>0. /\ TypeOK /\ AcceptedInOnePlace /\ FreshInv /\ LocalInv /\ DestroyInv
        /\ \A m \in Msgs : reports[m] \in {0, 1}
    <2>1. TypeOK /\ AcceptedInOnePlace
      BY Zenon DEF IInv
    <2>2. \A m \in Msgs : reports[m] \in Nat /\ reports[m] <= 1
      BY <2>1, Zenon DEF TypeOK, LibType, AcceptedInOnePlace
    <2> QED
      BY <2>2 DEF IInv
  <1>1. CASE UNCHANGED <<outq, rep, localq, placed, reports, purged>>
    <2>1. UNCHANGED <<InLibrary, reports, purged>>
      BY <1>1, Zenon DEF InLibrary, Serving
    <2>2. ASSUME NEW t \in Threads, ReturnError(t)
          PROVE  Contract!Next
      <3> DEFINE m == Msg(t)
      <3>1. m \in Msgs /\ m \notin Accepted /\ outcome[m] = "none"
        <4>1. pc[t] = "ret" /\ ret[t] = -1
          BY <2>2, Zenon DEF ReturnError
        <4>2. /\ m \in Msgs /\ (m \in Accepted <=> Taken(t))
              /\ outcome[m] = "none"
          BY <1>0, <4>1, FreshNow, Zenon
        <4> QED
          BY <4>1, <4>2 DEF Taken
      <3>2. reports[m] \in {0, 1} /\ outcome \in [Msgs -> {"none", "SUCCESS", "ERROR"}]
        BY <1>0, <3>1, Zenon DEF TypeOK, CallType
      <3>3. reports[m] = 0 /\ m \notin purged /\ m \notin InLibrary
        BY <1>0, <3>1, <3>2, NotAcceptedNowhere, Zenon
      <3>4. \A n \in Msgs : outcome'[n] = IF n = m THEN "ERROR" ELSE outcome[n]
        BY <2>2, <3>2, Zenon DEF ReturnError
      <3>5. StatusOf(m) = "unsent"
        BY <3>1, <3>3, SMTT(30) DEF StatusOf
      <3>6. \A n \in Msgs : StatusOf(n)' = IF n = m THEN "refused" ELSE StatusOf(n)
        BY <2>1, <3>3, <3>4 DEF StatusOf
      <3>7. Contract!Refuse(m)
        BY <3>1, <3>5, <3>6, StatusMove, Zenon DEF Contract!Refuse, Contract!Move
      <3> QED
        BY <3>1, <3>7, Zenon DEF Contract!Next
    <2>3. ASSUME NEW t \in Threads, ReturnSuccess(t)
          PROVE  UNCHANGED status
      <3>1. Msg(t) \in Msgs /\ outcome[Msg(t)] = "none"
        BY <1>0, <2>3, FreshNow, Zenon DEF ReturnSuccess
      <3>2. \A n \in Msgs : outcome'[n] = "ERROR" <=> outcome[n] = "ERROR"
        BY <1>0, <2>3, <3>1, Zenon DEF ReturnSuccess, TypeOK, CallType
      <3> QED
        BY <2>1, <3>2, StatusFrame, Zenon
    <2>4. CASE outcome' = outcome
      BY <2>1, <2>4, StatusFrame, ZenonT(40)
    <2>5. \/ outcome' = outcome
          \/ \E t \in Threads : ReturnError(t) \/ ReturnSuccess(t)
      BY ZenonT(40) DEF Next, ThreadStep, MainStep, EndProgram, PollStep, Terminated, vars, callVars, Call, ProduceNew,
          ProduceOk, PartitionerError, ProduceFull, ProduceError, Result, Exhausted, GetErrstr, Finish, PollTake,
          PollTimeout, Callback, DestroyLock, FlushLoop, FlushCheck, DestroyFinal, Complete
    <2> QED
      BY <2>2, <2>3, <2>4, <2>5, Zenon
  <1>2. ASSUME NEW t \in Threads, ProduceOk(t)
        PROVE  Contract!Next
    <2> DEFINE m == Msg(t)
    <2>1. m \in Msgs /\ m \notin Accepted /\ outcome[m] = "none"
      BY <1>0, <1>2, FreshNow, Zenon DEF ProduceOk, Taken
    <2>2. reports[m] \in {0, 1}
      BY <1>0, <2>1, Zenon
    <2>3. reports[m] = 0 /\ m \notin purged /\ m \notin InLibrary
      BY <1>0, <2>1, <2>2, NotAcceptedNowhere, Zenon
    <2>4. InLibrary' = InLibrary \cup {m} /\ UNCHANGED <<outcome, reports, purged>>
      BY <1>2, ZenonT(40) DEF ProduceOk, Result, InLibrary, Serving
    <2>5. StatusOf(m) = "unsent"
      BY <2>1, <2>3 DEF StatusOf
    <2>6. \A n \in Msgs : StatusOf(n)' = IF n = m THEN "accepted" ELSE StatusOf(n)
      BY <1>0, <2>3, <2>4 DEF StatusOf
    <2>7. Contract!Accept(m)
      BY <2>1, <2>5, <2>6, StatusMove, Zenon DEF Contract!Accept, Contract!Move
    <2> QED
      BY <2>1, <2>7, Zenon DEF Contract!Next
  <1>3. ASSUME NEW m \in Msgs, Complete(m)
        PROVE  UNCHANGED status
    BY <1>3, StatusFrame, Zenon DEF Complete, InLibrary, Serving, callVars
  <1>4. ASSUME NEW p \in Pollers, PollTake(p)
        PROVE  UNCHANGED status
    <2>1. localq[p] = {}
      BY <1>0, <1>4, Zenon DEF PollTake, LocalInv
    <2>2. InLibrary' = InLibrary
      BY <1>0, <1>4, <2>1, Zenon DEF PollTake, InLibrary, Serving, TypeOK, LibType
    <2> QED
      BY <1>4, <2>2, StatusFrame, Zenon DEF PollTake, callVars
  <1>5. ASSUME NEW p \in Pollers, NEW m \in Msgs, Callback(p, m)
        PROVE  Contract!Next
    <2>1. m \in InLibrary /\ reports[m] = 0 /\ m \notin purged
      BY <1>0, <1>5, SMTT(30) DEF Callback, InLibrary, Serving, AcceptedInOnePlace, Reported, TypeOK, LibType
    <2>2. InLibrary' = InLibrary \ {m}
      BY <1>0, <1>5, SMTT(30) DEF Callback, InLibrary, Serving, AcceptedInOnePlace, TypeOK, LibType
    <2>3. /\ \A n \in Msgs : reports'[n] = IF n = m THEN 1 ELSE reports[n]
          /\ UNCHANGED <<outcome, purged>>
      BY <1>0, <1>5, <2>1, SMTT(30) DEF Callback, TypeOK, LibType, callVars
    <2>4. StatusOf(m) = "accepted"
      BY <2>1 DEF StatusOf
    <2>5. \A n \in Msgs : StatusOf(n)' = IF n = m THEN "reported" ELSE StatusOf(n)
      <3>1. \A n \in Msgs : n # m => (n \in InLibrary' <=> n \in InLibrary)
        BY <2>2, Zenon
      <3>2. StatusOf(m)' = "reported"
        <4>1. reports'[m] = 1
          BY <2>3, Zenon
        <4> QED
          BY <4>1 DEF StatusOf
      <3>3. ASSUME NEW n \in Msgs, n # m
            PROVE  StatusOf(n)' = StatusOf(n)
        BY <2>3, <3>1, <3>3, Zenon DEF StatusOf
      <3> QED
        BY <3>2, <3>3, Zenon
    <2>6. Contract!Report(m)
      BY <2>4, <2>5, StatusMove, Zenon DEF Contract!Report, Contract!Move
    <2> QED
      BY <2>6, Zenon DEF Contract!Next
  <1>6. CASE DestroyFinal
    <2>1. \A p \in Pollers : localq[p] = {}
      BY <1>0, <1>6, Zenon DEF DestroyFinal, DestroyInv, LocalInv
    <2>2. purged = {} /\ purged' = InLibrary /\ InLibrary' = {} /\ UNCHANGED <<reports, outcome>>
      BY <1>0, <1>6, <2>1, Zenon DEF DestroyFinal, DestroyInv, InLibrary, Serving, callVars
    <2>3. CASE flush < 0
      <3>1. InLibrary = {}
        BY <1>0, <1>6, <2>3, Zenon DEF DestroyFinal, DestroyInv
      <3> QED
        BY <2>2, <3>1, StatusFrame, Zenon
    <2>4. CASE \E w \in FlushWaits : w >= 0
      <3>1. \A m \in Msgs : reports[m] \in {0, 1} /\ (m \in InLibrary => reports[m] = 0)
        BY <1>0 DEF AcceptedInOnePlace, Reported, TypeOK, LibType
      <3>2. \A m \in Msgs :
              StatusOf(m)' = IF StatusOf(m) = "accepted" THEN "lost" ELSE StatusOf(m)
        BY <2>2, <3>1, Zenon DEF StatusOf
      <3>3. Contract!Shutdown
        BY <2>4, <3>2, Zenon DEF Contract!Shutdown
      <3> QED
        BY <3>3, Zenon DEF Contract!Next
    <2> QED
      BY <1>6, <2>3, <2>4, Zenon DEF DestroyFinal, FlushInv
  <1> QED
    BY <1>1, <1>2, <1>3, <1>4, <1>5, <1>6, LibrarySteps, Zenon

(* Producer implements the delivery contract: every message is refused, or *)
(* taken and then reported once, and nothing is lost when the flush is     *)
(* endless.                                                                *)
THEOREM Refinement == Spec => ImplementsContract
  <1>1. Init => Contract!Init
    <2> SUFFICES ASSUME Init PROVE \A m \in Msgs : StatusOf(m) = "unsent"
      BY Zenon DEF Contract!Init
    <2>1. InLibrary = {}
      BY Zenon DEF Init, InLibrary, Serving
    <2> QED
      BY <2>1 DEF Init, StatusOf
  <1>2. IInv /\ IInv' /\ FlushInv /\ [Next]_vars => [Contract!Next]_[m \in Msgs |-> StatusOf(m)]
    <2> SUFFICES ASSUME IInv, IInv', FlushInv, [Next]_vars
                 PROVE  [Contract!Next]_[m \in Msgs |-> StatusOf(m)]
      BY Zenon
    <2>1. CASE Next
      BY <2>1, ContractStep, Zenon
    <2>2. CASE UNCHANGED vars
      BY <2>2, StatusFrame, Zenon DEF vars, callVars, libVars, InLibrary, Serving
    <2> QED
      BY <2>1, <2>2, Zenon
  <1> QED
    BY <1>1, <1>2, Invariance, FlushInvariance, PTL DEF Spec, ImplementsContract, Contract!Spec

=============================================================================
