------------------------- MODULE IdempotenceProofs -------------------------
(***************************************************************************)
(* That IInv is an invariant of Idempotence, for any number of messages,   *)
(* any batch size, any limit of retries and of requests in flight, any     *)
(* faults and any changes of the leader; and what follows from it.         *)
(*                                                                         *)
(* A request is at one of four places (Requests).  Steps either move       *)
(* requests between them (ShuffleStep), add one (RequestStep), or take one *)
(* away because it was answered or has failed (RemoveStep), so what each   *)
(* does to the sequence is shown apart from what it does to the messages.  *)
(* The thread of a previous leader takes a request away in one step, and   *)
(* puts its messages back or reports them in later ones (Old...Keeps).     *)
(***************************************************************************)
EXTENDS IdempotenceInvariants, FiniteSetTheorems, TLAPS

-----------------------------------------------------------------------------
(* Sets of messages *)

(* The order of the natural numbers, as a relation. *)
Precedes == {p \in Nat \X Nat : p[1] < p[2]}

(* A set of natural numbers that is not empty has a least element. *)
LEMMA LeastMember ==
    ASSUME NEW S \in SUBSET Nat, S # {}
    PROVE  Min(S) \in S /\ \A n \in S : Min(S) <= n
<1>1. IsWellFoundedOn(Precedes, Nat)
  BY NatLessThanWellFounded, Zenon DEF OpToRel, Precedes
<1>2. PICK m \in S : \A n \in S : <<n, m>> \notin Precedes
  BY <1>1, WFMin, Zenon
<1>3. ASSUME NEW n \in S
      PROVE  m <= n
  <2>1. n \in Nat /\ m \in Nat
    BY Zenon
  <2>2. ~(n < m)
    BY <1>2, <2>1, Zenon DEF Precedes
  <2> QED
    BY <2>1, <2>2
<1> QED
  BY <1>3, Zenon DEF Min

(* The first and the last message of a set of messages. *)
LEMMA LeastGreatest ==
    ASSUME NEW S \in (SUBSET Msgs) \ {{}}
    PROVE  /\ Min(S) \in S /\ \A n \in S : Min(S) <= n
           /\ Max(S) \in S /\ \A n \in S : n <= Max(S)
           /\ Min(S) \in Msgs /\ Max(S) \in Msgs /\ Min(S) <= Max(S)
<1>1. MaxMsgid \in Nat /\ S \in SUBSET Nat /\ S # {} /\ \A n \in S : n \in 1..MaxMsgid
  BY IdempotenceAssumption DEF IdempotenceAssumption, Msgs
<1>2. Min(S) \in S /\ \A n \in S : Min(S) <= n
  BY <1>1, LeastMember, Zenon
<1> DEFINE U == {u \in Nat : \A n \in S : n <= u}
           u == Min(U)
<1>3. MaxMsgid \in U
  BY <1>1
<1>4. U \in SUBSET Nat /\ U # {}
  BY <1>3, Zenon
<1>5. u \in U /\ \A n \in U : u <= n
  <2> HIDE DEF U
  <2> QED
    BY <1>4, LeastMember, Zenon
<1> HIDE DEF u
<1>6. u \in Nat /\ \A n \in S : n <= u
  BY <1>5, Zenon
<1>7. u \in S
  <2> SUFFICES ASSUME u \notin S PROVE FALSE
    BY Zenon
  <2>1. \A n \in S : n \in Nat /\ n < u
    BY <1>1, <1>6
  <2>2. u - 1 \in Nat /\ \A n \in S : n <= u - 1
    BY <1>1, <1>6, <2>1, SMTT(30)
  <2>3. u - 1 \in U
    BY <2>2, Zenon
  <2> QED
    BY <1>5, <1>6, <2>3, SMTT(30)
<1>8. Max(S) \in S /\ \A n \in S : Max(S) >= n
  <2>1. \A n \in S : u >= n
    BY <1>1, <1>6, Zenon
  <2> QED
    BY <1>7, <2>1, Zenon DEF Max
<1>9. \A n \in S : n <= Max(S)
  BY <1>1, <1>8, Zenon
<1> QED
  BY <1>2, <1>8, <1>9, Zenon

(* A batch is a part of the queue that holds its first message. *)
LEMMA BatchOf ==
    ASSUME TypeInv, NEW queue \in (SUBSET Msgs) \ {{}}, NEW batch \in Batches(queue)
    PROVE  batch \in (SUBSET Msgs) \ {{}} /\ batch \subseteq queue
<1> DEFINE first   == Min(queue)
           last    == msg[first].last
           Span(n) == {m \in queue : Cardinality({k \in queue : k <= m}) <= n}
<1>1. first \in queue /\ first \in Msgs /\ \A n \in queue : first <= n
  BY LeastGreatest, Zenon
<1> HIDE DEF first
<1>2. {k \in queue : k <= first} = {first}
  <2>1. \A k \in queue : k \in Int /\ first \in Int /\ first <= k
    BY <1>1 DEF Msgs
  <2>2. \A k \in queue : k <= first <=> k = first
    BY <2>1
  <2> QED
    BY <1>1, <2>2, Zenon
<1>3. Cardinality({k \in queue : k <= first}) = 1
  BY <1>2, FS_Singleton, Zenon
<1>4. ASSUME NEW n \in Nat \ {0} PROVE first \in Span(n)
  BY <1>1, <1>3
<1>5. BatchNum \in Nat \ {0}
  BY IdempotenceAssumption, Zenon DEF IdempotenceAssumption
<1>6. last = 0 \/ first <= last
  <2>1. msg[first].last = 0 \/ msg[first].last >= first
    BY <1>1, Zenon DEF TypeInv
  <2>2. msg \in [Msgs -> MsgState] /\ first \in Int
    BY <1>1 DEF TypeInv, Msgs
  <2>3. msg[first].last \in Int
    BY <1>1, <2>2, IdempotenceAssumption DEF MsgState, IdempotenceAssumption
  <2> QED
    BY <2>1, <2>2, <2>3, Zenon
<1> HIDE DEF last
<1>7. batch \in (IF last # 0 THEN {{m \in Span(BatchNum) : m <= last}} ELSE {Span(n) : n \in 1..BatchNum})
  BY Zenon DEF Batches, first, last
<1>8. CASE last # 0
  <2>1. batch = {m \in Span(BatchNum) : m <= last}
    BY <1>7, <1>8, Zenon
  <2>2. first \in batch
    BY <1>4, <1>5, <1>6, <1>8, <2>1, Zenon
  <2> QED
    BY <2>1, <2>2, Zenon
<1>9. CASE last = 0
  <2>1. PICK n \in 1..BatchNum : batch = Span(n)
    BY <1>7, <1>9, Zenon
  <2>2. n \in Nat \ {0}
    BY <1>5
  <2> QED
    BY <1>4, <2>1, <2>2, Zenon
<1> QED
  BY <1>8, <1>9, Zenon

(* The number of messages of a request. *)
LEMMA BatchSize ==
    ASSUME NEW b \in Request
    PROVE  /\ b.msgs \in (SUBSET Msgs) \ {{}} /\ b.seq \in Int /\ b.pid \in Nat
           /\ Cardinality(b.msgs) \in Nat /\ b.seq + Cardinality(b.msgs) \in Int
<1>1. b.msgs \in (SUBSET Msgs) \ {{}} /\ b.seq \in Int /\ b.pid \in Nat
  BY Zenon DEF Request
<1>2. IsFiniteSet(Msgs)
  <2>1. MaxMsgid \in Int
    BY IdempotenceAssumption DEF IdempotenceAssumption
  <2> QED
    BY <2>1, FS_Interval DEF Msgs
<1>3. Cardinality(b.msgs) \in Nat
  BY <1>1, <1>2, FS_Subset, FS_CardinalityType, Zenon
<1> QED
  BY <1>1, <1>3

-----------------------------------------------------------------------------
(* The state of the instance, and what a result does to the types *)

(* The states of the instance. *)
States == Unassigned \cup {"ASSIGNED", "DRAIN_RESET", "DRAIN_BUMP", "FATAL_ERROR"}

(* A fatal error leaves PID and state alone. *)
LEMMA FatalType ==
    ASSUME NEW k \in Instance, NEW err \in Fatals
    PROVE  Fatal(k, err) \in Instance /\ Fatal(k, err).pid = k.pid /\ Fatal(k, err).state = k.state
<1>1. CASE k.fatal = "NO_ERROR"
  BY <1>1, Zenon DEF Fatal, Instance
<1>2. CASE k.fatal # "NO_ERROR"
  BY <1>2, Zenon DEF Fatal
<1> QED
  BY <1>1, <1>2, Zenon

(* The state becomes the one asked for, or FATAL_ERROR. *)
LEMMA SetStateType ==
    ASSUME NEW k \in Instance, NEW state \in States
    PROVE  /\ SetState(k, state) \in Instance /\ SetState(k, state).pid = k.pid
           /\ SetState(k, state).state \in {state, "FATAL_ERROR"}
<1> DEFINE st == IF k.fatal # "NO_ERROR" /\ state \notin {"DRAIN_RESET", "DRAIN_BUMP"}
                 THEN "FATAL_ERROR" ELSE state
<1>1. st \in States /\ st \in {state, "FATAL_ERROR"}
  BY Zenon DEF States
<1>2. SetState(k, state) = [k EXCEPT !.state = st]
  BY Zenon DEF SetState
<1> HIDE DEF st
<1> QED
  BY <1>1, <1>2, Zenon DEF Instance, States

(* The end of a drain leaves the instance well formed. *)
LEMMA DrainDoneType ==
    ASSUME NEW k \in Instance
    PROVE  DrainDone(k) \in Instance
<1>1. CASE k.state = "DRAIN_RESET"
  <2>1. "REQ_PID" \in States
    BY Zenon DEF States, Unassigned
  <2>2. DrainDone(k) = SetState(k, "REQ_PID")
    BY <1>1, Zenon DEF DrainDone
  <2> QED
    BY <2>1, <2>2, SetStateType, Zenon
<1>2. CASE k.state = "DRAIN_BUMP" /\ k.pid # 0
  <2> DEFINE j == [k EXCEPT !.pid = @ + 1]
  <2>1. j \in Instance
    BY DEF Instance
  <2>2. "ASSIGNED" \in States
    BY Zenon DEF States
  <2>3. DrainDone(k) = SetState(j, "ASSIGNED")
    BY <1>2, Zenon DEF DrainDone
  <2> HIDE DEF j
  <2> QED
    BY <2>1, <2>2, <2>3, SetStateType, Zenon
<1>3. CASE k.state # "DRAIN_RESET" /\ ~(k.state = "DRAIN_BUMP" /\ k.pid # 0)
  BY <1>3, Zenon DEF DrainDone
<1> QED
  BY <1>1, <1>2, <1>3, Zenon

(* The fields of a Produce_err. *)
LEMMA PerrFields ==
    ASSUME NEW actions, NEW status \in Statuses, NEW incr \in {0, 1}, NEW ack,
           NEW raise \in {"nothing", "bump"} \cup IdempotentErrors
    PROVE  Decision(Perr(actions, status, incr, ack, raise))
  BY Zenon DEF Decision, Perr

(* The decisions of handle_idempotent_Produce_error(), which is asked only *)
(* for errors it has a case for or for a request of another epoch.         *)
LEMMA IdempotentErrorType ==
    ASSUME NEW b, NEW err, b.pid # tp.pid \/ err \in IdempotentErrors
    PROVE  Decision(IdempotentError(b, err))
<1> DEFINE lost  == Perr({"PERMANENT"}, "POSSIBLY_PERSISTED", 1, FALSE, err)
           again == Perr({"RETRY"}, "NOT_PERSISTED", 0, FALSE, "bump")
           other == Perr({"PERMANENT"}, "POSSIBLY_PERSISTED", 1, FALSE, "nothing")
           dup   == Perr({}, "PERSISTED", 1, TRUE, "nothing")
<1>1. Decision(again) /\ Decision(other) /\ Decision(dup)
  BY PerrFields, Zenon DEF Statuses
<1>2. err \in IdempotentErrors => Decision(lost)
  BY PerrFields, Zenon DEF Statuses
<1> HIDE DEF lost, again, other, dup
<1>3. CASE b.pid # tp.pid
  <2>1. IdempotentError(b, err) = other
    BY <1>3, Zenon DEF IdempotentError, other
  <2> QED
    BY <1>1, <2>1, Zenon
<1>4. CASE b.pid = tp.pid
  <2>1. err \in {"OUT_OF_ORDER_SEQUENCE_NUMBER", "DUPLICATE_SEQUENCE_NUMBER", "UNKNOWN_PRODUCER_ID"}
    BY <1>4, Zenon DEF IdempotentErrors
  <2>2. CASE err = "OUT_OF_ORDER_SEQUENCE_NUMBER"
    <3>1. IdempotentError(b, err) \in {again, lost}
      BY <1>4, <2>2, Zenon DEF IdempotentError, again, lost
    <3> QED
      BY <1>1, <1>2, <1>4, <3>1, Zenon
  <2>3. CASE err = "DUPLICATE_SEQUENCE_NUMBER"
    <3>1. IdempotentError(b, err) = dup
      BY <1>4, <2>3, Zenon DEF IdempotentError, dup
    <3> QED
      BY <1>1, <3>1, Zenon
  <2>4. CASE err = "UNKNOWN_PRODUCER_ID"
    <3>1. IdempotentError(b, err) \in {again, lost}
      BY <1>4, <2>4, Zenon DEF IdempotentError, again, lost
    <3> QED
      BY <1>1, <1>2, <1>4, <3>1, Zenon
  <2> QED
    BY <2>1, <2>2, <2>3, <2>4, Zenon
<1> QED
  BY <1>3, <1>4, Zenon

(* The decisions of handle_Produce_error(). *)
LEMMA ProduceErrorType ==
    ASSUME NEW b, NEW err, NEW sent
    PROVE  Decision(ProduceError(b, err, sent))
<1> DEFINE actions  == Actions(err)
           incr     == IF (actions \cap {"REFRESH"} # {} /\ err # "__TRANSPORT") \/ ~sent
                       THEN 0 ELSE 1
           possibly == "MSG_POSSIBLY_PERSISTED" \in actions /\ incr = 1
           status   == IF possibly THEN "POSSIBLY_PERSISTED" ELSE "NOT_PERSISTED"
<1>1. incr \in {0, 1} /\ status \in Statuses
  BY Zenon DEF Statuses
<1>2. CASE b.pid # tp.pid \/ err \in IdempotentErrors
  <2>1. ProduceError(b, err, sent) = IdempotentError(b, err)
    BY <1>2, Zenon DEF ProduceError
  <2> QED
    BY <1>2, <2>1, IdempotentErrorType, Zenon
<1>3. CASE ~(b.pid # tp.pid \/ err \in IdempotentErrors)
  <2>1. \/ ProduceError(b, err, sent) = Perr(actions, status, 1, FALSE, "nothing")
        \/ ProduceError(b, err, sent) = Perr(actions, status, incr, possibly, "nothing")
    BY <1>3, Zenon DEF ProduceError
  <2> HIDE DEF actions, incr, possibly, status
  <2>2. Decision(Perr(actions, status, 1, FALSE, "nothing"))
    BY <1>1, PerrFields, Zenon
  <2>3. Decision(Perr(actions, status, incr, possibly, "nothing"))
    BY <1>1, PerrFields, Zenon
  <2> QED
    BY <2>1, <2>2, <2>3, Zenon
<1> QED
  BY <1>2, <1>3, Zenon

(* The instance is well formed, and has a PID if it had one before. *)
Fine(k) == k \in Instance /\ k.pid = rk.pid /\ (k.state = rk.state \/ k.state \notin Unassigned)

(* A drain keeps the PID. *)
LEMMA DrainFine ==
    ASSUME rk \in Instance, NEW k \in Instance, k.pid = rk.pid
    PROVE  Fine(SetState(k, "DRAIN_BUMP")) /\ Fine(SetState(k, "DRAIN_RESET"))
<1>1. "DRAIN_BUMP" \in States /\ "DRAIN_RESET" \in States
  BY Zenon DEF States
<1>2. /\ SetState(k, "DRAIN_BUMP") \in Instance /\ SetState(k, "DRAIN_BUMP").pid = k.pid
      /\ SetState(k, "DRAIN_BUMP").state \in {"DRAIN_BUMP", "FATAL_ERROR"}
  BY <1>1, SetStateType, Zenon
<1>3. /\ SetState(k, "DRAIN_RESET") \in Instance /\ SetState(k, "DRAIN_RESET").pid = k.pid
      /\ SetState(k, "DRAIN_RESET").state \in {"DRAIN_RESET", "FATAL_ERROR"}
  BY <1>1, SetStateType, Zenon
<1> QED
  BY <1>2, <1>3, Zenon DEF Fine, Unassigned

(* So does what an error raises. *)
LEMMA RaiseFine ==
    ASSUME rk \in Instance, NEW p, Decision(p)
    PROVE  Fine(Raise(rk, p))
<1>1. p.raise \in {"nothing", "bump"} \/ p.raise \in Fatals
  BY Zenon DEF Decision, Fatals
<1>2. Raise(rk, p) \in {rk, SetState(rk, "DRAIN_BUMP")} \/ (p.raise \in Fatals /\ Raise(rk, p) = Fatal(rk, p.raise))
  BY <1>1, Zenon DEF Raise
<1>3. Fine(rk)
  BY Zenon DEF Fine
<1>4. Fine(SetState(rk, "DRAIN_BUMP"))
  BY DrainFine, Zenon
<1>5. \A err \in Fatals : Fine(Fatal(rk, err))
  BY FatalType, Zenon DEF Fine
<1> QED
  BY <1>2, <1>3, <1>4, <1>5, Zenon

(* And a permanent failure. *)
LEMMA PermanentFine ==
    ASSUME rk \in Instance, NEW k, Fine(k), NEW p
    PROVE  Fine(Permanent(k, p))
<1> DEFINE j == Fatal(k, "__GAPLESS_GUARANTEE")
<1>1. k \in Instance /\ k.pid = rk.pid
  BY Zenon DEF Fine
<1>2. j \in Instance /\ j.pid = rk.pid
  BY <1>1, FatalType, Zenon DEF Fatals
<1>3. Permanent(k, p) \in {k, SetState(j, "DRAIN_RESET"), SetState(k, "DRAIN_BUMP")}
  BY Zenon DEF Permanent
<1> HIDE DEF j
<1>4. Fine(SetState(j, "DRAIN_RESET")) /\ Fine(SetState(k, "DRAIN_BUMP"))
  BY <1>1, <1>2, DrainFine, Zenon
<1> QED
  BY <1>3, <1>4, Zenon

(* The instance after an error keeps its PID unless the drain ends. *)
LEMMA AfterErrorType ==
    ASSUME rk \in Instance, NEW p, Decision(p), NEW last \in BOOLEAN
    PROVE  /\ AfterError(p, last) \in Instance
           /\ \/ last
              \/ /\ AfterError(p, last).pid = rk.pid
                 /\ AfterError(p, last).state = rk.state \/ AfterError(p, last).state \notin Unassigned
<1> DEFINE failed == Permanent(Raise(rk, p), p)
<1>1. Fine(failed)
  BY RaiseFine, PermanentFine, Zenon
<1>2. AfterError(p, last) = IF last THEN DrainDone(failed) ELSE failed
  BY Zenon DEF AfterError
<1> HIDE DEF failed
<1> QED
  BY <1>1, <1>2, DrainDoneType, Zenon DEF Fine

(* The messages of X get their delivery reports. *)
LEMMA ReportsMore ==
    ASSUME TypeInv, NEW X \in SUBSET Msgs,
           report' = [m \in Msgs |-> IF m \in X THEN msg[m].status ELSE report[m]]
    PROVE  report' \in [Msgs -> Statuses \cup {"none"}] /\ Reported' = Reported \cup X
<1>1. \A m \in Msgs : msg[m].status \in Statuses /\ report[m] \in Statuses \cup {"none"}
  BY Zenon DEF TypeInv, MsgState
<1>2. "none" \notin Statuses
  BY Zenon DEF Statuses
<1> QED
  BY <1>1, <1>2, Zenon DEF Reported

(* What a failed request does to the types, the queues and the reports. *)
LEMMA FailureTypes ==
    ASSUME TypeInv, NEW b \in Request, NEW p, Decision(p), NEW last \in BOOLEAN, Failure(b, p, last),
           msgid' = msgid, outbufs' \in Seq(Request), waitresps' \in Seq(Request), results' \in Seq(Result),
           old' \in Seq(Result), resps' \in Seq(Errors), Len(resps') <= Len(waitresps')
    PROVE  /\ TypeInv' /\ tp'.pid = tp.pid /\ Retried(b, p) \subseteq b.msgs
           /\ msgq' = msgq \cup Retried(b, p) /\ xmitq' = xmitq
           /\ Reported' = Reported \cup (b.msgs \ Retried(b, p))
           /\ last \/ (rk'.pid = rk.pid /\ (rk'.state = rk.state \/ rk'.state \notin Unassigned))
<1> DEFINE retried == Retried(b, p)
           next    == b.seq + Cardinality(b.msgs)
<1>1. /\ msg' = [m \in Msgs |->
                    [retries |-> IF m \in retried THEN msg[m].retries + p.incr ELSE msg[m].retries,
                     last    |-> IF m = Min(b.msgs) THEN Max(b.msgs) ELSE msg[m].last,
                     status  |-> IF m \in b.msgs THEN NewStatus(msg[m].status, p.status)
                                                 ELSE msg[m].status]]
      /\ msgq' = msgq \cup retried /\ xmitq' = xmitq
      /\ report' = [m \in Msgs |-> IF m \in b.msgs \ retried THEN msg'[m].status ELSE report[m]]
      /\ rk' = AfterError(p, last)
  BY Zenon DEF Failure
<1>2. /\ b.msgs \in (SUBSET Msgs) \ {{}} /\ next \in Int
      /\ Min(b.msgs) \in Msgs /\ Max(b.msgs) \in Msgs /\ Min(b.msgs) <= Max(b.msgs)
  BY BatchSize, LeastGreatest, Zenon
<1>3. retried \in SUBSET b.msgs
  BY Zenon DEF Retried
<1>4. tp' \in Eos /\ tp'.pid = tp.pid
  <2> DEFINE ack   == IF p.ack THEN next ELSE tp.ack
             drain == tp.drain \/ p.actions \cap {"REFRESH", "RETRY"} # {}
  <2>1. tp' = [tp EXCEPT !.ack = ack, !.err = next, !.drain = drain]
    BY Zenon DEF Failure
  <2>2. tp \in Eos
    BY Zenon DEF TypeInv
  <2>3. tp.pid \in Nat /\ tp.base \in Int /\ tp.acked \in Int /\ tp.ack \in Int /\ tp.drain \in BOOLEAN
    BY <2>2, Zenon DEF Eos
  <2>4. ack \in Int /\ drain \in BOOLEAN
    BY <1>2, <2>3, Zenon
  <2> HIDE DEF ack, drain, next
  <2>5. tp' = [pid |-> tp.pid, base |-> tp.base, ack |-> ack, err |-> next, acked |-> tp.acked,
               drain |-> drain]
    BY <2>1, <2>2, Zenon DEF Eos
  <2>6. tp'.pid = tp.pid
    BY <2>5, Zenon
  <2>7. tp' \in Eos
    BY ONLY <1>2, <2>3, <2>4, <2>5, Zenon DEF Eos
  <2> QED
    BY <2>6, <2>7, Zenon
<1> HIDE DEF retried, next
<1>5. /\ rk' \in Instance
      /\ last \/ (rk'.pid = rk.pid /\ (rk'.state = rk.state \/ rk'.state \notin Unassigned))
  <2>1. rk \in Instance
    BY Zenon DEF TypeInv
  <2> QED
    BY <1>1, <2>1, AfterErrorType, Zenon
<1>6. /\ msg' \in [Msgs -> MsgState] /\ \A m \in Msgs : msg'[m].last = 0 \/ msg'[m].last >= m
      /\ \A m \in Msgs : msg'[m].status \in Statuses
  <2>1. ASSUME NEW m \in Msgs
        PROVE  /\ msg'[m] \in MsgState /\ (msg'[m].last = 0 \/ msg'[m].last >= m)
               /\ msg'[m].status \in Statuses
    <3> DEFINE retries == IF m \in retried THEN msg[m].retries + p.incr ELSE msg[m].retries
               end     == IF m = Min(b.msgs) THEN Max(b.msgs) ELSE msg[m].last
               status  == IF m \in b.msgs THEN NewStatus(msg[m].status, p.status) ELSE msg[m].status
    <3>1. msg'[m] = [retries |-> retries, last |-> end, status |-> status]
      BY <1>1, Zenon
    <3>2. msg[m] \in MsgState /\ (msg[m].last = 0 \/ msg[m].last >= m)
      BY Zenon DEF TypeInv
    <3>3. msg[m].retries \in Nat /\ msg[m].last \in 0..MaxMsgid /\ msg[m].status \in Statuses
      BY <3>2, Zenon DEF MsgState
    <3>4. retries \in Nat
      <4>1. p.incr \in {0, 1}
        BY Zenon DEF Decision
      <4>2. msg[m].retries + p.incr \in Nat
        BY <3>3, <4>1, SMTT(30)
      <4> QED
        BY <3>3, <4>2, Zenon
    <3>5. end \in 0..MaxMsgid /\ (end = 0 \/ end >= m)
      <4>1. CASE m = Min(b.msgs)
        <5>1. Max(b.msgs) \in 0..MaxMsgid /\ Max(b.msgs) >= m
          BY <1>2, <4>1, IdempotenceAssumption, SMTT(30) DEF Msgs, IdempotenceAssumption
        <5> QED
          BY <4>1, <5>1, Zenon
      <4>2. CASE m # Min(b.msgs)
        BY <3>2, <3>3, <4>2, Zenon
      <4> QED
        BY <4>1, <4>2, Zenon
    <3>6. status \in Statuses
      <4>1. p.status \in Statuses
        BY Zenon DEF Decision
      <4>2. NewStatus(msg[m].status, p.status) \in {msg[m].status, p.status}
        BY Zenon DEF NewStatus
      <4> QED
        BY <3>3, <4>1, <4>2, Zenon
    <3> HIDE DEF retries, end, status
    <3>7. msg'[m].last = end /\ msg'[m].status = status
      BY <3>1
    <3>8. msg'[m] \in MsgState
      BY <3>1, <3>4, <3>5, <3>6 DEF MsgState
    <3> QED
      BY <3>5, <3>6, <3>7, <3>8, Zenon
  <2>2. DOMAIN msg' = Msgs /\ msg' = [m \in Msgs |-> msg'[m]]
    BY <1>1, Zenon
  <2> QED
    BY <2>1, <2>2, Zenon
<1>7. report' \in [Msgs -> Statuses \cup {"none"}] /\ Reported' = Reported \cup (b.msgs \ retried)
  <2> DEFINE X == b.msgs \ retried
  <2>1. X \in SUBSET Msgs /\ report' = [m \in Msgs |-> IF m \in X THEN msg'[m].status ELSE report[m]]
    BY <1>1, <1>2, Zenon
  <2> HIDE DEF X
  <2>2. \A m \in Msgs : report[m] \in Statuses \cup {"none"}
    BY Zenon DEF TypeInv
  <2>3. \A m \in Msgs : report'[m] = IF m \in X THEN msg'[m].status ELSE report[m]
    BY <2>1, Zenon
  <2>4. "none" \notin Statuses
    BY Zenon DEF Statuses
  <2>5. report' \in [Msgs -> Statuses \cup {"none"}]
    BY <1>6, <2>1, <2>2, Zenon
  <2>6. Reported' = Reported \cup X
    BY <1>6, <2>1, <2>3, <2>4, Zenon DEF Reported
  <2> QED
    BY <2>5, <2>6, Zenon DEF X
<1>8. TypeInv'
  <2>1. msgq' \subseteq Msgs /\ xmitq' \subseteq Msgs /\ msgid' \in 0..MaxMsgid
    BY <1>1, <1>2, <1>3, Zenon DEF TypeInv
  <2> QED
    BY <1>4, <1>5, <1>6, <1>7, <2>1, Zenon DEF TypeInv
<1> QED
  BY <1>1, <1>3, <1>4, <1>5, <1>7, <1>8, ZenonT(40) DEF retried

(* What a successful request does to the types, the queues and the reports. *)
LEMMA SuccessTypes ==
    ASSUME TypeInv, NEW b \in Request, NEW last \in BOOLEAN, Success(b, last), msgid' = msgid,
           outbufs' \in Seq(Request), waitresps' \in Seq(Request), results' \in Seq(Result),
           old' \in Seq(Result), resps' \in Seq(Errors), Len(resps') <= Len(waitresps')
    PROVE  /\ TypeInv' /\ tp'.pid = tp.pid
           /\ last \/ (rk'.pid = rk.pid /\ rk'.state = rk.state)
           /\ \E acked \in SUBSET (msgq \cup xmitq) :
                 /\ msgq' = msgq \ acked /\ xmitq' = xmitq \ acked
                 /\ Reported' = Reported \cup b.msgs \cup acked
<1> DEFINE first    == Min(b.msgs)
           end      == Max(b.msgs)
           next     == b.seq + Cardinality(b.msgs)
           implicit == tp.acked < first - 1
           acked    == IF implicit THEN ImplicitAck(end) ELSE {}
           wrong    == ~implicit /\ b.seq # tp.ack /\ b.seq = tp.err
           failed   == IF wrong THEN Fatal(rk, "__INCONSISTENT") ELSE rk
<1>1. /\ report' = [m \in Msgs |-> IF m \in b.msgs \cup acked THEN "PERSISTED" ELSE report[m]]
      /\ msgq' = msgq \ acked /\ xmitq' = xmitq \ acked /\ msg' = msg
      /\ rk' = IF last THEN DrainDone(failed) ELSE failed
  BY Zenon DEF Success
<1>2. b.msgs \in (SUBSET Msgs) \ {{}} /\ next \in Int /\ end \in Int
  <2>1. b.msgs \in (SUBSET Msgs) \ {{}} /\ next \in Int
    BY BatchSize, Zenon
  <2>2. end \in Msgs
    BY <2>1, LeastGreatest, Zenon
  <2> HIDE DEF end, next
  <2>3. end \in Int
    BY <2>2 DEF Msgs
  <2> QED
    BY <2>1, <2>3, Zenon
<1>3. acked \in SUBSET (msgq \cup xmitq) /\ acked \subseteq Msgs
  <2>1. ImplicitAck(end) \subseteq msgq \cup xmitq
    BY Zenon DEF ImplicitAck
  <2>2. msgq \subseteq Msgs /\ xmitq \subseteq Msgs
    BY Zenon DEF TypeInv
  <2> HIDE DEF implicit
  <2> QED
    BY <2>1, <2>2, Zenon
<1>4. tp' \in Eos /\ tp'.pid = tp.pid
  <2> DEFINE err == IF wrong \/ tp.err = tp.ack THEN next ELSE tp.err
             ack == IF wrong THEN tp.ack ELSE next
             top == IF end > tp.acked THEN end ELSE tp.acked
  <2>1. tp' = [tp EXCEPT !.err = err, !.ack = ack, !.acked = top]
    BY Zenon DEF Success
  <2>2. tp \in Eos
    BY Zenon DEF TypeInv
  <2>3. tp.pid \in Nat /\ tp.base \in Int /\ tp.ack \in Int /\ tp.err \in Int /\ tp.acked \in Int
        /\ tp.drain \in BOOLEAN
    BY <2>2, Zenon DEF Eos
  <2> HIDE DEF next, end, wrong
  <2>4. err \in Int /\ ack \in Int /\ top \in Int
    BY <1>2, <2>3, Zenon
  <2> HIDE DEF err, ack, top
  <2>5. tp' = [pid |-> tp.pid, base |-> tp.base, ack |-> ack, err |-> err, acked |-> top,
               drain |-> tp.drain]
    BY <2>1, <2>2, Zenon DEF Eos
  <2>6. tp'.pid = tp.pid
    BY <2>5, Zenon
  <2>7. tp' \in Eos
    BY ONLY <2>3, <2>4, <2>5, Zenon DEF Eos
  <2> QED
    BY <2>6, <2>7, Zenon
<1> HIDE DEF acked, wrong
<1>5. rk' \in Instance /\ (last \/ (rk'.pid = rk.pid /\ rk'.state = rk.state))
  <2>1. "__INCONSISTENT" \in Fatals /\ rk \in Instance
    BY Zenon DEF Fatals, TypeInv
  <2>2. failed \in Instance /\ failed.pid = rk.pid /\ failed.state = rk.state
    BY <2>1, FatalType, Zenon
  <2> HIDE DEF failed
  <2> QED
    BY <1>1, <2>2, DrainDoneType, Zenon
<1>6. report' \in [Msgs -> Statuses \cup {"none"}] /\ Reported' = Reported \cup (b.msgs \cup acked)
  <2> DEFINE X == b.msgs \cup acked
  <2>1. X \in SUBSET Msgs /\ report' = [m \in Msgs |-> IF m \in X THEN "PERSISTED" ELSE report[m]]
    BY <1>1, <1>2, <1>3, Zenon
  <2> HIDE DEF X
  <2>2. \A m \in Msgs : report[m] \in Statuses \cup {"none"}
    BY Zenon DEF TypeInv
  <2>3. "PERSISTED" \in Statuses /\ "none" \notin Statuses
    BY Zenon DEF Statuses
  <2>4. \A m \in Msgs : report'[m] = IF m \in X THEN "PERSISTED" ELSE report[m]
    BY <2>1, Zenon
  <2>5. report' \in [Msgs -> Statuses \cup {"none"}]
    BY <2>1, <2>2, <2>3, Zenon
  <2>6. Reported' = Reported \cup X
    BY <2>1, <2>3, <2>4, Zenon DEF Reported
  <2> QED
    BY <2>5, <2>6, Zenon DEF X
<1>7. TypeInv'
  BY <1>1, <1>4, <1>5, <1>6, Zenon DEF TypeInv
<1>8. Reported' = Reported \cup b.msgs \cup acked
  BY <1>6, Zenon
<1> QED
  BY <1>1, <1>3, <1>4, <1>5, <1>7, <1>8, Zenon

-----------------------------------------------------------------------------
(* Sequences of requests *)

(* Every request has the given epoch. *)
Alike(s, pid) == \A n \in 1..Len(s) : s[n].pid = pid

(* The requests of a sequence of results. *)
Reqs(xs) == [n \in DOMAIN xs |-> xs[n].req]

(* The elements of a concatenation. *)
LEMMA Joint ==
    ASSUME NEW s \in Seq(Request), NEW t \in Seq(Request)
    PROVE  /\ s \o t \in Seq(Request) /\ Len(s \o t) = Len(s) + Len(t)
           /\ \A n \in 1..Len(s) : (s \o t)[n] = s[n] /\ n \in 1..Len(s \o t)
           /\ \A n \in 1..Len(t) : (s \o t)[Len(s) + n] = t[n] /\ Len(s) + n \in 1..Len(s \o t)
           /\ \A n \in 1..Len(s \o t) : \/ n \in 1..Len(s)
                                        \/ n - Len(s) \in 1..Len(t) /\ n = Len(s) + (n - Len(s))
<1>1. Len(s) \in Nat /\ Len(t) \in Nat
  OBVIOUS
<1>2. s \o t \in Seq(Request) /\ Len(s \o t) = Len(s) + Len(t)
  OBVIOUS
<1>3. \A n \in 1..Len(s) : (s \o t)[n] = s[n] /\ n \in 1..Len(s \o t)
  BY <1>1, <1>2
<1>4. \A n \in 1..Len(t) : (s \o t)[Len(s) + n] = t[n] /\ Len(s) + n \in 1..Len(s \o t)
  BY <1>1, <1>2
<1>5. \A n \in 1..Len(s \o t) : \/ n \in 1..Len(s)
                                \/ n - Len(s) \in 1..Len(t) /\ n = Len(s) + (n - Len(s))
  BY <1>1, <1>2
<1> QED
  BY <1>2, <1>3, <1>4, <1>5, Zenon

(* A concatenation holds what its parts hold. *)
LEMMA HeldJoint ==
    ASSUME NEW s \in Seq(Request), NEW t \in Seq(Request)
    PROVE  Held(s \o t) = Held(s) \cup Held(t)
<1>1. ASSUME NEW m \in Held(s \o t) PROVE m \in Held(s) \cup Held(t)
  <2>1. PICK n \in 1..Len(s \o t) : m \in (s \o t)[n].msgs
    BY <1>1, Zenon DEF Held
  <2>2. CASE n \in 1..Len(s)
    BY <2>1, <2>2, Joint DEF Held
  <2>3. CASE n - Len(s) \in 1..Len(t) /\ n = Len(s) + (n - Len(s))
    <3> DEFINE k == n - Len(s)
    <3>1. k \in 1..Len(t) /\ (s \o t)[n] = t[k]
      BY <2>3, Joint
    <3> HIDE DEF k
    <3> QED
      BY <2>1, <3>1, Zenon DEF Held
  <2> QED
    BY <2>1, <2>2, <2>3, Joint, Zenon
<1>2. ASSUME NEW m \in Held(s) PROVE m \in Held(s \o t)
  <2>1. PICK n \in 1..Len(s) : m \in s[n].msgs
    BY <1>2, Zenon DEF Held
  <2> QED
    BY <2>1, Joint DEF Held
<1>3. ASSUME NEW m \in Held(t) PROVE m \in Held(s \o t)
  <2>1. PICK n \in 1..Len(t) : m \in t[n].msgs
    BY <1>3, Zenon DEF Held
  <2>2. (s \o t)[Len(s) + n] = t[n] /\ Len(s) + n \in 1..Len(s \o t)
    BY Joint, Zenon
  <2> DEFINE k == Len(s) + n
  <2>3. m \in (s \o t)[k].msgs /\ k \in 1..Len(s \o t)
    BY <2>1, <2>2, Zenon
  <2> HIDE DEF k
  <2> QED
    BY <2>3, Zenon DEF Held
<1> QED
  BY <1>1, <1>2, <1>3, Zenon

(* The messages of a request are held. *)
LEMMA HeldAt ==
    ASSUME NEW s, NEW n \in 1..Len(s)
    PROVE  s[n].msgs \subseteq Held(s)
  BY Zenon DEF Held

(* The requests of a concatenation are apart when those of each part are,  *)
(* and those of the one from those of the other.                           *)
LEMMA ApartJoint ==
    ASSUME NEW s \in Seq(Request), NEW t \in Seq(Request)
    PROVE  Apart(s \o t) <=> Apart(s) /\ Apart(t) /\ Held(s) \cap Held(t) = {}
<1>0. Len(s) \in Nat /\ Len(t) \in Nat
  OBVIOUS
<1>1. ASSUME Apart(s \o t) PROVE Apart(s)
  BY <1>1, Joint, SMTT(30) DEF Apart
<1>2. ASSUME Apart(s \o t) PROVE Apart(t)
  <2> SUFFICES ASSUME NEW n \in 1..Len(t), NEW k \in 1..Len(t), n # k
               PROVE  t[n].msgs \cap t[k].msgs = {}
    BY Zenon DEF Apart
  <2>1. /\ (s \o t)[Len(s) + n] = t[n] /\ Len(s) + n \in 1..Len(s \o t)
        /\ (s \o t)[Len(s) + k] = t[k] /\ Len(s) + k \in 1..Len(s \o t)
    BY Joint, ZenonT(40)
  <2>2. Len(s) + n # Len(s) + k
    BY <1>0
  <2> QED
    BY <1>2, <2>1, <2>2, Zenon DEF Apart
<1>3. ASSUME Apart(s \o t), NEW m \in Held(s), m \in Held(t) PROVE FALSE
  <2>1. PICK n \in 1..Len(s) : m \in s[n].msgs
    BY <1>3, Zenon DEF Held
  <2>2. PICK k \in 1..Len(t) : m \in t[k].msgs
    BY <1>3, Zenon DEF Held
  <2>3. /\ (s \o t)[n] = s[n] /\ n \in 1..Len(s \o t)
        /\ (s \o t)[Len(s) + k] = t[k] /\ Len(s) + k \in 1..Len(s \o t)
    BY Joint, ZenonT(40)
  <2>4. n # Len(s) + k
    BY <1>0
  <2> QED
    BY <1>3, <2>1, <2>2, <2>3, <2>4, Zenon DEF Apart
<1>4. ASSUME Apart(s), Apart(t), Held(s) \cap Held(t) = {}
      PROVE  Apart(s \o t)
  <2> SUFFICES ASSUME NEW n \in 1..Len(s \o t), NEW k \in 1..Len(s \o t), n # k
               PROVE  (s \o t)[n].msgs \cap (s \o t)[k].msgs = {}
    BY Zenon DEF Apart
  <2>1. ASSUME NEW i \in 1..Len(s \o t)
        PROVE  \/ i \in 1..Len(s) /\ (s \o t)[i] = s[i]
               \/ i - Len(s) \in 1..Len(t) /\ (s \o t)[i] = t[i - Len(s)]
    BY Joint
  <2>2. CASE n \in 1..Len(s) /\ (s \o t)[n] = s[n] /\ k \in 1..Len(s) /\ (s \o t)[k] = s[k]
    BY <1>4, <2>2, Zenon DEF Apart
  <2>3. CASE /\ n \in 1..Len(s) /\ (s \o t)[n] = s[n]
             /\ k - Len(s) \in 1..Len(t) /\ (s \o t)[k] = t[k - Len(s)]
    <3>1. s[n].msgs \subseteq Held(s) /\ t[k - Len(s)].msgs \subseteq Held(t)
      BY <2>3, HeldAt, Zenon
    <3> QED
      BY <1>4, <2>3, <3>1, Zenon
  <2>4. CASE /\ k \in 1..Len(s) /\ (s \o t)[k] = s[k]
             /\ n - Len(s) \in 1..Len(t) /\ (s \o t)[n] = t[n - Len(s)]
    <3>1. s[k].msgs \subseteq Held(s) /\ t[n - Len(s)].msgs \subseteq Held(t)
      BY <2>4, HeldAt, Zenon
    <3> QED
      BY <1>4, <2>4, <3>1, Zenon
  <2>5. CASE /\ k - Len(s) \in 1..Len(t) /\ (s \o t)[k] = t[k - Len(s)]
             /\ n - Len(s) \in 1..Len(t) /\ (s \o t)[n] = t[n - Len(s)]
    <3>1. k - Len(s) # n - Len(s)
      BY <1>0, Joint
    <3> QED
      BY <1>4, <2>5, <3>1, Zenon DEF Apart
  <2> QED
    BY <2>1, <2>2, <2>3, <2>4, <2>5, Zenon
<1> QED
  BY <1>1, <1>2, <1>3, <1>4, Zenon

(* A concatenation has the epoch of its parts. *)
LEMMA AlikeJoint ==
    ASSUME NEW s \in Seq(Request), NEW t \in Seq(Request), NEW p
    PROVE  Alike(s \o t, p) <=> Alike(s, p) /\ Alike(t, p)
<1>1. ASSUME Alike(s \o t, p) PROVE Alike(s, p)
  BY <1>1, Joint DEF Alike
<1>2. ASSUME Alike(s \o t, p), NEW n \in 1..Len(t) PROVE t[n].pid = p
  <2>1. (s \o t)[Len(s) + n] = t[n] /\ Len(s) + n \in 1..Len(s \o t)
    BY Joint, Zenon
  <2> QED
    BY <1>2, <2>1, Zenon DEF Alike
<1>3. ASSUME Alike(s, p), Alike(t, p), NEW n \in 1..Len(s \o t) PROVE (s \o t)[n].pid = p
  <2>1. \/ n \in 1..Len(s) /\ (s \o t)[n] = s[n]
        \/ n - Len(s) \in 1..Len(t) /\ (s \o t)[n] = t[n - Len(s)]
    BY Joint
  <2> QED
    BY <1>3, <2>1, Zenon DEF Alike
<1> QED
  BY <1>1, <1>2, <1>3, Zenon DEF Alike

(* The requests of results are requests. *)
LEMMA ReqsType ==
    ASSUME NEW xs \in Seq(Result)
    PROVE  Reqs(xs) \in Seq(Request) /\ Len(Reqs(xs)) = Len(xs)
           /\ \A n \in 1..Len(xs) : Reqs(xs)[n] = xs[n].req /\ xs[n] \in Result
<1>1. DOMAIN xs = 1..Len(xs) /\ Len(xs) \in Nat /\ \A n \in 1..Len(xs) : xs[n] \in Result
  OBVIOUS
<1>2. \A n \in 1..Len(xs) : xs[n].req \in Request
  BY <1>1, Zenon DEF Result
<1> QED
  BY <1>1, <1>2 DEF Reqs

(* bufq_purge() hands every request of a queue to its callback, in order. *)
LEMMA ReqsFailed ==
    ASSUME NEW s \in Seq(Request), NEW err \in Errors, NEW sent \in BOOLEAN
    PROVE  Failed(s, err, sent) \in Seq(Result) /\ Reqs(Failed(s, err, sent)) = s
<1> DEFINE f == Failed(s, err, sent)
<1>1. DOMAIN s = 1..Len(s) /\ Len(s) \in Nat /\ \A n \in 1..Len(s) : s[n] \in Request
  OBVIOUS
<1>2. f = [n \in 1..Len(s) |-> [req |-> s[n], err |-> err, sent |-> sent]]
  BY <1>1, Zenon DEF Failed
<1>3. \A n \in 1..Len(s) : [req |-> s[n], err |-> err, sent |-> sent] \in Result
  BY <1>1, Zenon DEF Result
<1>4. f \in Seq(Result) /\ DOMAIN f = 1..Len(s)
  BY <1>1, <1>2, <1>3
<1>5. \A n \in 1..Len(s) : f[n].req = s[n]
  BY <1>2
<1> HIDE DEF f
<1>6. Reqs(f) = [n \in 1..Len(s) |-> s[n]]
  BY <1>4, <1>5, Zenon DEF Reqs
<1> QED
  BY <1>1, <1>4, <1>6 DEF f

(* Handling the first result leaves the requests of the others. *)
LEMMA ReqsTail ==
    ASSUME NEW xs \in Seq(Result), xs # <<>>
    PROVE  Tail(xs) \in Seq(Result) /\ Reqs(Tail(xs)) = Tail(Reqs(xs)) /\ Reqs(xs) # <<>>
           /\ Head(Reqs(xs)) = Head(xs).req /\ Head(xs) \in Result
<1>1. /\ Reqs(xs) \in Seq(Request) /\ Len(Reqs(xs)) = Len(xs) /\ Len(xs) \in Nat \ {0}
      /\ \A n \in 1..Len(xs) : Reqs(xs)[n] = xs[n].req
  BY ReqsType
<1>2. /\ Tail(xs) \in Seq(Result) /\ Len(Tail(xs)) = Len(xs) - 1
      /\ \A n \in 1..(Len(xs) - 1) : Tail(xs)[n] = xs[n + 1]
  BY <1>1
<1>3. /\ Tail(Reqs(xs)) \in Seq(Request) /\ Len(Tail(Reqs(xs))) = Len(xs) - 1
      /\ \A n \in 1..(Len(xs) - 1) : Tail(Reqs(xs))[n] = Reqs(xs)[n + 1]
  BY <1>1
<1>4. /\ Reqs(Tail(xs)) \in Seq(Request) /\ Len(Reqs(Tail(xs))) = Len(xs) - 1
      /\ \A n \in 1..(Len(xs) - 1) : Reqs(Tail(xs))[n] = Tail(xs)[n].req
  BY <1>2, ReqsType, Zenon
<1>5. \A n \in 1..(Len(xs) - 1) : Reqs(Tail(xs))[n] = Tail(Reqs(xs))[n]
  BY <1>1, <1>2, <1>3, <1>4, SMTT(30)
<1>6. Reqs(Tail(xs)) = Tail(Reqs(xs))
  BY <1>3, <1>4, <1>5, SMTT(30)
<1> QED
  BY <1>1, <1>2, <1>6

(* The requests of two sequences of results. *)
LEMMA ReqsJoint ==
    ASSUME NEW xs \in Seq(Result), NEW ys \in Seq(Result)
    PROVE  xs \o ys \in Seq(Result) /\ Reqs(xs \o ys) = Reqs(xs) \o Reqs(ys)
<1>1. /\ Reqs(xs) \in Seq(Request) /\ Len(Reqs(xs)) = Len(xs) /\ Len(xs) \in Nat
      /\ \A n \in 1..Len(xs) : Reqs(xs)[n] = xs[n].req
  BY ReqsType
<1>2. /\ Reqs(ys) \in Seq(Request) /\ Len(Reqs(ys)) = Len(ys) /\ Len(ys) \in Nat
      /\ \A n \in 1..Len(ys) : Reqs(ys)[n] = ys[n].req
  BY ReqsType
<1>3. xs \o ys \in Seq(Result) /\ Len(xs \o ys) = Len(xs) + Len(ys)
  OBVIOUS
<1>4. /\ Reqs(xs \o ys) \in Seq(Request) /\ Len(Reqs(xs \o ys)) = Len(xs) + Len(ys)
      /\ \A n \in 1..(Len(xs) + Len(ys)) : Reqs(xs \o ys)[n] = (xs \o ys)[n].req
  BY <1>3, ReqsType, Zenon
<1>5. Reqs(xs) \o Reqs(ys) \in Seq(Request) /\ Len(Reqs(xs) \o Reqs(ys)) = Len(xs) + Len(ys)
  BY <1>1, <1>2, Joint, ZenonT(40)
<1>6. ASSUME NEW n \in 1..(Len(xs) + Len(ys))
      PROVE  Reqs(xs \o ys)[n] = (Reqs(xs) \o Reqs(ys))[n]
  <2>1. CASE n <= Len(xs)
    <3>1. (xs \o ys)[n] = xs[n] /\ n \in 1..Len(xs)
      BY <1>1, <1>2, <2>1, SMTT(30)
    <3>2. (Reqs(xs) \o Reqs(ys))[n] = Reqs(xs)[n]
      BY <1>1, <1>2, <2>1
    <3> QED
      BY <1>1, <1>4, <3>1, <3>2, Zenon
  <2>2. CASE n > Len(xs)
    <3>1. (xs \o ys)[n] = ys[n - Len(xs)] /\ n - Len(xs) \in 1..Len(ys)
      BY <1>1, <1>2, <2>2
    <3>2. (Reqs(xs) \o Reqs(ys))[n] = Reqs(ys)[n - Len(xs)]
      BY <1>1, <1>2, <2>2, SMTT(30)
    <3> QED
      BY <1>2, <1>4, <3>1, <3>2, Zenon
  <2>3. n <= Len(xs) \/ n > Len(xs)
    BY <1>1, <1>2
  <2> QED
    BY <2>1, <2>2, <2>3, Zenon
<1> QED
  BY <1>3, <1>4, <1>5, <1>6, SMTT(30)

(* A sequence of requests and its first one. *)
LEMMA FirstRest ==
    ASSUME NEW s \in Seq(Request), s # <<>>
    PROVE  /\ Head(s) \in Request /\ Tail(s) \in Seq(Request) /\ Len(Tail(s)) = Len(s) - 1
           /\ Held(s) = Head(s).msgs \cup Held(Tail(s))
           /\ Apart(s) => Apart(Tail(s)) /\ Head(s).msgs \cap Held(Tail(s)) = {}
           /\ \A p : Alike(s, p) => Alike(Tail(s), p) /\ Head(s).pid = p
<1>1. /\ Head(s) \in Request /\ Tail(s) \in Seq(Request) /\ Len(Tail(s)) = Len(s) - 1
      /\ Len(s) \in Nat \ {0}
      /\ s[1] = Head(s) /\ \A n \in 1..(Len(s) - 1) : Tail(s)[n] = s[n + 1]
  OBVIOUS
<1>2. ASSUME NEW m
      PROVE  m \in Held(s) <=> m \in Head(s).msgs \/ m \in Held(Tail(s))
  <2>1. ASSUME m \in Held(s) PROVE m \in Head(s).msgs \/ m \in Held(Tail(s))
    <3>1. PICK n \in 1..Len(s) : m \in s[n].msgs
      BY <2>1, Zenon DEF Held
    <3>2. CASE n = 1
      BY <1>1, <3>1, <3>2, Zenon
    <3>3. CASE n # 1
      <4>1. n - 1 \in 1..Len(Tail(s)) /\ Tail(s)[n - 1] = s[n]
        BY <1>1, <3>3
      <4> QED
        BY <3>1, <4>1, Zenon DEF Held
    <3> QED
      BY <3>2, <3>3, Zenon
  <2>2. ASSUME m \in Head(s).msgs PROVE m \in Held(s)
    BY <1>1, <2>2 DEF Held
  <2>3. ASSUME m \in Held(Tail(s)) PROVE m \in Held(s)
    <3>1. PICK n \in 1..Len(Tail(s)) : m \in Tail(s)[n].msgs
      BY <2>3, Zenon DEF Held
    <3>2. n + 1 \in 1..Len(s) /\ Tail(s)[n] = s[n + 1]
      BY <1>1
    <3> QED
      BY <3>1, <3>2, Zenon DEF Held
  <2> QED
    BY <2>1, <2>2, <2>3, Zenon
<1>3. Held(s) = Head(s).msgs \cup Held(Tail(s))
  BY <1>2, Zenon
<1>4. ASSUME Apart(s) PROVE Apart(Tail(s))
  <2> SUFFICES ASSUME NEW n \in 1..Len(Tail(s)), NEW k \in 1..Len(Tail(s)), n # k
               PROVE  Tail(s)[n].msgs \cap Tail(s)[k].msgs = {}
    BY Zenon DEF Apart
  <2>1. /\ n + 1 \in 1..Len(s) /\ Tail(s)[n] = s[n + 1]
        /\ k + 1 \in 1..Len(s) /\ Tail(s)[k] = s[k + 1] /\ n + 1 # k + 1
    BY <1>1
  <2> QED
    BY <1>4, <2>1, Zenon DEF Apart
<1>5. ASSUME Apart(s), NEW m \in Head(s).msgs, m \in Held(Tail(s)) PROVE FALSE
  <2>1. PICK n \in 1..Len(Tail(s)) : m \in Tail(s)[n].msgs
    BY <1>5, Zenon DEF Held
  <2>2. n + 1 \in 1..Len(s) /\ Tail(s)[n] = s[n + 1] /\ 1 \in 1..Len(s) /\ n + 1 # 1
    BY <1>1
  <2> QED
    BY <1>1, <1>5, <2>1, <2>2, Zenon DEF Apart
<1>6. ASSUME NEW p, Alike(s, p) PROVE Alike(Tail(s), p) /\ Head(s).pid = p
  BY <1>1, <1>6 DEF Alike
<1> QED
  BY <1>1, <1>3, <1>4, <1>5, <1>6, Zenon

(* No requests hold no messages. *)
LEMMA NoneHeld == Held(<<>>) = {} /\ Apart(<<>>) /\ (\A p : Alike(<<>>, p)) /\ <<>> \in Seq(Request)
  BY DEF Held, Apart, Alike

(* One request holds its messages. *)
LEMMA OneHeld ==
    ASSUME NEW r \in Request
    PROVE  /\ <<r>> \in Seq(Request) /\ Held(<<r>>) = r.msgs /\ Apart(<<r>>)
           /\ \A p : Alike(<<r>>, p) <=> r.pid = p
<1>1. <<r>> \in Seq(Request) /\ Len(<<r>>) = 1 /\ <<r>>[1] = r /\ 1..1 = {1}
  OBVIOUS
<1> QED
  BY <1>1, Zenon DEF Held, Apart, Alike

(* The requests in the four places a request can be at. *)
All(a, b, c, d) == a \o b \o c \o d

(* What is known of s from its parts. *)
Parts(s, a, b, c, d) ==
    /\ s \in Seq(Request)
    /\ Len(s) = Len(a) + Len(b) + Len(c) + Len(d)
    /\ Held(s) = Held(a) \cup Held(b) \cup Held(c) \cup Held(d)
    /\ Apart(s) <=>
         /\ Apart(a) /\ Apart(b) /\ Apart(c) /\ Apart(d)
         /\ Held(a) \cap Held(b) = {} /\ (Held(a) \cup Held(b)) \cap Held(c) = {}
         /\ (Held(a) \cup Held(b) \cup Held(c)) \cap Held(d) = {}
    /\ \A p : Alike(s, p) <=> Alike(a, p) /\ Alike(b, p) /\ Alike(c, p) /\ Alike(d, p)

(* The requests in the four places hold what each of them holds. *)
LEMMA AllParts ==
    ASSUME NEW a \in Seq(Request), NEW b \in Seq(Request),
           NEW c \in Seq(Request), NEW d \in Seq(Request)
    PROVE  Parts(All(a, b, c, d), a, b, c, d)
<1> DEFINE e == a \o b
           f == e \o c
<1>1. /\ e \in Seq(Request) /\ Len(e) = Len(a) + Len(b) /\ Held(e) = Held(a) \cup Held(b)
      /\ Apart(e) <=> Apart(a) /\ Apart(b) /\ Held(a) \cap Held(b) = {}
      /\ \A p : Alike(e, p) <=> Alike(a, p) /\ Alike(b, p)
  BY Joint, HeldJoint, ApartJoint, AlikeJoint, Zenon
<1> HIDE DEF e
<1>2. /\ f \in Seq(Request) /\ Len(f) = Len(e) + Len(c) /\ Held(f) = Held(e) \cup Held(c)
      /\ Apart(f) <=> Apart(e) /\ Apart(c) /\ Held(e) \cap Held(c) = {}
      /\ \A p : Alike(f, p) <=> Alike(e, p) /\ Alike(c, p)
  BY <1>1, Joint, HeldJoint, ApartJoint, AlikeJoint, Zenon
<1> HIDE DEF f
<1>3. /\ f \o d \in Seq(Request) /\ Len(f \o d) = Len(f) + Len(d)
      /\ Held(f \o d) = Held(f) \cup Held(d)
      /\ Apart(f \o d) <=> Apart(f) /\ Apart(d) /\ Held(f) \cap Held(d) = {}
      /\ \A p : Alike(f \o d, p) <=> Alike(f, p) /\ Alike(d, p)
  BY <1>2, Joint, HeldJoint, ApartJoint, AlikeJoint, Zenon
<1>4. All(a, b, c, d) = f \o d
  BY Zenon DEF All, e, f
<1>5. All(a, b, c, d) \in Seq(Request)
  BY <1>3, <1>4, Zenon
<1>6. Len(All(a, b, c, d)) = Len(a) + Len(b) + Len(c) + Len(d)
  BY <1>1, <1>2, <1>3, <1>4, Zenon
<1>7. Held(All(a, b, c, d)) = Held(a) \cup Held(b) \cup Held(c) \cup Held(d)
  BY <1>1, <1>2, <1>3, <1>4, Zenon
<1>8. Apart(All(a, b, c, d)) <=>
        /\ Apart(a) /\ Apart(b) /\ Apart(c) /\ Apart(d)
        /\ Held(a) \cap Held(b) = {} /\ (Held(a) \cup Held(b)) \cap Held(c) = {}
        /\ (Held(a) \cup Held(b) \cup Held(c)) \cap Held(d) = {}
  BY <1>1, <1>2, <1>3, <1>4, Zenon
<1>9. ASSUME NEW p
      PROVE  Alike(All(a, b, c, d), p) <=> Alike(a, p) /\ Alike(b, p) /\ Alike(c, p) /\ Alike(d, p)
  BY <1>1, <1>2, <1>3, <1>4, Zenon
<1> QED
  BY <1>5, <1>6, <1>7, <1>8, <1>9, Zenon DEF Parts

(* The same requests, in another order. *)
Shuffled(s, t) ==
    /\ s \in Seq(Request) /\ t \in Seq(Request) /\ Len(s) = Len(t)
    /\ Held(s) = Held(t)
    /\ Apart(s) => Apart(t)
    /\ \A p : Alike(s, p) => Alike(t, p)

(* The same requests but for one of them. *)
Without(s, r, t) ==
    /\ s \in Seq(Request) /\ t \in Seq(Request) /\ Len(s) = Len(t) + 1
    /\ r \in Request
    /\ Held(s) = r.msgs \cup Held(t)
    /\ Apart(s) => Apart(t) /\ r.msgs \cap Held(t) = {}
    /\ \A p : Alike(s, p) => Alike(t, p) /\ r.pid = p

(* A purge of outbufs moves its requests to results. *)
LEMMA PurgeShuffles ==
    ASSUME NEW a \in Seq(Request), NEW b \in Seq(Request), NEW d \in Seq(Request)
    PROVE  Shuffled(All(a, b, <<>>, d), All(<<>>, b, a, d))
<1>1. Len(a) \in Nat /\ Len(b) \in Nat /\ Len(d) \in Nat /\ Len(<<>>) = 0
  OBVIOUS
<1>2. <<>> \in Seq(Request) /\ Held(<<>>) = {} /\ Apart(<<>>) /\ (\A p : Alike(<<>>, p))
  BY NoneHeld, Zenon
<1> DEFINE s == All(a, b, <<>>, d)
           t == All(<<>>, b, a, d)
<1>3. Parts(s, a, b, <<>>, d) /\ Parts(t, <<>>, b, a, d)
  BY <1>2, AllParts, Zenon
<1> HIDE DEF s, t
<1>4. Len(s) = Len(t)
  BY <1>1, <1>3 DEF Parts
<1>5. Held(s) = Held(t)
  BY <1>2, <1>3, Zenon DEF Parts
<1>6. Apart(s) => Apart(t)
  BY <1>2, <1>3, Zenon DEF Parts
<1>7. \A p : Alike(s, p) => Alike(t, p)
  BY <1>2, <1>3, Zenon DEF Parts
<1> QED
  BY <1>3, <1>4, <1>5, <1>6, <1>7, Zenon DEF Shuffled, Parts, s, t

(* A lost connection moves all requests to results. *)
LEMMA FailShuffles ==
    ASSUME NEW a \in Seq(Request), NEW b \in Seq(Request), NEW d \in Seq(Request)
    PROVE  Shuffled(All(a, b, <<>>, d), All(<<>>, <<>>, b \o a, d))
<1>1. Len(a) \in Nat /\ Len(b) \in Nat /\ Len(d) \in Nat /\ Len(<<>>) = 0
  OBVIOUS
<1>2. <<>> \in Seq(Request) /\ Held(<<>>) = {} /\ Apart(<<>>) /\ (\A p : Alike(<<>>, p))
  BY NoneHeld, Zenon
<1> DEFINE c == b \o a
<1>3. /\ c \in Seq(Request) /\ Len(c) = Len(b) + Len(a) /\ Held(c) = Held(b) \cup Held(a)
      /\ Apart(c) <=> Apart(b) /\ Apart(a) /\ Held(b) \cap Held(a) = {}
      /\ \A p : Alike(c, p) <=> Alike(b, p) /\ Alike(a, p)
  BY Joint, HeldJoint, ApartJoint, AlikeJoint, Zenon
<1> HIDE DEF c
<1> DEFINE s == All(a, b, <<>>, d)
           t == All(<<>>, <<>>, c, d)
<1>4. Parts(s, a, b, <<>>, d) /\ Parts(t, <<>>, <<>>, c, d)
  BY <1>2, <1>3, AllParts, Zenon
<1> HIDE DEF s, t
<1>5. Len(s) = Len(t)
  BY <1>1, <1>3, <1>4, SMTT(30) DEF Parts
<1>6. Held(s) = Held(t)
  BY <1>2, <1>3, <1>4, Zenon DEF Parts
<1>7. Apart(s) => Apart(t)
  BY <1>2, <1>3, <1>4, Zenon DEF Parts
<1>8. \A p : Alike(s, p) => Alike(t, p)
  BY <1>2, <1>3, <1>4, Zenon DEF Parts
<1> QED
  BY <1>4, <1>5, <1>6, <1>7, <1>8, ZenonT(40) DEF Shuffled, Parts, c, s, t

(* A change of the leader moves what was sent to the old thread, the       *)
(* others to results.                                                      *)
LEMMA LeaveShuffles ==
    ASSUME NEW a \in Seq(Request), NEW b \in Seq(Request)
    PROVE  Shuffled(All(a, b, <<>>, <<>>), All(<<>>, <<>>, a, b))
<1>1. Len(a) \in Nat /\ Len(b) \in Nat /\ Len(<<>>) = 0
  OBVIOUS
<1>2. <<>> \in Seq(Request) /\ Held(<<>>) = {} /\ Apart(<<>>) /\ (\A p : Alike(<<>>, p))
  BY NoneHeld, Zenon
<1> DEFINE s == All(a, b, <<>>, <<>>)
           t == All(<<>>, <<>>, a, b)
<1>3. Parts(s, a, b, <<>>, <<>>) /\ Parts(t, <<>>, <<>>, a, b)
  BY <1>2, AllParts, Zenon
<1> HIDE DEF s, t
<1>4. Len(s) = Len(t)
  BY <1>1, <1>3 DEF Parts
<1>5. Held(s) = Held(t)
  BY <1>2, <1>3, Zenon DEF Parts
<1>6. Apart(s) => Apart(t)
  BY <1>2, <1>3, Zenon DEF Parts
<1>7. \A p : Alike(s, p) => Alike(t, p)
  BY <1>2, <1>3, Zenon DEF Parts
<1> QED
  BY <1>3, <1>4, <1>5, <1>6, <1>7, Zenon DEF Shuffled, Parts, s, t

(* Sending moves the first request of outbufs to the end of waitresps. *)
LEMMA SendShuffles ==
    ASSUME NEW a \in Seq(Request), a # <<>>, NEW b \in Seq(Request), NEW d \in Seq(Request)
    PROVE  Shuffled(All(a, b, <<>>, d), All(Tail(a), Append(b, Head(a)), <<>>, d))
<1> DEFINE r == Head(a)
           e == Tail(a)
           u == <<r>>
           c == b \o u
<1>1. /\ r \in Request /\ e \in Seq(Request) /\ Len(e) = Len(a) - 1
      /\ Held(a) = r.msgs \cup Held(e)
      /\ Apart(a) => Apart(e) /\ r.msgs \cap Held(e) = {}
      /\ \A p : Alike(a, p) => Alike(e, p) /\ r.pid = p
  BY FirstRest, Zenon
<1>2. Len(a) \in Nat /\ Len(b) \in Nat /\ Len(d) \in Nat /\ Len(<<>>) = 0
  OBVIOUS
<1> HIDE DEF r, e
<1>3. Append(b, r) = c /\ Len(u) = 1
  BY <1>1
<1>4. u \in Seq(Request) /\ Held(u) = r.msgs /\ Apart(u) /\ \A p : Alike(u, p) <=> r.pid = p
  BY <1>1, OneHeld, Zenon
<1> HIDE DEF u
<1>5. /\ c \in Seq(Request) /\ Len(c) = Len(b) + Len(u) /\ Held(c) = Held(b) \cup Held(u)
      /\ Apart(c) <=> Apart(b) /\ Apart(u) /\ Held(b) \cap Held(u) = {}
      /\ \A p : Alike(c, p) <=> Alike(b, p) /\ Alike(u, p)
  BY <1>4, Joint, HeldJoint, ApartJoint, AlikeJoint, Zenon
<1> HIDE DEF c
<1>6. <<>> \in Seq(Request) /\ Held(<<>>) = {} /\ Apart(<<>>) /\ (\A p : Alike(<<>>, p))
  BY NoneHeld, Zenon
<1> DEFINE s == All(a, b, <<>>, d)
           t == All(e, c, <<>>, d)
<1>7. Parts(s, a, b, <<>>, d) /\ Parts(t, e, c, <<>>, d)
  BY <1>1, <1>5, <1>6, AllParts, ZenonT(40)
<1> HIDE DEF s, t
<1>8. Len(s) = Len(t)
  BY <1>1, <1>2, <1>3, <1>5, <1>7, SMTT(30) DEF Parts
<1>9. Held(s) = Held(t)
  <2>1. Held(s) = (r.msgs \cup Held(e)) \cup Held(b) \cup {} \cup Held(d)
    BY <1>1, <1>6, <1>7, Zenon DEF Parts
  <2>2. Held(t) = Held(e) \cup (Held(b) \cup r.msgs) \cup {} \cup Held(d)
    BY <1>4, <1>5, <1>6, <1>7, ZenonT(40) DEF Parts
  <2> QED
    BY <2>1, <2>2, Zenon
<1>10. Apart(s) => Apart(t)
  BY <1>1, <1>4, <1>5, <1>6, <1>7, SMTT(30) DEF Parts
<1>11. \A p : Alike(s, p) => Alike(t, p)
  BY <1>1, <1>4, <1>5, <1>6, <1>7, Zenon DEF Parts
<1> QED
  BY <1>3, <1>7, <1>8, <1>9, <1>10, <1>11, ZenonT(40) DEF Shuffled, Parts, r, e, s, t

(* The first request of one of the places is taken out. *)
LEMMA WaitingWithout ==
    ASSUME NEW a \in Seq(Request), NEW b \in Seq(Request), b # <<>>,
           NEW c \in Seq(Request), NEW d \in Seq(Request)
    PROVE  Without(All(a, b, c, d), Head(b), All(a, Tail(b), c, d))
<1> DEFINE r == Head(b)
           e == Tail(b)
           s == All(a, b, c, d)
           t == All(a, e, c, d)
<1>1. /\ r \in Request /\ e \in Seq(Request) /\ Len(e) = Len(b) - 1
      /\ Held(b) = r.msgs \cup Held(e)
      /\ Apart(b) => Apart(e) /\ r.msgs \cap Held(e) = {}
      /\ \A p : Alike(b, p) => Alike(e, p) /\ r.pid = p
  BY FirstRest, Zenon
<1>2. Len(a) \in Nat /\ Len(b) \in Nat /\ Len(c) \in Nat /\ Len(d) \in Nat
  OBVIOUS
<1> HIDE DEF r, e
<1>3. Parts(s, a, b, c, d) /\ Parts(t, a, e, c, d)
  BY <1>1, AllParts, ZenonT(40)
<1> HIDE DEF s, t
<1>4. Len(s) = Len(t) + 1
  BY <1>1, <1>2, <1>3 DEF Parts
<1>5. Held(s) = r.msgs \cup Held(t)
  <2>1. Held(s) = Held(a) \cup (r.msgs \cup Held(e)) \cup Held(c) \cup Held(d)
    BY <1>1, <1>3, Zenon DEF Parts
  <2>2. Held(t) = Held(a) \cup Held(e) \cup Held(c) \cup Held(d)
    BY <1>3, Zenon DEF Parts
  <2> QED
    BY <2>1, <2>2, Zenon
<1>6. Apart(s) => Apart(t)
  BY <1>1, <1>3, Zenon DEF Parts
<1>7. Apart(s) => r.msgs \cap Held(t) = {}
  BY <1>1, <1>3, Zenon DEF Parts
<1>8. \A p : Alike(s, p) => Alike(t, p) /\ r.pid = p
  BY <1>1, <1>3, Zenon DEF Parts
<1> QED
  BY <1>1, <1>3, <1>4, <1>5, <1>6, <1>7, <1>8, ZenonT(40) DEF Without, Parts, r, e, s, t

(* The first of the failed requests leaves. *)
LEMMA ResultsWithout ==
    ASSUME NEW a \in Seq(Request), NEW b \in Seq(Request), NEW c \in Seq(Request), c # <<>>,
           NEW d \in Seq(Request)
    PROVE  Without(All(a, b, c, d), Head(c), All(a, b, Tail(c), d))
<1> DEFINE r == Head(c)
           e == Tail(c)
           s == All(a, b, c, d)
           t == All(a, b, e, d)
<1>1. /\ r \in Request /\ e \in Seq(Request) /\ Len(e) = Len(c) - 1
      /\ Held(c) = r.msgs \cup Held(e)
      /\ Apart(c) => Apart(e) /\ r.msgs \cap Held(e) = {}
      /\ \A p : Alike(c, p) => Alike(e, p) /\ r.pid = p
  BY FirstRest, Zenon
<1>2. Len(a) \in Nat /\ Len(b) \in Nat /\ Len(c) \in Nat /\ Len(d) \in Nat
  OBVIOUS
<1> HIDE DEF r, e
<1>3. Parts(s, a, b, c, d) /\ Parts(t, a, b, e, d)
  BY <1>1, AllParts, Zenon
<1> HIDE DEF s, t
<1>4. Len(s) = Len(t) + 1
  BY <1>1, <1>2, <1>3 DEF Parts
<1>5. Held(s) = r.msgs \cup Held(t)
  <2>1. Held(s) = Held(a) \cup Held(b) \cup (r.msgs \cup Held(e)) \cup Held(d)
    BY <1>1, <1>3, Zenon DEF Parts
  <2>2. Held(t) = Held(a) \cup Held(b) \cup Held(e) \cup Held(d)
    BY <1>3, Zenon DEF Parts
  <2> QED
    BY <2>1, <2>2, Zenon
<1>6. Apart(s) => Apart(t)
  BY <1>1, <1>3, Zenon DEF Parts
<1>7. Apart(s) => r.msgs \cap Held(t) = {}
  BY <1>1, <1>3, Zenon DEF Parts
<1>8. \A p : Alike(s, p) => Alike(t, p) /\ r.pid = p
  BY <1>1, <1>3, Zenon DEF Parts
<1> QED
  BY <1>1, <1>3, <1>4, <1>5, <1>6, <1>7, <1>8, ZenonT(40) DEF Without, Parts, r, e, s, t

(* The first request at the old thread leaves. *)
LEMMA OldWithout ==
    ASSUME NEW a \in Seq(Request), NEW b \in Seq(Request), NEW c \in Seq(Request),
           NEW d \in Seq(Request), d # <<>>
    PROVE  Without(All(a, b, c, d), Head(d), All(a, b, c, Tail(d)))
<1> DEFINE r == Head(d)
           e == Tail(d)
           s == All(a, b, c, d)
           t == All(a, b, c, e)
<1>1. /\ r \in Request /\ e \in Seq(Request) /\ Len(e) = Len(d) - 1
      /\ Held(d) = r.msgs \cup Held(e)
      /\ Apart(d) => Apart(e) /\ r.msgs \cap Held(e) = {}
      /\ \A p : Alike(d, p) => Alike(e, p) /\ r.pid = p
  BY FirstRest, Zenon
<1>2. Len(a) \in Nat /\ Len(b) \in Nat /\ Len(c) \in Nat /\ Len(d) \in Nat
  OBVIOUS
<1> HIDE DEF r, e
<1>3. Parts(s, a, b, c, d) /\ Parts(t, a, b, c, e)
  BY <1>1, AllParts, ZenonT(40)
<1> HIDE DEF s, t
<1>4. Len(s) = Len(t) + 1
  BY <1>1, <1>2, <1>3, SMTT(30) DEF Parts
<1>5. Held(s) = r.msgs \cup Held(t)
  <2>1. Held(s) = Held(a) \cup Held(b) \cup Held(c) \cup (r.msgs \cup Held(e))
    BY <1>1, <1>3, Zenon DEF Parts
  <2>2. Held(t) = Held(a) \cup Held(b) \cup Held(c) \cup Held(e)
    BY <1>3, Zenon DEF Parts
  <2> QED
    BY <2>1, <2>2, Zenon
<1>6. Apart(s) => Apart(t)
  BY <1>1, <1>3, Zenon DEF Parts
<1>7. Apart(s) => r.msgs \cap Held(t) = {}
  BY <1>1, <1>3, Zenon DEF Parts
<1>8. \A p : Alike(s, p) => Alike(t, p) /\ r.pid = p
  BY <1>1, <1>3, Zenon DEF Parts
<1> QED
  BY <1>1, <1>3, <1>4, <1>5, <1>6, <1>7, <1>8, Zenon DEF Without, Parts, r, e, s, t

(* The broker thread puts a new request in. *)
(* The same requests and a new one, r. *)
With(s, r, t) ==
    /\ t \in Seq(Request)
    /\ Held(t) = Held(s) \cup r.msgs
    /\ Apart(s) /\ Held(s) \cap r.msgs = {} => Apart(t)
    /\ Alike(s, r.pid) => Alike(t, r.pid)

(* A request is added to outbufs when that is empty. *)
LEMMA PutWith ==
    ASSUME NEW r \in Request, NEW b \in Seq(Request), NEW c \in Seq(Request), NEW d \in Seq(Request)
    PROVE  With(All(<<>>, b, c, d), r, All(<<r>>, b, c, d))
<1> DEFINE u == <<r>>
           s == All(<<>>, b, c, d)
           t == All(u, b, c, d)
<1>1. u \in Seq(Request) /\ Held(u) = r.msgs /\ Apart(u) /\ Alike(u, r.pid)
  BY OneHeld, Zenon
<1>2. <<>> \in Seq(Request) /\ Held(<<>>) = {}
  BY NoneHeld, Zenon
<1> HIDE DEF u
<1>3. Parts(s, <<>>, b, c, d) /\ Parts(t, u, b, c, d)
  BY <1>1, <1>2, AllParts, Zenon
<1> HIDE DEF s, t
<1>4. t \in Seq(Request)
  BY <1>3, Zenon DEF Parts
<1>5. Held(t) = Held(s) \cup r.msgs
  <2>1. Held(t) = r.msgs \cup Held(b) \cup Held(c) \cup Held(d)
    BY <1>1, <1>3, Zenon DEF Parts
  <2>2. Held(s) = {} \cup Held(b) \cup Held(c) \cup Held(d)
    BY <1>2, <1>3, ZenonT(40) DEF Parts
  <2> QED
    BY <2>1, <2>2, Zenon
<1>6. ASSUME Apart(s), Held(s) \cap r.msgs = {} PROVE Apart(t)
  <2>1. Held(s) = {} \cup Held(b) \cup Held(c) \cup Held(d)
    BY <1>2, <1>3, Zenon DEF Parts
  <2>2. /\ Apart(b) /\ Apart(c) /\ Apart(d)
        /\ Held(b) \cap Held(c) = {} /\ (Held(b) \cup Held(c)) \cap Held(d) = {}
    BY <1>2, <1>3, <1>6, Zenon DEF Parts
  <2> QED
    BY <1>1, <1>3, <1>6, <2>1, <2>2, SMTT(30) DEF Parts
<1>7. ASSUME Alike(s, r.pid) PROVE Alike(t, r.pid)
  BY <1>1, <1>3, <1>7, Zenon DEF Parts
<1> QED
  BY <1>4, <1>5, <1>6, <1>7, Zenon DEF With, s, t, u

(* Requests is what the four places hold. *)
LEMMA RequestsAll ==
    /\ Requests = All(outbufs, waitresps, Reqs(results), Reqs(old))
    /\ Requests' = All(outbufs', waitresps', Reqs(results'), Reqs(old'))
  BY Zenon DEF Requests, All, Reqs

(* Requests is a sequence of requests. *)
LEMMA RequestsType ==
    ASSUME TypeInv
    PROVE  /\ Requests \in Seq(Request) /\ DOMAIN Requests = 1..Len(Requests) /\ Len(Requests) \in Nat
           /\ Reqs(results) \in Seq(Request) /\ Reqs(old) \in Seq(Request)
           /\ outbufs \in Seq(Request) /\ waitresps \in Seq(Request)
<1>1. /\ outbufs \in Seq(Request) /\ waitresps \in Seq(Request)
      /\ Reqs(results) \in Seq(Request) /\ Reqs(old) \in Seq(Request)
  BY ReqsType, Zenon DEF TypeInv
<1>2. All(outbufs, waitresps, Reqs(results), Reqs(old)) \in Seq(Request)
  BY <1>1, AllParts, Zenon DEF Parts
<1>3. Requests \in Seq(Request)
  BY <1>2, RequestsAll, Zenon
<1> QED
  BY <1>1, <1>3

(* The requests in flight are requests. *)
Listed == Requests \in Seq(Request)

(* They are, by their types. *)
LEMMA RequestsListed == TypeInv => Listed
  BY RequestsType, Zenon DEF Listed

(* The messages in flight are those of the requests. *)
LEMMA InflightHeld ==
    ASSUME TypeInv
    PROVE  /\ Inflight = Cardinality(Held(Requests))
           /\ Inflight \in Nat
           /\ Inflight = 0 => Requests = <<>>
<1>1. Inflight = Cardinality(Held(Requests))
  BY RequestsType, Zenon DEF Inflight, Held
<1>2. \A n \in 1..Len(Requests) : Requests[n] \in Request
  BY RequestsType
<1>3. \A n \in 1..Len(Requests) : Requests[n].msgs \in (SUBSET Msgs) \ {{}}
  BY <1>2, Zenon DEF Request
<1>4. Held(Requests) \subseteq Msgs
  BY <1>3, Zenon DEF Held
<1>5. IsFiniteSet(Msgs)
  <2>1. MaxMsgid \in Int
    BY IdempotenceAssumption DEF IdempotenceAssumption
  <2> QED
    BY <2>1, FS_Interval DEF Msgs
<1>6. IsFiniteSet(Held(Requests)) /\ Inflight \in Nat
  BY <1>1, <1>4, <1>5, FS_Subset, FS_CardinalityType, ZenonT(40)
<1>7. ASSUME Inflight = 0 PROVE Requests = <<>>
  <2>1. Held(Requests) = {}
    BY <1>1, <1>6, <1>7, FS_EmptySet, Zenon
  <2>2. \A n \in 1..Len(Requests) : Requests[n].msgs \subseteq Held(Requests)
    BY HeldAt, Zenon
  <2>3. ASSUME NEW n \in 1..Len(Requests) PROVE FALSE
    <3>1. Requests[n].msgs \subseteq {} /\ Requests[n].msgs # {}
      BY <1>3, <2>1, <2>2, Zenon
    <3> QED
      BY <3>1, Zenon
  <2>4. Len(Requests) = 0
    BY <2>3, RequestsType
  <2> QED
    BY <2>4, RequestsType, SMTT(30)
<1> QED
  BY <1>1, <1>6, <1>7, Zenon

(* OneEpochInFlight in terms of Alike. *)
LEMMA EpochAlike ==
    ASSUME TypeInv
    PROVE  OneEpochInFlight <=> Alike(Requests, tp.pid)
  BY RequestsType, Zenon DEF OneEpochInFlight, Alike

(* DrainedBeforeBump adds the epoch of the instance. *)
LEMMA DrainedEpoch ==
    ASSUME TypeInv, OneEpochInFlight
    PROVE  DrainedBeforeBump <=> (Requests = <<>> \/ tp.pid = rk.pid)
<1>1. Requests # <<>> <=> 1 \in 1..Len(Requests)
  BY RequestsType
<1>2. DOMAIN Requests = 1..Len(Requests)
  BY RequestsType, Zenon
<1>3. Requests = <<>> => DOMAIN Requests = {}
  BY <1>1, <1>2
<1> QED
  BY <1>1, <1>2, <1>3, Zenon DEF DrainedBeforeBump, OneEpochInFlight

-----------------------------------------------------------------------------
(* The steps *)

(* What the instance may do while requests are in flight: keep its PID, as *)
(* long as the partition keeps its leader.                                 *)
KeepsPid ==
    \/ rk'.pid = rk.pid /\ (rk'.state = rk.state \/ rk'.state \notin Unassigned)
    \/ MaxMoves # 0

(* A step with no new request keeps the epochs alike. *)
LEMMA DrainStep ==
    ASSUME IInv, TypeInv', tp'.pid = tp.pid \/ Requests' = <<>>,
           \A p : Alike(Requests, p) => Alike(Requests', p),
           Requests = <<>> => Requests' = <<>>,
           KeepsPid \/ Requests' = <<>>
    PROVE  DrainInv'
<1>1. Alike(Requests, tp.pid) /\ (MaxMoves = 0 => Requests = <<>> \/ tp.pid = rk.pid)
  BY EpochAlike, DrainedEpoch, Zenon DEF IInv, DrainInv
<1>2. Alike(Requests', tp'.pid)
  <2>1. Requests' = <<>> => Alike(Requests', tp'.pid)
    BY NoneHeld, Zenon
  <2> QED
    BY <1>1, <2>1, Zenon
<1>3. OneEpochInFlight'
  <2>1. Requests' \in Seq(Request)
    <3>1. Listed'
      BY RequestsListed, PTL
    <3> QED
      BY <3>1, Zenon DEF Listed
  <2>2. DOMAIN Requests' = 1..Len(Requests')
    BY <2>1
  <2> QED
    BY <1>2, <2>2, Zenon DEF OneEpochInFlight, Alike
<1>4. ASSUME MaxMoves = 0
      PROVE  DrainedBeforeBump' /\ (rk'.state \in Unassigned => Requests' = <<>>)
  <2>1. Requests' = <<>> \/ tp'.pid = rk'.pid
    BY <1>1, <1>4, Zenon DEF KeepsPid
  <2>2. DrainedBeforeBump'
    <3>1. Requests' = <<>> => DOMAIN Requests' = {}
      OBVIOUS
    <3> QED
      BY <1>3, <2>1, <3>1, Zenon DEF DrainedBeforeBump, OneEpochInFlight
  <2>3. rk'.state \in Unassigned => Requests' = <<>>
    BY <1>4, Zenon DEF KeepsPid, IInv, DrainInv
  <2> QED
    BY <2>2, <2>3, Zenon
<1> QED
  BY <1>3, <1>4, Zenon DEF DrainInv

(* The requests and the result being handled keep their messages, but X    *)
(* leaves the queues to be reported.                                       *)
LEMMA ShuffleStep ==
    ASSUME IInv, TypeInv', Shuffled(Requests, Requests'),
           NEW X \in SUBSET (msgq \cup xmitq),
           msgq' \cup xmitq' = (msgq \cup xmitq) \ X, msgq' \cap xmitq' = {},
           Away' = Away \cup X, ending'.left \cap Reported' = {},
           msgid' = msgid, tp'.pid = tp.pid \/ Requests = <<>>,
           KeepsPid \/ Requests = <<>>
    PROVE  IInv'
<1>1. /\ Requests \in Seq(Request) /\ Requests' \in Seq(Request) /\ Len(Requests) = Len(Requests')
      /\ Held(Requests') = Held(Requests) /\ (Apart(Requests) => Apart(Requests'))
      /\ \A p : Alike(Requests, p) => Alike(Requests', p)
  BY Zenon DEF Shuffled
<1>2. Requests = <<>> => Requests' = <<>>
  BY <1>1
<1>3. New' = New
  BY Zenon DEF New
<1>4. PlaceInv'
  <2> DEFINE Q == msgq \cup xmitq
             P == msgq' \cup xmitq'
             H == Held(Requests)
  <2>1. /\ H \cap (Q \cup Away \cup New) = {} /\ Q \cap (Away \cup New) = {}
        /\ Away \cap New = {} /\ Msgs = H \cup Q \cup Away \cup New
    BY Zenon DEF IInv, PlaceInv
  <2>2. P = Q \ X /\ X \subseteq Q
    BY Zenon
  <2> HIDE DEF Q, P, H
  <2>3. /\ H \cap (P \cup Away' \cup New') = {} /\ P \cap (Away' \cup New') = {}
        /\ Away' \cap New' = {} /\ Msgs = H \cup P \cup Away' \cup New'
    BY <1>3, <2>1, <2>2, Zenon
  <2>4. Held(Requests') = H /\ P = msgq' \cup xmitq'
    BY <1>1, Zenon DEF H, P
  <2>5. /\ Held(Requests') \cap (msgq' \cup xmitq' \cup Away' \cup New') = {}
        /\ (msgq' \cup xmitq') \cap (Away' \cup New') = {}
        /\ Away' \cap New' = {}
        /\ Msgs = Held(Requests') \cup msgq' \cup xmitq' \cup Away' \cup New'
    BY <2>3, <2>4, Zenon
  <2>6. Apart(Requests')
    BY <1>1, Zenon DEF IInv, PlaceInv
  <2> QED
    BY <2>5, <2>6, Zenon DEF PlaceInv, Held, Apart
<1>5. DrainInv'
  BY <1>1, <1>2, DrainStep, Zenon
<1> QED
  BY <1>4, <1>5, Zenon DEF IInv

(* The thread of the leader reports X, and leaves the one of the previous  *)
(* leader alone.                                                           *)
LEMMA AwayStep ==
    ASSUME IInv, ending' = ending, NEW X, Reported' = Reported \cup X, X \cap ending.left = {}
    PROVE  Away' = Away \cup X /\ ending'.left \cap Reported' = {}
<1>1. ending'.left = ending.left /\ ending.left \cap Reported = {}
  BY Zenon DEF IInv, PlaceInv
<1> QED
  BY <1>1, Zenon DEF Away

(* ShuffleStep for the thread of the leader. *)
LEMMA QueueStep ==
    ASSUME IInv, TypeInv', Shuffled(Requests, Requests'),
           NEW X \in SUBSET (msgq \cup xmitq),
           msgq' \cup xmitq' = (msgq \cup xmitq) \ X, msgq' \cap xmitq' = {},
           Reported' = Reported \cup X, ending' = ending,
           msgid' = msgid, tp'.pid = tp.pid \/ Requests = <<>>,
           KeepsPid \/ Requests = <<>>
    PROVE  IInv'
<1>1. X \cap ending.left = {}
  BY Zenon DEF IInv, PlaceInv, Away
<1>2. Away' = Away \cup X /\ ending'.left \cap Reported' = {}
  BY <1>1, AwayStep, Zenon
<1> QED
  BY <1>2, ShuffleStep, Zenon

(* Requests that stay where they are. *)
LEMMA ShuffledSelf ==
    ASSUME TypeInv, UNCHANGED <<outbufs, waitresps, results, old>>
    PROVE  Shuffled(Requests, Requests') /\ Requests' = Requests
<1>1. Requests' = Requests
  BY Zenon DEF Requests
<1>2. Shuffled(Requests, Requests)
  BY RequestsType, Zenon DEF Shuffled
<1> QED
  BY <1>1, <1>2, Zenon

(* What the steps of the main thread, and of the leader, leave alone. *)
LEMMA MainStep ==
    ASSUME IInv, rk' \in Instance,
           UNCHANGED <<msgid, msgq, xmitq, msg, report, outbufs, waitresps, results, old, ending>>,
           tp' \in Eos, tp'.pid = tp.pid,
           resps' \in Seq(Errors), Len(resps') <= Len(waitresps), KeepsPid \/ Requests = <<>>
    PROVE  IInv'
<1>1. TypeInv'
  BY Zenon DEF IInv, TypeInv
<1>2. Shuffled(Requests, Requests')
  BY ShuffledSelf, Zenon DEF IInv
<1>3. /\ {} \in SUBSET (msgq \cup xmitq) /\ msgq' \cup xmitq' = (msgq \cup xmitq) \ {}
      /\ msgq' \cap xmitq' = {} /\ Reported' = Reported \cup {}
  BY Zenon DEF IInv, PlaceInv, Reported
<1> QED
  BY <1>1, <1>2, <1>3, QueueStep, Zenon

(* The facts of the invariant that most steps need. *)
LEMMA Known ==
    ASSUME IInv
    PROVE  /\ rk \in Instance /\ tp \in Eos /\ msgid \in 0..MaxMsgid
           /\ resps \in Seq(Errors) /\ Len(resps) <= Len(waitresps)
           /\ Len(resps) \in Nat /\ Len(waitresps) \in Nat
           /\ outbufs \in Seq(Request) /\ waitresps \in Seq(Request)
           /\ results \in Seq(Result) /\ old \in Seq(Result)
           /\ rk.state \in Unassigned => MaxMoves # 0 \/ Requests = <<>>
           /\ rk' = rk => KeepsPid
  BY DEF IInv, TypeInv, DrainInv, KeepsPid

(* A step that changes nothing. *)
LEMMA StutterKeeps == ASSUME IInv, UNCHANGED vars PROVE IInv'
  BY MainStep, Known, Zenon DEF vars, queues, network, move

(* The main thread asks for a PID: with one leader no request is in flight then. *)
LEMMA PidFsmKeeps == ASSUME IInv, PidFsm PROVE IInv'
<1>1. (KeepsPid \/ Requests = <<>>) /\ rk \in Instance
  BY Known, Zenon DEF PidFsm, Unassigned, KeepsPid
<1>2. (IF conn THEN "WAIT_PID" ELSE "WAIT_TRANSPORT") \in States
  BY Zenon DEF States, Unassigned
<1>3. rk' \in Instance
  BY <1>1, <1>2, SetStateType, Zenon DEF PidFsm
<1> QED
  BY <1>1, <1>3, MainStep, Known, Zenon DEF PidFsm, queues, network, move

(* The main thread gets a PID. *)
LEMMA PidUpdateKeeps == ASSUME IInv, PidUpdate PROVE IInv'
<1> DEFINE k == [rk EXCEPT !.pid = @ + 1]
<1>1. (KeepsPid \/ Requests = <<>>) /\ rk \in Instance
  BY Known, Zenon DEF PidUpdate, Unassigned, KeepsPid
<1>2. k \in Instance
  BY <1>1 DEF Instance
<1>3. "ASSIGNED" \in States /\ rk' = SetState(k, "ASSIGNED")
  BY Zenon DEF States, PidUpdate
<1> HIDE DEF k
<1>4. rk' \in Instance
  BY <1>2, <1>3, SetStateType, Zenon
<1> QED
  BY <1>1, <1>4, MainStep, Known, Zenon DEF PidUpdate, queues, network, move

(* The main thread gets no PID. *)
LEMMA PidFailedKeeps == ASSUME IInv, PidFailed PROVE IInv'
<1> DEFINE k == Fatal(rk, "__UNSUPPORTED_FEATURE")
<1>1. (KeepsPid \/ Requests = <<>>) /\ rk \in Instance
  BY Known, Zenon DEF PidFailed, Unassigned, KeepsPid
<1>2. k \in Instance
  BY <1>1, FatalType, Zenon DEF Fatals
<1>3. /\ "REQ_PID" \in States /\ "FATAL_ERROR" \in States
      /\ rk' = SetState(rk, "REQ_PID") \/ rk' = SetState(k, "FATAL_ERROR")
  BY Zenon DEF States, Unassigned, PidFailed
<1> HIDE DEF k
<1>4. rk' \in Instance
  BY <1>1, <1>2, <1>3, SetStateType, Zenon
<1> QED
  BY <1>1, <1>4, MainStep, Known, ZenonT(40) DEF PidFailed, queues, network, move

(* The broker thread connects again. *)
LEMMA ConnectKeeps == ASSUME IInv, Connect PROVE IInv'
  BY MainStep, Known, Zenon DEF Connect, queues, move

(* The thread of the new leader waits for the old requests. *)
LEMMA JoinKeeps == ASSUME IInv, Join PROVE IInv'
<1>1. tp' \in Eos /\ tp'.pid = tp.pid
  BY Known, Zenon DEF Join, Eos
<1> QED
  BY <1>1, MainStep, Known, Zenon DEF Join, queues, network

(* A request of a lost connection reaches the leader. *)
LEMMA WriteStaleKeeps == ASSUME IInv, NEW b \in stale, WriteStale(b) PROVE IInv'
  BY MainStep, Known, Zenon DEF WriteStale, queues, move

(* The leader forgets the PID. *)
LEMMA ForgetKeeps == ASSUME IInv, Forget PROVE IInv'
  BY MainStep, Known, Zenon DEF Forget, queues, network, move

(* The leader answers the requests in order, one response each. *)
LEMMA AnswerKeeps == ASSUME IInv, Answer PROVE IInv'
<1> DEFINE b == waitresps[Len(resps) + 1]
<1>1. PICK err \in Errors : resps' = Append(resps, err)
  <2>1. \A err \in Verdicts(b) : err \in Errors
    BY Zenon DEF Verdicts, Errors
  <2>2. \A err \in Rejections : err \in Errors
    BY Zenon DEF Rejections, Errors
  <2>3. "NOT_ENOUGH_REPLICAS_AFTER_APPEND" \in Errors
    BY Zenon DEF Errors
  <2> QED
    BY <2>1, <2>2, <2>3, Zenon DEF Answer
<1>2. Append(resps, err) \in Seq(Errors) /\ Len(Append(resps, err)) = Len(resps) + 1
  BY Known, SMTT(30)
<1>3. Len(resps) < Len(waitresps) /\ Len(resps') <= Len(waitresps)
  BY <1>1, <1>2, Known, SMTT(30) DEF Answer
<1> QED
  BY <1>1, <1>2, <1>3, MainStep, Known, ZenonT(40) DEF Answer, queues, move

(* A new message goes to the partition queue. *)
LEMMA ProduceKeeps == ASSUME IInv, Produce PROVE IInv'
<1>1. /\ msgid \in 0..MaxMsgid /\ msgid < MaxMsgid /\ msgid' = msgid + 1 /\ msgq' = msgq \cup {msgid'}
      /\ UNCHANGED <<xmitq, msg, report, tp, rk, outbufs, waitresps, resps, results, old, ending>>
  BY Known, Zenon DEF Produce, network, move
<1>2. msgid' \in New /\ msgid' \in 0..MaxMsgid /\ New' = New \ {msgid'}
  <2>1. MaxMsgid \in Nat
    BY IdempotenceAssumption, Zenon DEF IdempotenceAssumption
  <2>2. msgid \in Nat /\ msgid' \in 0..MaxMsgid /\ msgid' \in Msgs /\ msgid' > msgid
    BY <1>1, <2>1, SMTT(30) DEF Msgs
  <2>3. \A m \in Msgs : m > msgid' <=> m > msgid /\ m # msgid'
    BY <1>1, <2>1, <2>2, SMTT(30) DEF Msgs
  <2> QED
    BY <2>2, <2>3, Zenon DEF New
<1>3. Requests' = Requests /\ Reported' = Reported /\ Away' = Away
  BY <1>1, ShuffledSelf, Zenon DEF IInv, Reported, Away
<1>4. TypeInv'
  <2>1. msgq' \subseteq Msgs
    BY <1>1, <1>2, ZenonT(40) DEF IInv, TypeInv, New
  <2> QED
    BY <1>1, <1>2, <2>1, ZenonT(40) DEF IInv, TypeInv
<1>5. PlaceInv'
  <2> DEFINE H == Held(Requests)
             n == msgid'
  <2>1. /\ H \cap (msgq \cup xmitq \cup Away \cup New) = {} /\ msgq \cap xmitq = {}
        /\ (msgq \cup xmitq) \cap (Away \cup New) = {}
        /\ Away \cap New = {} /\ Msgs = H \cup msgq \cup xmitq \cup Away \cup New
        /\ Apart(Requests) /\ ending'.left \cap Reported' = {}
    BY <1>1, <1>3, Zenon DEF IInv, PlaceInv
  <2>2. msgq' = msgq \cup {n} /\ n \in New /\ New' = New \ {n} /\ xmitq' = xmitq
    BY <1>1, <1>2, Zenon
  <2>3. Held(Requests') = H /\ Apart(Requests')
    BY <1>3, <2>1, Zenon
  <2> HIDE DEF H, n
  <2>4. /\ H \cap (msgq' \cup xmitq' \cup Away \cup New') = {} /\ msgq' \cap xmitq' = {}
        /\ (msgq' \cup xmitq') \cap (Away \cup New') = {}
        /\ Away \cap New' = {} /\ Msgs = H \cup msgq' \cup xmitq' \cup Away \cup New'
    BY <2>1, <2>2, ZenonT(40)
  <2> QED
    BY <1>3, <2>1, <2>3, <2>4, ZenonT(40) DEF PlaceInv, Held, Apart
<1>6. DrainInv'
  BY <1>1, <1>3, Zenon DEF IInv, DrainInv, DrainedBeforeBump, OneEpochInFlight
<1> QED
  BY <1>4, <1>5, <1>6, Zenon DEF IInv

(* The scan for timed-out messages: without requests in flight it ends the drain at once. *)
LEMMA MsgTimeoutKeeps ==
    ASSUME IInv, NEW k \in Msgs, MsgTimeout(k)
    PROVE  IInv'
<1> DEFINE expired == {m \in msgq \cup xmitq : m <= k}
           bump    == SetState(rk, "DRAIN_BUMP")
<1>1. /\ report' = [m \in Msgs |-> IF m \in expired THEN msg[m].status ELSE report[m]]
      /\ msgq' = msgq \ expired /\ xmitq' = xmitq \ expired
      /\ rk' \in {rk, bump} \/ (Inflight = 0 /\ rk' = DrainDone(bump))
      /\ UNCHANGED <<msgid, msg, tp, outbufs, waitresps, resps, results, old, ending>>
  BY Zenon DEF MsgTimeout, Drained, network, move
<1>2. bump \in Instance /\ bump.pid = rk.pid /\ bump.state \notin Unassigned
  <2>1. "DRAIN_BUMP" \in States
    BY Zenon DEF States
  <2>2. bump \in Instance /\ bump.pid = rk.pid /\ bump.state \in {"DRAIN_BUMP", "FATAL_ERROR"}
    BY <2>1, Known, SetStateType, Zenon
  <2> QED
    BY <2>2, Zenon DEF Unassigned
<1> HIDE DEF bump
<1>3. rk' \in Instance /\ (KeepsPid \/ Requests = <<>>)
  <2>1. Inflight = 0 => Requests = <<>>
    BY InflightHeld, Zenon DEF IInv
  <2>2. rk \in Instance /\ DrainDone(bump) \in Instance
    BY <1>2, Known, DrainDoneType, Zenon
  <2> QED
    BY <1>1, <1>2, <2>1, <2>2, ZenonT(40) DEF KeepsPid
<1>4. expired \in SUBSET (msgq \cup xmitq) /\ expired \in SUBSET Msgs
  BY Zenon DEF IInv, TypeInv
<1> HIDE DEF expired
<1>5. report' \in [Msgs -> Statuses \cup {"none"}] /\ Reported' = Reported \cup expired
  BY <1>1, <1>4, ReportsMore, Zenon DEF IInv
<1>6. TypeInv'
  BY <1>1, <1>3, <1>5, ZenonT(40) DEF IInv, TypeInv
<1>7. Shuffled(Requests, Requests')
  BY <1>1, ShuffledSelf, Zenon DEF IInv
<1>8. msgq' \cup xmitq' = (msgq \cup xmitq) \ expired /\ msgq' \cap xmitq' = {}
  BY <1>1, Zenon DEF IInv, PlaceInv
<1> QED
  BY <1>1, <1>3, <1>4, <1>5, <1>6, <1>7, <1>8, QueueStep, Zenon

(* A request leaves outbufs for waitresps. *)
LEMMA SendKeeps == ASSUME IInv, Send PROVE IInv'
<1>1. /\ results = <<>> /\ outbufs # <<>>
      /\ waitresps' = Append(waitresps, Head(outbufs)) /\ outbufs' = Tail(outbufs)
      /\ UNCHANGED <<msgid, msgq, xmitq, msg, report, tp, rk, resps, results, old, ending>>
  BY Zenon DEF Send, queues, move
<1>2. /\ Head(outbufs) \in Request /\ Tail(outbufs) \in Seq(Request)
      /\ Append(waitresps, Head(outbufs)) \in Seq(Request)
      /\ Len(Append(waitresps, Head(outbufs))) = Len(waitresps) + 1
  BY <1>1, Known, SMTT(30)
<1>3. TypeInv'
  <2>1. Len(resps') <= Len(waitresps')
    BY <1>1, <1>2, Known, SMTT(30)
  <2> QED
    BY <1>1, <1>2, <2>1, ZenonT(40) DEF IInv, TypeInv
<1>4. Reqs(results) = <<>> /\ Reqs(results') = <<>> /\ Reqs(old') = Reqs(old)
  BY <1>1, SMTT(30) DEF Reqs
<1>5. Requests = All(outbufs, waitresps, <<>>, Reqs(old))
  BY <1>4, RequestsAll, Zenon
<1>6. Requests' = All(Tail(outbufs), Append(waitresps, Head(outbufs)), <<>>, Reqs(old))
  BY <1>1, <1>4, RequestsAll, ZenonT(40)
<1>7. Shuffled(Requests, Requests')
  BY <1>1, <1>5, <1>6, RequestsType, SendShuffles, ZenonT(40) DEF IInv
<1>8. /\ {} \in SUBSET (msgq \cup xmitq) /\ msgq' \cup xmitq' = (msgq \cup xmitq) \ {}
      /\ msgq' \cap xmitq' = {} /\ Reported' = Reported \cup {}
  BY <1>1, Zenon DEF IInv, PlaceInv, Reported
<1> QED
  BY <1>1, <1>3, <1>7, <1>8, Known, QueueStep, ZenonT(40)

(* The requests in outbufs are handed to their callbacks. *)
LEMMA PurgeOutbufsKeeps == ASSUME IInv, PurgeOutbufs PROVE IInv'
<1>1. /\ results = <<>>
      /\ results' = Failed(outbufs, "__RETRY", FALSE) /\ outbufs' = <<>>
      /\ UNCHANGED <<msgid, msgq, xmitq, msg, report, tp, rk, waitresps, resps, old, ending>>
  BY Zenon DEF PurgeOutbufs, queues, move
<1>2. results' \in Seq(Result) /\ Reqs(results') = outbufs /\ <<>> \in Seq(Request)
  <2>1. "__RETRY" \in Errors /\ FALSE \in BOOLEAN
    BY Zenon DEF Errors
  <2> QED
    BY <1>1, <2>1, Known, ReqsFailed, NoneHeld, ZenonT(40)
<1>3. TypeInv'
  BY <1>1, <1>2, ZenonT(40) DEF IInv, TypeInv
<1>4. Reqs(results) = <<>> /\ Reqs(old') = Reqs(old)
  BY <1>1 DEF Reqs
<1>5. Requests = All(outbufs, waitresps, <<>>, Reqs(old))
  BY <1>4, RequestsAll, Zenon
<1>6. Requests' = All(<<>>, waitresps, outbufs, Reqs(old))
  BY <1>1, <1>2, <1>4, RequestsAll, Zenon
<1>7. Shuffled(Requests, Requests')
  BY <1>5, <1>6, RequestsType, PurgeShuffles, Zenon DEF IInv
<1>8. /\ {} \in SUBSET (msgq \cup xmitq) /\ msgq' \cup xmitq' = (msgq \cup xmitq) \ {}
      /\ msgq' \cap xmitq' = {} /\ Reported' = Reported \cup {}
  BY <1>1, Zenon DEF IInv, PlaceInv, Reported
<1> QED
  BY <1>1, <1>3, <1>7, <1>8, Known, QueueStep, ZenonT(40)

(* A purge after a fatal error also reports the messages of the queues. *)
LEMMA PurgeQueuesKeeps == ASSUME IInv, PurgeQueues PROVE IInv'
<1> DEFINE X == msgq \cup xmitq
<1>1. /\ results = <<>> /\ rk' = [rk EXCEPT !.purge = FALSE]
      /\ results' = Failed(outbufs, "__PURGE_QUEUE", FALSE) /\ outbufs' = <<>>
      /\ report' = [m \in Msgs |-> IF m \in X THEN msg[m].status ELSE report[m]]
      /\ msgq' = {} /\ xmitq' = {}
      /\ UNCHANGED <<msgid, msg, tp, waitresps, resps, old, ending>>
  BY Zenon DEF PurgeQueues, queues, move
<1>2. results' \in Seq(Result) /\ Reqs(results') = outbufs /\ <<>> \in Seq(Request)
  <2>1. "__PURGE_QUEUE" \in Errors /\ FALSE \in BOOLEAN
    BY Zenon DEF Errors
  <2> QED
    BY <1>1, <2>1, Known, ReqsFailed, NoneHeld, Zenon
<1>3. rk' \in Instance /\ KeepsPid
  BY <1>1, Known, Zenon DEF Instance, KeepsPid
<1>4. X \in SUBSET (msgq \cup xmitq) /\ X \in SUBSET Msgs
  BY Zenon DEF IInv, TypeInv
<1> HIDE DEF X
<1>5. report' \in [Msgs -> Statuses \cup {"none"}] /\ Reported' = Reported \cup X
  BY <1>1, <1>4, ReportsMore, Zenon DEF IInv
<1>6. TypeInv'
  BY <1>1, <1>2, <1>3, <1>5, ZenonT(40) DEF IInv, TypeInv
<1>7. Shuffled(Requests, Requests')
  <2>1. Reqs(results) = <<>> /\ Reqs(old') = Reqs(old)
    BY <1>1, SMTT(30) DEF Reqs
  <2>2. Requests = All(outbufs, waitresps, <<>>, Reqs(old))
    BY <2>1, RequestsAll, Zenon
  <2>3. Requests' = All(<<>>, waitresps, outbufs, Reqs(old))
    BY <1>1, <1>2, <2>1, RequestsAll, Zenon
  <2> QED
    BY <2>2, <2>3, RequestsType, PurgeShuffles, Zenon DEF IInv
<1>8. msgq' \cup xmitq' = (msgq \cup xmitq) \ X /\ msgq' \cap xmitq' = {}
  BY <1>1, Zenon DEF X
<1> QED
  BY <1>1, <1>3, <1>4, <1>5, <1>6, <1>7, <1>8, QueueStep, ZenonT(40)

(* A lost connection or a timeout: the requests that were sent, then the others. *)
LEMMA FailKeeps ==
    ASSUME IInv, NEW err \in {"__TRANSPORT", "__TIMED_OUT"}, Fail(err)
    PROVE  IInv'
<1> DEFINE unsent == IF err = "__TIMED_OUT" THEN "__TIMED_OUT_QUEUE" ELSE err
           f      == Failed(waitresps, err, TRUE)
           g      == Failed(outbufs, unsent, FALSE)
<1>1. /\ results = <<>> /\ results' = f \o g
      /\ outbufs' = <<>> /\ waitresps' = <<>> /\ resps' = <<>>
      /\ UNCHANGED <<msgid, msgq, xmitq, msg, report, tp, rk, old, ending>>
  BY Zenon DEF Fail, queues, move
<1>2. /\ f \in Seq(Result) /\ Reqs(f) = waitresps
      /\ g \in Seq(Result) /\ Reqs(g) = outbufs
  <2>1. err \in Errors /\ unsent \in Errors /\ FALSE \in BOOLEAN /\ TRUE \in BOOLEAN
    BY Zenon DEF Errors
  <2> HIDE DEF unsent
  <2> QED
    BY <2>1, Known, ReqsFailed, Zenon
<1> HIDE DEF f, g
<1>3. results' \in Seq(Result) /\ Reqs(results') = waitresps \o outbufs
  BY <1>1, <1>2, ReqsJoint, Zenon
<1>4. TypeInv'
  <2>1. <<>> \in Seq(Request) /\ <<>> \in Seq(Errors) /\ Len(<<>>) <= Len(<<>>)
    OBVIOUS
  <2> QED
    BY <1>1, <1>3, <2>1, ZenonT(40) DEF IInv, TypeInv
<1>5. Shuffled(Requests, Requests')
  <2>1. Reqs(results) = <<>> /\ Reqs(old') = Reqs(old)
    BY <1>1 DEF Reqs
  <2>2. Requests = All(outbufs, waitresps, <<>>, Reqs(old))
    BY <2>1, RequestsAll, Zenon
  <2>3. Requests' = All(<<>>, <<>>, waitresps \o outbufs, Reqs(old))
    BY <1>1, <1>3, <2>1, RequestsAll, ZenonT(40)
  <2> QED
    BY <2>2, <2>3, RequestsType, FailShuffles, Zenon DEF IInv
<1>6. /\ {} \in SUBSET (msgq \cup xmitq) /\ msgq' \cup xmitq' = (msgq \cup xmitq) \ {}
      /\ msgq' \cap xmitq' = {} /\ Reported' = Reported \cup {}
  BY <1>1, Zenon DEF IInv, PlaceInv, Reported
<1> QED
  BY <1>1, <1>4, <1>5, <1>6, Known, QueueStep, ZenonT(40)

(* A change of leader: the requests that were sent stay with the old thread. *)
LEMMA LeaveKeeps == ASSUME IInv, Leave PROVE IInv'
<1>1. /\ results = <<>> /\ old = <<>>
      /\ results' = Failed(outbufs, "__RETRY", FALSE) /\ outbufs' = <<>>
      /\ waitresps' = <<>> /\ resps' = <<>>
      /\ msgq' = msgq \cup xmitq /\ xmitq' = {}
      /\ UNCHANGED <<msgid, msg, report, tp, rk, ending>>
  BY Zenon DEF Leave, queues, move
<1>2. PICK err \in {"NOT_LEADER_FOR_PARTITION", "__TRANSPORT"}, kept \in 0..Len(resps) :
         old' = [n \in DOMAIN waitresps |->
                    [req |-> waitresps[n], sent |-> TRUE,
                     err |-> IF n <= kept THEN resps[n] ELSE err]]
  BY Zenon DEF Leave
<1>3. results' \in Seq(Result) /\ Reqs(results') = outbufs
  <2>1. "__RETRY" \in Errors /\ FALSE \in BOOLEAN
    BY Zenon DEF Errors
  <2> QED
    BY <1>1, <2>1, Known, ReqsFailed, Zenon
<1>4. old' \in Seq(Result) /\ Reqs(old') = waitresps
  <2> DEFINE E(n) == IF n <= kept THEN resps[n] ELSE err
  <2>1. /\ DOMAIN waitresps = 1..Len(waitresps) /\ Len(waitresps) \in Nat
        /\ \A n \in 1..Len(waitresps) : waitresps[n] \in Request
    BY Known
  <2>2. \A n \in 1..Len(waitresps) : E(n) \in Errors
    <3>1. err \in Errors
      BY Zenon DEF Errors
    <3>2. \A n \in 1..Len(resps) : resps[n] \in Errors
      BY Known
    <3>3. \A n \in 1..Len(waitresps) : n <= kept => n \in 1..Len(resps)
      BY Known
    <3> QED
      BY <3>1, <3>2, <3>3, Zenon
  <2>3. old' = [n \in 1..Len(waitresps) |-> [req |-> waitresps[n], sent |-> TRUE, err |-> E(n)]]
    BY <1>2, <2>1, Zenon
  <2> HIDE DEF E
  <2>4. \A n \in 1..Len(waitresps) : [req |-> waitresps[n], sent |-> TRUE, err |-> E(n)] \in Result
    BY <2>1, <2>2, Zenon DEF Result
  <2>5. old' \in Seq(Result) /\ DOMAIN old' = 1..Len(waitresps)
    BY <2>1, <2>3, <2>4, SMTT(30)
  <2>6. \A n \in 1..Len(waitresps) : old'[n].req = waitresps[n]
    BY <2>3, Zenon
  <2>7. Reqs(old') = [n \in 1..Len(waitresps) |-> waitresps[n]]
    BY <2>5, <2>6, Zenon DEF Reqs
  <2> QED
    BY <2>1, <2>5, <2>7, Known, SMTT(30)
<1>5. TypeInv'
  <2>1. <<>> \in Seq(Request) /\ <<>> \in Seq(Errors) /\ Len(<<>>) <= Len(<<>>)
    OBVIOUS
  <2>2. msgq' \subseteq Msgs /\ xmitq' \subseteq Msgs
    BY <1>1, Zenon DEF IInv, TypeInv
  <2> QED
    BY <1>1, <1>3, <1>4, <2>1, <2>2, ZenonT(40) DEF IInv, TypeInv
<1>6. Shuffled(Requests, Requests')
  <2>1. Reqs(results) = <<>> /\ Reqs(old) = <<>>
    BY <1>1 DEF Reqs
  <2>2. Requests = All(outbufs, waitresps, <<>>, <<>>)
    BY <2>1, RequestsAll, Zenon
  <2>3. Requests' = All(<<>>, <<>>, outbufs, waitresps)
    BY <1>1, <1>3, <1>4, RequestsAll, Zenon
  <2> QED
    BY <2>2, <2>3, RequestsType, LeaveShuffles, ZenonT(40) DEF IInv
<1>7. /\ {} \in SUBSET (msgq \cup xmitq) /\ msgq' \cup xmitq' = (msgq \cup xmitq) \ {}
      /\ msgq' \cap xmitq' = {} /\ Reported' = Reported \cup {}
  BY <1>1, Zenon DEF Reported
<1> QED
  BY <1>1, <1>5, <1>6, <1>7, Known, QueueStep, ZenonT(40)

(* The PID a round of the broker thread works with: while the partition    *)
(* keeps its leader, the one of the instance.                              *)
RoundPid(pid) == pid \in Nat /\ (MaxMoves = 0 => pid = rk.pid /\ rk.state = "ASSIGNED")

(* The state of the partition after toppar_producer_serve() with a PID. *)
LEMMA ServedEos ==
    ASSUME IInv, NEW pid \in Nat, NEW queue \in (SUBSET Msgs) \ {{}}, ~AwaitsOldPid(pid),
           tp' = IF pid # tp.pid THEN PidChange([tp EXCEPT !.drain = FALSE], pid, queue)
                                 ELSE [tp EXCEPT !.drain = FALSE]
    PROVE  /\ tp' \in Eos /\ tp'.pid = pid /\ Alike(Requests, pid)
           /\ tp'.pid = tp.pid \/ Requests = <<>>
<1> DEFINE eos == [tp EXCEPT !.drain = FALSE]
<1>1. eos \in Eos /\ eos.pid = tp.pid
  BY Known, Zenon DEF Eos
<1>2. tp' = IF pid # tp.pid THEN PidChange(eos, pid, queue) ELSE eos
  BY Zenon
<1> HIDE DEF eos
<1>3. pid # tp.pid => Requests = <<>>
  <2>1. pid # tp.pid => ~(Inflight > 0)
    BY Zenon DEF AwaitsOldPid
  <2>2. Inflight \in Nat /\ (Inflight = 0 => Requests = <<>>)
    BY InflightHeld, Zenon DEF IInv
  <2> QED
    BY <2>1, <2>2
<1>4. Min(queue) \in Int
  BY LeastGreatest DEF Msgs
<1>5. tp' \in Eos /\ tp'.pid = pid
  <2>1. CASE pid # tp.pid
    <3> DEFINE n == Min(queue)
    <3>1. n \in Int /\ tp' = [eos EXCEPT !.pid = pid, !.base = n, !.ack = 0, !.err = 0]
      BY <1>2, <1>4, <2>1, Zenon DEF PidChange
    <3> HIDE DEF n
    <3>2. tp' = [pid |-> pid, base |-> n, ack |-> 0, err |-> 0, acked |-> eos.acked, drain |-> eos.drain]
      BY <1>1, <3>1, Zenon DEF Eos
    <3>3. eos.acked \in Int /\ eos.drain \in BOOLEAN
      BY <1>1, Zenon DEF Eos
    <3>4. tp'.pid = pid
      BY <3>2
    <3>5. tp' \in Eos
      BY ONLY pid \in Nat, <3>1, <3>2, <3>3, SMTT(30) DEF Eos
    <3> QED
      BY <3>4, <3>5, Zenon
  <2>2. CASE pid = tp.pid
    BY <1>1, <1>2, <2>2, Zenon
  <2> QED
    BY <2>1, <2>2, Zenon
<1>6. Alike(Requests, pid)
  <2>1. Alike(Requests, tp.pid)
    BY EpochAlike, Zenon DEF IInv, DrainInv
  <2>2. Requests = <<>> => Alike(Requests, pid)
    BY NoneHeld, Zenon
  <2> QED
    BY <1>3, <2>1, <2>2, Zenon
<1> QED
  BY <1>3, <1>5, <1>6, ZenonT(40)

(* A new request in outbufs, of messages the broker thread has taken. *)
LEMMA RequestStep ==
    ASSUME IInv, outbufs = <<>>, NEW queue, queue \cup msgq' = xmitq \cup msgq, queue \cap msgq' = {},
           NEW r \in Request, r.msgs \subseteq queue,
           r.pid = tp'.pid, RoundPid(r.pid), Alike(Requests, r.pid), tp' \in Eos,
           outbufs' = <<r>>, xmitq' = queue \ r.msgs,
           UNCHANGED <<msgid, msg, report, rk, waitresps, resps, results, old, ending>>
    PROVE  IInv'
<1>1. Reqs(results') = Reqs(results) /\ Reqs(old') = Reqs(old)
  BY Zenon DEF Reqs
<1> DEFINE c == Reqs(results)
           d == Reqs(old)
           s == All(<<>>, waitresps, c, d)
           t == All(<<r>>, waitresps, c, d)
<1>2. Requests = s /\ Requests' = t
  BY <1>1, RequestsAll, Zenon
<1>3. waitresps \in Seq(Request) /\ c \in Seq(Request) /\ d \in Seq(Request)
  BY RequestsType, Zenon DEF IInv
<1> HIDE DEF c, d
<1>4. /\ Apart(Requests)
      /\ Held(Requests) \cap (msgq \cup xmitq \cup Away \cup New) = {}
      /\ (msgq \cup xmitq) \cap (Away \cup New) = {}
      /\ Away \cap New = {} /\ ending.left \cap Reported = {}
      /\ Msgs = Held(Requests) \cup msgq \cup xmitq \cup Away \cup New
  BY Zenon DEF IInv, PlaceInv
<1>5. Apart(s) /\ Alike(s, r.pid) /\ Held(s) \cap r.msgs = {}
  <2>1. Held(Requests) \cap r.msgs = {}
    BY <1>4, Zenon
  <2> QED
    BY <1>2, <1>4, <2>1, Zenon
<1>6. t \in Seq(Request) /\ Apart(t) /\ Alike(t, r.pid) /\ Held(t) = Held(s) \cup r.msgs
  <2>1. With(s, r, t)
    BY <1>3, PutWith, Zenon
  <2> HIDE DEF s, t
  <2> QED
    BY <1>5, <2>1, Zenon DEF With
<1> HIDE DEF s, t
<1>7. TypeInv'
  <2>1. <<r>> \in Seq(Request)
    OBVIOUS
  <2>2. msgq' \subseteq Msgs /\ xmitq' \subseteq Msgs
    BY Zenon DEF IInv, TypeInv
  <2> QED
    BY <2>1, <2>2, ZenonT(40) DEF IInv, TypeInv
<1>8. PlaceInv'
  <2>1. Away' = Away /\ New' = New /\ ending'.left \cap Reported' = {}
    BY <1>4, Zenon DEF Reported, New, Away
  <2> DEFINE H == Held(Requests)
             Q == msgq \cup xmitq
             R == Away
             N == New
             b == r.msgs
  <2>2. /\ H \cap (Q \cup R \cup N) = {} /\ Q \cap (R \cup N) = {} /\ R \cap N = {}
        /\ Msgs = H \cup Q \cup R \cup N /\ b \subseteq queue
        /\ Q = queue \cup msgq' /\ queue \cap msgq' = {}
    BY <1>4, Zenon
  <2>3. xmitq' = queue \ b
    BY Zenon
  <2>4. Held(Requests') = H \cup b /\ Apart(Requests')
    BY <1>2, <1>6, Zenon
  <2> HIDE DEF H, Q, R, N, b
  <2>5. /\ (H \cup b) \cap (msgq' \cup xmitq' \cup R \cup N) = {}
        /\ msgq' \cap xmitq' = {} /\ (msgq' \cup xmitq') \cap (R \cup N) = {}
        /\ R \cap N = {} /\ Msgs = (H \cup b) \cup msgq' \cup xmitq' \cup R \cup N
    BY <2>2, <2>3, Zenon
  <2>6. /\ Held(Requests') \cap (msgq' \cup xmitq' \cup Away' \cup New') = {}
        /\ (msgq' \cup xmitq') \cap (Away' \cup New') = {} /\ Away' \cap New' = {}
        /\ Msgs = Held(Requests') \cup msgq' \cup xmitq' \cup Away' \cup New'
    BY <2>1, <2>4, <2>5, Zenon DEF R, N
  <2> QED
    BY <2>1, <2>4, <2>5, <2>6, ZenonT(40) DEF PlaceInv, Held, Apart
<1>9. DrainInv'
  <2>1. DOMAIN Requests' = 1..Len(Requests')
    BY <1>2, <1>6, SMTT(30)
  <2>2. OneEpochInFlight' /\ (MaxMoves = 0 => DrainedBeforeBump')
    BY <1>2, <1>6, <2>1, Zenon DEF OneEpochInFlight, DrainedBeforeBump, Alike, RoundPid
  <2>3. MaxMoves = 0 => rk'.state \notin Unassigned
    BY Zenon DEF RoundPid, Unassigned
  <2> QED
    BY <2>2, <2>3, Zenon DEF DrainInv
<1> QED
  BY <1>7, <1>8, <1>9, Zenon DEF IInv

(* The broker thread takes messages, and sends none. *)
LEMMA MoveStep ==
    ASSUME IInv, NEW queue, queue \cup msgq' = xmitq \cup msgq, queue \cap msgq' = {}, xmitq' = queue,
           tp' \in Eos, tp'.pid = tp.pid \/ Requests = <<>>,
           rk' \in Instance, rk'.pid = rk.pid, rk'.state = rk.state,
           UNCHANGED <<msgid, msg, report, outbufs, waitresps, resps, results, old, ending>>
    PROVE  IInv'
<1>1. TypeInv'
  <2>1. msgq' \subseteq Msgs /\ xmitq' \subseteq Msgs
    BY Zenon DEF IInv, TypeInv
  <2> QED
    BY <2>1, ZenonT(40) DEF IInv, TypeInv
<1>2. Shuffled(Requests, Requests')
  BY ShuffledSelf, Zenon DEF IInv
<1>3. /\ {} \in SUBSET (msgq \cup xmitq) /\ msgq' \cup xmitq' = (msgq \cup xmitq) \ {}
      /\ msgq' \cap xmitq' = {} /\ Reported' = Reported \cup {}
  BY Zenon DEF Reported
<1>4. KeepsPid
  BY Zenon DEF KeepsPid
<1> QED
  BY <1>1, <1>2, <1>3, <1>4, QueueStep, ZenonT(40)

(* toppar_producer_serve() moves the first of the messages it has taken to *)
(* a request.  A new PID is taken only when no request is in flight.       *)
LEMMA ServeQueueKeeps ==
    ASSUME IInv, outbufs = <<>>, NEW pid, RoundPid(pid),
           NEW queue, queue \cup msgq' = xmitq \cup msgq, queue \cap msgq' = {}, ServeQueue(pid, queue)
    PROVE  IInv'
<1> DEFINE eos == [tp EXCEPT !.drain = FALSE]
<1>1. UNCHANGED <<msgid, msg, report, waitresps, resps, results, old, ending>>
  BY Zenon DEF ServeQueue, move
<1>2. rk \in Instance /\ tp \in Eos /\ queue \subseteq Msgs /\ pid \in Nat
  BY Known, ZenonT(40) DEF IInv, TypeInv, RoundPid
<1>3. CASE xmitq' = queue /\ UNCHANGED <<tp, rk, outbufs>>
  BY <1>1, <1>2, <1>3, MoveStep, Zenon
<1>4. CASE xmitq' = queue /\ tp' = eos /\ UNCHANGED <<rk, outbufs>>
  <2>1. tp' \in Eos /\ tp'.pid = tp.pid
    BY <1>2, <1>4, Zenon DEF Eos
  <2> QED
    BY <1>1, <1>2, <1>4, <2>1, MoveStep, ZenonT(40)
<1>5. CASE /\ queue # {} /\ ~AwaitsOldPid(pid)
           /\ tp' = IF pid # tp.pid THEN PidChange(eos, pid, queue) ELSE eos
           /\ (xmitq' = queue /\ UNCHANGED <<rk, outbufs>>) \/ ProduceRequest(pid, queue, tp')
  <2>1. queue \in (SUBSET Msgs) \ {{}}
    BY <1>2, <1>5, Zenon
  <2>2. /\ tp' \in Eos /\ tp'.pid = pid /\ Alike(Requests, pid)
        /\ tp'.pid = tp.pid \/ Requests = <<>>
    BY <1>2, <1>5, <2>1, ServedEos, ZenonT(40)
  <2>3. CASE xmitq' = queue /\ UNCHANGED <<rk, outbufs>>
    BY <1>1, <1>2, <2>2, <2>3, MoveStep, ZenonT(40)
  <2>4. CASE ProduceRequest(pid, queue, tp')
    <3>1. PICK batch \in Batches(queue) :
             \/ /\ outbufs' = <<[msgs |-> batch, seq |-> Sequence(Min(batch), tp'), pid |-> pid]>>
                /\ xmitq' = queue \ batch
                /\ rk' = rk
             \/ /\ rk' = Fatal(rk, "__INCONSISTENT")
                /\ xmitq' = queue
                /\ outbufs' = outbufs
      BY <2>4, Zenon DEF ProduceRequest
    <3>2. batch \in (SUBSET Msgs) \ {{}} /\ batch \subseteq queue
      BY <2>1, BatchOf, Zenon DEF IInv
    <3> DEFINE r == [msgs |-> batch, seq |-> Sequence(Min(batch), tp'), pid |-> pid]
    <3>3. CASE outbufs' = <<r>> /\ xmitq' = queue \ batch /\ rk' = rk
      <4>1. Sequence(Min(batch), tp') \in Int
        <5>1. Min(batch) \in Int
          BY <3>2, LeastGreatest, SMTT(30) DEF Msgs
        <5>2. tp'.base \in Int
          BY <2>2, Zenon DEF Eos
        <5> QED
          BY <5>1, <5>2, SMTT(30) DEF Sequence
      <4>2. r \in Request /\ r.msgs = batch /\ r.pid = pid
        BY <1>2, <3>2, <4>1, ZenonT(40) DEF Request
      <4> HIDE DEF r
      <4>3. xmitq' = queue \ r.msgs /\ r.msgs \subseteq queue /\ RoundPid(r.pid)
        BY <3>2, <3>3, <4>2, ZenonT(40)
      <4> QED
        BY <1>1, <2>2, <3>3, <4>2, <4>3, RequestStep, ZenonT(40)
    <3>4. CASE rk' = Fatal(rk, "__INCONSISTENT") /\ xmitq' = queue /\ outbufs' = outbufs
      <4>1. rk' \in Instance /\ rk'.pid = rk.pid /\ rk'.state = rk.state
        BY <1>2, <3>4, FatalType, ZenonT(40) DEF Fatals
      <4> QED
        BY <1>1, <2>2, <3>4, <4>1, MoveStep, ZenonT(40)
    <3> QED
      BY <3>1, <3>3, <3>4, Zenon
  <2> QED
    BY <1>5, <2>3, <2>4, ZenonT(40)
<1> QED
  BY <1>3, <1>4, <1>5, Zenon DEF ServeQueue

(* A round that no other thread comes between. *)
LEMMA ServeKeeps == ASSUME IInv, Serve PROVE IInv'
<1> DEFINE queue == xmitq \cup msgq
<1>1. outbufs = <<>> /\ Pid # 0 /\ msgq' = {} /\ ServeQueue(Pid, queue)
  BY Zenon DEF Serve
<1>2. queue \cup msgq' = xmitq \cup msgq /\ queue \cap msgq' = {}
  BY <1>1, Zenon
<1>3. RoundPid(Pid)
  BY <1>1, Known, Zenon DEF Pid, Instance, RoundPid
<1> HIDE DEF queue
<1> QED
  BY <1>1, <1>2, <1>3, ServeQueueKeeps, Zenon

(* A round that began before another thread's step: with one thread there is none. *)
LEMMA ServeLateKeeps == ASSUME IInv, ThreadInv, ServeLate PROVE IInv'
<1>1. round.moved /\ msgq' = msgq /\ ServeQueue(round.pid, xmitq)
  BY Zenon DEF ServeLate
<1>2. outbufs = <<>> /\ round.pid \in Nat /\ MaxMoves # 0
  <2>1. ~NoRound.moved
    BY Zenon DEF NoRound
  <2>2. outbufs = <<>> /\ round \in [pid : Nat, moved : BOOLEAN]
    BY <1>1, Zenon DEF ThreadInv, RoundInv
  <2>3. MaxMoves # 0
    BY <1>1, <2>1, Zenon DEF ThreadInv, FixedInv
  <2> QED
    BY <2>2, <2>3, Zenon
<1>3. RoundPid(round.pid)
  BY <1>2, Zenon DEF RoundPid
<1>4. xmitq \cup msgq' = xmitq \cup msgq /\ xmitq \cap msgq' = {}
  BY <1>1, Zenon DEF IInv, PlaceInv
<1> QED
  BY <1>1, <1>2, <1>3, <1>4, ServeQueueKeeps, Zenon

(* The messages that wait are taken. *)
LEMMA CollectKeeps == ASSUME IInv, Collect PROVE IInv'
<1> DEFINE queue == xmitq \cup msgq
<1>1. /\ msgq' = {} /\ xmitq' = queue
      /\ UNCHANGED <<msgid, msg, report, tp, rk, outbufs, waitresps, resps, results, old, ending>>
  BY Zenon DEF Collect, network, move
<1>2. queue \cup msgq' = xmitq \cup msgq /\ queue \cap msgq' = {}
  BY <1>1, Zenon
<1> HIDE DEF queue
<1> QED
  BY <1>1, <1>2, Known, MoveStep, Zenon

(* The PID is read. *)
LEMMA GetPidKeeps == ASSUME IInv, GetPid PROVE IInv'
  BY MainStep, Known, Zenon DEF GetPid, queues, network, move

(* A request leaves: some of its messages wait again, the others are       *)
(* reported, and with them some messages of the queues.                    *)
LEMMA RemoveStep ==
    ASSUME IInv, TypeInv', NEW r, Without(Requests, r, Requests'),
           NEW back \in SUBSET r.msgs, NEW X \in SUBSET (msgq \cup xmitq),
           msgq' \cup xmitq' = ((msgq \cup xmitq) \ X) \cup back, msgq' \cap xmitq' = {},
           Away' = Away \cup (r.msgs \ back) \cup X, ending'.left \cap Reported' = {},
           msgid' = msgid, tp'.pid = tp.pid, KeepsPid \/ Len(Requests) = 1
    PROVE  IInv'
<1>1. /\ Requests \in Seq(Request) /\ Requests' \in Seq(Request) /\ Len(Requests) = Len(Requests') + 1
      /\ Held(Requests) = r.msgs \cup Held(Requests')
      /\ Apart(Requests) => Apart(Requests') /\ r.msgs \cap Held(Requests') = {}
      /\ \A p : Alike(Requests, p) => Alike(Requests', p)
  BY Zenon DEF Without
<1>2. Requests # <<>> /\ (Len(Requests) = 1 => Requests' = <<>>)
  BY <1>1
<1>3. PlaceInv'
  <2>1. New' = New
    BY Zenon DEF New
  <2> DEFINE H == Held(Requests)
             K == Held(Requests')
             Q == msgq \cup xmitq
             P == msgq' \cup xmitq'
             R == Away
             S == Away'
             N == New
             b == r.msgs
  <2>2. /\ H \cap (Q \cup R \cup N) = {} /\ Q \cap (R \cup N) = {} /\ R \cap N = {}
        /\ Msgs = H \cup Q \cup R \cup N /\ Apart(Requests)
    BY Zenon DEF IInv, PlaceInv
  <2>3. /\ H = b \cup K /\ b \cap K = {} /\ Apart(Requests')
        /\ P = (Q \ X) \cup back /\ S = R \cup (b \ back) \cup X /\ back \subseteq b /\ X \subseteq Q
    BY <1>1, <2>2, Zenon
  <2> HIDE DEF H, K, Q, P, R, S, N, b
  <2>4. K \cap (P \cup S \cup N) = {}
    BY <2>2, <2>3, Zenon
  <2>5. P \cap (S \cup N) = {} /\ S \cap N = {}
    BY <2>2, <2>3, Zenon
  <2>6. Msgs = K \cup P \cup S \cup N
    BY <2>2, <2>3, Zenon
  <2>7. /\ Held(Requests') \cap (msgq' \cup xmitq' \cup Away' \cup New') = {}
        /\ (msgq' \cup xmitq') \cap (Away' \cup New') = {} /\ Away' \cap New' = {}
        /\ Msgs = Held(Requests') \cup msgq' \cup xmitq' \cup Away' \cup New'
    BY <2>1, <2>4, <2>5, <2>6, ZenonT(40) DEF K, P, S, N
  <2> QED
    BY <2>3, <2>7, ZenonT(40) DEF PlaceInv, Held, Apart
<1>4. DrainInv'
  BY <1>1, <1>2, DrainStep, Zenon
<1> QED
  BY <1>3, <1>4, Zenon DEF IInv

(* What a failed request leaves behind. *)
LEMMA FailureStep ==
    ASSUME IInv, NEW b \in Request, NEW p, Decision(p), NEW last \in BOOLEAN, last => Len(Requests) = 1,
           Failure(b, p, last), Without(Requests, b, Requests'), msgid' = msgid,
           outbufs' \in Seq(Request), waitresps' \in Seq(Request), results' \in Seq(Result),
           old' \in Seq(Result), resps' \in Seq(Errors), Len(resps') <= Len(waitresps'), ending' = ending
    PROVE  IInv'
<1> DEFINE retried == Retried(b, p)
<1>1. /\ TypeInv' /\ tp'.pid = tp.pid /\ retried \in SUBSET b.msgs
      /\ msgq' = msgq \cup retried /\ xmitq' = xmitq
      /\ Reported' = Reported \cup (b.msgs \ retried)
      /\ last \/ (rk'.pid = rk.pid /\ (rk'.state = rk.state \/ rk'.state \notin Unassigned))
  BY FailureTypes, Zenon DEF IInv
<1> HIDE DEF retried
<1>2. /\ {} \in SUBSET (msgq \cup xmitq)
      /\ msgq' \cup xmitq' = ((msgq \cup xmitq) \ {}) \cup retried /\ msgq' \cap xmitq' = {}
      /\ Away' = Away \cup (b.msgs \ retried) \cup {} /\ ending'.left \cap Reported' = {}
  <2>1. b.msgs \subseteq Held(Requests)
    BY Zenon DEF Without
  <2>2. Held(Requests) \cap xmitq = {} /\ msgq \cap xmitq = {} /\ Held(Requests) \cap ending.left = {}
    BY Zenon DEF IInv, PlaceInv, Away
  <2>3. (b.msgs \ retried) \cap ending.left = {}
    BY <2>1, <2>2, Zenon
  <2>4. Away' = Away \cup (b.msgs \ retried) /\ ending'.left \cap Reported' = {}
    BY <1>1, <2>3, AwayStep, Zenon
  <2> QED
    BY <1>1, <2>1, <2>2, <2>4, Zenon
<1>3. KeepsPid \/ Len(Requests) = 1
  BY <1>1, Zenon DEF KeepsPid
<1> QED
  BY <1>1, <1>2, <1>3, RemoveStep, Zenon

(* What a successful request leaves behind. *)
LEMMA SuccessStep ==
    ASSUME IInv, NEW b \in Request, NEW last \in BOOLEAN, last => Len(Requests) = 1,
           Success(b, last), Without(Requests, b, Requests'), msgid' = msgid,
           outbufs' \in Seq(Request), waitresps' \in Seq(Request), results' \in Seq(Result),
           old' \in Seq(Result), resps' \in Seq(Errors), Len(resps') <= Len(waitresps'), ending' = ending
    PROVE  IInv'
<1>1. /\ TypeInv' /\ tp'.pid = tp.pid
      /\ last \/ (rk'.pid = rk.pid /\ rk'.state = rk.state)
      /\ \E acked \in SUBSET (msgq \cup xmitq) :
            /\ msgq' = msgq \ acked /\ xmitq' = xmitq \ acked
            /\ Reported' = Reported \cup b.msgs \cup acked
  BY SuccessTypes, Zenon DEF IInv
<1>2. PICK acked \in SUBSET (msgq \cup xmitq) :
            /\ msgq' = msgq \ acked /\ xmitq' = xmitq \ acked
            /\ Reported' = Reported \cup b.msgs \cup acked
  BY <1>1, Zenon
<1>3. /\ {} \in SUBSET b.msgs
      /\ msgq' \cup xmitq' = ((msgq \cup xmitq) \ acked) \cup {} /\ msgq' \cap xmitq' = {}
      /\ Away' = Away \cup (b.msgs \ {}) \cup acked /\ ending'.left \cap Reported' = {}
  <2>1. b.msgs \subseteq Held(Requests)
    BY Zenon DEF Without
  <2>2. /\ msgq \cap xmitq = {} /\ Held(Requests) \cap ending.left = {}
        /\ (msgq \cup xmitq) \cap ending.left = {}
    BY Zenon DEF IInv, PlaceInv, Away
  <2> DEFINE Y == b.msgs \cup acked
  <2>3. Y \cap ending.left = {} /\ Reported' = Reported \cup Y
    BY <1>2, <2>1, <2>2, Zenon
  <2> HIDE DEF Y
  <2>4. Away' = Away \cup Y /\ ending'.left \cap Reported' = {}
    BY <2>3, AwayStep, Zenon
  <2> QED
    BY <1>2, <2>2, <2>4, ZenonT(40) DEF Y
<1>4. KeepsPid \/ Len(Requests) = 1
  BY <1>1, Zenon DEF KeepsPid
<1> QED
  BY <1>1, <1>2, <1>3, <1>4, RemoveStep, ZenonT(40)

(* A result is handled once its request has left the place it was at. *)
LEMMA ResultStep ==
    ASSUME IInv, NEW b \in Request, NEW err, NEW sent, ProduceResult(b, err, sent, LastInflight),
           Without(Requests, b, Requests'), msgid' = msgid,
           outbufs' \in Seq(Request), waitresps' \in Seq(Request), results' \in Seq(Result),
           old' \in Seq(Result), resps' \in Seq(Errors), Len(resps') <= Len(waitresps'), ending' = ending
    PROVE  IInv'
<1> DEFINE last == LastInflight
<1>1. last \in BOOLEAN /\ (last => Len(Requests) = 1)
  BY Zenon DEF LastInflight
<1>2. CASE Success(b, last)
  <2> HIDE DEF last
  <2> QED
    BY <1>1, <1>2, SuccessStep, Zenon
<1>3. CASE Failure(b, ProduceError(b, err, sent), last)
  <2> DEFINE p == ProduceError(b, err, sent)
  <2>1. Decision(p) /\ Failure(b, p, last)
    BY <1>3, ProduceErrorType, Zenon
  <2> HIDE DEF p, last
  <2> QED
    BY <1>1, <2>1, FailureStep, Zenon
<1> QED
  BY <1>2, <1>3, Zenon DEF ProduceResult

(* The request that a response is for leaves waitresps. *)
LEMMA ReceiveRemoves ==
    ASSUME IInv, Receive
    PROVE  /\ Without(Requests, Head(waitresps), Requests') /\ Head(waitresps) \in Request
           /\ waitresps' \in Seq(Request) /\ resps' \in Seq(Errors) /\ Len(resps') <= Len(waitresps')
<1>1. /\ resps # <<>> /\ waitresps' = Tail(waitresps) /\ resps' = Tail(resps)
      /\ UNCHANGED <<outbufs, results, old>>
  BY Zenon DEF Receive, move
<1>2. waitresps # <<>> /\ waitresps' \in Seq(Request) /\ resps' \in Seq(Errors) /\ Len(resps') <= Len(waitresps')
  <2>1. /\ resps \in Seq(Errors) /\ waitresps \in Seq(Request) /\ Len(resps) <= Len(waitresps)
        /\ Len(resps) \in Nat \ {0} /\ Len(waitresps) \in Nat
    BY <1>1, Known, SMTT(30)
  <2>2. waitresps # <<>>
    BY <2>1
  <2>3. Len(Tail(resps)) = Len(resps) - 1 /\ Len(Tail(waitresps)) = Len(waitresps) - 1
    BY <1>1, <2>1, <2>2, SMTT(30)
  <2> QED
    BY <1>1, <2>1, <2>2, <2>3, SMTT(30)
<1>3. Without(Requests, Head(waitresps), Requests') /\ Head(waitresps) \in Request
  <2> DEFINE c == Reqs(results)
             d == Reqs(old)
  <2>1. Requests = All(outbufs, waitresps, c, d) /\ Requests' = All(outbufs, Tail(waitresps), c, d)
    BY <1>1, RequestsAll, Zenon DEF Reqs
  <2>2. /\ outbufs \in Seq(Request) /\ waitresps \in Seq(Request)
        /\ c \in Seq(Request) /\ d \in Seq(Request)
    BY RequestsType, Zenon DEF IInv
  <2> HIDE DEF c, d
  <2>3. Without(All(outbufs, waitresps, c, d), Head(waitresps), All(outbufs, Tail(waitresps), c, d))
    BY <1>2, <2>2, WaitingWithout, Zenon
  <2> QED
    BY <2>1, <2>3, Zenon DEF Without
<1> QED
  BY <1>2, <1>3, Zenon

(* The broker thread handles a response. *)
LEMMA ReceiveKeeps == ASSUME IInv, Receive PROVE IInv'
<1>1. /\ ProduceResult(Head(waitresps), Head(resps), TRUE, LastInflight)
      /\ UNCHANGED <<msgid, outbufs, results, old, ending>>
  BY Zenon DEF Receive, move
<1>2. outbufs' \in Seq(Request) /\ results' \in Seq(Result) /\ old' \in Seq(Result)
  BY <1>1, Known, Zenon
<1> QED
  BY <1>1, <1>2, ReceiveRemoves, ResultStep, ZenonT(40)

(* The first of the failed requests leaves results. *)
LEMMA ResultRemoves ==
    ASSUME IInv, results # <<>>, results' = Tail(results), UNCHANGED <<outbufs, waitresps, old>>
    PROVE  /\ Without(Requests, Head(results).req, Requests') /\ Head(results).req \in Request
           /\ results' \in Seq(Result)
<1> DEFINE x == Head(results)
<1>1. /\ Tail(results) \in Seq(Result) /\ Reqs(Tail(results)) = Tail(Reqs(results))
      /\ Reqs(results) # <<>> /\ Head(Reqs(results)) = x.req /\ x \in Result
  BY Known, ReqsTail, Zenon
<1>2. x.req \in Request
  BY <1>1, Zenon DEF Result
<1>3. Without(Requests, x.req, Requests')
  <2> DEFINE c == Reqs(results)
             d == Reqs(old)
  <2>1. Reqs(results') = Tail(c) /\ Reqs(old') = d
    BY <1>1, Zenon DEF Reqs
  <2>2. Requests = All(outbufs, waitresps, c, d) /\ Requests' = All(outbufs, waitresps, Tail(c), d)
    BY <2>1, RequestsAll, ZenonT(40)
  <2>3. /\ outbufs \in Seq(Request) /\ waitresps \in Seq(Request)
        /\ c \in Seq(Request) /\ d \in Seq(Request) /\ c # <<>> /\ Head(c) = x.req
    BY <1>1, RequestsType, ZenonT(40) DEF IInv
  <2> HIDE DEF c, d, x
  <2>4. Without(All(outbufs, waitresps, c, d), Head(c), All(outbufs, waitresps, Tail(c), d))
    BY <2>3, ResultsWithout, ZenonT(40)
  <2> QED
    BY <2>2, <2>3, <2>4, ZenonT(40)
<1> QED
  BY <1>1, <1>2, <1>3, Zenon

(* The broker thread handles a request that failed without a response. *)
LEMMA HandleResultKeeps == ASSUME IInv, HandleResult PROVE IInv'
<1> DEFINE x == Head(results)
           p == ProduceError(x.req, x.err, x.sent)
           last == LastInflight
<1>1. /\ results # <<>> /\ results' = Tail(results) /\ Failure(x.req, p, last)
      /\ UNCHANGED <<msgid, outbufs, waitresps, resps, old, ending>>
  BY Zenon DEF HandleResult, move
<1>2. last \in BOOLEAN /\ (last => Len(Requests) = 1)
  BY Zenon DEF LastInflight
<1>3. Decision(p)
  BY ProduceErrorType, Zenon
<1>4. /\ Without(Requests, x.req, Requests') /\ x.req \in Request /\ results' \in Seq(Result)
  BY <1>1, ResultRemoves, Zenon
<1>5. /\ outbufs' \in Seq(Request) /\ waitresps' \in Seq(Request) /\ results' \in Seq(Result)
      /\ old' \in Seq(Result) /\ resps' \in Seq(Errors) /\ Len(resps') <= Len(waitresps')
  BY <1>1, <1>4, Known, ZenonT(40)
<1> HIDE DEF x, p, last
<1> QED
  BY <1>1, <1>2, <1>3, <1>4, <1>5, FailureStep, ZenonT(40)

(* The first of the results at the old thread leaves it. *)
LEMMA OldRemoves ==
    ASSUME IInv, old # <<>>, old' = Tail(old), UNCHANGED <<outbufs, waitresps, results>>
    PROVE  /\ Without(Requests, Head(old).req, Requests') /\ Head(old).req \in Request
           /\ old' \in Seq(Result)
<1> DEFINE x == Head(old)
<1>1. /\ Tail(old) \in Seq(Result) /\ Reqs(Tail(old)) = Tail(Reqs(old))
      /\ Reqs(old) # <<>> /\ Head(Reqs(old)) = x.req /\ x \in Result
  BY Known, ReqsTail, ZenonT(40)
<1>2. x.req \in Request
  BY <1>1, Zenon DEF Result
<1>3. Without(Requests, x.req, Requests')
  <2> DEFINE c == Reqs(results)
             d == Reqs(old)
  <2>1. Reqs(old') = Tail(d) /\ Reqs(results') = c
    BY <1>1, Zenon DEF Reqs
  <2>2. Requests = All(outbufs, waitresps, c, d) /\ Requests' = All(outbufs, waitresps, c, Tail(d))
    BY <2>1, RequestsAll, ZenonT(40)
  <2>3. /\ outbufs \in Seq(Request) /\ waitresps \in Seq(Request)
        /\ c \in Seq(Request) /\ d \in Seq(Request) /\ d # <<>> /\ Head(d) = x.req
    BY <1>1, RequestsType, ZenonT(40) DEF IInv
  <2> HIDE DEF c, d, x
  <2>4. Without(All(outbufs, waitresps, c, d), Head(d), All(outbufs, waitresps, c, Tail(d)))
    BY <2>3, OldWithout, ZenonT(40)
  <2> QED
    BY <2>2, <2>3, <2>4, ZenonT(40)
<1> QED
  BY <1>1, <1>2, <1>3, Zenon

(* A result is handled by the thread of the previous leader, so there is one. *)
LEMMA Moved ==
    ASSUME ThreadInv, ending # NoResult
    PROVE  /\ MaxMoves # 0 /\ KeepsPid /\ ending.req \in Request
           /\ ending = [at |-> ending.at, req |-> ending.req, err |-> ending.err, sent |-> ending.sent,
                       last |-> ending.last, left |-> ending.left, perr |-> ending.perr]
  BY Zenon DEF ThreadInv, FixedInv, EndInv, KeepsPid

(* The messages of a result are counted as in flight no more. *)
LEMMA OldResultKeeps == ASSUME IInv, OldResult PROVE IInv'
<1> DEFINE r == Head(old).req
<1>1. /\ old # <<>> /\ old' = Tail(old) /\ ending = NoResult /\ ending'.left = r.msgs
      /\ UNCHANGED <<msgid, msgq, xmitq, msg, report, tp, rk, outbufs, waitresps, resps, results>>
  BY Zenon DEF OldResult, NoResult, queues, network, elsewhere
<1>2. Without(Requests, r, Requests') /\ r \in Request /\ old' \in Seq(Result)
  BY <1>1, OldRemoves, Zenon
<1> HIDE DEF r
<1>3. TypeInv'
  BY <1>1, <1>2, ZenonT(40) DEF IInv, TypeInv
<1>4. ending.left = {} /\ Reported' = Reported
  BY <1>1, Zenon DEF NoResult, Reported
<1>5. Away' = Away \cup (r.msgs \ {}) \cup {} /\ ending'.left \cap Reported' = {}
  <2>1. r.msgs \subseteq Held(Requests) /\ Held(Requests) \cap Reported = {}
    BY <1>2, Zenon DEF Without, IInv, PlaceInv, Away
  <2> QED
    BY <1>1, <1>4, <2>1, Zenon DEF Away
<1>6. /\ {} \in SUBSET r.msgs /\ {} \in SUBSET (msgq \cup xmitq) /\ msgq' \cap xmitq' = {}
      /\ msgq' \cup xmitq' = ((msgq \cup xmitq) \ {}) \cup {}
  BY <1>1, Zenon DEF IInv, PlaceInv
<1> QED
  BY <1>1, <1>2, <1>3, <1>5, <1>6, Known, RemoveStep, ZenonT(40)

(* What the steps of that thread leave alone after that. *)
LEMMA OldStays ==
    ASSUME IInv, OldSuccess \/ OldError \/ OldRetry \/ OldReport \/ OldDone
    PROVE  /\ UNCHANGED <<msgid, outbufs, waitresps, resps, results, old>>
           /\ Shuffled(Requests, Requests')
           /\ outbufs' \in Seq(Request) /\ waitresps' \in Seq(Request) /\ results' \in Seq(Result)
           /\ old' \in Seq(Result) /\ resps' \in Seq(Errors) /\ Len(resps') <= Len(waitresps')
           /\ ending # NoResult
<1>1. UNCHANGED <<msgid, outbufs, waitresps, resps, results, old>> /\ ending # NoResult
  <2>1. NoResult.at = "none"
    BY Zenon DEF NoResult
  <2>2. UNCHANGED <<msgid, outbufs, waitresps, resps, results, old>>
    BY Zenon DEF OldSuccess, OldError, OldRetry, OldReport, OldDone, network, elsewhere
  <2>3. ending.at \in {"counted", "decided", "retried", "handled"}
    BY Zenon DEF OldSuccess, OldError, OldRetry, OldReport, OldDone
  <2> QED
    BY <2>1, <2>2, <2>3, SMT
<1> QED
  BY <1>1, Known, ShuffledSelf, ZenonT(40) DEF IInv

(* An acknowledgement also takes messages from the queues. *)
LEMMA OldSuccessKeeps == ASSUME IInv, ThreadInv, OldSuccess PROVE IInv'
<1> DEFINE b == ending.req
<1>1. ending.at = "counted" /\ Success(b, FALSE) /\ ending' = [ending EXCEPT !.at = "handled", !.left = {}]
  BY Zenon DEF OldSuccess
<1>2. /\ b \in Request /\ ending.left = b.msgs /\ ending'.left = {} /\ KeepsPid
  <2>1. ending.left = b.msgs
    BY <1>1, OldStays, Zenon DEF ThreadInv, EndInv
  <2> QED
    BY <1>1, <2>1, OldStays, Moved, ZenonT(40)
<1> HIDE DEF b
<1>3. TypeInv' /\ tp'.pid = tp.pid
  BY <1>1, <1>2, OldStays, SuccessTypes, ZenonT(40) DEF IInv
<1>4. PICK acked \in SUBSET (msgq \cup xmitq) :
         msgq' = msgq \ acked /\ xmitq' = xmitq \ acked /\ Reported' = Reported \cup b.msgs \cup acked
  BY <1>1, <1>2, OldStays, SuccessTypes, ZenonT(40) DEF IInv
<1>5. Away' = Away \cup acked /\ ending'.left \cap Reported' = {}
  BY <1>2, <1>4, Zenon DEF Away
<1>6. msgq' \cup xmitq' = (msgq \cup xmitq) \ acked /\ msgq' \cap xmitq' = {}
  BY <1>4, Zenon DEF IInv, PlaceInv
<1> QED
  BY <1>2, <1>3, <1>5, <1>6, OldStays, ShuffleStep, ZenonT(40)

(* A decision touches no message but for the end of its batch. *)
LEMMA OldErrorKeeps == ASSUME IInv, ThreadInv, OldError PROVE IInv'
<1> DEFINE b == ending.req
           p == ProduceError(b, ending.err, ending.sent)
           first == Min(b.msgs)
           end == Max(b.msgs)
<1>1. /\ ending' = [ending EXCEPT !.at = "decided", !.perr = p]
      /\ msg' = [msg EXCEPT ![first].last = end] /\ rk' = Raise(rk, p)
      /\ UNCHANGED <<msgq, xmitq, report, tp>>
  BY Zenon DEF OldError
<1>2. Decision(p)
  BY ProduceErrorType, Zenon
<1>3. b \in Request /\ KeepsPid /\ ending'.left = ending.left
  BY <1>1, OldStays, Moved, ZenonT(40)
<1>4. first \in Msgs /\ end \in Msgs /\ first <= end
  BY <1>3, BatchSize, LeastGreatest, Zenon
<1> HIDE DEF b, p, first, end
<1>5. rk' \in Instance
  BY <1>1, <1>2, Known, RaiseFine, Zenon DEF Fine
<1>6. msg' \in [Msgs -> MsgState] /\ \A m \in Msgs : msg'[m].last = 0 \/ msg'[m].last >= m
  <2>1. msg \in [Msgs -> MsgState] /\ \A m \in Msgs : msg[m].last = 0 \/ msg[m].last >= m
    BY Zenon DEF IInv, TypeInv
  <2>2. end \in 0..MaxMsgid /\ end >= first
    BY <1>4, IdempotenceAssumption DEF Msgs, IdempotenceAssumption
  <2>3. msg' = [msg EXCEPT ![first] = [msg[first] EXCEPT !.last = end]]
    BY <1>1, Zenon
  <2>4. [msg[first] EXCEPT !.last = end] \in MsgState /\ [msg[first] EXCEPT !.last = end].last = end
    <3>1. msg[first] \in MsgState
      BY <1>4, <2>1, Zenon
    <3> QED
      BY <2>2, <3>1, Zenon DEF MsgState
  <2> QED
    BY <1>4, <2>1, <2>2, <2>3, <2>4, ZenonT(40)
<1>7. TypeInv'
  BY <1>1, <1>5, <1>6, OldStays, ZenonT(40) DEF IInv, TypeInv
<1>8. /\ {} \in SUBSET (msgq \cup xmitq) /\ msgq' \cup xmitq' = (msgq \cup xmitq) \ {}
      /\ msgq' \cap xmitq' = {} /\ Away' = Away \cup {} /\ ending'.left \cap Reported' = {}
  BY <1>1, <1>3, Zenon DEF IInv, PlaceInv, Away, Reported
<1> QED
  BY <1>1, <1>3, <1>7, <1>8, OldStays, ShuffleStep, ZenonT(40)

(* What a message remembers after a retry or with its report. *)
LEMMA Marked ==
    ASSUME NEW x \in MsgState, NEW p, Decision(p), NEW r,
           \/ r = [x EXCEPT !.retries = @ + p.incr, !.status = NewStatus(@, p.status)]
           \/ r = [x EXCEPT !.status = NewStatus(@, p.status)]
           \/ r = x
    PROVE  r \in MsgState /\ r.last = x.last /\ r.status \in Statuses
<1> DEFINE n  == x.retries + p.incr
           st == NewStatus(x.status, p.status)
<1>1. x.retries \in Nat /\ x.status \in Statuses
  BY Zenon DEF MsgState
<1>2. n \in Nat
  BY <1>1, SMTT(30) DEF Decision
<1>3. st \in Statuses
  BY <1>1, Zenon DEF NewStatus, Decision
<1>4. r \in {[x EXCEPT !.retries = n, !.status = st], [x EXCEPT !.status = st], x}
  BY Zenon
<1> HIDE DEF n, st
<1> QED
  BY <1>1, <1>2, <1>3, <1>4, ZenonT(40) DEF MsgState

(* The messages that may be sent again wait again. *)
LEMMA OldRetryKeeps == ASSUME IInv, ThreadInv, OldRetry PROVE IInv'
<1> DEFINE p       == ending.perr
           retried == Retried(ending.req, p)
           drain   == tp.drain \/ p.actions \cap {"REFRESH", "RETRY"} # {}
<1>1. /\ ending.at = "decided"
      /\ msg' = [m \in Msgs |->
                    IF m \in retried
                    THEN [msg[m] EXCEPT !.retries = @ + p.incr, !.status = NewStatus(@, p.status)]
                    ELSE msg[m]]
      /\ msgq' = msgq \cup retried /\ xmitq' = xmitq /\ report' = report
      /\ tp' = [tp EXCEPT !.drain = drain] /\ rk' = Permanent(rk, p)
      /\ ending' = [ending EXCEPT !.at = "retried", !.left = @ \ retried]
  BY Zenon DEF OldRetry
<1>2. ending.left = ending.req.msgs /\ Decision(p)
  BY <1>1, OldStays, Zenon DEF ThreadInv, EndInv
<1>3. retried \subseteq ending.left
  BY <1>2, Zenon DEF Retried
<1>4. ending'.left = ending.left \ retried /\ KeepsPid
  BY <1>1, OldStays, Moved, ZenonT(40)
<1>5. tp' \in Eos /\ tp'.pid = tp.pid
  <2>1. tp \in Eos /\ drain \in BOOLEAN
    BY Known, Zenon DEF Eos
  <2> HIDE DEF drain
  <2> QED
    BY <1>1, <2>1, Zenon DEF Eos
<1> HIDE DEF p, retried, drain
<1>6. rk' \in Instance
  <2>1. rk \in Instance /\ Fine(rk)
    BY Known, Zenon DEF Fine
  <2> QED
    BY <1>1, <2>1, PermanentFine, Zenon DEF Fine
<1>7. msg' \in [Msgs -> MsgState] /\ \A m \in Msgs : msg'[m].last = 0 \/ msg'[m].last >= m
  <2>1. msg \in [Msgs -> MsgState] /\ \A m \in Msgs : msg[m].last = 0 \/ msg[m].last >= m
    BY Zenon DEF IInv, TypeInv
  <2>2. ASSUME NEW m \in Msgs PROVE msg'[m] \in MsgState /\ msg'[m].last = msg[m].last
    BY <1>1, <1>2, <2>1, Marked, ZenonT(40)
  <2>3. DOMAIN msg' = Msgs /\ msg' = [m \in Msgs |-> msg'[m]]
    BY <1>1, Zenon
  <2> QED
    BY <2>1, <2>2, <2>3, ZenonT(40)
<1>8. Reported' = Reported /\ New' = New /\ Requests' = Requests
  BY <1>1, OldStays, ShuffledSelf, ZenonT(40) DEF Reported, New, IInv
<1>9. TypeInv'
  <2>1. ending.left \subseteq Msgs
    BY <1>2, OldStays, Moved, Zenon DEF Request
  <2>2. msgq' \subseteq Msgs
    BY <1>1, <1>3, <2>1, Zenon DEF IInv, TypeInv
  <2> QED
    BY <1>1, <1>5, <1>6, <1>7, <2>2, OldStays, ZenonT(40) DEF IInv, TypeInv
<1>10. PlaceInv'
  <2> DEFINE H == Held(Requests)
             L == ending.left
             R == Reported
             N == New
  <2>1. /\ H \cap (msgq \cup xmitq \cup R \cup L \cup N) = {} /\ msgq \cap xmitq = {}
        /\ (msgq \cup xmitq) \cap (R \cup L \cup N) = {} /\ (R \cup L) \cap N = {} /\ L \cap R = {}
        /\ Msgs = H \cup msgq \cup xmitq \cup R \cup L \cup N /\ Apart(Requests)
    BY Zenon DEF IInv, PlaceInv, Away
  <2>2. retried \subseteq L /\ msgq' = msgq \cup retried /\ xmitq' = xmitq
    BY <1>1, <1>3, Zenon
  <2> HIDE DEF H, L, R, N
  <2>3. /\ H \cap (msgq' \cup xmitq' \cup R \cup (L \ retried) \cup N) = {} /\ msgq' \cap xmitq' = {}
        /\ (msgq' \cup xmitq') \cap (R \cup (L \ retried) \cup N) = {}
    BY <2>1, <2>2, ZenonT(40)
  <2>4. /\ (R \cup (L \ retried)) \cap N = {} /\ (L \ retried) \cap R = {}
        /\ Msgs = H \cup msgq' \cup xmitq' \cup R \cup (L \ retried) \cup N
    BY <2>1, <2>2, ZenonT(40)
  <2>5. /\ Held(Requests') = H /\ Away' = R \cup (L \ retried) /\ New' = N /\ Apart(Requests')
        /\ ending'.left = L \ retried /\ Reported' = R
    BY <1>4, <1>8, <2>1, Zenon DEF Away, H, L, R, N
  <2> QED
    BY <2>3, <2>4, <2>5, ZenonT(40) DEF PlaceInv, Held, Apart
<1>11. DrainInv'
  BY <1>4, <1>5, <1>8, <1>9, DrainStep, Zenon
<1> QED
  BY <1>9, <1>10, <1>11, Zenon DEF IInv

(* The others are reported. *)
LEMMA OldReportKeeps == ASSUME IInv, ThreadInv, OldReport PROVE IInv'
<1> DEFINE p    == ending.perr
           next == ending.req.seq + Cardinality(ending.req.msgs)
           ack  == IF p.ack THEN next ELSE tp.ack
           L    == ending.left
<1>1. /\ ending.at = "retried" /\ ending' = [ending EXCEPT !.at = "handled", !.left = {}]
      /\ tp' = [tp EXCEPT !.ack = ack, !.err = next]
      /\ msg' = [m \in Msgs |-> IF m \in L THEN [msg[m] EXCEPT !.status = NewStatus(@, p.status)]
                                         ELSE msg[m]]
      /\ report' = [m \in Msgs |-> IF m \in L THEN msg'[m].status ELSE report[m]]
      /\ UNCHANGED <<msgq, xmitq, rk>>
  BY Zenon DEF OldReport
<1>2. L \subseteq ending.req.msgs /\ Decision(p) /\ ending.req \in Request
  BY <1>1, OldStays, Moved, Zenon DEF ThreadInv, EndInv
<1>3. ending'.left = {} /\ KeepsPid
  BY <1>1, OldStays, Moved, ZenonT(40)
<1>4. tp' \in Eos /\ tp'.pid = tp.pid
  <2>1. tp \in Eos /\ next \in Int
    BY <1>2, Known, BatchSize, Zenon
  <2>2. ack \in Int
    BY <2>1, Zenon DEF Eos
  <2> HIDE DEF ack, next
  <2> QED
    BY <1>1, <2>1, <2>2, Zenon DEF Eos
<1> HIDE DEF p, next, ack
<1>5. /\ msg' \in [Msgs -> MsgState] /\ \A m \in Msgs : msg'[m].last = 0 \/ msg'[m].last >= m
      /\ \A m \in Msgs : msg'[m].status \in Statuses
  <2>1. msg \in [Msgs -> MsgState] /\ \A m \in Msgs : msg[m].last = 0 \/ msg[m].last >= m
    BY Zenon DEF IInv, TypeInv
  <2>2. ASSUME NEW m \in Msgs
        PROVE  msg'[m] \in MsgState /\ msg'[m].last = msg[m].last /\ msg'[m].status \in Statuses
    BY <1>1, <1>2, <2>1, Marked, ZenonT(40)
  <2>3. DOMAIN msg' = Msgs /\ msg' = [m \in Msgs |-> msg'[m]]
    BY <1>1, Zenon
  <2> QED
    BY <2>1, <2>2, <2>3, ZenonT(40)
<1>6. report' \in [Msgs -> Statuses \cup {"none"}] /\ Reported' = Reported \cup L
  <2>1. L \subseteq Msgs
    BY <1>2, Zenon DEF Request
  <2>2. \A m \in Msgs : report[m] \in Statuses \cup {"none"}
    BY Zenon DEF IInv, TypeInv
  <2>3. "none" \notin Statuses
    BY Zenon DEF Statuses
  <2> HIDE DEF L
  <2>4. \A m \in Msgs : report'[m] = IF m \in L THEN msg'[m].status ELSE report[m]
    BY <1>1, Zenon
  <2> QED
    BY <1>1, <1>5, <2>1, <2>2, <2>3, <2>4, ZenonT(40) DEF Reported
<1>7. TypeInv'
  BY <1>1, <1>4, <1>5, <1>6, OldStays, ZenonT(40) DEF IInv, TypeInv
<1>8. /\ {} \in SUBSET (msgq \cup xmitq) /\ msgq' \cup xmitq' = (msgq \cup xmitq) \ {}
      /\ msgq' \cap xmitq' = {} /\ Away' = Away \cup {} /\ ending'.left \cap Reported' = {}
  BY <1>1, <1>3, <1>6, Zenon DEF IInv, PlaceInv, Away
<1> QED
  BY <1>3, <1>4, <1>7, <1>8, OldStays, ShuffleStep, ZenonT(40)

(* The end of a drain. *)
LEMMA OldDoneKeeps == ASSUME IInv, ThreadInv, OldDone PROVE IInv'
<1>1. /\ ending.at = "handled" /\ rk' \in {DrainDone(rk), rk} /\ ending' = NoResult
      /\ UNCHANGED <<msgq, xmitq, msg, report, tp>>
  BY Zenon DEF OldDone, queues
<1>2. ending.left = {} /\ ending'.left = {}
  BY <1>1, OldStays, Zenon DEF ThreadInv, EndInv, NoResult
<1>3. rk' \in Instance
  BY <1>1, Known, DrainDoneType, Zenon
<1>4. TypeInv'
  BY <1>1, <1>3, OldStays, ZenonT(40) DEF IInv, TypeInv
<1>5. /\ {} \in SUBSET (msgq \cup xmitq) /\ msgq' \cup xmitq' = (msgq \cup xmitq) \ {}
      /\ msgq' \cap xmitq' = {} /\ Away' = Away \cup {} /\ ending'.left \cap Reported' = {}
  BY <1>1, <1>2, Zenon DEF IInv, PlaceInv, Away, Reported
<1> QED
  BY <1>1, <1>4, <1>5, OldStays, Moved, ShuffleStep, ZenonT(40)

-----------------------------------------------------------------------------
(* Where the threads are *)

(* A step that leaves the result being handled alone. *)
LEMMA EndStays == ASSUME EndInv, ending' = ending PROVE EndInv'
  BY Zenon DEF EndInv

(* The steps of the previous leader's thread. *)
LEMMA EndOld == ASSUME IInv, ThreadInv, OldLeader PROVE EndInv'
<1>1. CASE OldResult
  <2> DEFINE x == Head(old)
             n == NoResult.perr
  <2>1. old # <<>> /\ ending' = [at |-> "counted", req |-> x.req, err |-> x.err, sent |-> x.sent,
                                 last |-> LastInflight, left |-> x.req.msgs, perr |-> n]
    <3>1. /\ old # <<>>
          /\ ending' = [NoResult EXCEPT !.at = "counted", !.req = x.req, !.err = x.err,
                                        !.sent = x.sent, !.last = LastInflight, !.left = x.req.msgs]
      BY <1>1, Zenon DEF OldResult
    <3> QED
      BY <3>1, Zenon DEF NoResult
  <2>2. x.req \in Request
    BY <2>1, Known, ReqsTail, ZenonT(40) DEF Result
  <2> HIDE DEF x, n
  <2> QED
    BY <2>1, <2>2, ZenonT(40) DEF EndInv
<1>2. CASE OldSuccess \/ OldReport
  <2>1. ending' = [ending EXCEPT !.at = "handled", !.left = {}]
    BY <1>2, Zenon DEF OldSuccess, OldReport
  <2>2. ending' = [at |-> "handled", req |-> ending.req, err |-> ending.err, sent |-> ending.sent,
                   last |-> ending.last, left |-> {}, perr |-> ending.perr]
    BY <1>2, <2>1, OldStays, Moved, ZenonT(40)
  <2> QED
    BY <1>2, <2>2, OldStays, Moved, ZenonT(40) DEF EndInv
<1>3. CASE OldError
  <2> DEFINE p == ProduceError(ending.req, ending.err, ending.sent)
  <2>1. ending' = [ending EXCEPT !.at = "decided", !.perr = p] /\ ending.at = "counted"
    BY <1>3, Zenon DEF OldError
  <2>2. Decision(p)
    BY ProduceErrorType, Zenon
  <2> HIDE DEF p
  <2>3. ending' = [at |-> "decided", req |-> ending.req, err |-> ending.err, sent |-> ending.sent,
                   last |-> ending.last, left |-> ending.left, perr |-> p]
    BY <1>3, <2>1, OldStays, Moved, ZenonT(40)
  <2>4. ending.left = ending.req.msgs
    BY <1>3, <2>1, OldStays, Zenon DEF ThreadInv, EndInv
  <2> QED
    BY <1>3, <2>2, <2>3, <2>4, OldStays, Moved, ZenonT(40) DEF EndInv
<1>4. CASE OldRetry
  <2> DEFINE left == ending.left \ Retried(ending.req, ending.perr)
  <2>1. ending' = [ending EXCEPT !.at = "retried", !.left = left] /\ ending.at = "decided"
    BY <1>4, Zenon DEF OldRetry
  <2>2. ending.left = ending.req.msgs /\ Decision(ending.perr)
    BY <1>4, <2>1, OldStays, Zenon DEF ThreadInv, EndInv
  <2>3. left \subseteq ending.req.msgs
    BY <2>2, Zenon
  <2> HIDE DEF left
  <2>4. ending' = [at |-> "retried", req |-> ending.req, err |-> ending.err, sent |-> ending.sent,
                   last |-> ending.last, left |-> left, perr |-> ending.perr]
    BY <1>4, <2>1, OldStays, Moved, ZenonT(40)
  <2> QED
    BY <1>4, <2>2, <2>3, <2>4, OldStays, Moved, ZenonT(40) DEF EndInv
<1>5. CASE OldDone
  BY <1>5, Zenon DEF OldDone, EndInv
<1> QED
  BY <1>1, <1>2, <1>3, <1>4, <1>5, Zenon DEF OldLeader

(* A thread that begins no round. *)
LEMMA RoundEnds == ASSUME RoundInv, round' = NoRound \/ UNCHANGED <<round, outbufs>> PROVE RoundInv'
<1>1. NoRound \in [pid : Nat, moved : BOOLEAN] /\ ~NoRound.moved
  BY DEF NoRound
<1> QED
  BY <1>1, Zenon DEF RoundInv

(* A round reads the PID, and takes messages when there is room in outbufs. *)
LEMMA RoundBegins == ASSUME IInv, RoundInv, GetPid \/ Collect PROVE RoundInv'
<1>1. CASE GetPid
  <2>1. round' = [pid |-> Pid, moved |-> FALSE]
    BY <1>1, Zenon DEF GetPid
  <2>2. Pid \in Nat
    BY Known DEF Pid, Instance
  <2> QED
    BY <2>1, <2>2, Zenon DEF RoundInv
<1>2. CASE Collect
  <2>1. round' = [round EXCEPT !.moved = TRUE] /\ outbufs' = <<>>
    BY <1>2, Zenon DEF Collect, network
  <2> QED
    BY <2>1, Zenon DEF RoundInv
<1> QED
  BY <1>1, <1>2, Zenon

(* With one leader there is one thread. *)
LEMMA FixedStep == ASSUME FixedInv, [Next]_vars PROVE FixedInv'
<1> SUFFICES ASSUME MaxMoves = 0
             PROVE  old' = <<>> /\ ending' = NoResult /\ round' = NoRound /\ joined' /\ moves' = 0
  BY Zenon DEF FixedInv
<1>1. old = <<>> /\ ending = NoResult /\ round = NoRound /\ joined /\ moves = 0
  BY Zenon DEF FixedInv
<1>2. CASE UNCHANGED <<move, round>>
  BY <1>1, <1>2, Zenon DEF move
<1>3. CASE UNCHANGED move /\ round' = NoRound
  BY <1>1, <1>3, Zenon DEF move
<1>4. CASE OldLeader
  BY <1>1, <1>4, Zenon DEF OldLeader, OldResult, OldSuccess, OldError, OldRetry, OldReport, OldDone, NoResult
<1>5. CASE GetPid \/ Collect \/ ServeLate \/ Leave \/ Join
  BY <1>1, <1>5 DEF GetPid, Collect, ServeLate, Leave, Join, NoRound
<1>6. CASE \/ Serve \/ PurgeOutbufs \/ Send \/ PurgeQueues \/ Receive \/ Connect
           \/ (\E k \in Msgs : MsgTimeout(k)) \/ (\E err \in {"__TRANSPORT", "__TIMED_OUT"} : Fail(err))
  BY <1>3, <1>6, ZenonT(40)
     DEF Serve, ServeQueue, PurgeOutbufs, Send, PurgeQueues, Receive, Connect, MsgTimeout, Fail
<1>7. CASE HandleResult \/ Produce \/ PidFsm \/ PidUpdate \/ PidFailed \/ Leader \/ Settled \/ UNCHANGED vars
  BY <1>2, <1>7, ZenonT(40)
     DEF HandleResult, Produce, PidFsm, PidUpdate, PidFailed, Leader, Answer, Forget, WriteStale, Settled, vars
<1> QED
  BY <1>4, <1>5, <1>6, <1>7, ZenonT(40) DEF Next, BrokerThread

(* Every step keeps ThreadInv. *)
LEMMA ThreadStep == ASSUME IInv, ThreadInv, [Next]_vars PROVE ThreadInv'
<1> USE DEF ThreadInv
<1>1. FixedInv'
  BY FixedStep, Zenon
<1>2. CASE OldLeader
  <2>1. UNCHANGED <<round, outbufs>>
    BY <1>2, Zenon DEF OldLeader, OldResult, OldSuccess, OldError, OldRetry, OldReport, OldDone, elsewhere, network
  <2> QED
    BY <1>1, <1>2, <2>1, EndOld, RoundEnds, Zenon
<1>3. CASE GetPid \/ Collect
  <2>1. ending' = ending
    BY <1>3, Zenon DEF GetPid, Collect, move
  <2> QED
    BY <1>1, <1>3, <2>1, EndStays, RoundBegins, Zenon
<1>4. CASE \/ Serve \/ ServeLate \/ PurgeOutbufs \/ Send \/ PurgeQueues \/ Receive \/ Connect \/ Leave
           \/ (\E k \in Msgs : MsgTimeout(k)) \/ (\E err \in {"__TRANSPORT", "__TIMED_OUT"} : Fail(err))
  <2>1. ending' = ending /\ round' = NoRound
    BY <1>4, ZenonT(40)
       DEF Serve, ServeLate, ServeQueue, PurgeOutbufs, Send, PurgeQueues, Receive, Connect, Leave, MsgTimeout,
           Fail, move
  <2> QED
    BY <1>1, <2>1, EndStays, RoundEnds, Zenon
<1>5. CASE \/ HandleResult \/ Join \/ Produce \/ PidFsm \/ PidUpdate \/ PidFailed \/ Leader \/ Settled
           \/ UNCHANGED vars
  <2>1. ending' = ending /\ UNCHANGED <<round, outbufs>>
    BY <1>5, ZenonT(40)
       DEF HandleResult, Join, Produce, PidFsm, PidUpdate, PidFailed, Leader, Answer, Forget, WriteStale, Settled,
           vars, move, network
  <2> QED
    BY <1>1, <2>1, EndStays, RoundEnds, Zenon
<1> QED
  BY <1>2, <1>3, <1>4, <1>5, ZenonT(40) DEF Next, BrokerThread

-----------------------------------------------------------------------------
(* The theorems *)

(* The invariant holds at first. *)
LEMMA IInvInit == Init => IInv /\ ThreadInv
<1> SUFFICES ASSUME Init PROVE IInv /\ ThreadInv
  BY Zenon
<1>1. MaxMsgid \in Nat
  BY IdempotenceAssumption, ZenonT(40) DEF IdempotenceAssumption
<1>2. /\ msgid = 0 /\ msgq = {} /\ xmitq = {}
      /\ msg = [m \in Msgs |-> [retries |-> 0, last |-> 0, status |-> "NOT_PERSISTED"]]
      /\ report = [m \in Msgs |-> "none"]
  BY Zenon DEF Init
<1>3. tp = [pid |-> 0, base |-> 0, ack |-> 0, err |-> 0, acked |-> 0, drain |-> FALSE]
  BY Zenon DEF Init
<1>4. rk = [pid |-> 0, state |-> "REQ_PID", fatal |-> "NO_ERROR", purge |-> FALSE]
  BY ZenonT(40) DEF Init
<1>5. /\ outbufs = <<>> /\ waitresps = <<>> /\ resps = <<>> /\ results = <<>> /\ old = <<>>
      /\ ending = NoResult /\ round = NoRound /\ joined /\ moves = 0
  BY ZenonT(40) DEF Init
<1> HIDE DEF Init
<1>6. Requests = <<>>
  BY <1>5, SMTT(30) DEF Requests
<1>7. TypeInv
  <2>1. msgid \in 0..MaxMsgid /\ msgq \subseteq Msgs /\ xmitq \subseteq Msgs
    BY <1>1, <1>2, SMTT(30)
  <2>2. [retries |-> 0, last |-> 0, status |-> "NOT_PERSISTED"] \in MsgState
    BY <1>1, SMTT(30) DEF MsgState, Statuses
  <2>3. msg \in [Msgs -> MsgState] /\ \A m \in Msgs : msg[m].last = 0
    BY <1>2, <2>2, ZenonT(40)
  <2>4. report \in [Msgs -> Statuses \cup {"none"}]
    BY <1>2, ZenonT(40)
  <2>5. tp \in Eos
    BY <1>3, SMTT(30) DEF Eos
  <2>6. rk \in Instance
    BY <1>4, ZenonT(40) DEF Instance, Unassigned, Fatals
  <2>7. /\ outbufs \in Seq(Request) /\ waitresps \in Seq(Request) /\ resps \in Seq(Errors)
        /\ results \in Seq(Result) /\ old \in Seq(Result) /\ Len(resps) <= Len(waitresps)
    BY <1>5, SMTT(30)
  <2> QED
    BY <2>1, <2>3, <2>4, <2>5, <2>6, <2>7, ZenonT(40) DEF TypeInv
<1>8. PlaceInv
  <2>1. New = Msgs /\ Reported = {} /\ ending.left = {}
    BY <1>1, <1>2, <1>5, SMTT(30) DEF New, Reported, Msgs, NoResult
  <2>2. Held(Requests) = {} /\ Apart(Requests)
    BY <1>6, NoneHeld, ZenonT(40)
  <2> QED
    BY <1>2, <2>1, <2>2, ZenonT(40) DEF PlaceInv, Away
<1>9. DrainInv
  BY <1>6, SMTT(30) DEF DrainInv, DrainedBeforeBump, OneEpochInFlight
<1>10. ThreadInv
  <2>1. round \in [pid : Nat, moved : BOOLEAN] /\ ~round.moved
    BY <1>5 DEF NoRound
  <2> QED
    BY <1>5, <2>1, Zenon DEF ThreadInv, EndInv, RoundInv, FixedInv
<1> QED
  BY <1>7, <1>8, <1>9, <1>10, ZenonT(40) DEF IInv

(* Every step keeps the invariant. *)
LEMMA IInvStep == IInv /\ ThreadInv /\ [Next]_vars => IInv'
<1> SUFFICES ASSUME IInv, ThreadInv, [Next]_vars PROVE IInv'
  BY ZenonT(40)
<1>1. CASE Produce
  BY <1>1, ProduceKeeps, ZenonT(40)
<1>2. CASE BrokerThread
  <2>1. CASE Serve
    BY <2>1, ServeKeeps, Zenon
  <2>2. CASE PurgeOutbufs
    BY <2>2, PurgeOutbufsKeeps, Zenon
  <2>3. CASE Send
    BY <2>3, SendKeeps, Zenon
  <2>4. CASE PurgeQueues
    BY <2>4, PurgeQueuesKeeps, Zenon
  <2>5. CASE \E k \in Msgs : MsgTimeout(k)
    BY <2>5, MsgTimeoutKeeps, ZenonT(40)
  <2>6. CASE Receive
    BY <2>6, ReceiveKeeps, Zenon
  <2>7. CASE HandleResult
    BY <2>7, HandleResultKeeps, Zenon
  <2>8. CASE GetPid \/ Collect \/ ServeLate
    BY <2>8, GetPidKeeps, CollectKeeps, ServeLateKeeps, Zenon
  <2>9. CASE \E err \in {"__TRANSPORT", "__TIMED_OUT"} : Fail(err)
    BY <2>9, FailKeeps, ZenonT(40)
  <2>10. CASE Connect
    BY <2>10, ConnectKeeps, Zenon
  <2>11. CASE Leave
    BY <2>11, LeaveKeeps, Zenon
  <2>12. CASE Join
    BY <2>12, JoinKeeps, Zenon
  <2> QED
    BY <1>2, <2>1, <2>2, <2>3, <2>4, <2>5, <2>6, <2>7, <2>8, <2>9, <2>10, <2>11, <2>12,
       ZenonT(40)
       DEF BrokerThread
<1>3. CASE PidFsm
  BY <1>3, PidFsmKeeps, Zenon
<1>4. CASE PidUpdate
  BY <1>4, PidUpdateKeeps, Zenon
<1>5. CASE PidFailed
  BY <1>5, PidFailedKeeps, Zenon
<1>6. CASE Leader
  <2>1. CASE Answer
    BY <2>1, AnswerKeeps, Zenon
  <2>2. CASE Forget
    BY <2>2, ForgetKeeps, Zenon
  <2>3. CASE \E b \in stale : WriteStale(b)
    BY <2>3, WriteStaleKeeps, Zenon
  <2> QED
    BY <1>6, <2>1, <2>2, <2>3, ZenonT(40) DEF Leader
<1>7. CASE UNCHANGED vars
  BY <1>7, StutterKeeps, Zenon
<1>8. CASE Settled
  BY <1>8, <1>7, Zenon DEF Settled
<1>9. CASE OldLeader
  BY <1>9, OldResultKeeps, OldSuccessKeeps, OldErrorKeeps, OldRetryKeeps, OldReportKeeps, OldDoneKeeps,
     ZenonT(40)
     DEF OldLeader
<1> QED
  BY <1>1, <1>2, <1>3, <1>4, <1>5, <1>6, <1>7, <1>8, <1>9, ZenonT(40) DEF Next

(* The queues, the requests, the result that the thread of a previous      *)
(* leader is handling and the reports partition the messages in every      *)
(* reachable state, whatever fails and however the threads interleave.     *)
THEOREM Invariance == Spec => [](IInv /\ ThreadInv)
<1>1. Init => IInv /\ ThreadInv
  BY IInvInit, Zenon
<1>2. IInv /\ ThreadInv /\ [Next]_vars => (IInv /\ ThreadInv)'
  BY IInvStep, ThreadStep, Zenon
<1> QED
  BY <1>1, <1>2, PTL DEF Spec

(* All requests in flight, those at a previous leader included, have the   *)
(* epoch of the partition, even if the round that sent them had read an    *)
(* older PID: toppar_pid_change() takes a PID over only when none is in    *)
(* flight.  The part of IInv that makes this inductive is that requests    *)
(* and messages in flight are counted alike: a count of 0 means no         *)
(* request, since no request is empty.                                     *)
THEOREM EpochsNeverMix == Spec => []OneEpochInFlight
<1>1. IInv => OneEpochInFlight
  BY Zenon DEF IInv, DrainInv
<1> QED
  BY <1>1, Invariance, PTL

(* While a partition keeps its leader, every request in flight also has    *)
(* the epoch of the instance: idemp_drain_done() bumps it only when none   *)
(* is in flight.  (A change of the leader breaks this: the thread of the   *)
(* previous leader may finish the drain after the one of the new leader    *)
(* has read the PID.)                                                      *)
THEOREM BumpsWait ==
    ASSUME MaxMoves = 0
    PROVE  Spec => []DrainedBeforeBump
<1>1. IInv => DrainedBeforeBump
  BY Zenon DEF IInv, DrainInv
<1> QED
  BY <1>1, Invariance, PTL

(* A message that is with a request is with one. *)
LEMMA InFlightOnce ==
    ASSUME IInv, NEW m \in Msgs
    PROVE  /\ m \in Held(Requests) => Cardinality(InFlight(m)) = 1
           /\ m \notin Held(Requests) => Cardinality(InFlight(m)) = 0
<1>1. InFlight(m) = {n \in 1..Len(Requests) : m \in Requests[n].msgs}
  BY RequestsType, Zenon DEF InFlight, IInv
<1>2. ASSUME m \in Held(Requests) PROVE Cardinality(InFlight(m)) = 1
  <2>1. PICK n \in 1..Len(Requests) : m \in Requests[n].msgs
    BY <1>2, Zenon DEF Held
  <2>2. ASSUME NEW k \in 1..Len(Requests), m \in Requests[k].msgs PROVE k = n
    BY <2>1, <2>2, ZenonT(40) DEF IInv, PlaceInv, Apart
  <2>3. InFlight(m) = {n}
    BY <1>1, <2>1, <2>2, Zenon
  <2> QED
    BY <2>3, FS_Singleton, Zenon
<1>3. ASSUME m \notin Held(Requests) PROVE Cardinality(InFlight(m)) = 0
  <2>1. InFlight(m) = {}
    BY <1>1, <1>3, ZenonT(40) DEF Held
  <2> QED
    BY <2>1, FS_EmptySet, Zenon
<1> QED
  BY <1>2, <1>3, Zenon

(* A message that was produced is in exactly one place, for any number of  *)
(* messages, retries and faults: handing it between the queues of the      *)
(* threads, a batch, its retry and its report neither loses nor copies it. *)
THEOREM NeitherLostNorCopied == Spec => []InOnePlace
<1>1. IInv => InOnePlace
  <2> SUFFICES ASSUME IInv, NEW m \in Msgs
               PROVE  Cardinality(InFlight(m))
                        + Cardinality({q \in {"new", "msgq", "xmitq", "ending", "reported"} :
                                          CASE q = "new" -> m > msgid
                                            [] q = "msgq" -> m \in msgq
                                            [] q = "xmitq" -> m \in xmitq
                                            [] q = "ending" -> m \in ending.left
                                            [] q = "reported" -> report[m] # "none"}) = 1
    BY Zenon DEF InOnePlace
  <2> DEFINE P == {q \in {"new", "msgq", "xmitq", "ending", "reported"} :
                      CASE q = "new" -> m > msgid
                        [] q = "msgq" -> m \in msgq
                        [] q = "xmitq" -> m \in xmitq
                        [] q = "ending" -> m \in ending.left
                        [] q = "reported" -> report[m] # "none"}
  <2>1. /\ P \subseteq {"new", "msgq", "xmitq", "ending", "reported"}
        /\ "new" \in P <=> m \in New
        /\ "msgq" \in P <=> m \in msgq
        /\ "xmitq" \in P <=> m \in xmitq
        /\ "ending" \in P <=> m \in ending.left
        /\ "reported" \in P <=> m \in Reported
    BY Zenon DEF New, Reported
  <2> HIDE DEF P
  <2>2. /\ Held(Requests) \cap (msgq \cup xmitq \cup Reported \cup ending.left \cup New) = {}
        /\ msgq \cap xmitq = {}
        /\ (msgq \cup xmitq) \cap (Reported \cup ending.left \cup New) = {}
        /\ (Reported \cup ending.left) \cap New = {} /\ ending.left \cap Reported = {}
        /\ m \in Held(Requests) \cup msgq \cup xmitq \cup Reported \cup ending.left \cup New
    BY Zenon DEF IInv, PlaceInv, Away
  <2>3. Cardinality(InFlight(m)) + Cardinality(P) = 1
    <3>1. CASE m \in Held(Requests)
      <4>1. P = {}
        BY <2>1, <2>2, <3>1, ZenonT(40)
      <4> QED
        BY <3>1, <4>1, InFlightOnce, FS_EmptySet, SMTT(30)
    <3>2. ASSUME NEW q, P = {q}, m \notin Held(Requests)
          PROVE  Cardinality(InFlight(m)) + Cardinality(P) = 1
      <4>1. Cardinality(InFlight(m)) = 0
        BY <3>2, InFlightOnce, Zenon
      <4>2. Cardinality(P) = 1
        BY <3>2, FS_Singleton, Zenon
      <4> QED
        BY <4>1, <4>2, SMTT(30)
    <3>3. CASE m \in msgq
      <4>1. P = {"msgq"} /\ m \notin Held(Requests)
        BY <2>1, <2>2, <3>3, Zenon
      <4> QED
        BY <3>2, <4>1, Zenon
    <3>4. CASE m \in xmitq
      <4>1. P = {"xmitq"} /\ m \notin Held(Requests)
        BY <2>1, <2>2, <3>4, Zenon
      <4> QED
        BY <3>2, <4>1, Zenon
    <3>5. CASE m \in Reported
      <4>1. P = {"reported"} /\ m \notin Held(Requests)
        BY <2>1, <2>2, <3>5, Zenon
      <4> QED
        BY <3>2, <4>1, Zenon
    <3>6. CASE m \in New
      <4>1. P = {"new"} /\ m \notin Held(Requests)
        BY <2>1, <2>2, <3>6, ZenonT(40)
      <4> QED
        BY <3>2, <4>1, Zenon
    <3>7. CASE m \in ending.left
      <4>1. P = {"ending"} /\ m \notin Held(Requests)
        BY <2>1, <2>2, <3>7, ZenonT(40)
      <4> QED
        BY <3>2, <4>1, Zenon
    <3> QED
      BY <2>2, <3>1, <3>3, <3>4, <3>5, <3>6, <3>7, ZenonT(40)
  <2> QED
    BY <2>3, Zenon DEF P
<1> QED
  BY <1>1, Invariance, PTL

(* The reports that a step may add. *)
LEMMA ReportsKept ==
    ASSUME NEW X, X \cap Reported = {},
           \A m \in Msgs : m \notin X => report'[m] = report[m]
    PROVE  \A m \in Msgs : report[m] # "none" => report'[m] = report[m]
  BY Zenon DEF Reported

(* No message of a request that leaves has been reported. *)
LEMMA Unreported ==
    ASSUME IInv, NEW b, Without(Requests, b, Requests')
    PROVE  b.msgs \cap Reported = {}
  BY Zenon DEF Without, IInv, PlaceInv, Away

(* A failure reports messages of the request only. *)
LEMMA FailureReports ==
    ASSUME IInv, NEW b, Without(Requests, b, Requests'), NEW p, NEW last, Failure(b, p, last)
    PROVE  \A m \in Msgs : report[m] # "none" => report'[m] = report[m]
<1>1. report' = [m \in Msgs |-> IF m \in b.msgs \ Retried(b, p) THEN msg'[m].status ELSE report[m]]
  BY Zenon DEF Failure
<1>2. (b.msgs \ Retried(b, p)) \cap Reported = {}
  BY Unreported, Zenon
<1> QED
  BY <1>1, <1>2, ReportsKept, Zenon

(* So does a success, but for messages of the queues that it acknowledges  *)
(* implicitly.                                                             *)
LEMMA SuccessReports ==
    ASSUME IInv, NEW b, b.msgs \cap Reported = {}, NEW last, Success(b, last)
    PROVE  \A m \in Msgs : report[m] # "none" => report'[m] = report[m]
<1> DEFINE acked == IF tp.acked < Min(b.msgs) - 1 THEN ImplicitAck(Max(b.msgs)) ELSE {}
<1>1. report' = [m \in Msgs |-> IF m \in b.msgs \cup acked THEN "PERSISTED" ELSE report[m]]
  BY Zenon DEF Success
<1>2. acked \subseteq msgq \cup xmitq
  BY Zenon DEF ImplicitAck
<1> HIDE DEF acked
<1>3. (msgq \cup xmitq) \cap Reported = {}
  BY Zenon DEF IInv, PlaceInv, Away
<1>4. (b.msgs \cup acked) \cap Reported = {}
  BY <1>2, <1>3, Zenon
<1> QED
  BY <1>1, <1>4, ReportsKept, ZenonT(40)

(* The result of a request that has left the place it was at. *)
LEMMA ResultReports ==
    ASSUME IInv, NEW b, Without(Requests, b, Requests'),
           NEW err, NEW sent, NEW last, ProduceResult(b, err, sent, last)
    PROVE  \A m \in Msgs : report[m] # "none" => report'[m] = report[m]
<1>1. CASE Success(b, last)
  BY <1>1, Unreported, SuccessReports, Zenon
<1>2. CASE \E p \in {ProduceError(b, err, sent)} : Failure(b, p, last)
  BY <1>2, FailureReports, Zenon
<1> QED
  BY <1>1, <1>2, Zenon DEF ProduceResult

(* A delivery report is final: no response, timeout, purge or implicit     *)
(* acknowledgement reports a message again.                                *)
THEOREM ReportsAreFinal == Spec => ReportFinal
<1> DEFINE Kept == \A m \in Msgs : report[m] # "none" => report'[m] = report[m]
<1>1. IInv /\ ThreadInv /\ [Next]_vars => [Kept]_vars
  <2> SUFFICES ASSUME IInv, ThreadInv, [Next]_vars PROVE [Kept]_vars
    BY Zenon
  <2>0. CASE UNCHANGED report
    BY <2>0, Zenon
  <2>1. CASE PurgeQueues
    <3>1. report' = [m \in Msgs |-> IF m \in msgq \cup xmitq THEN msg[m].status ELSE report[m]]
      BY <2>1, Zenon DEF PurgeQueues
    <3>2. (msgq \cup xmitq) \cap Reported = {}
      BY Zenon DEF IInv, PlaceInv, Away
    <3> QED
      BY <3>1, <3>2, ReportsKept, ZenonT(40)
  <2>2. ASSUME NEW k \in Msgs, MsgTimeout(k) PROVE Kept
    <3> DEFINE expired == {m \in msgq \cup xmitq : m <= k}
    <3>1. report' = [m \in Msgs |-> IF m \in expired THEN msg[m].status ELSE report[m]]
      BY <2>2, Zenon DEF MsgTimeout
    <3>2. expired \cap Reported = {}
      BY Zenon DEF IInv, PlaceInv, Away
    <3> HIDE DEF expired
    <3> QED
      BY <3>1, <3>2, ReportsKept, ZenonT(40)
  <2>3. CASE Receive
    <3>1. Without(Requests, Head(waitresps), Requests')
      BY <2>3, ReceiveRemoves, Zenon
    <3>2. ProduceResult(Head(waitresps), Head(resps), TRUE, LastInflight)
      BY <2>3, Zenon DEF Receive
    <3> QED
      BY <3>1, <3>2, ResultReports, ZenonT(40)
  <2>4. CASE HandleResult
    <3>1. /\ results # <<>> /\ results' = Tail(results) /\ UNCHANGED <<outbufs, waitresps, old>>
          /\ \E p : Failure(Head(results).req, p, LastInflight)
      BY <2>4, Zenon DEF HandleResult, move
    <3>2. Without(Requests, Head(results).req, Requests')
      BY <3>1, ResultRemoves, ZenonT(40)
    <3> QED
      BY <3>1, <3>2, FailureReports, ZenonT(40)
  <2>5. CASE OldSuccess
    <3>1. ending.at = "counted" /\ Success(ending.req, FALSE)
      BY <2>5, Zenon DEF OldSuccess
    <3>2. ending.req.msgs = ending.left
      BY <2>5, <3>1, OldStays, Zenon DEF ThreadInv, EndInv
    <3>3. ending.req.msgs \cap Reported = {}
      BY <3>2, Zenon DEF IInv, PlaceInv
    <3> QED
      BY <3>1, <3>3, SuccessReports, ZenonT(40)
  <2>8. CASE OldReport
    <3>1. report' = [m \in Msgs |-> IF m \in ending.left THEN msg'[m].status ELSE report[m]]
      BY <2>8, Zenon DEF OldReport
    <3>2. ending.left \cap Reported = {}
      BY Zenon DEF IInv, PlaceInv
    <3> QED
      BY <3>1, <3>2, ReportsKept, ZenonT(40)
  <2>9. CASE OldResult \/ OldError \/ OldRetry \/ OldDone
    BY <2>0, <2>9, Zenon DEF OldResult, OldError, OldRetry, OldDone, queues
  <2>6. CASE Produce \/ PidFsm \/ PidUpdate \/ PidFailed \/ Leader \/ Settled \/ UNCHANGED vars
    BY <2>0, <2>6, ZenonT(40)
       DEF Produce, PidFsm, PidUpdate, PidFailed, Leader, Answer, Forget, WriteStale, Settled, queues, vars
  <2>7. CASE \/ Serve \/ GetPid \/ Collect \/ ServeLate \/ PurgeOutbufs \/ Send \/ Connect \/ Leave \/ Join
             \/ \E err \in {"__TRANSPORT", "__TIMED_OUT"} : Fail(err)
    BY <2>0, <2>7, ZenonT(40)
       DEF Serve, GetPid, Collect, ServeLate, ServeQueue, PurgeOutbufs, Send, Connect, Leave, Join, Fail, queues
  <2> QED
    BY <2>1, <2>2, <2>3, <2>4, <2>5, <2>6, <2>7, <2>8, <2>9, ZenonT(40) DEF Next, BrokerThread, OldLeader
<1> QED
  BY <1>1, Invariance, PTL DEF Spec, ReportFinal
=============================================================================
