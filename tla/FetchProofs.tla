----------------------------- MODULE FetchProofs -----------------------------
(***************************************************************************)
(* Theorems about Fetch, for any finite set of brokers, any offsets to     *)
(* start at and seek to, and any size of batch, queue and log.             *)
(*                                                                         *)
(* IInv, which is inductive, adds to the types                             *)
(*   VersionInv  the version barrier: a call still to be served is newer   *)
(*               than all that is served, a request or a message is never  *)
(*               newer than the version its broker thread works with;      *)
(*   RoomInv     a broker thread asks only while the queue is below its    *)
(*               threshold, so the messages queued and the batches still   *)
(*               to come stay below the bound together;                    *)
(*   PauseInv    while the application holds the partition, either the     *)
(*               pause waits for the main thread and no resume follows it, *)
(*               or it is served and all that is queued or requested is    *)
(*               outdated.                                                 *)
(* Handlers map a partition to a partition; Moved and Served say what such *)
(* a step may change, so that each handler is looked at once.              *)
(***************************************************************************)
EXTENDS Fetch, FiniteSetTheorems, TLAPS

(* Types of the code the steps of the main thread and the broker threads    *)
(* keep.                                                                    *)
States    == {"NONE", "STOPPED", "OFFSET_QUERY", "OFFSET_WAIT", "ACTIVE"}
Positions == Offsets \cup Starts \cup Seeks \cup {INVALID}
Queued    == [offset : 0..(MaxEnd - 1) \cup {INVALID}, version : Nat \ {0}] \cup {Error}
Requested == [offset : Offsets, version : Nat \ {0}] \cup {NoFetch}

Lookups   == [broker : Brokers, version : Nat, query : Int]

Toppar ==
    [version : Nat, opVersion : Nat \ {0}, state : States, next : Positions, query : Int,
     timer : BOOLEAN, paused : BOOLEAN, app : Offsets \cup {INVALID}, lo : 0..MaxEnd \cup {INVALID},
     fetch : Offsets \cup {INVALID}, lastNext : Positions, fetchVersion : Nat,
     fetchq : Seq(Queued), queries : Seq(Lookups),
     broker : Brokers \cup {None}, nextBroker : Brokers \cup {None}]

(* An active partition has an absolute position. *)
Placed(t) == t.state = "ACTIVE" => t.next \in Offsets

(* r differs from t in its position, and perhaps by an error for the application. *)
Moved(t, r) ==
    /\ r \in Toppar /\ Placed(r)
    /\ r.version = t.version /\ r.opVersion = t.opVersion /\ r.fetchVersion = t.fetchVersion
    /\ r.paused = t.paused /\ r.app = t.app /\ r.fetch = t.fetch
    /\ r.broker = t.broker /\ r.nextBroker = t.nextBroker
    /\ r.fetchq = t.fetchq \/ r.fetchq = Append(t.fetchq, Error)

(* offset_retry() keeps the partition well placed. *)
LEMMA RetryMoves ==
    ASSUME NEW t \in Toppar
    PROVE  Moved(t, Retry(t))
<1>1. Retry(t) \in Toppar
  BY Zenon DEF Toppar, Retry, States
<1>2. Placed(Retry(t))
  BY Zenon DEF Toppar, Retry, Placed
<1> QED
  BY <1>1, <1>2, Zenon DEF Moved, Retry, Toppar

(* So does offset_request(), whether it sends the lookup or puts it off. *)
LEMMA RequestMoves ==
    ASSUME NEW t \in Toppar, NEW query \in Int, NEW backoff \in BOOLEAN
    PROVE  Moved(t, Request(t, query, backoff))
<1>1. CASE backoff \/ t.broker = None
  BY <1>1, RetryMoves, Zenon DEF Request
<1>2. CASE ~(backoff \/ t.broker = None)
  <2> DEFINE q == [broker |-> t.broker, version |-> t.opVersion,
                   query |-> IF query <= TAIL_BASE THEN END ELSE query]
             r == [t EXCEPT !.timer = FALSE, !.state = "OFFSET_WAIT", !.queries = Append(@, q)]
  <2>1. Request(t, query, backoff) = r
    BY <1>2, Zenon DEF Request
  <2>2. q \in Lookups
    BY <1>2 DEF Toppar, Lookups, END, TAIL_BASE
  <2>3. Append(t.queries, q) \in Seq(Lookups)
    BY <2>2 DEF Toppar
  <2> HIDE DEF q
  <2>4. r \in Toppar /\ Placed(r)
    BY <2>3, ZenonT(40) DEF Toppar, Placed, States
  <2> QED
    BY <2>1, <2>4, ZenonT(40) DEF Moved, Toppar
<1> QED
  BY <1>1, <1>2, Zenon

(* The offset of an absolute position, counted from the end for a tail query. *)
LEMMA ConcreteMoves ==
    ASSUME NEW t \in Toppar, NEW offset \in 0..MaxEnd
    PROVE  Moved(t, Concrete(t, offset))
<1> DEFINE next == IF t.query <= TAIL_BASE
                   THEN Max({0, offset + (t.query - TAIL_BASE)}) ELSE offset
           r    == [t EXCEPT !.state = "ACTIVE", !.next = next]
<1>1. next \in 0..MaxEnd
  <2>1. ASSUME NEW n \in Int
        PROVE  Max({0, n}) = IF n > 0 THEN n ELSE 0
    BY <2>1 DEF Max
  <2>2. t.query \in Int
    BY Zenon DEF Toppar
  <2> QED
    BY <2>1, <2>2, FetchAssumption DEF FetchAssumption, TAIL_BASE
<1>2. next \in Offsets
  BY <1>1, Zenon DEF Offsets
<1>3. Concrete(t, offset) = r
  BY Zenon DEF Concrete
<1>4. next \in Positions
  BY <1>2, Zenon DEF Positions
<1> HIDE DEF next
<1>5. r \in Toppar
  BY <1>4, Zenon DEF Toppar, States
<1>6. Placed(r)
  BY <1>2, Zenon DEF Toppar, Placed
<1> QED
  BY <1>3, <1>5, <1>6, ZenonT(40) DEF Moved, Toppar

(* The reset to an offset or to auto.offset.reset. *)
LEMMA ResetMoves ==
    ASSUME NEW t \in Toppar, NEW offset \in Int, NEW err \in BOOLEAN
    PROVE  Moved(t, Reset(t, offset, err))
<1> DEFINE target == IF offset = INVALID \/ err THEN AutoReset ELSE offset
           failed == [t EXCEPT !.state = "NONE", !.fetchq = Append(@, Error)]
           asking == [t EXCEPT !.query = target]
<1>1. target \in Int
  BY FetchAssumption DEF FetchAssumption, BEGINNING, END, INVALID
<1> HIDE DEF target
<1>2. Moved(t, failed)
  <2>1. Append(t.fetchq, Error) \in Seq(Queued)
    BY DEF Toppar, Queued
  <2>2. failed \in Toppar /\ Placed(failed)
    BY <2>1, ZenonT(40) DEF Toppar, Placed, States
  <2> QED
    BY <2>2, Zenon DEF Moved, Toppar
<1>3. t.lo >= 0 => Moved(t, Concrete(t, t.lo))
  <2>1. t.lo >= 0 => t.lo \in 0..MaxEnd
    BY DEF Toppar, INVALID
  <2> QED
    BY <2>1, ConcreteMoves, Zenon
<1>4. Moved(t, Request(asking, target, err))
  <2>1. asking \in Toppar
    BY <1>1, Zenon DEF Toppar
  <2>2. Moved(asking, Request(asking, target, err))
    BY <1>1, <2>1, RequestMoves, Zenon
  <2> QED
    BY <2>2, Zenon DEF Moved, Toppar
<1> QED
  BY <1>2, <1>3, <1>4, Zenon DEF Reset, target

(* A position is an integer, and an absolute one is an offset. *)
LEMMA PositionsInt ==
    /\ Offsets \subseteq Nat
    /\ Positions \subseteq Int
    /\ \A o \in Positions : IsLogical(o) \/ o \in Offsets
  BY FetchAssumption DEF FetchAssumption, Positions, Offsets, IsLogical, INVALID

(* next_offset_handle(), of a logical or an absolute offset. *)
LEMMA NextOffsetMoves ==
    ASSUME NEW t \in Toppar, NEW offset \in Positions, IsLogical(offset) \/ offset \in 0..MaxEnd
    PROVE  Moved(t, NextOffset(t, offset))
<1>1. CASE IsLogical(offset)
  <2> DEFINE s == [t EXCEPT !.next = offset]
  <2>1. s \in Toppar
    BY Zenon DEF Toppar
  <2>2. Moved(s, Reset(s, offset, FALSE))
    BY <2>1, ResetMoves, PositionsInt, Zenon
  <2> QED
    BY <1>1, <2>2, ZenonT(40) DEF NextOffset, Moved, Toppar
<1>2. CASE ~IsLogical(offset)
  BY <1>2, ConcreteMoves, Zenon DEF NextOffset
<1> QED
  BY <1>1, <1>2, Zenon

(* A start or a seek leaves the partition active only with an absolute      *)
(* offset.                                                                  *)
LEMMA PositionMoves ==
    ASSUME NEW t \in Toppar, NEW offset \in Starts \cup Seeks
    PROVE  Moved(t, Position(t, offset))
<1>0. offset \in Positions
  BY Zenon DEF Positions
<1>1. CASE IsLogical(offset)
  BY <1>0, <1>1, NextOffsetMoves, Zenon DEF Position
<1>2. CASE ~IsLogical(offset)
  <2> DEFINE r == [t EXCEPT !.next = offset, !.state = "ACTIVE"]
  <2>1. offset \in Offsets
    BY <1>0, <1>2, PositionsInt, Zenon
  <2>2. r \in Toppar /\ Placed(r)
    BY <1>0, <2>1, ZenonT(40) DEF Toppar, Placed, States
  <2> QED
    BY <1>2, <2>2, ZenonT(40) DEF Position, Moved, Toppar
<1> QED
  BY <1>1, <1>2, Zenon

(* The order on the natural numbers as a set of pairs. *)
Below == {p \in Nat \X Nat : p[1] < p[2]}

(* Every set of natural numbers that is not empty has a least element,      *)
(* which is its Min.                                                        *)
LEMMA LeastExists ==
    ASSUME NEW S \in SUBSET Nat, S # {}
    PROVE  Min(S) \in S /\ \A n \in S : Min(S) <= n
<1>1. IsWellFoundedOn(Below, Nat)
  BY NatLessThanWellFounded, Zenon DEF OpToRel, Below
<1>2. PICK m \in S : \A n \in S : <<n, m>> \notin Below
  BY <1>1, WFMin, Zenon
<1>3. ASSUME NEW n \in S
      PROVE  m <= n
  <2>1. n \in Nat /\ m \in Nat
    BY Zenon
  <2>2. ~(n < m)
    BY <1>2, <2>1, Zenon DEF Below
  <2> QED
    BY <2>1, <2>2
<1> QED
  BY <1>3, Zenon DEF Min

(* What the answers to Fetch requests put into a fetch queue. *)
Filled(q) == {n \in DOMAIN q : q[n] # Error}

(* The messages in a queue can be counted, and there are no more than its   *)
(* length.                                                                  *)
LEMMA FilledFinite ==
    ASSUME NEW q \in Seq(Queued)
    PROVE  /\ IsFiniteSet(Filled(q)) /\ Cardinality(Filled(q)) \in Nat
           /\ Cardinality(Filled(q)) <= Len(q)
<1>0. Len(q) \in Nat
  OBVIOUS
<1>1. IsFiniteSet(1..Len(q)) /\ Cardinality(1..Len(q)) = Len(q)
  BY <1>0, FS_Interval, SMTT(20), Zenon
<1>2. Filled(q) \subseteq 1..Len(q)
  BY DEF Filled
<1> QED
  BY <1>1, <1>2, FS_Subset, FS_CardinalityType, ZenonT(40)

(* A part of a queue holds no other messages, and no more of them. *)
Within(p, q) ==
    /\ p \in Seq(Queued)
    /\ \A n \in DOMAIN p : p[n] = Error \/ \E k \in DOMAIN q : p[n] = q[k]
    /\ Cardinality(Filled(p)) <= Cardinality(Filled(q))

(* Dropping messages from the head of a queue leaves a part of it. *)
LEMMA SuffixWithin ==
    ASSUME NEW q \in Seq(Queued), NEW m \in 1..(Len(q) + 1)
    PROVE  LET p == SubSeq(q, m, Len(q))
           IN  /\ Within(p, q)
               /\ Len(p) = Len(q) - m + 1
               /\ \A n \in 1..Len(p) : p[n] = q[n + m - 1]
<1> DEFINE p == SubSeq(q, m, Len(q))
           f == [n \in Filled(p) |-> n + m - 1]
<1>1. /\ p \in Seq(Queued) /\ Len(p) = Len(q) - m + 1
      /\ \A n \in 1..Len(p) : p[n] = q[n + m - 1]
  OBVIOUS
<1>a. DOMAIN p = 1..Len(p) /\ DOMAIN q = 1..Len(q) /\ Len(q) \in Nat /\ Len(p) \in Nat
  BY <1>1
<1> HIDE DEF p
<1>b. ASSUME NEW n \in DOMAIN p
      PROVE  n \in Int /\ n + m - 1 \in DOMAIN q /\ p[n] = q[n + m - 1]
  <2>1. n \in 1..Len(p)
    BY <1>a, Zenon
  <2>2. n + m - 1 \in 1..Len(q)
    BY <2>1, <1>1, <1>a
  <2> QED
    BY <2>1, <2>2, <1>1, <1>a
<1>2. f \in Injection(Filled(p), Filled(q))
  <2>1. f \in [Filled(p) -> Filled(q)]
    BY <1>b, Zenon DEF Filled
  <2>2. \A i, j \in Filled(p) : f[i] = f[j] => i = j
    BY <1>b DEF Filled
  <2> QED
    BY <2>1, <2>2, Zenon DEF Injection, IsInjective
<1>3. Cardinality(Filled(p)) <= Cardinality(Filled(q))
  BY <1>2, FS_Injection, FilledFinite, Zenon
<1>4. \A n \in DOMAIN p : \E k \in DOMAIN q : p[n] = q[k]
  BY <1>b, Zenon
<1> QED
  BY <1>1, <1>3, <1>4, Zenon DEF p, Within

(* An error for the application is not a message. *)
LEMMA ErrorWithin ==
    ASSUME NEW q \in Seq(Queued)
    PROVE  Within(Append(q, Error), q)
<1>1. Append(q, Error) \in Seq(Queued)
  BY DEF Queued
<1>2. Filled(Append(q, Error)) = Filled(q)
  BY DEF Filled
<1> QED
  BY <1>1, <1>2, FilledFinite DEF Within

(* A part of a part is a part. *)
LEMMA WithinTransitive ==
    ASSUME NEW o \in Seq(Queued), NEW p, NEW q \in Seq(Queued), Within(p, q), Within(o, p)
    PROVE  Within(o, q)
  BY FilledFinite DEF Within

(* A queue is a part of itself. *)
LEMMA WithinSelf ==
    ASSUME NEW q \in Seq(Queued)
    PROVE  Within(q, q)
  BY FilledFinite DEF Within

(* What q_purge_toppar_version() and rd_kafka_consume() leave of a queue. *)
LEMMA FirstKept ==
    ASSUME NEW q \in Seq(Queued), NEW S \in SUBSET DOMAIN q
    PROVE  LET m == Min(S \cup {Len(q) + 1})
           IN  /\ m \in 1..(Len(q) + 1)
               /\ m <= Len(q) => m \in S
               /\ \A n \in S : m <= n
<1> DEFINE T == S \cup {Len(q) + 1}
           m == Min(T)
<1>1. DOMAIN q = 1..Len(q) /\ Len(q) \in Nat
  OBVIOUS
<1>2. T \in SUBSET Nat /\ T # {}
  BY <1>1
<1>3. m \in T /\ \A n \in T : m <= n
  BY <1>2, LeastExists, Zenon
<1> HIDE DEF m
<1>4. m \in 1..(Len(q) + 1) /\ (m <= Len(q) => m \in S) /\ \A n \in S : m <= n
  BY <1>1, <1>3
<1> QED
  BY <1>4, Zenon DEF m

(* Purging a queue of outdated messages leaves a part of it. *)
LEMMA PurgeWithin ==
    ASSUME NEW q \in Seq(Queued), NEW version \in Nat
    PROVE  Within(Purge(q, version), q)
<1> DEFINE S == {i \in DOMAIN q : q[i].version >= version}
<1>1. Min(S \cup {Len(q) + 1}) \in 1..(Len(q) + 1)
  BY FirstKept, Zenon
<1> HIDE DEF S
<1>2. Within(SubSeq(q, Min(S \cup {Len(q) + 1}), Len(q)), q)
  BY <1>1, SuffixWithin, Zenon
<1> QED
  BY <1>2, Zenon DEF Purge, S

(* rd_kafka_consume() drops messages from the head, so what is left is a    *)
(* part of the queue and starts with an error or a message of the current   *)
(* version.                                                                 *)
LEMMA FreshWithin ==
    ASSUME NEW t \in Toppar
    PROVE  /\ Within(Fresh(t), t.fetchq)
           /\ Fresh(t) # <<>> => Head(Fresh(t)) = Error \/ Head(Fresh(t)).version >= t.version
<1> DEFINE q == t.fetchq
           Outdated(m) == m.version # 0 /\ m.version < t.version
           S == {i \in DOMAIN q : ~Outdated(q[i])}
           m == Min(S \cup {Len(q) + 1})
           p == SubSeq(q, m, Len(q))
<1>1. q \in Seq(Queued) /\ t.version \in Nat
  BY Zenon DEF Toppar
<1>2. Fresh(t) = p
  BY Zenon DEF Fresh
<1>3. m \in 1..(Len(q) + 1) /\ (m <= Len(q) => m \in S)
  BY <1>1, FirstKept, Zenon
<1> HIDE DEF m, S
<1>4. /\ Within(p, q) /\ Len(p) = Len(q) - m + 1
      /\ \A n \in 1..Len(p) : p[n] = q[n + m - 1]
  BY <1>1, <1>3, SuffixWithin, Zenon
<1>5. ASSUME p # <<>>
      PROVE  Head(p) = Error \/ Head(p).version >= t.version
  <2>1. p \in Seq(Queued) /\ Len(p) \in Nat /\ Len(p) # 0
    BY <1>4, <1>5, SMTT(30) DEF Within
  <2>2. Head(p) = q[m] /\ m \in S
    BY <2>1, <1>1, <1>3, <1>4
  <2>3. q[m] \in Queued
    BY <2>2, <1>1 DEF S
  <2>4. q[m].version = 0 \/ ~(q[m].version < t.version)
    BY <2>2, Zenon DEF S
  <2>5. q[m] = Error \/ q[m].version >= t.version
    BY <2>3, <2>4, <1>1 DEF Queued
  <2> QED
    BY <2>2, <2>5, Zenon
<1> QED
  BY <1>2, <1>4, <1>5, Zenon

(* The ops of the calls, and all ops: a start and a seek carry offsets of   *)
(* the application, a lookup that succeeded one of the log.                 *)
CallTypes == {"START", "STOP", "SEEK", "PAUSE", "RESUME"}

Ops ==
    {op \in [type : CallTypes \cup {"RESET", "OFFSET"}, version : Nat, offset : Int,
             broker : Brokers \cup {None}, err : {"none", "transient", "permanent"}] :
        /\ op.type \in CallTypes => op.version # 0
        /\ op.type = "START" => op.offset \in Starts
        /\ op.type = "SEEK" => op.offset \in Seeks
        /\ op.type = "OFFSET" /\ op.err = "none" => op.offset \in 0..MaxEnd}

(* r is the partition t after op. *)
Served(t, op, r) ==
    /\ r \in Toppar /\ Placed(r)
    /\ r.version = t.version /\ r.fetchVersion = t.fetchVersion /\ r.fetch = t.fetch
    /\ r.broker = t.broker /\ r.nextBroker = t.nextBroker
    /\ Within(r.fetchq, t.fetchq)
    /\ \/ r.opVersion = op.version /\ op.type \in CallTypes
       \/ r.opVersion = t.opVersion /\ op.type \in {"SEEK", "RESET", "OFFSET"}
    /\ r.paused = (op.type = "PAUSE" \/ (t.paused /\ op.type # "RESUME"))

(* An op that only moves the position. *)
LEMMA MovedServes ==
    ASSUME NEW s \in Toppar, NEW t \in Toppar, NEW op \in Ops, NEW r, Moved(s, r),
           s.version = t.version, s.fetchVersion = t.fetchVersion, s.fetch = t.fetch,
           s.broker = t.broker, s.nextBroker = t.nextBroker, s.fetchq = t.fetchq,
           \/ s.opVersion = op.version /\ op.type \in CallTypes
           \/ s.opVersion = t.opVersion /\ op.type \in {"SEEK", "RESET", "OFFSET"},
           s.paused = (op.type = "PAUSE" \/ (t.paused /\ op.type # "RESUME"))
    PROVE  Served(t, op, r)
<1>1. t.fetchq \in Seq(Queued)
  BY Zenon DEF Toppar
<1>2. Within(r.fetchq, t.fetchq)
  BY <1>1, ErrorWithin, WithinSelf, Zenon DEF Moved
<1>3. r.paused = (op.type = "PAUSE" \/ (t.paused /\ op.type # "RESUME"))
  BY Zenon DEF Moved
<1> QED
  BY <1>2, <1>3, Zenon DEF Served, Moved

(* Stopping the query timer changes nothing else. *)
LEMMA StopTimerKeeps ==
    ASSUME NEW t \in Toppar
    PROVE  /\ StopTimer(t) \in Toppar
           /\ \A f \in {"version", "opVersion", "fetchVersion", "fetch", "broker", "nextBroker",
                        "fetchq", "paused", "state", "next"} : StopTimer(t)[f] = t[f]
<1>1. (t.timer /\ t.state # "OFFSET_QUERY") \in BOOLEAN
  BY Zenon
<1>2. StopTimer(t) = [t EXCEPT !.timer = (t.timer /\ t.state # "OFFSET_QUERY")]
  BY Zenon DEF StopTimer
<1> QED
  BY <1>1, <1>2, ZenonT(40) DEF Toppar

(* The handlers of the main thread, one lemma each: fetch_start(). *)
LEMMA StartServes ==
    ASSUME NEW t \in Toppar, NEW op \in Ops, op.type = "START"
    PROVE  Served(t, op, FetchStart(t, op))
<1> DEFINE s == [t EXCEPT !.opVersion = op.version]
<1>1. s \in Toppar
  BY Zenon DEF Toppar, Ops, CallTypes
<1>2. Moved(s, Position(s, op.offset))
  BY <1>1, PositionMoves, Zenon DEF Ops
<1>3. s.paused = t.paused /\ s.opVersion = op.version
  BY Zenon DEF Toppar
<1>4. s.paused = (op.type = "PAUSE" \/ (t.paused /\ op.type # "RESUME"))
  <2>1. t.paused \in BOOLEAN
    BY Zenon DEF Toppar
  <2> QED
    BY <1>3, <2>1, Zenon
<1> HIDE DEF Served
<1>5. Served(t, op, Position(s, op.offset))
  BY <1>1, <1>2, <1>3, <1>4, MovedServes, Zenon DEF Toppar, CallTypes
<1> QED
  BY <1>5, Zenon DEF FetchStart

(* fetch_stop() *)
LEMMA StopServes ==
    ASSUME NEW t \in Toppar, NEW op \in Ops, op.type = "STOP"
    PROVE  Served(t, op, FetchStop(t, op))
<1> DEFINE s == StopTimer(t)
           r == [s EXCEPT !.opVersion = op.version, !.state = "STOPPED", !.app = INVALID]
<1>1. s \in Toppar
  BY StopTimerKeeps, Zenon
<1>2. /\ s.version = t.version /\ s.fetchVersion = t.fetchVersion /\ s.fetch = t.fetch
      /\ s.broker = t.broker /\ s.nextBroker = t.nextBroker /\ s.fetchq = t.fetchq
      /\ s.paused = t.paused
  BY StopTimerKeeps, Zenon
<1>3. FetchStop(t, op) = r
  BY Zenon DEF FetchStop
<1> HIDE DEF s
<1>a. op.version \in Nat \ {0}
  BY Zenon DEF Ops, CallTypes
<1>b. r \in Toppar
  BY <1>1, <1>a, ZenonT(40) DEF Toppar, States
<1>4. r \in Toppar /\ Placed(r)
  BY <1>1, <1>b, Zenon DEF Toppar, Placed
<1>5. /\ r.version = t.version /\ r.fetchVersion = t.fetchVersion /\ r.fetch = t.fetch
      /\ r.broker = t.broker /\ r.nextBroker = t.nextBroker /\ r.fetchq = t.fetchq
      /\ r.opVersion = op.version /\ r.paused = t.paused
  BY <1>1, <1>2, Zenon DEF Toppar
<1>6. t.fetchq \in Seq(Queued) /\ t.paused \in BOOLEAN
  BY Zenon DEF Toppar
<1> HIDE DEF r
<1> QED
  BY <1>3, <1>4, <1>5, <1>6, WithinSelf, Zenon DEF Served, CallTypes

(* An op that changes nothing: a seek of a partition that is not consumed. *)
LEMMA IdleServes ==
    ASSUME NEW t \in Toppar, Placed(t), NEW op \in Ops, op.type = "SEEK"
    PROVE  Served(t, op, t)
<1>1. t.fetchq \in Seq(Queued) /\ t.paused \in BOOLEAN
  BY Zenon DEF Toppar
<1> QED
  BY <1>1, WithinSelf, Zenon DEF Served

(* seek() *)
LEMMA SeekServes ==
    ASSUME NEW t \in Toppar, Placed(t), NEW op \in Ops, op.type = "SEEK"
    PROVE  Served(t, op, Seek(t, op))
<1>1. CASE t.state \in Lookup \cup {"ACTIVE"}
  <2> DEFINE s == StopTimer(t)
             u == [s EXCEPT !.opVersion = op.version]
  <2>1. s \in Toppar
    BY StopTimerKeeps, Zenon
  <2>2. /\ s.version = t.version /\ s.fetchVersion = t.fetchVersion /\ s.fetch = t.fetch
        /\ s.broker = t.broker /\ s.nextBroker = t.nextBroker /\ s.fetchq = t.fetchq
        /\ s.paused = t.paused
    BY StopTimerKeeps, Zenon
  <2> HIDE DEF s
  <2>3. u \in Toppar /\ u.opVersion = op.version
    BY <2>1, ZenonT(40) DEF Toppar, Ops, CallTypes
  <2>4. /\ u.version = t.version /\ u.fetchVersion = t.fetchVersion /\ u.fetch = t.fetch
        /\ u.broker = t.broker /\ u.nextBroker = t.nextBroker /\ u.fetchq = t.fetchq
        /\ u.paused = t.paused
    BY <2>1, <2>2, Zenon DEF Toppar
  <2>5. Seek(t, op) = Position(u, op.offset)
    BY <1>1, Zenon DEF Seek, s
  <2> HIDE DEF u
  <2>6. Moved(u, Position(u, op.offset))
    BY <2>3, PositionMoves, Zenon DEF Ops
  <2>7. u.paused = (op.type = "PAUSE" \/ (t.paused /\ op.type # "RESUME"))
    <3>1. t.paused \in BOOLEAN
      BY Zenon DEF Toppar
    <3> QED
      BY <2>4, <3>1, Zenon
  <2>8. Served(t, op, Position(u, op.offset))
    BY <2>3, <2>4, <2>6, <2>7, MovedServes, Zenon DEF CallTypes
  <2> QED
    BY <2>5, <2>8, Zenon
<1>2. CASE t.state \notin Lookup \cup {"ACTIVE"}
  BY <1>2, IdleServes, Zenon DEF Seek
<1> QED
  BY <1>1, <1>2, Zenon

(* pause_resume() of a pause *)
LEMMA PauseServes ==
    ASSUME NEW t \in Toppar, Placed(t), NEW op \in Ops, op.type = "PAUSE"
    PROVE  Served(t, op, Pause(t, op))
<1> DEFINE next == IF t.app # INVALID THEN t.app ELSE t.next
           q    == Purge(t.fetchq, op.version)
           r    == [t EXCEPT !.opVersion = op.version, !.paused = TRUE, !.next = next, !.fetchq = q]
<1>1. Pause(t, op) = r
  BY Zenon DEF Pause
<1>2. op.version \in Nat \ {0} /\ t.fetchq \in Seq(Queued)
  BY Zenon DEF Ops, Toppar, CallTypes
<1>3. Within(q, t.fetchq) /\ q \in Seq(Queued)
  BY <1>2, PurgeWithin, Zenon DEF Within
<1>4. next \in Positions /\ (t.state = "ACTIVE" => next \in Offsets)
  BY Zenon DEF Toppar, Positions, Placed
<1> HIDE DEF next, q
<1>5. r \in Toppar
  BY <1>2, <1>3, <1>4, Zenon DEF Toppar
<1>6. Placed(r)
  BY <1>4, Zenon DEF Toppar, Placed
<1>7. /\ r.version = t.version /\ r.fetchVersion = t.fetchVersion /\ r.fetch = t.fetch
      /\ r.broker = t.broker /\ r.nextBroker = t.nextBroker /\ r.fetchq = q
      /\ r.opVersion = op.version /\ r.paused = TRUE
  BY Zenon DEF Toppar
<1> HIDE DEF r
<1> QED
  BY <1>1, <1>3, <1>5, <1>6, <1>7, Zenon DEF Served, CallTypes

(* pause_resume() of a resume, which asks for the position anew. *)
LEMMA ResumeServes ==
    ASSUME NEW t \in Toppar, Placed(t), NEW op \in Ops, op.type = "RESUME"
    PROVE  Served(t, op, Resume(t, op))
<1> DEFINE s == [t EXCEPT !.opVersion = op.version, !.paused = FALSE]
<1>1. op.version \in Nat \ {0} /\ t.fetchq \in Seq(Queued)
  BY Zenon DEF Ops, Toppar, CallTypes
<1>2. s \in Toppar
  BY <1>1, Zenon DEF Toppar
<1>3. /\ s.version = t.version /\ s.fetchVersion = t.fetchVersion /\ s.fetch = t.fetch
      /\ s.broker = t.broker /\ s.nextBroker = t.nextBroker /\ s.fetchq = t.fetchq
      /\ s.opVersion = op.version /\ s.paused = FALSE
      /\ s.state = t.state /\ s.next = t.next
  BY Zenon DEF Toppar
<1>4. s.paused = (op.type = "PAUSE" \/ (t.paused /\ op.type # "RESUME"))
  BY <1>3, Zenon
<1>5. Resume(t, op) = IF s.state \in {"ACTIVE", "OFFSET_WAIT"} /\ s.next = INVALID
                      THEN NextOffset(s, s.next) ELSE s
  BY Zenon DEF Resume
<1> HIDE DEF s
<1>6. CASE s.state \in {"ACTIVE", "OFFSET_WAIT"} /\ s.next = INVALID
  <2>1. Moved(s, NextOffset(s, s.next))
    BY <1>2, <1>6, NextOffsetMoves DEF Positions, IsLogical, INVALID
  <2>2. Served(t, op, NextOffset(s, s.next))
    BY <1>2, <1>3, <1>4, <2>1, MovedServes, Zenon DEF CallTypes
  <2> QED
    BY <1>5, <1>6, <2>2, Zenon
<1>7. CASE ~(s.state \in {"ACTIVE", "OFFSET_WAIT"} /\ s.next = INVALID)
  <2>1. Placed(s)
    BY <1>3, Zenon DEF Placed
  <2>2. Served(t, op, s)
    BY <1>1, <1>2, <1>3, <1>4, <2>1, WithinSelf, Zenon DEF Served, CallTypes
  <2> QED
    BY <1>5, <1>7, <2>2, Zenon
<1> QED
  BY <1>6, <1>7, Zenon

(* offset_reset() after an answer out of range *)
LEMMA ResetServes ==
    ASSUME NEW t \in Toppar, NEW op \in Ops, op.type = "RESET"
    PROVE  Served(t, op, Reset(t, op.offset, TRUE))
<1>1. Moved(t, Reset(t, op.offset, TRUE))
  BY ResetMoves, Zenon DEF Ops
<1>2. t.paused = (op.type = "PAUSE" \/ (t.paused /\ op.type # "RESUME"))
  <2>1. t.paused \in BOOLEAN
    BY Zenon DEF Toppar
  <2> QED
    BY <2>1, Zenon
<1> QED
  BY <1>1, <1>2, MovedServes, Zenon

(* The answer to an OffsetRequest *)
LEMMA OffsetServes ==
    ASSUME NEW t \in Toppar, NEW op \in Ops, op.type = "OFFSET"
    PROVE  Served(t, op, HandleOffset(t, op))
<1>1. t.paused = (op.type = "PAUSE" \/ (t.paused /\ op.type # "RESUME"))
  <2>1. t.paused \in BOOLEAN
    BY Zenon DEF Toppar
  <2> QED
    BY <2>1, Zenon
<1>2. ASSUME NEW r, Moved(t, r)
      PROVE  Served(t, op, r)
  BY <1>1, <1>2, MovedServes, Zenon
<1>3. Served(t, op, Retry(t))
  BY <1>2, RetryMoves, Zenon
<1>4. t.query \in Int /\ t.fetchq \in Seq(Queued)
  BY Zenon DEF Toppar
<1>5. Served(t, op, Reset(t, t.query, TRUE))
  BY <1>2, <1>4, ResetMoves, Zenon
<1>6. LET r == Reset(t, t.query, TRUE)
      IN  Served(t, op, [r EXCEPT !.fetchq = Append(@, Error)])
  <2> DEFINE r == Reset(t, t.query, TRUE)
             s == [r EXCEPT !.fetchq = Append(@, Error)]
  <2>1. Served(t, op, r)
    BY <1>5, Zenon
  <2> HIDE DEF r
  <2>2. r \in Toppar /\ Placed(r) /\ r.fetchq \in Seq(Queued)
    BY <2>1, Zenon DEF Served, Toppar
  <2>3. Within(Append(r.fetchq, Error), t.fetchq)
    <3>1. Within(r.fetchq, t.fetchq)
      BY <2>1, Zenon DEF Served
    <3>2. Within(Append(r.fetchq, Error), r.fetchq) /\ Append(r.fetchq, Error) \in Seq(Queued)
      BY <2>2, ErrorWithin, Zenon DEF Within
    <3> QED
      BY <1>4, <3>1, <3>2, WithinTransitive, Zenon
  <2>4. s \in Toppar
    BY <2>2, <2>3, ZenonT(40) DEF Toppar, Within
  <2>5. Placed(s)
    BY <2>2, Zenon DEF Toppar, Placed
  <2>6. /\ s.version = r.version /\ s.fetchVersion = r.fetchVersion /\ s.fetch = r.fetch
        /\ s.broker = r.broker /\ s.nextBroker = r.nextBroker /\ s.paused = r.paused
        /\ s.opVersion = r.opVersion /\ s.fetchq = Append(r.fetchq, Error)
    BY <2>2, Zenon DEF Toppar
  <2> HIDE DEF s
  <2>7. Served(t, op, s)
    BY <2>1, <2>3, <2>4, <2>5, <2>6, Zenon DEF Served
  <2> QED
    BY <2>7, Zenon DEF r, s
<1>7. op.err \notin {"transient", "permanent"} => Served(t, op, NextOffset(t, op.offset))
  <2>1. op.err \notin {"transient", "permanent"} => op.offset \in 0..MaxEnd
    BY Zenon DEF Ops
  <2>2. op.offset \in 0..MaxEnd => op.offset \in Positions
    BY Zenon DEF Positions, Offsets
  <2> QED
    BY <2>1, <2>2, <1>2, NextOffsetMoves, Zenon
<1> QED
  BY <1>3, <1>5, <1>6, <1>7, Zenon DEF HandleOffset

(* Every op leaves the partition well formed. *)
LEMMA HandledServes ==
    ASSUME NEW t \in Toppar, Placed(t), NEW op \in Ops
    PROVE  Served(t, op, Handled(t, op))
<1>1. op.type \in CallTypes \cup {"RESET", "OFFSET"}
  BY Zenon DEF Ops
<1> QED
  BY <1>1, StartServes, StopServes, SeekServes, PauseServes, ResumeServes, ResetServes, OffsetServes, Zenon
  DEF Handled, CallTypes

(* Types, with the facts about the partition that the handlers rely on. *)
TypeInv ==
    /\ rktp \in Toppar
    /\ Placed(rktp)
    /\ ops \in Seq(Ops)
    /\ fetching \in [Brokers -> Requested]
    /\ log \in [start : 0..MaxEnd, end : 0..MaxEnd, leader : Brokers]
    /\ wanted \in Offsets \cup {ANY, NOTHING}
    /\ held \in BOOLEAN
    /\ calls \in 0..MaxCalls
    /\ rktp.broker = None => rktp.nextBroker # None

(* The versions: a call that waits for the main thread is newer than the    *)
(* ones served, the broker thread follows the main thread, and what was     *)
(* requested and received follows the broker thread.                        *)
VersionInv ==
    /\ rktp.version = calls + 1
    /\ rktp.fetchVersion <= rktp.opVersion /\ rktp.opVersion <= rktp.version
    /\ \A n \in 1..Len(ops) : ops[n].type \in CallTypes =>
          /\ rktp.opVersion < ops[n].version /\ ops[n].version <= rktp.version
          /\ \A k \in 1..(n - 1) : ops[k].type \in CallTypes => ops[k].version < ops[n].version
    /\ \A n \in 1..Len(rktp.fetchq) : rktp.fetchq[n].version <= rktp.fetchVersion
    /\ \A b \in Brokers : fetching[b].version <= rktp.fetchVersion

(* The brokers with a Fetch request in flight. *)
Waiting == {b \in Brokers : fetching[b] # NoFetch}

(* Every request in flight has room for its answer. *)
RoomInv ==
    Cardinality(Filled(rktp.fetchq)) + BatchSize * Cardinality(Waiting)
        < QueuedMin + BatchSize * Cardinality(Brokers)

(* A pause that is to be served, or is served and has left nothing to return. *)
PauseInv ==
    held =>
        \/ \E n \in 1..Len(ops) :
              ops[n].type = "PAUSE" /\ \A k \in (n + 1)..Len(ops) : ops[k].type # "RESUME"
        \/ /\ rktp.paused
           /\ \A n \in 1..Len(ops) : ops[n].type # "RESUME"
           /\ \A n \in 1..Len(rktp.fetchq) : rktp.fetchq[n].version < rktp.version
           /\ \A b \in Brokers : fetching[b].version < rktp.version

(* The inductive invariant. *)
IInv == TypeInv /\ VersionInv /\ RoomInv /\ PauseInv

(* Neither an error nor the lack of a request has a version. *)
LEMMA NoFetchVersion == NoFetch.version = 0 /\ Error.version = 0
  BY Zenon DEF NoFetch, Error

(* Initially nothing is requested and nothing is queued. *)
LEMMA IInvInit == Init => IInv
<1> SUFFICES ASSUME Init PROVE IInv
  BY Zenon
<1>0. (CHOOSE b \in Brokers : TRUE) \in Brokers
  BY FetchAssumption, Zenon DEF FetchAssumption
<1> DEFINE b0 == CHOOSE b \in Brokers : TRUE
<1>1. /\ rktp = [version |-> 1, opVersion |-> 1, state |-> "NONE", next |-> INVALID,
                 query |-> INVALID, timer |-> FALSE, paused |-> FALSE, app |-> INVALID,
                 lo |-> INVALID, fetch |-> INVALID, lastNext |-> INVALID,
                 fetchVersion |-> 0, fetchq |-> <<>>, queries |-> <<>>,
                 broker |-> b0, nextBroker |-> None]
      /\ log = [start |-> 0, end |-> 1, leader |-> b0]
  BY Zenon DEF Init
<1> HIDE DEF b0
<1>2. rktp \in Toppar
  BY <1>0, <1>1 DEF b0, Toppar, States, Positions, INVALID
<1>3. TypeInv
  <2>1. Placed(rktp) /\ rktp.broker # None
    BY <1>0, <1>1, FetchAssumption, Zenon DEF b0, Placed, FetchAssumption
  <2>2. log \in [start : 0..MaxEnd, end : 0..MaxEnd, leader : Brokers]
    BY <1>0, <1>1, FetchAssumption DEF b0, FetchAssumption
  <2>3. fetching \in [Brokers -> Requested] /\ ops \in Seq(Ops)
    BY DEF Init, Requested
  <2>4. wanted \in Offsets \cup {ANY, NOTHING} /\ held \in BOOLEAN
    BY FetchAssumption, Zenon DEF Init, FetchAssumption
  <2>5. calls \in 0..MaxCalls
    BY FetchAssumption DEF Init, FetchAssumption
  <2> QED
    BY <1>2, <2>1, <2>2, <2>3, <2>4, <2>5, Zenon DEF TypeInv
<1>4. VersionInv
  BY <1>1, NoFetchVersion DEF VersionInv, Init
<1>5. RoomInv
  <2>1. Filled(rktp.fetchq) = {} /\ Waiting = {}
    BY <1>1 DEF Filled, Waiting, Init
  <2>2. Cardinality(Brokers) \in Nat
    BY FetchAssumption, FS_CardinalityType, Zenon DEF FetchAssumption
  <2> QED
    BY <2>1, <2>2, FS_EmptySet, FetchAssumption, SMTT(30) DEF RoomInv, FetchAssumption
<1>6. PauseInv
  BY Zenon DEF Init, PauseInv
<1> QED
  BY <1>3, <1>4, <1>5, <1>6, Zenon DEF IInv

(* Messages that were there, errors, and answers to requests in flight. *)
Arrived(p, q) ==
    \A n \in 1..Len(p) :
        \/ p[n] = Error
        \/ \E k \in 1..Len(q) : p[n] = q[k]
        \/ \E b \in Brokers : p[n].version = fetching[b].version

(* The ops of s and, after them, ops that are no calls. *)
Joined(p, s) ==
    /\ p \in Seq(Ops) /\ Len(s) <= Len(p)
    /\ \A n \in 1..Len(s) : p[n] = s[n]
    /\ \A n \in (Len(s) + 1)..Len(p) : p[n].type \notin CallTypes

(* An op that is no call may join the others at any time. *)
LEMMA JoinedAppend ==
    ASSUME NEW s \in Seq(Ops), NEW op \in Ops, op.type \notin CallTypes
    PROVE  Joined(s, s) /\ Joined(Append(s, op), s)
  BY DEF Joined

(* A step that leaves the versions alone. *)
LEMMA QuietStep ==
    ASSUME IInv,
           rktp' \in Toppar, Placed(rktp'), rktp'.broker = None => rktp'.nextBroker # None,
           rktp'.version = rktp.version, rktp'.opVersion = rktp.opVersion,
           rktp'.fetchVersion = rktp.fetchVersion, rktp'.paused = rktp.paused,
           Arrived(rktp'.fetchq, rktp.fetchq),
           fetching' \in [Brokers -> Requested],
           \A b \in Brokers : fetching'[b] = fetching[b] \/ fetching'[b] = NoFetch,
           Joined(ops', ops),
           log' \in [start : 0..MaxEnd, end : 0..MaxEnd, leader : Brokers],
           wanted' \in Offsets \cup {ANY, NOTHING},
           UNCHANGED <<held, calls>>,
           RoomInv'
    PROVE  IInv'
<1> USE DEF IInv
<1>1. ops' \in Seq(Ops)
  BY Zenon DEF Joined
<1>2. TypeInv'
  BY <1>1, Zenon DEF TypeInv
<1>3. Len(ops) \in Nat /\ Len(ops') \in Nat /\ Len(ops) <= Len(ops')
  BY <1>1 DEF TypeInv, Joined
<1>4. \A n \in 1..Len(ops) : n \in 1..Len(ops') /\ ops'[n] = ops[n]
  BY <1>3 DEF Joined
<1>5. \A n \in 1..Len(ops') : ops'[n].type \in CallTypes => n \in 1..Len(ops)
  BY <1>3 DEF Joined
<1>6. rktp.version \in Nat /\ rktp.fetchVersion \in Nat /\ rktp.opVersion \in Nat \ {0}
  BY Zenon DEF TypeInv, Toppar
<1>7. VersionInv'
  <2>1. \A n \in 1..Len(ops') : ops'[n].type \in CallTypes =>
          /\ rktp'.opVersion < ops'[n].version /\ ops'[n].version <= rktp'.version
          /\ \A k \in 1..(n - 1) : ops'[k].type \in CallTypes => ops'[k].version < ops'[n].version
    <3> SUFFICES ASSUME NEW n \in 1..Len(ops'), ops'[n].type \in CallTypes
                 PROVE  /\ rktp'.opVersion < ops'[n].version /\ ops'[n].version <= rktp'.version
                        /\ \A k \in 1..(n - 1) : ops'[k].type \in CallTypes
                                                  => ops'[k].version < ops'[n].version
      BY Zenon
    <3>1. n \in 1..Len(ops) /\ ops'[n] = ops[n]
      BY <1>4, <1>5, Zenon
    <3>2. \A k \in 1..(n - 1) : ops'[k] = ops[k]
      BY <1>3, <1>4, <3>1, SMTT(30)
    <3> QED
      BY <3>1, <3>2, Zenon DEF VersionInv
  <2>2. \A n \in 1..Len(rktp'.fetchq) : rktp'.fetchq[n].version <= rktp'.fetchVersion
    <3> SUFFICES ASSUME NEW n \in 1..Len(rktp'.fetchq)
                 PROVE  rktp'.fetchq[n].version <= rktp.fetchVersion
      BY Zenon
    <3>1. \/ rktp'.fetchq[n] = Error
          \/ \E k \in 1..Len(rktp.fetchq) : rktp'.fetchq[n] = rktp.fetchq[k]
          \/ \E b \in Brokers : rktp'.fetchq[n].version = fetching[b].version
      BY Zenon DEF Arrived
    <3> QED
      BY <3>1, <1>6, NoFetchVersion, SMTT(30) DEF VersionInv
  <2>3. \A b \in Brokers : fetching'[b].version <= rktp'.fetchVersion
    BY <1>6, NoFetchVersion DEF VersionInv
  <2> QED
    BY <2>1, <2>2, <2>3, Zenon DEF VersionInv
<1>8. PauseInv'
  <2> SUFFICES ASSUME held PROVE PauseInv'
    BY Zenon DEF PauseInv
  <2>1. ASSUME NEW n \in 1..Len(ops), ops[n].type = "PAUSE",
               \A k \in (n + 1)..Len(ops) : ops[k].type # "RESUME"
        PROVE  PauseInv'
    <3>1. n \in 1..Len(ops') /\ ops'[n].type = "PAUSE"
      BY <1>4, <2>1, Zenon
    <3>2. \A k \in (n + 1)..Len(ops') : ops'[k].type # "RESUME"
      BY <1>3, <1>4, <1>5, <2>1, SMTT(30) DEF CallTypes
    <3> QED
      BY <3>1, <3>2, Zenon DEF PauseInv
  <2>2. ASSUME rktp.paused, \A n \in 1..Len(ops) : ops[n].type # "RESUME",
               \A n \in 1..Len(rktp.fetchq) : rktp.fetchq[n].version < rktp.version,
               \A b \in Brokers : fetching[b].version < rktp.version
        PROVE  PauseInv'
    <3>1. rktp.version > 0
      BY <1>6 DEF VersionInv
    <3>2. \A n \in 1..Len(rktp'.fetchq) : rktp'.fetchq[n].version < rktp'.version
      BY <2>2, <3>1, NoFetchVersion, Zenon DEF Arrived
    <3>3. \A b \in Brokers : fetching'[b].version < rktp'.version
      BY <2>2, <3>1, NoFetchVersion, Zenon
    <3>4. \A n \in 1..Len(ops') : ops'[n].type # "RESUME"
      BY <1>4, <1>5, <2>2, Zenon DEF CallTypes
    <3> QED
      BY <2>2, <3>2, <3>3, <3>4, Zenon DEF PauseInv
  <2> QED
    BY <2>1, <2>2, Zenon DEF PauseInv
<1> QED
  BY <1>2, <1>7, <1>8, Zenon

(* A part of the queue has nothing that arrived. *)
LEMMA WithinArrived ==
    ASSUME NEW q \in Seq(Queued), NEW p, Within(p, q)
    PROVE  Arrived(p, q)
<1>1. p \in Seq(Queued) /\ DOMAIN p = 1..Len(p) /\ DOMAIN q = 1..Len(q)
  BY DEF Within
<1> QED
  BY <1>1, Zenon DEF Within, Arrived

(* The cardinalities of RoomInv are natural numbers. *)
LEMMA RoomTypes ==
    ASSUME TypeInv
    PROVE  /\ Cardinality(Filled(rktp.fetchq)) \in Nat
           /\ IsFiniteSet(Waiting) /\ Cardinality(Waiting) \in Nat
           /\ Cardinality(Waiting) <= Cardinality(Brokers)
           /\ Cardinality(Brokers) \in Nat
           /\ BatchSize \in Nat \ {0} /\ QueuedMin \in Nat \ {0}
<1>1. rktp.fetchq \in Seq(Queued)
  BY Zenon DEF TypeInv, Toppar
<1>2. Waiting \subseteq Brokers
  BY Zenon DEF Waiting
<1>3. IsFiniteSet(Brokers) /\ BatchSize \in Nat \ {0} /\ QueuedMin \in Nat \ {0}
  BY FetchAssumption, Zenon DEF FetchAssumption
<1> QED
  BY <1>1, <1>2, <1>3, FilledFinite, FS_Subset, FS_CardinalityType, Zenon

(* The broker threads hold no more requests, the queue no more messages. *)
LEMMA RoomKept ==
    ASSUME TypeInv, RoomInv, rktp'.fetchq \in Seq(Queued), Within(rktp'.fetchq, rktp.fetchq),
           fetching' = fetching
    PROVE  RoomInv'
<1>1. Waiting' = Waiting
  BY Zenon DEF Waiting
<1>2. Cardinality(Filled(rktp'.fetchq)) \in Nat
  BY FilledFinite, Zenon
<1>3. Cardinality(Filled(rktp'.fetchq)) <= Cardinality(Filled(rktp.fetchq))
  BY Zenon DEF Within
<1>4. BatchSize * Cardinality(Waiting) \in Nat /\ BatchSize * Cardinality(Brokers) \in Nat
  BY RoomTypes
<1>5. Cardinality(Filled(rktp'.fetchq)) + BatchSize * Cardinality(Waiting)
        < QueuedMin + BatchSize * Cardinality(Brokers)
  BY <1>2, <1>3, <1>4, RoomTypes, SMTT(30) DEF RoomInv
<1> QED
  BY <1>1, <1>5, Zenon DEF RoomInv

(* A step of the main thread or a broker thread on the partition alone. *)
LEMMA PartitionStep ==
    ASSUME IInv,
           rktp' \in Toppar, Placed(rktp'), rktp'.broker = None => rktp'.nextBroker # None,
           rktp'.version = rktp.version, rktp'.opVersion = rktp.opVersion,
           rktp'.fetchVersion = rktp.fetchVersion, rktp'.paused = rktp.paused,
           Within(rktp'.fetchq, rktp.fetchq),
           Joined(ops', ops),
           log' \in [start : 0..MaxEnd, end : 0..MaxEnd, leader : Brokers],
           wanted' \in Offsets \cup {ANY, NOTHING},
           UNCHANGED <<fetching, held, calls>>
    PROVE  IInv'
<1>1. TypeInv /\ RoomInv /\ rktp.fetchq \in Seq(Queued) /\ rktp'.fetchq \in Seq(Queued)
  BY Zenon DEF IInv, TypeInv, Toppar
<1>2. RoomInv'
  BY <1>1, RoomKept, Zenon
<1>3. Arrived(rktp'.fetchq, rktp.fetchq)
  BY <1>1, WithinArrived, Zenon
<1>4. fetching' \in [Brokers -> Requested]
  BY <1>1, Zenon DEF TypeInv
<1> QED
  BY <1>2, <1>3, <1>4, QuietStep, Zenon

(* The cluster and stuttering change the log at most. *)
LEMMA ClusterStep ==
    ASSUME IInv, UNCHANGED <<client, history, calls>>,
           log' \in [start : 0..MaxEnd, end : 0..MaxEnd, leader : Brokers]
    PROVE  IInv'
<1>1. UNCHANGED <<rktp, ops, fetching, wanted, held, calls>>
  BY Zenon DEF client, history
<1>2. rktp \in Toppar /\ Placed(rktp) /\ ops \in Seq(Ops) /\ wanted \in Offsets \cup {ANY, NOTHING}
  BY Zenon DEF IInv, TypeInv
<1>3. rktp.broker = None => rktp.nextBroker # None
  BY Zenon DEF IInv, TypeInv
<1>4. Within(rktp.fetchq, rktp.fetchq) /\ Joined(ops, ops)
  BY <1>2, WithinSelf DEF Toppar, Joined
<1> QED
  BY <1>1, <1>2, <1>3, <1>4, PartitionStep, Zenon

(* The cluster changes only the log. *)
LEMMA ElectKeeps == ASSUME IInv, Elect PROVE IInv'
<1>1. log' \in [start : 0..MaxEnd, end : 0..MaxEnd, leader : Brokers]
  BY Zenon DEF IInv, TypeInv, Elect
<1> QED
  BY <1>1, ClusterStep, Zenon DEF Elect

(* Old messages leave the log. *)
LEMMA TrimKeeps == ASSUME IInv, Trim PROVE IInv'
<1>1. log' \in [start : 0..MaxEnd, end : 0..MaxEnd, leader : Brokers]
  BY FetchAssumption, SMTT(30) DEF IInv, TypeInv, Trim, FetchAssumption
<1> QED
  BY <1>1, ClusterStep, Zenon DEF Trim

(* A message joins the log. *)
LEMMA ExtendKeeps == ASSUME IInv, Extend PROVE IInv'
<1>1. log' \in [start : 0..MaxEnd, end : 0..MaxEnd, leader : Brokers]
  BY FetchAssumption, SMTT(30) DEF IInv, TypeInv, Extend, FetchAssumption
<1> QED
  BY <1>1, ClusterStep, Zenon DEF Extend

(* A step of something else changes nothing here. *)
LEMMA StutterKeeps == ASSUME IInv, UNCHANGED vars PROVE IInv'
<1>1. log' \in [start : 0..MaxEnd, end : 0..MaxEnd, leader : Brokers]
  BY Zenon DEF IInv, TypeInv, vars
<1> QED
  BY <1>1, ClusterStep, Zenon DEF vars

(* What the steps on the partition start from. *)
LEMMA Known ==
    ASSUME IInv
    PROVE  /\ rktp \in Toppar /\ Placed(rktp) /\ ops \in Seq(Ops)
           /\ rktp.fetchq \in Seq(Queued)
           /\ rktp.broker = None => rktp.nextBroker # None
           /\ log \in [start : 0..MaxEnd, end : 0..MaxEnd, leader : Brokers]
           /\ wanted \in Offsets \cup {ANY, NOTHING}
           /\ Joined(ops, ops) /\ Within(rktp.fetchq, rktp.fetchq)
<1>1. rktp \in Toppar /\ ops \in Seq(Ops) /\ rktp.fetchq \in Seq(Queued)
  BY Zenon DEF IInv, TypeInv, Toppar
<1> QED
  BY <1>1, WithinSelf DEF IInv, TypeInv, Joined

(* All versions are numbers. *)
LEMMA VersionTypes ==
    ASSUME IInv
    PROVE  /\ rktp.version \in Nat /\ rktp.opVersion \in Nat \ {0} /\ rktp.fetchVersion \in Nat
           /\ \A n \in 1..Len(ops) : ops[n].version \in Nat
           /\ \A n \in 1..Len(rktp.fetchq) : rktp.fetchq[n] \in Queued /\ rktp.fetchq[n].version \in Nat
           /\ \A b \in Brokers : fetching[b].version \in Nat
<1>1. rktp.version \in Nat /\ rktp.opVersion \in Nat \ {0} /\ rktp.fetchVersion \in Nat
  BY Known, Zenon DEF Toppar
<1>2. \A op \in Ops : op.version \in Nat
  BY Zenon DEF Ops
<1>3. \A n \in 1..Len(ops) : ops[n] \in Ops
  BY Known
<1>4. \A e \in Queued \cup Requested : e.version \in Nat
  BY DEF Queued, Requested, Error, NoFetch
<1>5. \A n \in 1..Len(rktp.fetchq) : rktp.fetchq[n] \in Queued
  BY Known
<1>6. \A b \in Brokers : fetching[b] \in Requested
  BY Zenon DEF IInv, TypeInv
<1> QED
  BY <1>1, <1>2, <1>3, <1>4, <1>5, <1>6, Zenon

(* rd_kafka_consume() returns the head of the queue. *)
LEMMA ConsumeKeeps == ASSUME IInv, Consume PROVE IInv'
<1> DEFINE q == Fresh(rktp)
           o == IF q = <<>> THEN INVALID ELSE Head(q).offset
           p == IF q = <<>> THEN q ELSE Tail(q)
           app == IF o = INVALID THEN rktp.app ELSE o + 1
<1>1. /\ rktp' = [rktp EXCEPT !.fetchq = p, !.app = app]
      /\ wanted' = IF o = INVALID THEN wanted ELSE o + 1
      /\ UNCHANGED <<ops, fetching, log, held, astray, calls, faults>>
  BY Zenon DEF Consume
<1>2. Within(q, rktp.fetchq) /\ q \in Seq(Queued)
  BY Known, FreshWithin, Zenon DEF Within
<1> HIDE DEF q
<1>3. Within(p, rktp.fetchq) /\ p \in Seq(Queued)
  <2>1. CASE q = <<>>
    BY <1>2, <2>1, Zenon
  <2>2. CASE q # <<>>
    <3>1. Tail(q) = SubSeq(q, 2, Len(q)) /\ 2 \in 1..(Len(q) + 1)
      BY <1>2, <2>2
    <3>2. Within(SubSeq(q, 2, Len(q)), q)
      BY <1>2, <3>1, SuffixWithin, Zenon
    <3>3. Within(Tail(q), q) /\ Tail(q) \in Seq(Queued)
      BY <3>1, <3>2, Zenon DEF Within
    <3> QED
      BY <1>2, <2>2, <3>3, Known, WithinTransitive, Zenon
  <2> QED
    BY <2>1, <2>2, Zenon
<1>4. o = INVALID \/ o + 1 \in 0..MaxEnd
  <2>1. q # <<>> => Head(q) \in Queued
    BY <1>2
  <2>2. MaxEnd \in Nat
    BY FetchAssumption, Zenon DEF FetchAssumption
  <2> QED
    BY <2>1, <2>2 DEF Queued, Error
<1>5. o = INVALID \/ o + 1 \in Offsets
  BY <1>4, Zenon DEF Offsets
<1> HIDE DEF o, p
<1>6. app \in Offsets \cup {INVALID} /\ wanted' \in Offsets \cup {ANY, NOTHING}
  BY <1>1, <1>5, Known, Zenon DEF Toppar
<1> HIDE DEF app
<1>7. rktp' \in Toppar /\ rktp'.fetchq = p
  BY <1>1, <1>3, <1>6, Known, Zenon DEF Toppar
<1>8. /\ Placed(rktp') /\ rktp'.broker = rktp.broker /\ rktp'.nextBroker = rktp.nextBroker
      /\ rktp'.version = rktp.version /\ rktp'.opVersion = rktp.opVersion
      /\ rktp'.fetchVersion = rktp.fetchVersion /\ rktp'.paused = rktp.paused
  BY <1>1, Known, Zenon DEF Toppar, Placed
<1> QED
  BY <1>1, <1>3, <1>6, <1>7, <1>8, Known, PartitionStep, Zenon

(* The timer sends a lookup that was put off. *)
LEMMA QueryTimerKeeps == ASSUME IInv, QueryTimer PROVE IInv'
<1>1. rktp' = Request(rktp, rktp.query, FALSE) /\ UNCHANGED <<ops, fetching, log, wanted, held, calls>>
  BY Zenon DEF QueryTimer
<1>2. rktp.query \in Int
  BY Known, Zenon DEF Toppar
<1>3. Moved(rktp, rktp')
  BY <1>1, <1>2, Known, RequestMoves, Zenon
<1>4. Within(rktp'.fetchq, rktp.fetchq)
  BY <1>3, Known, ErrorWithin, Zenon DEF Moved
<1> QED
  BY <1>1, <1>3, <1>4, Known, PartitionStep, Zenon DEF Moved

(* New metadata hands the partition to another broker thread. *)
LEMMA LeaderUpdateKeeps == ASSUME IInv, LeaderUpdate PROVE IInv'
<1> DEFINE t == [rktp EXCEPT !.nextBroker = log.leader]
<1>1. /\ rktp' \in {t, Retry(t)}
      /\ UNCHANGED <<ops, fetching, log, wanted, held, calls>>
  BY Zenon DEF LeaderUpdate, history
<1>2. /\ t \in Toppar /\ Placed(t) /\ t.nextBroker = log.leader /\ log.leader \in Brokers
      /\ t.version = rktp.version /\ t.opVersion = rktp.opVersion
      /\ t.fetchVersion = rktp.fetchVersion /\ t.paused = rktp.paused
      /\ t.fetchq = rktp.fetchq
  BY Known, ZenonT(40) DEF Toppar, Placed
<1> HIDE DEF t
<1>3. Moved(t, t) /\ Moved(t, Retry(t))
  BY <1>2, RetryMoves, Zenon DEF Moved
<1>4. Moved(t, rktp')
  BY <1>1, <1>3, Zenon
<1>5. Within(rktp'.fetchq, rktp.fetchq)
  BY <1>2, <1>4, Known, ErrorWithin, Zenon DEF Moved
<1>6. rktp'.nextBroker # None
  BY <1>2, <1>4, FetchAssumption, Zenon DEF Moved, FetchAssumption
<1> QED
  BY <1>1, <1>2, <1>4, <1>5, <1>6, Known, PartitionStep, ZenonT(40) DEF Moved

(* A broker thread gives the partition up. *)
LEMMA LeaveKeeps == ASSUME IInv, Leave PROVE IInv'
<1>1. /\ rktp' = [rktp EXCEPT !.broker = None] /\ rktp.nextBroker # None
      /\ UNCHANGED <<ops, fetching, log, wanted, held, calls>>
  BY Zenon DEF Leave, history
<1>2. /\ rktp' \in Toppar /\ Placed(rktp') /\ rktp'.nextBroker # None
      /\ rktp'.version = rktp.version /\ rktp'.opVersion = rktp.opVersion
      /\ rktp'.fetchVersion = rktp.fetchVersion /\ rktp'.paused = rktp.paused
      /\ rktp'.fetchq = rktp.fetchq
  BY <1>1, Known, Zenon DEF Toppar, Placed
<1> QED
  BY <1>1, <1>2, Known, PartitionStep, Zenon

(* A broker thread takes the partition over. *)
LEMMA JoinKeeps == ASSUME IInv, Join PROVE IInv'
<1>1. /\ rktp' = [rktp EXCEPT !.broker = rktp.nextBroker, !.nextBroker = None]
      /\ rktp.broker = None
      /\ UNCHANGED <<ops, fetching, log, wanted, held, calls>>
  BY Zenon DEF Join, history
<1>2. /\ rktp' \in Toppar /\ Placed(rktp') /\ rktp'.broker # None
      /\ rktp'.version = rktp.version /\ rktp'.opVersion = rktp.opVersion
      /\ rktp'.fetchVersion = rktp.fetchVersion /\ rktp'.paused = rktp.paused
      /\ rktp'.fetchq = rktp.fetchq
  BY <1>1, Known, ZenonT(40) DEF Toppar, Placed
<1> QED
  BY <1>1, <1>2, Known, PartitionStep, Zenon

(* A sequence without one of its elements. *)
LEMMA OneLess ==
    ASSUME NEW S, NEW s \in Seq(S), NEW n \in 1..Len(s)
    PROVE  s[n] \in S /\ SubSeq(s, 1, n - 1) \o SubSeq(s, n + 1, Len(s)) \in Seq(S)
<1>1. Len(s) \in Nat
  OBVIOUS
<1>2. \A i \in 1..Len(s) : s[i] \in S
  OBVIOUS
<1>3. SubSeq(s, 1, n - 1) \in Seq(S)
  BY <1>1, <1>2
<1>4. SubSeq(s, n + 1, Len(s)) \in Seq(S)
  BY <1>1, <1>2
<1> QED
  BY <1>2, <1>3, <1>4

(* A broker answers an OffsetRequest, which leaves an op. *)
LEMMA OffsetAnswerKeeps == ASSUME IInv, OffsetAnswer PROVE IInv'
<1>1. PICK n \in DOMAIN rktp.queries :
        /\ rktp' = [rktp EXCEPT !.queries = SubSeq(@, 1, n - 1) \o SubSeq(@, n + 1, Len(@))]
        /\ \E err \in {"none", "transient", "permanent"}, offset \in {log.start, log.end, INVALID} :
              /\ err = "none" => offset # INVALID
              /\ ops' = Append(ops, [Op("OFFSET", rktp.queries[n].version, offset)
                                        EXCEPT !.broker = rktp.queries[n].broker, !.err = err])
  <2>1. log.start # INVALID /\ log.end # INVALID
    BY Known DEF INVALID
  <2> QED
    BY <2>1, Zenon DEF OffsetAnswer
<1>2. UNCHANGED <<fetching, log, wanted, held, calls>>
  BY Zenon DEF OffsetAnswer, history
<1> DEFINE rest == SubSeq(rktp.queries, 1, n - 1) \o SubSeq(rktp.queries, n + 1, Len(rktp.queries))
<1>3. rktp.queries \in Seq(Lookups) /\ n \in 1..Len(rktp.queries)
  BY Known, SMTT(30) DEF Toppar
<1>4. rktp.queries[n] \in Lookups /\ rest \in Seq(Lookups)
  BY <1>3, OneLess, Zenon
<1>5. Joined(ops', ops)
  <2>1. PICK err \in {"none", "transient", "permanent"}, offset \in {log.start, log.end, INVALID} :
              /\ err = "none" => offset # INVALID
              /\ ops' = Append(ops, [Op("OFFSET", rktp.queries[n].version, offset)
                                        EXCEPT !.broker = rktp.queries[n].broker, !.err = err])
    BY <1>1, Zenon
  <2> DEFINE op == [Op("OFFSET", rktp.queries[n].version, offset)
                       EXCEPT !.broker = rktp.queries[n].broker, !.err = err]
  <2>2. offset \in Int /\ (err = "none" => offset \in 0..MaxEnd)
    BY <2>1, Known DEF INVALID
  <2>3. /\ op \in [type : CallTypes \cup {"RESET", "OFFSET"}, version : Nat, offset : Int,
                   broker : Brokers \cup {None}, err : {"none", "transient", "permanent"}]
        /\ op.type = "OFFSET" /\ op.offset = offset /\ op.err = err
    BY <1>4, <2>2, Zenon DEF Op, Lookups
  <2>4. op \in Ops /\ op.type \notin CallTypes
    BY <2>2, <2>3, Zenon DEF Ops, CallTypes
  <2> HIDE DEF op
  <2> QED
    BY <2>1, <2>4, Known, JoinedAppend, ZenonT(40) DEF op
<1> HIDE DEF rest
<1>6. /\ rktp' \in Toppar /\ Placed(rktp') /\ rktp'.broker = rktp.broker
      /\ rktp'.nextBroker = rktp.nextBroker
      /\ rktp'.version = rktp.version /\ rktp'.opVersion = rktp.opVersion
      /\ rktp'.fetchVersion = rktp.fetchVersion /\ rktp'.paused = rktp.paused
      /\ rktp'.fetchq = rktp.fetchq
  <2>1. rktp' = [rktp EXCEPT !.queries = rest]
    BY <1>1, Zenon DEF rest
  <2> QED
    BY <1>4, <2>1, Known, Zenon DEF Toppar, Placed
<1> QED
  BY <1>2, <1>5, <1>6, Known, PartitionStep, ZenonT(40)

(* The main thread serves an op; a call is newer than the ones served       *)
(* before it.                                                               *)
LEMMA OpServeKeeps == ASSUME IInv, OpServe PROVE IInv'
<1> DEFINE op == Head(ops)
<1>1. /\ ops # <<>> /\ ops' = Tail(ops) /\ rktp' = Handled(rktp, op)
      /\ UNCHANGED <<fetching, log, held, calls>>
  BY Zenon DEF OpServe
<1>2. wanted' \in Offsets \cup {ANY, NOTHING}
  <2>1. wanted' \in {wanted, ANY, 0}
    BY Zenon DEF OpServe
  <2>2. 0 \in Offsets
    BY FetchAssumption, SMTT(30) DEF Offsets, FetchAssumption
  <2> QED
    BY <2>1, <2>2, Known, Zenon
<1>3. /\ op = ops[1] /\ op \in Ops /\ ops' \in Seq(Ops) /\ Len(ops) \in Nat /\ Len(ops) >= 1
      /\ Len(ops') = Len(ops) - 1
      /\ \A n \in 1..Len(ops') : n + 1 \in 1..Len(ops) /\ ops'[n] = ops[n + 1]
  BY <1>1, Known
<1> HIDE DEF op
<1>4. Served(rktp, op, rktp')
  BY <1>1, <1>3, Known, HandledServes, ZenonT(40)
<1>5. /\ rktp'.version = rktp.version /\ rktp'.fetchVersion = rktp.fetchVersion
      /\ rktp'.broker = rktp.broker /\ rktp'.nextBroker = rktp.nextBroker
      /\ rktp' \in Toppar /\ Placed(rktp') /\ Within(rktp'.fetchq, rktp.fetchq)
      /\ rktp'.fetchq \in Seq(Queued)
  BY <1>4, Zenon DEF Served, Within
<1>6. TypeInv'
  BY <1>1, <1>2, <1>3, <1>5, Zenon DEF IInv, TypeInv
<1>7. /\ rktp.opVersion \in Nat \ {0} /\ rktp.version \in Nat /\ rktp.fetchVersion \in Nat
      /\ \A n \in 1..Len(ops) : ops[n].version \in Nat
  BY VersionTypes, Zenon
<1>8. /\ rktp.opVersion <= rktp'.opVersion /\ rktp'.opVersion <= rktp.version
      /\ rktp'.opVersion \in Nat
      /\ \A n \in 1..Len(ops') : ops'[n].type \in CallTypes => rktp'.opVersion < ops'[n].version
  <2>1. CASE rktp'.opVersion = rktp.opVersion
    <3>1. /\ rktp.opVersion <= rktp.version
          /\ \A n \in 1..Len(ops) : ops[n].type \in CallTypes => rktp.opVersion < ops[n].version
      BY Zenon DEF IInv, VersionInv
    <3>2. ASSUME NEW n \in 1..Len(ops'), ops'[n].type \in CallTypes
          PROVE  rktp'.opVersion < ops'[n].version
      <4>1. n + 1 \in 1..Len(ops) /\ ops'[n] = ops[n + 1]
        BY <1>3, Zenon
      <4> QED
        BY <2>1, <3>1, <3>2, <4>1, Zenon
    <3>3. rktp.opVersion <= rktp'.opVersion /\ rktp'.opVersion <= rktp.version /\ rktp'.opVersion \in Nat
      BY <1>7, <2>1, <3>1, SMTT(30)
    <3> QED
      BY <3>2, <3>3, Zenon
  <2>2. CASE rktp'.opVersion = op.version /\ op.type \in CallTypes
    <3>1. rktp.opVersion < op.version /\ op.version <= rktp.version
      BY <1>3, <2>2 DEF IInv, VersionInv
    <3>2. ASSUME NEW n \in 1..Len(ops'), ops'[n].type \in CallTypes
          PROVE  op.version < ops'[n].version
      <4>1. n + 1 \in 1..Len(ops) /\ ops'[n] = ops[n + 1] /\ 1 \in 1..((n + 1) - 1)
        BY <1>3, SMTT(30)
      <4> QED
        BY <1>3, <2>2, <3>2, <4>1, ZenonT(40) DEF IInv, VersionInv
    <3>3. rktp.opVersion <= rktp'.opVersion /\ rktp'.opVersion <= rktp.version /\ rktp'.opVersion \in Nat
      <4>1. op.version \in Nat
        BY <1>3, <1>7
      <4> QED
        BY <1>7, <2>2, <3>1, <4>1, SMTT(30)
    <3> QED
      BY <2>2, <3>2, <3>3, ZenonT(40)
  <2> QED
    BY <1>4, <2>1, <2>2, Zenon DEF Served
<1>9. Arrived(rktp'.fetchq, rktp.fetchq)
  BY <1>5, Known, WithinArrived, ZenonT(40)
<1>10. VersionInv'
  <2>1. \A n \in 1..Len(ops') : ops'[n].type \in CallTypes =>
          /\ ops'[n].version <= rktp.version
          /\ \A k \in 1..(n - 1) : ops'[k].type \in CallTypes => ops'[k].version < ops'[n].version
    <3> SUFFICES ASSUME NEW n \in 1..Len(ops'), ops'[n].type \in CallTypes
                 PROVE  /\ ops'[n].version <= rktp.version
                        /\ \A k \in 1..(n - 1) : ops'[k].type \in CallTypes
                                                  => ops'[k].version < ops'[n].version
      BY Zenon
    <3>1. n + 1 \in 1..Len(ops) /\ ops'[n] = ops[n + 1]
      BY <1>3, Zenon
    <3>2. \A k \in 1..(n - 1) : ops'[k] = ops[k + 1] /\ k + 1 \in 1..((n + 1) - 1)
      BY <1>3, SMTT(30)
    <3> QED
      BY <3>1, <3>2, Zenon DEF IInv, VersionInv
  <2>2. \A n \in 1..Len(rktp'.fetchq) : rktp'.fetchq[n].version <= rktp.fetchVersion
    <3> SUFFICES ASSUME NEW n \in 1..Len(rktp'.fetchq)
                 PROVE  rktp'.fetchq[n].version <= rktp.fetchVersion
      BY Zenon
    <3>1. \/ rktp'.fetchq[n] = Error
          \/ \E k \in 1..Len(rktp.fetchq) : rktp'.fetchq[n] = rktp.fetchq[k]
          \/ \E b \in Brokers : rktp'.fetchq[n].version = fetching[b].version
      BY <1>9, Zenon DEF Arrived
    <3> QED
      BY <3>1, <1>7, NoFetchVersion, SMTT(30) DEF IInv, VersionInv
  <2> QED
    BY <1>1, <1>5, <1>7, <1>8, <2>1, <2>2, SMTT(30) DEF IInv, VersionInv
<1>11. RoomInv'
  BY <1>1, <1>5, RoomKept, Zenon DEF IInv
<1>12. PauseInv'
  <2> SUFFICES ASSUME held PROVE PauseInv'
    BY <1>1, Zenon DEF PauseInv
  <2>1. rktp.version > 0
    BY <1>7 DEF IInv, VersionInv
  <2>2. ASSUME \A n \in 1..Len(rktp.fetchq) : rktp.fetchq[n].version < rktp.version,
               \A b \in Brokers : fetching[b].version < rktp.version,
               \A n \in 1..Len(ops') : ops'[n].type # "RESUME",
               rktp'.paused
        PROVE  PauseInv'
    <3>1. \A n \in 1..Len(rktp'.fetchq) : rktp'.fetchq[n].version < rktp.version
      BY <1>9, <2>1, <2>2, NoFetchVersion, Zenon DEF Arrived
    <3> QED
      BY <1>1, <1>5, <2>2, <3>1, Zenon DEF PauseInv
  <2>3. ASSUME NEW n \in 1..Len(ops), ops[n].type = "PAUSE",
               \A k \in (n + 1)..Len(ops) : ops[k].type # "RESUME"
        PROVE  PauseInv'
    <3>1. CASE n = 1
      <4>1. op.type = "PAUSE"
        BY <1>3, <2>3, <3>1, ZenonT(40)
      <4>2. rktp'.paused
        BY <1>4, <4>1, ZenonT(40) DEF Served
      <4>3. \A k \in 1..Len(ops') : ops'[k].type # "RESUME"
        BY <1>3, <2>3, <3>1, SMTT(30)
      <4>4. rktp.opVersion < rktp.version
        BY <1>3, <1>7, <3>1, <4>1, SMTT(30) DEF IInv, VersionInv, CallTypes
      <4>5. \A k \in 1..Len(rktp.fetchq) : rktp.fetchq[k].version \in Nat
        BY Known, SMTT(30) DEF Queued, Error
      <4>6. \A k \in 1..Len(rktp.fetchq) : rktp.fetchq[k].version < rktp.version
        BY <1>7, <4>4, <4>5, SMTT(30) DEF IInv, VersionInv
      <4>7. \A b \in Brokers : fetching[b].version \in Nat
        BY SMTT(30) DEF IInv, TypeInv, Requested, NoFetch
      <4>8. \A b \in Brokers : fetching[b].version < rktp.version
        BY <1>7, <4>4, <4>7, SMTT(30) DEF IInv, VersionInv
      <4> QED
        BY <2>2, <4>2, <4>3, <4>6, <4>8, Zenon
    <3>2. CASE n # 1
      <4>1. n - 1 \in 1..Len(ops') /\ ops'[n - 1].type = "PAUSE"
        BY <1>3, <2>3, <3>2, SMTT(30)
      <4>2. \A k \in ((n - 1) + 1)..Len(ops') : ops'[k].type # "RESUME"
        BY <1>3, <2>3, <3>2, SMTT(30)
      <4> QED
        BY <4>1, <4>2, Zenon DEF PauseInv
    <3> QED
      BY <3>1, <3>2, Zenon
  <2>4. ASSUME rktp.paused, \A n \in 1..Len(ops) : ops[n].type # "RESUME",
               \A n \in 1..Len(rktp.fetchq) : rktp.fetchq[n].version < rktp.version,
               \A b \in Brokers : fetching[b].version < rktp.version
        PROVE  PauseInv'
    <3>1. op.type # "RESUME" /\ \A n \in 1..Len(ops') : ops'[n].type # "RESUME"
      BY <1>3, <2>4
    <3>2. rktp'.paused
      BY <1>4, <2>4, <3>1, Zenon DEF Served
    <3> QED
      BY <2>2, <2>4, <3>1, <3>2, ZenonT(40)
  <2> QED
    BY <2>3, <2>4, Zenon DEF IInv, PauseInv
<1> QED
  BY <1>6, <1>10, <1>11, <1>12, Zenon DEF IInv

(* A call raises the version and leaves its op to the main thread. *)
LEMMA CallKeeps ==
    ASSUME IInv, NEW type \in CallTypes, NEW offset \in Int, Call(type, offset),
           type = "START" => offset \in Starts, type = "SEEK" => offset \in Seeks
    PROVE  IInv'
<1> DEFINE op == Op(type, rktp'.version, offset)
<1>1. /\ calls < MaxCalls /\ calls' = calls + 1
      /\ rktp' = [rktp EXCEPT !.version = @ + 1]
      /\ ops' = Append(ops, op)
      /\ UNCHANGED <<fetching, log>>
  BY Zenon DEF Call
<1>a. rktp.version + 1 \in Nat
  BY Known DEF Toppar
<1>b. rktp' \in Toppar
  BY <1>1, <1>a, Known, Zenon DEF Toppar
<1>2. /\ rktp' \in Toppar /\ Placed(rktp') /\ rktp'.version = rktp.version + 1
      /\ rktp'.opVersion = rktp.opVersion /\ rktp'.fetchVersion = rktp.fetchVersion
      /\ rktp'.paused = rktp.paused /\ rktp'.fetchq = rktp.fetchq
      /\ rktp'.broker = rktp.broker /\ rktp'.nextBroker = rktp.nextBroker
  BY <1>1, <1>b, Known, Zenon DEF Toppar, Placed
<1>3. rktp.version \in Nat /\ rktp.opVersion \in Nat \ {0} /\ rktp.fetchVersion \in Nat
  BY VersionTypes, Zenon
<1>4. op \in Ops /\ op.type = type /\ op.version = rktp.version + 1
  <2>1. rktp.version + 1 \in Nat /\ rktp.version + 1 # 0
    BY <1>3
  <2> QED
    BY <1>2, <2>1, Zenon DEF Op, Ops, CallTypes
<1>5. wanted' \in Offsets \cup {ANY, NOTHING}
  <2>1. ASSUME offset \in Starts \cup Seeks
        PROVE  First(offset) \in Offsets \cup {ANY}
    <3>1. 0 \in Offsets
      BY FetchAssumption DEF Offsets, FetchAssumption
    <3>2. offset \in Positions
      BY <2>1, Zenon DEF Positions
    <3> QED
      BY <3>1, <3>2, PositionsInt, Zenon DEF First
  <2>2. wanted' = CASE type \in {"START", "SEEK"} -> First(offset)
                    [] type = "STOP" -> NOTHING
                    [] OTHER -> wanted
    BY Zenon DEF Call
  <2> QED
    BY <2>1, <2>2, Known, Zenon
<1>6. held' \in BOOLEAN /\ (held' => type # "RESUME") /\ (held' /\ ~held => type = "PAUSE")
  <2>1. /\ type \in {"PAUSE", "RESUME"} => held = (type = "RESUME")
        /\ held' = IF type \in {"PAUSE", "RESUME"} THEN ~held ELSE held
    BY Zenon DEF Call
  <2>2. held \in BOOLEAN
    BY Zenon DEF IInv, TypeInv
  <2> QED
    BY <2>1, <2>2, Zenon
<1> HIDE DEF op
<1>7. /\ ops' \in Seq(Ops) /\ Len(ops) \in Nat /\ Len(ops') = Len(ops) + 1
      /\ \A n \in 1..Len(ops) : ops'[n] = ops[n]
      /\ ops'[Len(ops) + 1] = op
  BY <1>1, <1>4, Known, SMTT(30)
<1>8. TypeInv'
  <2>1. calls' \in 0..MaxCalls
    BY <1>1, FetchAssumption, SMTT(30) DEF IInv, TypeInv, FetchAssumption
  <2> QED
    BY <1>1, <1>2, <1>5, <1>6, <1>7, <2>1, ZenonT(40) DEF IInv, TypeInv
<1>9. VersionInv'
  <2>1. \A n \in 1..Len(ops) : ops[n].version \in Nat
    BY Known, SMTT(30) DEF Ops
  <2>2. ASSUME NEW n \in 1..Len(ops'), ops'[n].type \in CallTypes
        PROVE  /\ rktp'.opVersion < ops'[n].version /\ ops'[n].version <= rktp'.version
               /\ \A k \in 1..(n - 1) : ops'[k].type \in CallTypes => ops'[k].version < ops'[n].version
    <3>1. CASE n \in 1..Len(ops)
      <4>1. \A k \in 1..(n - 1) : ops'[k] = ops[k]
        BY <1>7, <3>1, SMTT(30)
      <4>2. ops'[n] = ops[n] /\ ops[n].version \in Nat
        BY <1>7, <2>1, <3>1, Zenon
      <4>3. /\ rktp.opVersion < ops[n].version /\ ops[n].version <= rktp.version
            /\ \A k \in 1..(n - 1) : ops[k].type \in CallTypes => ops[k].version < ops[n].version
        BY <2>2, <3>1, <4>2, Zenon DEF IInv, VersionInv
      <4>4. \A k \in 1..(n - 1) : ops'[k].type \in CallTypes => ops'[k].version < ops'[n].version
        BY <4>1, <4>2, <4>3, ZenonT(40)
      <4>5. rktp'.opVersion < ops'[n].version /\ ops'[n].version <= rktp'.version
        BY <1>2, <1>3, <4>2, <4>3, SMTT(30)
      <4> QED
        BY <4>4, <4>5, Zenon
    <3>2. CASE n = Len(ops) + 1
      <4>1. \A k \in 1..(n - 1) : k \in 1..Len(ops) /\ ops'[k] = ops[k]
        BY <1>7, <3>2
      <4>2. ops'[n].version = rktp.version + 1
        BY <1>4, <1>7, <3>2, Zenon
      <4> QED
        BY <1>2, <1>3, <2>1, <4>1, <4>2, SMTT(30) DEF IInv, VersionInv
    <3> QED
      BY <1>7, <3>1, <3>2, SMTT(30)
  <2> QED
    BY <1>1, <1>2, <1>3, <2>2, SMTT(30) DEF IInv, VersionInv, TypeInv
<1>10. RoomInv'
  BY <1>1, <1>2, Known, RoomKept, ZenonT(40) DEF IInv
<1>11. PauseInv'
  <2> SUFFICES ASSUME held' PROVE PauseInv'
    BY Zenon DEF PauseInv
  <2>1. CASE ~held
    <3>1. /\ Len(ops) + 1 \in 1..Len(ops') /\ ops'[Len(ops) + 1].type = "PAUSE"
          /\ \A k \in ((Len(ops) + 1) + 1)..Len(ops') : ops'[k].type # "RESUME"
      BY <1>4, <1>6, <1>7, <2>1, SMTT(30)
    <3> QED
      BY <3>1, Zenon DEF PauseInv
  <2>2. ASSUME NEW n \in 1..Len(ops), ops[n].type = "PAUSE",
               \A k \in (n + 1)..Len(ops) : ops[k].type # "RESUME"
        PROVE  PauseInv'
    <3>1. n \in 1..Len(ops') /\ ops'[n].type = "PAUSE"
      BY <1>7, <2>2, SMTT(30)
    <3>2. \A k \in (n + 1)..Len(ops') : ops'[k].type # "RESUME"
      <4> SUFFICES ASSUME NEW k \in (n + 1)..Len(ops') PROVE ops'[k].type # "RESUME"
        BY Zenon
      <4>1. CASE k = Len(ops) + 1
        BY <1>4, <1>6, <1>7, <4>1, Zenon
      <4>2. CASE k \in (n + 1)..Len(ops)
        BY <1>7, <2>2, <4>2, SMTT(30)
      <4> QED
        BY <1>7, <4>1, <4>2
    <3> QED
      BY <3>1, <3>2, Zenon DEF PauseInv
  <2>3. ASSUME rktp.paused, \A n \in 1..Len(ops) : ops[n].type # "RESUME",
               \A n \in 1..Len(rktp.fetchq) : rktp.fetchq[n].version < rktp.version,
               \A b \in Brokers : fetching[b].version < rktp.version
        PROVE  PauseInv'
    <3>1. \A n \in 1..Len(ops') : ops'[n].type # "RESUME"
      <4> SUFFICES ASSUME NEW n \in 1..Len(ops') PROVE ops'[n].type # "RESUME"
        BY Zenon
      <4>1. CASE n = Len(ops) + 1
        BY <1>4, <1>6, <1>7, <4>1, Zenon
      <4>2. CASE n \in 1..Len(ops)
        BY <1>7, <2>3, <4>2, Zenon
      <4> QED
        BY <1>7, <4>1, <4>2
    <3>2. \A n \in 1..Len(rktp.fetchq) : rktp.fetchq[n].version \in Nat
      BY VersionTypes, Zenon
    <3>3. \A b \in Brokers : fetching[b].version \in Nat
      BY VersionTypes, Zenon
    <3>4. \A n \in 1..Len(rktp'.fetchq) : rktp'.fetchq[n].version < rktp'.version
      BY <1>2, <1>3, <2>3, <3>2, SMTT(30)
    <3>5. \A b \in Brokers : fetching'[b].version < rktp'.version
      BY <1>1, <1>2, <1>3, <2>3, <3>3, SMTT(30)
    <3>6. rktp'.paused
      BY <1>2, <2>3, Zenon
    <3> QED
      BY <3>1, <3>4, <3>5, <3>6, Zenon DEF PauseInv
  <2> QED
    BY <2>1, <2>2, <2>3, Zenon DEF IInv, PauseInv
<1> QED
  BY <1>8, <1>9, <1>10, <1>11, Zenon DEF IInv

(* Without a new request a round of consumer_serve() only shortens the queue. *)
LEMMA DecideWithin ==
    ASSUME IInv, rktp.state = "ACTIVE"
    PROVE  LET t == Decide(rktp)
           IN  /\ t \in Toppar /\ Placed(t)
               /\ t.version = rktp.version /\ t.opVersion = rktp.opVersion
               /\ t.paused = rktp.paused /\ t.next = rktp.next
               /\ t.broker = rktp.broker /\ t.nextBroker = rktp.nextBroker
               /\ Within(t.fetchq, rktp.fetchq)
               /\ rktp.fetchVersion <= t.fetchVersion /\ t.fetchVersion <= rktp.opVersion
               /\ t.fetchVersion \in Nat \ {0} /\ t.fetch \in Offsets
<1>1. /\ rktp.next \in Offsets /\ rktp.opVersion \in Nat \ {0} /\ rktp.fetchVersion \in Nat
      /\ rktp.fetchVersion <= rktp.opVersion
  BY Known, Zenon DEF Toppar, Placed, IInv, VersionInv
<1> DEFINE q == Purge(rktp.fetchq, rktp.opVersion)
           t == [rktp EXCEPT !.fetch = rktp.next, !.lastNext = rktp.next,
                             !.fetchVersion = rktp.opVersion, !.fetchq = q]
<1>2. Within(q, rktp.fetchq) /\ q \in Seq(Queued)
  BY <1>1, Known, PurgeWithin, Zenon DEF Within
<1>3. CASE rktp.opVersion > rktp.fetchVersion \/ rktp.next # rktp.lastNext \/ rktp.fetch = INVALID
  <2>1. Decide(rktp) = t
    BY <1>3, Zenon DEF Decide
  <2> HIDE DEF q
  <2>2. t \in Toppar
    BY <1>1, <1>2, Known, ZenonT(40) DEF Toppar, Positions
  <2>3. /\ Placed(t) /\ t.version = rktp.version /\ t.opVersion = rktp.opVersion
        /\ t.paused = rktp.paused /\ t.next = rktp.next
        /\ t.broker = rktp.broker /\ t.nextBroker = rktp.nextBroker
        /\ t.fetchq = q /\ t.fetchVersion = rktp.opVersion /\ t.fetch = rktp.next
    BY Known, Zenon DEF Toppar, Placed
  <2> HIDE DEF t
  <2> QED
    BY <1>1, <1>2, <2>1, <2>2, <2>3, SMTT(30)
<1>4. CASE ~(rktp.opVersion > rktp.fetchVersion \/ rktp.next # rktp.lastNext \/ rktp.fetch = INVALID)
  <2>1. Decide(rktp) = rktp
    BY <1>4, Zenon DEF Decide
  <2>2. rktp.fetch \in Offsets /\ rktp.fetchVersion \in Nat \ {0}
    BY <1>1, <1>4, Known, SMTT(30) DEF Toppar
  <2> QED
    BY <1>1, <2>1, <2>2, Known, SMTT(30)
<1> QED
  BY <1>3, <1>4, Zenon

(* Multiplication is monotonic. *)
LEMMA ProductMonotonic ==
    ASSUME NEW a \in Nat, NEW i \in Nat, NEW j \in Nat, i <= j
    PROVE  a * i <= a * j
<1>1. a * (j - i) >= 0 /\ a * j = a * i + a * (j - i)
  BY SMTT(30)
<1> QED
  BY <1>1

(* The broker thread decides whether to fetch, and asks for a batch if      *)
(* there is room.                                                           *)
LEMMA ServeKeeps == ASSUME IInv, Serve PROVE IInv'
<1> DEFINE req  == [offset |-> rktp'.fetch, version |-> rktp'.fetchVersion]
           asks == ShouldFetch(rktp') /\ fetching[rktp.broker] = NoFetch
<1>1. /\ rktp.state = "ACTIVE" /\ rktp.broker \in Brokers
      /\ rktp' = Decide(rktp)
      /\ fetching' = IF asks THEN [fetching EXCEPT ![rktp.broker] = req] ELSE fetching
      /\ UNCHANGED <<ops, log, wanted, held, calls>>
  BY Known, Zenon DEF Serve, history, Toppar
<1>2. /\ rktp' \in Toppar /\ Placed(rktp')
      /\ rktp'.version = rktp.version /\ rktp'.opVersion = rktp.opVersion
      /\ rktp'.paused = rktp.paused
      /\ rktp'.broker = rktp.broker /\ rktp'.nextBroker = rktp.nextBroker
      /\ Within(rktp'.fetchq, rktp.fetchq) /\ rktp'.fetchq \in Seq(Queued)
      /\ rktp.fetchVersion <= rktp'.fetchVersion /\ rktp'.fetchVersion <= rktp.opVersion
      /\ rktp'.fetchVersion \in Nat \ {0} /\ rktp'.fetch \in Offsets
  BY <1>1, DecideWithin, Zenon DEF Within
<1>3. fetching \in [Brokers -> Requested] /\ req \in Requested
  BY <1>2, Zenon DEF IInv, TypeInv, Requested
<1>4. /\ rktp.fetchVersion \in Nat /\ rktp.opVersion \in Nat \ {0} /\ rktp.version \in Nat
      /\ \A n \in 1..Len(rktp.fetchq) : rktp.fetchq[n].version \in Nat
      /\ \A b \in Brokers : fetching[b].version \in Nat
  <2>1. \A n \in 1..Len(rktp.fetchq) : rktp.fetchq[n].version \in Nat
    <3>1. \A q \in Queued : q.version \in Nat
      BY DEF Queued, Error
    <3>2. rktp.fetchq \in Seq(Queued)
      BY Known, Zenon
    <3> QED
      BY <3>1, <3>2, SMTT(30)
  <2>2. \A b \in Brokers : fetching[b].version \in Nat
    BY <1>3 DEF Requested, NoFetch
  <2> QED
    BY <2>1, <2>2, Known, Zenon DEF Toppar
<1>5. Arrived(rktp'.fetchq, rktp.fetchq)
  BY <1>2, Known, WithinArrived, Zenon
<1>6. TypeInv'
  BY <1>1, <1>2, <1>3, Zenon DEF IInv, TypeInv
<1>7. /\ req.version = rktp'.fetchVersion
      /\ \A b \in Brokers : fetching'[b] = fetching[b] \/ (fetching'[b] = req /\ asks)
  BY <1>1, <1>3, Zenon
<1> HIDE DEF req, asks
<1>8. VersionInv'
  <2>1. \A n \in 1..Len(rktp'.fetchq) : rktp'.fetchq[n].version <= rktp'.fetchVersion
    <3> SUFFICES ASSUME NEW n \in 1..Len(rktp'.fetchq)
                 PROVE  rktp'.fetchq[n].version <= rktp'.fetchVersion
      BY Zenon
    <3>1. \/ rktp'.fetchq[n] = Error
          \/ \E k \in 1..Len(rktp.fetchq) : rktp'.fetchq[n] = rktp.fetchq[k]
          \/ \E b \in Brokers : rktp'.fetchq[n].version = fetching[b].version
      BY <1>5, Zenon DEF Arrived
    <3>2. /\ \A k \in 1..Len(rktp.fetchq) : rktp.fetchq[k].version <= rktp.fetchVersion
          /\ \A b \in Brokers : fetching[b].version <= rktp.fetchVersion
      BY Zenon DEF IInv, VersionInv
    <3> QED
      BY <3>1, <3>2, <1>2, <1>4, NoFetchVersion, SMTT(30)
  <2>2. \A b \in Brokers : fetching'[b].version <= rktp'.fetchVersion
    BY <1>2, <1>4, <1>7, SMTT(30) DEF IInv, VersionInv
  <2> QED
    BY <1>1, <1>2, <1>4, <2>1, <2>2, ZenonT(40) DEF IInv, VersionInv
<1>9. RoomInv'
  <2>1. CASE asks
    <3>1. Len(rktp'.fetchq) < QueuedMin
      BY <2>1, ZenonT(40) DEF asks, ShouldFetch
    <3>2. /\ Cardinality(Filled(rktp'.fetchq)) <= Len(rktp'.fetchq)
          /\ Cardinality(Filled(rktp'.fetchq)) \in Nat /\ Len(rktp'.fetchq) \in Nat
      BY <1>2, FilledFinite
    <3>3. /\ BatchSize \in Nat \ {0} /\ QueuedMin \in Nat \ {0}
          /\ IsFiniteSet(Brokers) /\ Cardinality(Brokers) \in Nat
      BY FetchAssumption, FS_CardinalityType, Zenon DEF FetchAssumption
    <3>4. Cardinality(Waiting') \in Nat /\ Cardinality(Waiting') <= Cardinality(Brokers)
      <4>1. Waiting' \subseteq Brokers
        BY Zenon DEF Waiting
      <4> QED
        BY <3>3, <4>1, FS_Subset, FS_CardinalityType, ZenonT(40)
    <3>5. BatchSize * Cardinality(Waiting') <= BatchSize * Cardinality(Brokers)
      BY <3>3, <3>4, ProductMonotonic, Zenon
    <3>6. BatchSize * Cardinality(Waiting') \in Nat /\ BatchSize * Cardinality(Brokers) \in Nat
      BY <3>3, <3>4, SMTT(30)
    <3>7. Cardinality(Filled(rktp'.fetchq)) + BatchSize * Cardinality(Waiting')
            < QueuedMin + BatchSize * Cardinality(Brokers)
      BY <3>1, <3>2, <3>3, <3>5, <3>6, SMTT(30)
    <3> QED
      BY <3>7, Zenon DEF RoomInv
  <2>2. CASE ~asks
    BY <1>1, <1>2, <2>2, RoomKept, ZenonT(40) DEF IInv
  <2> QED
    BY <2>1, <2>2, Zenon
<1>10. PauseInv'
  <2> SUFFICES ASSUME held PROVE PauseInv'
    BY <1>1, Zenon DEF PauseInv
  <2>1. CASE \E n \in 1..Len(ops) :
                ops[n].type = "PAUSE" /\ \A k \in (n + 1)..Len(ops) : ops[k].type # "RESUME"
    BY <1>1, <2>1, Zenon DEF PauseInv
  <2>2. ASSUME rktp.paused, \A n \in 1..Len(ops) : ops[n].type # "RESUME",
               \A n \in 1..Len(rktp.fetchq) : rktp.fetchq[n].version < rktp.version,
               \A b \in Brokers : fetching[b].version < rktp.version
        PROVE  PauseInv'
    <3>1. ~asks
      BY <1>2, <2>2, Zenon DEF asks, ShouldFetch
    <3>2. fetching' = fetching
      BY <1>1, <3>1, Zenon
    <3>3. rktp.version > 0
      BY <1>4 DEF IInv, VersionInv
    <3>4. \A n \in 1..Len(rktp'.fetchq) : rktp'.fetchq[n].version < rktp'.version
      BY <1>2, <1>5, <2>2, <3>3, NoFetchVersion, ZenonT(40) DEF Arrived
    <3> QED
      BY <1>1, <1>2, <2>2, <3>2, <3>4, ZenonT(40) DEF PauseInv
  <2> QED
    BY <2>1, <2>2, Zenon DEF IInv, PauseInv
<1> QED
  BY <1>6, <1>8, <1>9, <1>10, Zenon DEF IInv

(* The stored batch that holds an offset starts at or before it. *)
LEMMA BatchBounds ==
    ASSUME NEW offset \in Nat, NEW end \in Nat, log.end = end, offset < end
    PROVE  /\ BatchStart(offset) \in Nat /\ BatchStart(offset) <= offset
           /\ BatchEnd(offset) \in Nat /\ BatchStart(offset) < BatchEnd(offset)
           /\ BatchEnd(offset) <= end /\ BatchEnd(offset) <= BatchStart(offset) + BatchSize
<1>1. BatchSize \in Nat \ {0}
  BY FetchAssumption, Zenon DEF FetchAssumption
<1>2. /\ offset % BatchSize \in Nat /\ offset % BatchSize < BatchSize
  BY <1>1
<1>3. offset % BatchSize <= offset
  <2>1. offset = BatchSize * (offset \div BatchSize) + (offset % BatchSize)
    BY <1>1
  <2>2. offset \div BatchSize \in Nat
    BY <1>1
  <2>3. BatchSize * (offset \div BatchSize) \in Nat
    BY <1>1, <2>2, SMTT(30)
  <2> QED
    BY <1>2, <2>1, <2>3, SMTT(30)
<1>4. \A i, j \in Int : Min({i, j}) = IF i <= j THEN i ELSE j
  BY DEF Min
<1> DEFINE first == BatchStart(offset)
<1>5. first = offset - (offset % BatchSize) /\ first \in Nat /\ first <= offset
  BY <1>2, <1>3, SMTT(30) DEF BatchStart
<1>6. BatchEnd(offset) = IF first + BatchSize <= end THEN first + BatchSize ELSE end
  BY <1>1, <1>4, <1>5, SMTT(30) DEF BatchEnd
<1> HIDE DEF first
<1> QED
  BY <1>1, <1>5, <1>6 DEF first

(* The k numbers after n. *)
LEMMA RunLength ==
    ASSUME NEW n \in Nat, NEW k \in Nat \ {0}
    PROVE  IsFiniteSet((n + 1)..(n + k)) /\ Cardinality((n + 1)..(n + k)) = k
<1> DEFINE a == n + 1
           b == n + k
<1>1. a \in Int /\ b \in Int /\ a <= b /\ b - a + 1 = k
  OBVIOUS
<1> HIDE DEF a, b
<1>2. IsFiniteSet(a..b) /\ Cardinality(a..b) = IF a > b THEN 0 ELSE b - a + 1
  BY <1>1, FS_Interval, Zenon
<1>3. IsFiniteSet(a..b) /\ Cardinality(a..b) = k
  BY <1>1, <1>2, SMTT(30)
<1> QED
  BY <1>3, Zenon DEF a, b

(* An answer adds a batch at most. *)
LEMMA EnqueueArrives ==
    ASSUME IInv, NEW t \in Toppar, t.fetchq = rktp.fetchq, NEW b \in Brokers,
           fetching[b] # NoFetch, fetching[b].offset < log.end
    PROVE  LET r == Enqueue(t, fetching[b])
           IN  /\ r \in Toppar /\ (Placed(t) => Placed(r))
               /\ r.version = t.version /\ r.opVersion = t.opVersion
               /\ r.fetchVersion = t.fetchVersion /\ r.paused = t.paused
               /\ r.broker = t.broker /\ r.nextBroker = t.nextBroker
               /\ Arrived(r.fetchq, rktp.fetchq)
               /\ Cardinality(Filled(r.fetchq)) <= Cardinality(Filled(rktp.fetchq)) + BatchSize
<1> DEFINE req  == fetching[b]
           from == Max({BatchStart(req.offset), t.fetch})
           to   == BatchEnd(req.offset)
           new  == Messages(from, to, req.version)
           last == Max({t.fetch, to})
           r    == [t EXCEPT !.fetchq = t.fetchq \o new, !.fetch = last]
<1>1. req \in [offset : Offsets, version : Nat \ {0}] /\ req.offset \in Nat /\ req.offset < log.end
  BY PositionsInt, Zenon DEF IInv, TypeInv, Requested
<1>2. log.end \in 0..MaxEnd /\ log.end \in Nat /\ MaxEnd \in Nat /\ BatchSize \in Nat \ {0}
  <2>1. MaxEnd \in Nat /\ BatchSize \in Nat \ {0}
    BY FetchAssumption, Zenon DEF FetchAssumption
  <2>2. log.end \in 0..MaxEnd
    BY Known, Zenon
  <2> QED
    BY <2>1, <2>2
<1>3. /\ BatchStart(req.offset) \in Nat /\ to \in Nat /\ BatchStart(req.offset) < to
      /\ to <= log.end /\ to <= BatchStart(req.offset) + BatchSize
  BY <1>1, <1>2, BatchBounds, Zenon
<1>4. Enqueue(t, req) = r
  BY Zenon DEF Enqueue
<1> HIDE DEF req, to
<1>5. t.fetch \in Offsets \cup {INVALID} /\ t.fetch \in Int
  <2>1. t.fetch \in Offsets \cup {INVALID}
    BY Zenon DEF Toppar
  <2>2. INVALID \in Int
    BY DEF INVALID
  <2>3. \A o \in Offsets : o \in Int
    <3>1. Offsets \subseteq Nat
      BY PositionsInt, Zenon
    <3> QED
      BY ONLY <3>1
  <2> QED
    BY <2>1, <2>2, <2>3, Zenon
<1>6. \A i, j \in Int : Max({i, j}) = IF i >= j THEN i ELSE j
  BY DEF Max
<1>7. from \in Nat /\ from >= BatchStart(req.offset)
  BY <1>3, <1>5, <1>6, SMTT(30)
<1>8. last \in Offsets \cup {INVALID}
  <2>1. to \in Offsets
    BY <1>2, <1>3, SMTT(30) DEF Offsets
  <2>2. last = t.fetch \/ last = to
    BY <1>3, <1>5, <1>6, SMTT(30)
  <2> QED
    BY <1>5, <2>1, <2>2, ZenonT(40)
<1> HIDE DEF from, last
<1>9. /\ new \in Seq(Queued) /\ Len(new) \in Nat /\ Len(new) <= BatchSize
      /\ \A n \in 1..Len(new) : new[n].version = req.version
  <2>1. \A n \in 1..(to - from) : [offset |-> from + n - 1, version |-> req.version] \in Queued
    <3> SUFFICES ASSUME NEW n \in 1..(to - from)
                 PROVE  [offset |-> from + n - 1, version |-> req.version] \in Queued
      BY Zenon
    <3>1. from + n - 1 \in 0..(MaxEnd - 1)
      BY <1>2, <1>3, <1>7, SMTT(30)
    <3> QED
      BY <1>1, <3>1, Zenon DEF Queued
  <2>2. CASE to >= from
    <3>1. to - from \in Nat /\ to - from <= BatchSize
      BY <1>2, <1>3, <1>7, <2>2, SMTT(30)
    <3>2. new \in Seq(Queued) /\ Len(new) = to - from
      BY <2>1, <3>1 DEF Messages
    <3>3. \A n \in 1..(to - from) : new[n].version = req.version
      BY Zenon DEF Messages
    <3> QED
      BY <3>1, <3>2, <3>3, ZenonT(40)
  <2>3. CASE to < from
    <3>1. new = <<>>
      BY <1>3, <1>7, <2>3, SMTT(30) DEF Messages
    <3> QED
      BY <1>2, <3>1, SMTT(30)
  <2>4. to >= from \/ to < from
    BY <1>3, <1>7
  <2> QED
    BY <2>2, <2>3, <2>4, Zenon
<1> HIDE DEF new
<1>10. t.fetchq \in Seq(Queued)
  BY Zenon DEF Toppar
<1>11. t.fetchq \o new \in Seq(Queued)
  BY <1>9, <1>10
<1>12. r \in Toppar
  BY <1>8, <1>11, Zenon DEF Toppar
<1>13. /\ Placed(t) => Placed(r)
       /\ r.version = t.version /\ r.opVersion = t.opVersion
       /\ r.fetchVersion = t.fetchVersion /\ r.paused = t.paused
       /\ r.broker = t.broker /\ r.nextBroker = t.nextBroker
       /\ r.fetchq = t.fetchq \o new
  BY Zenon DEF Toppar, Placed
<1> HIDE DEF r
<1>14. Arrived(r.fetchq, rktp.fetchq)
  <2> SUFFICES ASSUME NEW n \in 1..Len(r.fetchq)
               PROVE  \/ \E k \in 1..Len(rktp.fetchq) : r.fetchq[n] = rktp.fetchq[k]
                      \/ r.fetchq[n].version = req.version
    BY Zenon DEF Arrived, req
  <2>1. CASE n <= Len(rktp.fetchq)
    BY <1>9, <1>10, <1>13, <2>1, SMTT(30)
  <2>2. CASE n > Len(rktp.fetchq)
    <3>1. n - Len(t.fetchq) \in 1..Len(new) /\ r.fetchq[n] = new[n - Len(t.fetchq)]
      BY <1>9, <1>10, <1>13, <2>2, SMTT(30)
    <3> QED
      BY <1>9, <3>1, Zenon
  <2> QED
    BY <1>10, <2>1, <2>2, SMTT(30)
<1>15. Cardinality(Filled(r.fetchq)) <= Cardinality(Filled(rktp.fetchq)) + BatchSize
  <2> DEFINE L == Len(rktp.fetchq)
             X == (L + 1)..(L + BatchSize)
  <2>1. L \in Nat
    BY <1>10
  <2>2. Filled(r.fetchq) \subseteq Filled(rktp.fetchq) \cup X
    <3> SUFFICES ASSUME NEW n \in Filled(r.fetchq), n \notin X
                 PROVE  n \in Filled(rktp.fetchq)
      BY Zenon
    <3>1. n \in 1..Len(r.fetchq) /\ r.fetchq[n] # Error
      BY <1>9, <1>10, <1>13, SMTT(30) DEF Filled
    <3>2. Len(r.fetchq) <= L + BatchSize /\ n <= L
      BY <1>2, <1>9, <1>10, <1>13, <2>1, <3>1, SMTT(30)
    <3>3. r.fetchq[n] = rktp.fetchq[n] /\ n \in DOMAIN rktp.fetchq
      BY <1>9, <1>10, <1>13, <2>1, <3>1, <3>2, SMTT(30)
    <3> QED
      BY <3>1, <3>3, Zenon DEF Filled
  <2>3. IsFiniteSet(X) /\ Cardinality(X) = BatchSize
    BY <1>2, <2>1, RunLength, Zenon
  <2> HIDE DEF X
  <2>4. IsFiniteSet(Filled(rktp.fetchq)) /\ Cardinality(Filled(rktp.fetchq)) \in Nat
    BY <1>10, FilledFinite, ZenonT(40)
  <2>5. /\ IsFiniteSet(Filled(rktp.fetchq) \cup X)
        /\ Cardinality(Filled(rktp.fetchq) \cup X) <= Cardinality(Filled(rktp.fetchq)) + BatchSize
    <3>1. IsFiniteSet(Filled(rktp.fetchq) \cap X) /\ Cardinality(Filled(rktp.fetchq) \cap X) \in Nat
      BY <2>4, FS_Subset, FS_CardinalityType, Zenon
    <3>2. /\ IsFiniteSet(Filled(rktp.fetchq) \cup X)
          /\ Cardinality(Filled(rktp.fetchq) \cup X)
               = Cardinality(Filled(rktp.fetchq)) + Cardinality(X) - Cardinality(Filled(rktp.fetchq) \cap X)
      BY <2>3, <2>4, FS_Union, Zenon
    <3> QED
      BY <1>2, <2>3, <2>4, <3>1, <3>2, SMTT(30)
  <2>6. /\ Cardinality(Filled(r.fetchq)) <= Cardinality(Filled(rktp.fetchq) \cup X)
    BY <2>2, <2>5, FS_Subset, Zenon
  <2>7. Cardinality(Filled(r.fetchq)) \in Nat /\ Cardinality(Filled(rktp.fetchq) \cup X) \in Nat
    BY <1>11, <1>13, <2>5, FilledFinite, FS_CardinalityType, Zenon
  <2> QED
    BY <1>2, <2>4, <2>5, <2>6, <2>7, SMTT(30)
<1> QED
  BY <1>4, <1>12, <1>13, <1>14, <1>15, ZenonT(40) DEF req

(* An error of the partition is one entry. *)
LEMMA FailureArrives ==
    ASSUME IInv, NEW t \in Toppar, t.fetchq = rktp.fetchq, NEW b \in Brokers, fetching[b] # NoFetch
    PROVE  LET r == [t EXCEPT !.fetchq = Append(@, Failure(fetching[b]))]
           IN  /\ r \in Toppar /\ (Placed(t) => Placed(r))
               /\ r.fetchq = Append(rktp.fetchq, Failure(fetching[b]))
               /\ r.version = t.version /\ r.opVersion = t.opVersion
               /\ r.fetchVersion = t.fetchVersion /\ r.paused = t.paused
               /\ r.broker = t.broker /\ r.nextBroker = t.nextBroker
               /\ Arrived(r.fetchq, rktp.fetchq)
               /\ Cardinality(Filled(r.fetchq)) <= Cardinality(Filled(rktp.fetchq)) + BatchSize
<1> DEFINE f == Failure(fetching[b])
           q == Append(rktp.fetchq, f)
           r == [t EXCEPT !.fetchq = q]
<1>1. fetching[b] \in [offset : Offsets, version : Nat \ {0}]
  BY Zenon DEF IInv, TypeInv, Requested
<1>2. f \in Queued /\ f.version = fetching[b].version
  BY <1>1, Zenon DEF Failure, Queued
<1> HIDE DEF f
<1>3. rktp.fetchq \in Seq(Queued) /\ Len(rktp.fetchq) \in Nat
  BY Known
<1>4. /\ q \in Seq(Queued) /\ Len(q) = Len(rktp.fetchq) + 1
      /\ \A n \in 1..Len(rktp.fetchq) : q[n] = rktp.fetchq[n]
      /\ q[Len(q)] = f
  BY <1>2, <1>3
<1> HIDE DEF q
<1>5. \A n \in 1..Len(q) : n \in 1..Len(rktp.fetchq) \/ n = Len(q)
  BY <1>3, <1>4, SMTT(30)
<1>6. Arrived(q, rktp.fetchq)
  BY <1>2, <1>4, <1>5, Zenon DEF Arrived
<1>7. Cardinality(Filled(q)) <= Cardinality(Filled(rktp.fetchq)) + BatchSize
  <2>1. Filled(q) \subseteq Filled(rktp.fetchq) \cup {Len(q)}
    <3>1. DOMAIN q = 1..Len(q) /\ DOMAIN rktp.fetchq = 1..Len(rktp.fetchq)
      BY <1>3, <1>4
    <3> QED
      BY <1>4, <1>5, <3>1, Zenon DEF Filled
  <2>2. IsFiniteSet(Filled(rktp.fetchq)) /\ Cardinality(Filled(rktp.fetchq)) \in Nat
    BY <1>3, FilledFinite, Zenon
  <2>3. /\ IsFiniteSet(Filled(rktp.fetchq) \cup {Len(q)})
        /\ Cardinality(Filled(rktp.fetchq) \cup {Len(q)})
              = IF Len(q) \in Filled(rktp.fetchq) THEN Cardinality(Filled(rktp.fetchq))
                ELSE Cardinality(Filled(rktp.fetchq)) + 1
    BY <2>2, FS_AddElement, Zenon
  <2>4. Cardinality(Filled(q)) <= Cardinality(Filled(rktp.fetchq) \cup {Len(q)})
    BY <2>1, <2>3, FS_Subset, Zenon
  <2>5. Cardinality(Filled(q)) \in Nat /\ BatchSize \in Nat \ {0}
    BY <1>4, FilledFinite, FetchAssumption, Zenon DEF FetchAssumption
  <2> QED
    BY <2>2, <2>3, <2>4, <2>5, SMTT(30)
<1>8. r \in Toppar /\ r.fetchq = q
  BY <1>4, Zenon DEF Toppar
<1>9. /\ Placed(t) => Placed(r)
      /\ r.version = t.version /\ r.opVersion = t.opVersion
      /\ r.fetchVersion = t.fetchVersion /\ r.paused = t.paused
      /\ r.broker = t.broker /\ r.nextBroker = t.nextBroker
  BY Zenon DEF Toppar, Placed
<1>10. [t EXCEPT !.fetchq = Append(@, Failure(fetching[b]))] = r
  BY Zenon DEF q, f
<1> HIDE DEF r
<1> QED
  BY <1>6, <1>7, <1>8, <1>9, <1>10, ZenonT(40) DEF q, f

(* An answer takes the room that its request kept. *)
LEMMA ReplyKeepsRoom ==
    ASSUME TypeInv, RoomInv, NEW b \in Brokers, fetching[b] # NoFetch,
           fetching' = [fetching EXCEPT ![b] = NoFetch],
           rktp'.fetchq \in Seq(Queued),
           Cardinality(Filled(rktp'.fetchq)) <= Cardinality(Filled(rktp.fetchq)) + BatchSize
    PROVE  RoomInv'
<1>1. Waiting' = Waiting \ {b} /\ b \in Waiting
  BY Zenon DEF Waiting, TypeInv
<1>2. Cardinality(Waiting') = Cardinality(Waiting) - 1
  BY <1>1, RoomTypes, FS_RemoveElement, Zenon
<1>3. BatchSize * (Cardinality(Waiting) - 1) = BatchSize * Cardinality(Waiting) - BatchSize
  BY RoomTypes, SMTT(30)
<1>4. /\ BatchSize * Cardinality(Waiting) \in Nat /\ BatchSize * Cardinality(Brokers) \in Nat
      /\ BatchSize \in Nat /\ QueuedMin \in Nat
  BY RoomTypes, SMTT(30)
<1>5. Cardinality(Filled(rktp'.fetchq)) \in Nat /\ Cardinality(Filled(rktp.fetchq)) \in Nat
  BY RoomTypes, FilledFinite, Zenon
<1>6. Cardinality(Filled(rktp'.fetchq)) + (BatchSize * Cardinality(Waiting) - BatchSize)
        < QueuedMin + BatchSize * Cardinality(Brokers)
  BY <1>4, <1>5 DEF RoomInv
<1> QED
  BY <1>2, <1>3, <1>6, Zenon DEF RoomInv

(* What the answer to a Fetch request may change. *)
LEMMA ReplyStep ==
    ASSUME IInv, NEW b \in Brokers, fetching[b] # NoFetch,
           fetching' = [fetching EXCEPT ![b] = NoFetch],
           rktp' \in Toppar, Placed(rktp'),
           rktp'.version = rktp.version, rktp'.opVersion = rktp.opVersion,
           rktp'.fetchVersion = rktp.fetchVersion, rktp'.paused = rktp.paused,
           rktp'.broker = rktp.broker, rktp'.nextBroker = rktp.nextBroker,
           Arrived(rktp'.fetchq, rktp.fetchq),
           Cardinality(Filled(rktp'.fetchq)) <= Cardinality(Filled(rktp.fetchq)) + BatchSize,
           Joined(ops', ops),
           UNCHANGED <<log, history, calls>>
    PROVE  IInv'
<1>1. rktp'.fetchq \in Seq(Queued)
  BY Zenon DEF Toppar
<1>2. RoomInv'
  BY <1>1, ReplyKeepsRoom, Zenon DEF IInv
<1>3. /\ fetching' \in [Brokers -> Requested]
      /\ \A c \in Brokers : fetching'[c] = fetching[c] \/ fetching'[c] = NoFetch
  BY Zenon DEF IInv, TypeInv, Requested
<1>4. log' = log /\ wanted' = wanted /\ UNCHANGED <<held, calls>>
  BY Zenon DEF history
<1>5. /\ log' \in [start : 0..MaxEnd, end : 0..MaxEnd, leader : Brokers]
      /\ wanted' \in Offsets \cup {ANY, NOTHING}
      /\ rktp'.broker = None => rktp'.nextBroker # None
  BY <1>4, Known, Zenon
<1> QED
  BY <1>2, <1>3, <1>4, <1>5, QuietStep, Zenon

(* The answer to a Fetch request, one case for each outcome. *)
LEMMA FetchReplyKeeps ==
    ASSUME IInv, NEW b \in Brokers, FetchReply(b)
    PROVE  IInv'
<1> DEFINE req  == fetching[b]
           live == rktp.broker = b /\ req.version >= rktp.fetchVersion
           Same(t) == /\ t \in Toppar /\ Placed(t) /\ t.fetchq = rktp.fetchq
                      /\ t.version = rktp.version /\ t.opVersion = rktp.opVersion
                      /\ t.fetchVersion = rktp.fetchVersion /\ t.paused = rktp.paused
                      /\ t.broker = rktp.broker /\ t.nextBroker = rktp.nextBroker
           AtStart == [rktp EXCEPT !.lo = log.start]
           NoLo    == [rktp EXCEPT !.lo = INVALID]
           Lost    == [NoLo EXCEPT !.fetch = INVALID]
           Told    == [NoLo EXCEPT !.fetchq = Append(@, Failure(req))]
           op      == Op("RESET", rktp.fetchVersion, rktp.fetch)
<1>1. /\ fetching[b] # NoFetch /\ fetching' = [fetching EXCEPT ![b] = NoFetch]
      /\ UNCHANGED <<log, history, calls>>
  BY Zenon DEF FetchReply
<1>2. Same(rktp)
  BY Known, Zenon
<1>3. log.start \in 0..MaxEnd
  BY Known, Zenon
<1>4. Same(AtStart)
  <2>1. AtStart \in Toppar
    BY <1>3, Known, Zenon DEF Toppar
  <2> QED
    BY <2>1, Known, Zenon DEF Toppar, Placed
<1>5. Same(NoLo)
  <2>1. NoLo \in Toppar
    BY Known, Zenon DEF Toppar
  <2> QED
    BY <2>1, Known, Zenon DEF Toppar, Placed
<1>6. Same(Lost)
  <2> HIDE DEF NoLo
  <2>1. Lost \in Toppar
    BY <1>5, Zenon DEF Toppar
  <2> QED
    BY <1>5, <2>1, Zenon DEF Toppar, Placed
<1>7. op \in Ops /\ op.type \notin CallTypes
  <2>1. rktp.fetchVersion \in Nat /\ rktp.fetch \in Offsets \cup {INVALID}
    BY Known, Zenon DEF Toppar
  <2>2. INVALID \in Int
    BY DEF INVALID
  <2>3. \A o \in Offsets : o \in Int
    BY PositionsInt
  <2>4. rktp.fetch \in Int
    BY <2>1, <2>2, <2>3, Zenon
  <2> QED
    BY <2>1, <2>4, Zenon DEF Op, Ops, CallTypes
<1> HIDE DEF op, AtStart, NoLo, Lost, Told
<1>8. Joined(ops, ops) /\ Joined(Append(ops, op), ops)
  BY <1>7, Known, JoinedAppend, Zenon
<1>9. ASSUME Same(rktp'), Joined(ops', ops)
      PROVE  IInv'
  <2>1. Arrived(rktp'.fetchq, rktp.fetchq)
    BY <1>9, ZenonT(40) DEF Arrived
  <2>2. Cardinality(Filled(rktp'.fetchq)) <= Cardinality(Filled(rktp.fetchq)) + BatchSize
    BY <1>9, RoomTypes DEF IInv
  <2> QED
    BY <1>1, <1>9, <2>1, <2>2, ReplyStep, ZenonT(40)
<1>10. CASE /\ b # log.leader
            /\ rktp' = NoLo
            /\ UNCHANGED <<ops, faults>>
  BY <1>5, <1>8, <1>9, <1>10, Zenon
<1>11. CASE /\ b = log.leader
            /\ req.offset \in log.start..log.end
            /\ rktp' = IF live /\ req.offset < log.end THEN Enqueue(AtStart, req) ELSE AtStart
            /\ UNCHANGED <<ops, faults>>
  <2>1. CASE live /\ req.offset < log.end
    <3>1. /\ rktp' \in Toppar /\ (Placed(AtStart) => Placed(rktp'))
          /\ rktp'.version = AtStart.version /\ rktp'.opVersion = AtStart.opVersion
          /\ rktp'.fetchVersion = AtStart.fetchVersion /\ rktp'.paused = AtStart.paused
          /\ rktp'.broker = AtStart.broker /\ rktp'.nextBroker = AtStart.nextBroker
          /\ Arrived(rktp'.fetchq, rktp.fetchq)
          /\ Cardinality(Filled(rktp'.fetchq)) <= Cardinality(Filled(rktp.fetchq)) + BatchSize
      BY <1>1, <1>4, <1>11, <2>1, EnqueueArrives, Zenon
    <3> QED
      BY <1>1, <1>4, <1>8, <1>11, <3>1, ReplyStep, ZenonT(40)
  <2>2. CASE ~(live /\ req.offset < log.end)
    BY <1>4, <1>8, <1>9, <1>11, <2>2, Zenon
  <2> QED
    BY <2>1, <2>2, Zenon
<1>12. CASE /\ b = log.leader
            /\ req.offset \notin log.start..log.end
            /\ rktp' = IF live THEN Lost ELSE NoLo
            /\ ops' = IF live THEN Append(ops, op) ELSE ops
            /\ UNCHANGED faults
  <2>1. CASE live
    BY <1>6, <1>8, <1>9, <1>12, <2>1, ZenonT(40)
  <2>2. CASE ~live
    BY <1>5, <1>8, <1>9, <1>12, <2>2, ZenonT(40)
  <2> QED
    BY <2>1, <2>2, Zenon
<1>13. CASE /\ faults < MaxFaults
            /\ faults' = faults + 1
            /\ UNCHANGED <<rktp, ops>>
  BY <1>2, <1>8, <1>9, <1>13, Zenon
<1>14. CASE (rktp' = NoLo \/ rktp' = Told) /\ UNCHANGED ops
  <2>1. CASE rktp' = NoLo
    BY <1>5, <1>8, <1>9, <1>14, <2>1, Zenon
  <2>2. CASE rktp' = Told
    <3>1. NoLo \in Toppar /\ NoLo.fetchq = rktp.fetchq /\ Placed(NoLo)
      BY <1>5, Zenon
    <3>2. /\ rktp' \in Toppar /\ Placed(rktp') /\ rktp'.fetchq = Append(rktp.fetchq, Failure(req))
          /\ rktp'.version = NoLo.version /\ rktp'.opVersion = NoLo.opVersion
          /\ rktp'.fetchVersion = NoLo.fetchVersion /\ rktp'.paused = NoLo.paused
          /\ rktp'.broker = NoLo.broker /\ rktp'.nextBroker = NoLo.nextBroker
          /\ Arrived(rktp'.fetchq, rktp.fetchq)
          /\ Cardinality(Filled(rktp'.fetchq)) <= Cardinality(Filled(rktp.fetchq)) + BatchSize
      BY <1>1, <2>2, <3>1, FailureArrives, Zenon DEF Told
    <3> QED
      BY <1>1, <1>5, <1>8, <1>14, <3>2, ReplyStep, ZenonT(40)
  <2> QED
    BY <1>14, <2>1, <2>2, Zenon
<1> QED
  BY <1>10, <1>11, <1>12, <1>13, <1>14, ZenonT(40) DEF FetchReply, AtStart, NoLo, Lost, Told, op

(* The calls of the application. *)
LEMMA AppCallKeeps == ASSUME IInv, AppCall PROVE IInv'
<1>1. ASSUME NEW o \in Starts, Call("START", o) PROVE IInv'
  <2>1. o \in Int
    BY FetchAssumption, Zenon DEF FetchAssumption
  <2> QED
    BY <1>1, <2>1, CallKeeps, Zenon DEF CallTypes
<1>2. ASSUME NEW o \in Seeks, Call("SEEK", o) PROVE IInv'
  <2>1. o \in Int
    BY FetchAssumption, Zenon DEF FetchAssumption
  <2> QED
    BY <1>2, <2>1, CallKeeps, Zenon DEF CallTypes
<1>3. ASSUME NEW type \in {"STOP", "PAUSE", "RESUME"}, Call(type, INVALID) PROVE IInv'
  <2>1. INVALID \in Int /\ type \in CallTypes /\ type # "START" /\ type # "SEEK"
    BY DEF INVALID, CallTypes
  <2> QED
    BY <1>3, <2>1, CallKeeps, Zenon
<1> QED
  BY <1>1, <1>2, <1>3, Zenon DEF AppCall

(* Every step keeps the invariant. *)
LEMMA IInvStep == IInv /\ [Next]_vars => IInv'
<1> SUFFICES ASSUME IInv, [Next]_vars PROVE IInv'
  BY Zenon
<1>1. CASE AppCall
  BY <1>1, AppCallKeeps, Zenon
<1>2. CASE Consume
  BY <1>2, ConsumeKeeps, ZenonT(40)
<1>3. CASE OpServe
  BY <1>3, OpServeKeeps, Zenon
<1>4. CASE QueryTimer
  BY <1>4, QueryTimerKeeps, Zenon
<1>5. CASE LeaderUpdate
  BY <1>5, LeaderUpdateKeeps, Zenon
<1>6. CASE Leave
  BY <1>6, LeaveKeeps, Zenon
<1>7. CASE Join
  BY <1>7, JoinKeeps, Zenon
<1>8. CASE Serve
  BY <1>8, ServeKeeps, Zenon
<1>9. ASSUME NEW b \in Brokers, FetchReply(b) PROVE IInv'
  BY <1>9, FetchReplyKeeps, ZenonT(40)
<1>10. CASE OffsetAnswer
  BY <1>10, OffsetAnswerKeeps, Zenon
<1>11. CASE Elect
  BY <1>11, ElectKeeps, Zenon
<1>12. CASE Trim
  BY <1>12, TrimKeeps, Zenon
<1>13. CASE Extend
  BY <1>13, ExtendKeeps, Zenon
<1>14. CASE UNCHANGED vars
  BY <1>14, StutterKeeps, Zenon
<1> QED
  BY <1>1, <1>2, <1>3, <1>4, <1>5, <1>6, <1>7, <1>8, <1>9, <1>10, <1>11, <1>12, <1>13, <1>14, ZenonT(40)
  DEF Next

(* The invariant holds in every state: versions are ordered along the way   *)
(* from the call to the message, every request in flight has room for its   *)
(* answer, and a pause is pending or has taken effect.                      *)
THEOREM Invariance == Spec => []IInv
  BY IInvInit, IInvStep, PTL DEF Spec

(* What is queued and requested has an offset of the log and a version of a *)
(* call.                                                                    *)
LEMMA EntriesTyped ==
    ASSUME IInv
    PROVE  /\ rktp.fetchq \in Seq(Entries)
           /\ fetching \in [Brokers -> Entries]
<1>1. /\ rktp.version = calls + 1 /\ calls \in 0..MaxCalls /\ MaxCalls \in Nat
      /\ rktp.fetchVersion <= rktp.opVersion /\ rktp.opVersion <= rktp.version
      /\ rktp.fetchVersion \in Nat /\ rktp.opVersion \in Nat
  BY Known, FetchAssumption, Zenon DEF IInv, TypeInv, VersionInv, Toppar, FetchAssumption
<1>2. \A e \in Queued \cup Requested : e.version <= rktp.fetchVersion => e \in Entries
  <2>1. 0..(MaxEnd - 1) \subseteq Offsets
    BY FetchAssumption DEF Offsets, FetchAssumption
  <2>2. \A v \in Nat : v <= rktp.fetchVersion => v \in Versions
    BY <1>1 DEF Versions
  <2>3. 0 \in Versions
    BY <1>1, SMTT(30) DEF Versions
  <2> QED
    BY <2>1, <2>2, <2>3, SMTT(30) DEF Queued, Requested, Entries, Error, NoFetch
<1>3. rktp.fetchq \in Seq(Entries)
  <2>1. \A n \in 1..Len(rktp.fetchq) : rktp.fetchq[n] \in Entries
    <3>1. \A n \in 1..Len(rktp.fetchq) : rktp.fetchq[n].version <= rktp.fetchVersion
      BY Zenon DEF IInv, VersionInv
    <3> QED
      BY <1>2, <3>1, VersionTypes, Zenon
  <2> QED
    BY <2>1, Known, SMTT(30)
<1>4. fetching \in [Brokers -> Entries]
  BY <1>2, Zenon DEF IInv, TypeInv, VersionInv
<1> QED
  BY <1>3, <1>4, Zenon

(* The partition has the types of rd_kafka_toppar_t, the versions are       *)
(* ordered as rdkafka_partition.h says, and the fetch queue never holds     *)
(* more than queued.min.messages allows and one batch per broker.           *)
THEOREM TypeCorrect == Spec => []TypeOK
<1>1. ASSUME IInv PROVE TypeOK
  <2>1. /\ rktp.state \in States /\ rktp.next \in Positions
        /\ rktp.app \in Offsets \cup {INVALID} /\ rktp.fetch \in Offsets \cup {INVALID}
        /\ rktp.lo \in 0..MaxEnd \cup {INVALID}
        /\ rktp.timer \in BOOLEAN /\ rktp.paused \in BOOLEAN
    BY <1>1, Known, Zenon DEF Toppar
  <2>2. {rktp.app, rktp.fetch, rktp.lo} \subseteq Offsets \cup {INVALID}
    BY <2>1, Zenon DEF Offsets
  <2>3. Cardinality({n \in DOMAIN rktp.fetchq : rktp.fetchq[n] # Error})
          < QueuedMin + BatchSize * Cardinality(Brokers)
    <3>1. TypeInv /\ RoomInv
      BY <1>1, Zenon DEF IInv
    <3>2. BatchSize * Cardinality(Waiting) \in Nat /\ BatchSize * Cardinality(Brokers) \in Nat
      BY <3>1, RoomTypes, SMTT(30)
    <3>3. Cardinality(Filled(rktp.fetchq)) < QueuedMin + BatchSize * Cardinality(Brokers)
      BY <3>1, <3>2, RoomTypes, SMTT(30) DEF RoomInv
    <3> QED
      BY <3>3, Zenon DEF Filled
  <2>4. /\ rktp.fetchVersion <= rktp.opVersion /\ rktp.opVersion <= rktp.version
        /\ rktp.broker = None => rktp.nextBroker # None
        /\ wanted \in Offsets \cup {ANY, NOTHING}
    BY <1>1, Known, ZenonT(40) DEF IInv, VersionInv
  <2> QED
    BY <1>1, <2>1, <2>2, <2>3, <2>4, EntriesTyped, ZenonT(40) DEF TypeOK, States, Positions
<1> QED
  BY <1>1, Invariance, PTL

(* After rd_kafka_pause_partitions() returns, rd_kafka_consume() returns no *)
(* message until the resume, although answers to earlier requests still     *)
(* arrive.                                                                  *)
THEOREM PauseIsKept == Spec => []PauseHolds
<1>1. ASSUME IInv PROVE PauseHolds
  <2> SUFFICES ASSUME held, Ready PROVE FALSE
    BY Zenon DEF PauseHolds
  <2> DEFINE m == Head(Fresh(rktp))
  <2>0. m.offset # INVALID /\ Error.offset = INVALID
    BY Zenon DEF Ready, Error
  <2>1. /\ Within(Fresh(rktp), rktp.fetchq)
        /\ m.version >= rktp.version /\ Fresh(rktp) # <<>>
    BY <1>1, <2>0, Known, FreshWithin, Zenon DEF Ready
  <2>2. PICK k \in 1..Len(rktp.fetchq) : m = rktp.fetchq[k]
    <3>1. Fresh(rktp) \in Seq(Queued) /\ rktp.fetchq \in Seq(Queued)
      BY <1>1, <2>1, Known, Zenon DEF Within
    <3>2. m = Fresh(rktp)[1] /\ 1 \in 1..Len(Fresh(rktp)) /\ m # Error
      BY <2>0, <2>1, <3>1, SMTT(30)
    <3>3. DOMAIN Fresh(rktp) = 1..Len(Fresh(rktp)) /\ DOMAIN rktp.fetchq = 1..Len(rktp.fetchq)
      BY <3>1
    <3> QED
      BY <2>1, <3>2, <3>3, Zenon DEF Within
  <2> HIDE DEF m
  <2>3. /\ m.version <= rktp.fetchVersion
        /\ rktp.fetchVersion <= rktp.opVersion /\ rktp.opVersion <= rktp.version
    BY <1>1, <2>2, Zenon DEF IInv, VersionInv
  <2>4. /\ rktp.version \in Nat /\ rktp.fetchVersion \in Nat /\ rktp.opVersion \in Nat
        /\ m.version \in Nat
    <3>1. m \in Queued
      BY <1>1, <2>2, Known, SMTT(30)
    <3> QED
      BY <1>1, <2>2, VersionTypes, ZenonT(40)
  <2>5. CASE \E n \in 1..Len(ops) : ops[n].type = "PAUSE"
    <3>1. PICK n \in 1..Len(ops) : ops[n].type = "PAUSE"
      BY <2>5, Zenon
    <3>2. rktp.opVersion < ops[n].version /\ ops[n].version <= rktp.version /\ ops[n].version \in Nat
      <4>1. ops[n].type \in CallTypes
        BY <3>1, Zenon DEF CallTypes
      <4>2. rktp.opVersion < ops[n].version /\ ops[n].version <= rktp.version
        BY <1>1, <3>1, <4>1, ZenonT(40) DEF IInv, VersionInv
      <4> QED
        BY <1>1, <3>1, <4>2, VersionTypes, Zenon
    <3> QED
      BY <2>1, <2>3, <2>4, <3>2, SMTT(30) DEF m
  <2>6. CASE \A n \in 1..Len(rktp.fetchq) : rktp.fetchq[n].version < rktp.version
    BY <2>1, <2>2, <2>4, <2>6, SMTT(30) DEF m
  <2> QED
    BY <1>1, <2>5, <2>6, ZenonT(40) DEF IInv, PauseInv
<1> QED
  BY <1>1, Invariance, PTL

(* No broker thread sends a Fetch request for a logical offset (the         *)
(* assertion in rd_kafka_broker_fetch_toppars()), although the position may *)
(* be lost at any time.                                                     *)
THEOREM RequestsAreAbsolute == Spec => []FetchIsAbsolute
<1>1. ASSUME IInv PROVE FetchIsAbsolute
  <2> SUFFICES ASSUME NEW b \in Brokers, fetching[b] # NoFetch PROVE fetching[b].offset >= 0
    BY Zenon DEF FetchIsAbsolute
  <2>1. fetching[b].offset \in Offsets
    BY <1>1, Zenon DEF IInv, TypeInv, Requested
  <2>2. fetching[b].offset \in Nat
    BY <2>1, PositionsInt, Zenon
  <2> QED
    BY <2>2
<1> QED
  BY <1>1, Invariance, PTL

=============================================================================
