------------------------- MODULE IdempotenceLedger -------------------------
(***************************************************************************)
(* What the idempotent producer knows about the log of the leader, and why *)
(* its delivery reports are true while the partition keeps its leader, for *)
(* any number of messages, any batch size, any limit of retries and any    *)
(* faults.                                                                 *)
(*                                                                         *)
(* Here requests are a set: in which place a request in flight is does not *)
(* matter to the log.  View says what this part takes from IInv; that IInv *)
(* implies it is shown in IdempotenceReports.  LedgerInv is inductive      *)
(* relative to it.                                                         *)
(***************************************************************************)
EXTENDS IdempotenceInvariants, FiniteSetTheorems, TLAPS

(* The elements of a sequence. *)
Members(s) == {s[n] : n \in 1..Len(s)}

(* The requests in flight, and those that may still reach the leader. *)
Flying ==
    Members(outbufs) \cup Members(waitresps)
        \cup {x.req : x \in Members(results)} \cup {x.req : x \in Members(old)}
Live   == Flying \cup stale

(* The messages that wait for a request, and all without a report. *)
Waiting == msgq \cup xmitq
Open    == {m \in Msgs : m <= msgid /\ report[m] = "none"}

(* The requests that have been answered, with the responses. *)
Answered == {[req |-> waitresps[n], err |-> resps[n], sent |-> TRUE] : n \in 1..Len(resps)}

(* How requests in flight have ended, as far as that is decided. *)
Outcomes == Answered \cup Members(results) \cup Members(old)

(* The partition keeps its leader, and one broker thread works on it. *)
OneThread ==
    /\ MaxMoves = 0 /\ moves = 0 /\ joined
    /\ old = <<>> /\ ending = NoResult /\ round = NoRound

(* A message without a report waits or is in one request, which has the    *)
(* epoch of the partition and at most one outcome.                         *)
View ==
    /\ OneThread
    /\ Flying \subseteq Request
    /\ \A r \in Flying : r.pid = tp.pid /\ tp.pid = rk.pid /\ r.msgs \subseteq Open \ Waiting
    /\ \A r, q \in Flying : r = q \/ r.msgs \cap q.msgs = {}
    /\ Waiting \subseteq Open
    /\ \A m \in Open : m \in Waiting \/ \E r \in Flying : m \in r.msgs
    /\ Outcomes \subseteq Result
    /\ \A x \in Outcomes : x.req \in Flying
    /\ \A x, y \in Outcomes : x.req = y.req => x = y
    /\ \A x \in Outcomes, n \in 1..Len(waitresps) : x.req = waitresps[n] => n <= Len(resps)
    /\ Inflight \in Nat /\ (Inflight = 0 => Flying = {})

-----------------------------------------------------------------------------
(* The inductive invariant *)

First(b) == Min(b.msgs)
Final(b) == Max(b.msgs)

(* The message with sequence number 0 in the epoch of a request. *)
Base(b) == First(b) - b.seq

Logged == Range(log)

(* Responses that tell of messages in the log, and results of requests     *)
(* that may have put them there.                                           *)
Confirms == {"NO_ERROR", "DUPLICATE_SEQUENCE_NUMBER"}
Leaves   == Confirms \cup {"NOT_ENOUGH_REPLICAS_AFTER_APPEND", "__TRANSPORT", "__TIMED_OUT"}

(* With F in flight and the messages in state s, the request that starts   *)
(* with message f ends with message e, or did when it was last sent.       *)
Ends(f, e, F, s) ==
    IF \E r \in F : First(r) = f
    THEN \E r \in F : First(r) = f /\ Final(r) = e
    ELSE s[f].last = e

(* With outcomes X and the messages in state s, m is not taken for lost. *)
Doubtful(m, X, s) ==
    \/ s[m].status # "NOT_PERSISTED"
    \/ \E x \in X : m \in x.req.msgs /\ x.sent /\ x.err \in Leaves

(* The sequence numbers of an epoch count from one message, which comes    *)
(* after no message without a report.  Epochs only go up.                  *)
Numbered ==
    /\ stale \subseteq Request
    /\ leader \in [epoch : Nat, next : Int, seen : SUBSET (Int \X Int)]
    /\ log \in Seq(Msgs)
    /\ leader.epoch <= tp.pid /\ tp.pid <= rk.pid
    /\ tp.base <= msgid /\ \A m \in Open : tp.base <= m
    /\ \A b \in Live :
          /\ 0 < b.pid /\ b.pid <= tp.pid /\ Base(b) <= msgid
          /\ b.pid = tp.pid => Base(b) = tp.base
          /\ \A m \in Open : Base(b) <= m
          /\ \A c \in Live : b.pid = c.pid => Base(b) = Base(c)
    /\ \A m \in Msgs : msg[m].last <= msgid
    /\ \A p \in leader.seen : p[1] < leader.next

(* Unless the partition drains, what waits comes after what is in flight. *)
Queued == tp.drain \/ \A m \in Waiting, r \in Flying : Final(r) < m

(* A request skips no message without a report. *)
Whole == \A b \in Live, m \in Open : First(b) <= m /\ m <= Final(b) => m \in b.msgs

(* What may reach the leader late is sent again as it was. *)
Resent == \A b \in stale : First(b) \in Open => Ends(First(b), Final(b), Flying, msg)

(* A sequence number the leader has seen in the epoch of the partition is  *)
(* that of a batch in the log, which would be sent again as it was.        *)
SeenLogged ==
    leader.epoch # 0 /\ leader.epoch = tp.pid =>
        \A p \in leader.seen, f \in Open : f = tp.base + p[1] =>
            \E e \in Msgs : /\ Ends(f, e, Flying, msg)
                            /\ \A m \in Open : f <= m /\ m <= e => m \in Logged

(* The messages before the next sequence number of the leader, if base has *)
(* number 0: they were produced, and are in the log or reported.           *)
Behind(base) ==
    /\ base + leader.next <= msgid + 1
    /\ \A m \in Open : m < base + leader.next => m \in Logged
Front ==
    leader.epoch # 0 =>
        /\ leader.epoch = tp.pid => Behind(tp.base)
        /\ \A b \in Live : b.pid = leader.epoch => Behind(Base(b))

(* A response that confirms a request is for all messages up to its last. *)
Confirmed ==
    /\ \A x \in Outcomes : x.err \in Confirms => \A m \in Open : m <= Final(x.req) => m \in Logged
    /\ \A x \in Members(results) : x.err \notin Confirms

(* A message that is in the log or may get there is not taken for lost. *)
Doubted ==
    \A m \in Msgs : m \in Logged \/ (\E b \in stale : m \in b.msgs) =>
        /\ m <= msgid
        /\ report[m] # "NOT_PERSISTED"
        /\ report[m] = "none" => Doubtful(m, Outcomes, msg)

(* Only what is in the log is reported as such. *)
Persisted ==
    /\ \A m \in Msgs : report[m] = "PERSISTED" => m \in Logged
    /\ \A m \in Msgs : report[m] = "none" => msg[m].status # "PERSISTED"

(* The inductive invariant. *)
LedgerInv ==
    /\ Numbered /\ Queued /\ Whole /\ Resent
    /\ SeenLogged /\ Front /\ Confirmed /\ Doubted /\ Persisted

-----------------------------------------------------------------------------
(* Facts about sets of messages *)

(* The order of the natural numbers, as a relation. *)
Below == {p \in Nat \X Nat : p[1] < p[2]}

(* A set of natural numbers that is not empty has a least element. *)
LEMMA LeastExists ==
    ASSUME NEW S \in SUBSET Nat, S # {}
    PROVE  Min(S) \in S /\ \A n \in S : Min(S) <= n
<1>1. IsWellFoundedOn(Below, Nat)
  BY NatLessThanWellFounded, Zenon DEF OpToRel, Below
<1>2. PICK m \in S : \A n \in S : <<n, m>> \notin Below
  BY <1>1, WFMin, Zenon
<1>3. ASSUME NEW n \in S
      PROVE  m <= n
  <2>1. n \in Nat /\ m \in Nat
    OBVIOUS
  <2>2. ~(n < m)
    BY <1>2, <2>1, Zenon DEF Below
  <2> QED
    BY <2>1, <2>2
<1> QED
  BY <1>3, Zenon DEF Min

(* The first and the last message of a set of messages. *)
LEMMA FirstLast ==
    ASSUME NEW S \in (SUBSET Msgs) \ {{}}
    PROVE  /\ Min(S) \in S /\ \A n \in S : Min(S) <= n
           /\ Max(S) \in S /\ \A n \in S : n <= Max(S)
           /\ Min(S) \in Msgs /\ Max(S) \in Msgs /\ Min(S) <= Max(S)
<1>1. MaxMsgid \in Nat /\ S \in SUBSET Nat /\ S # {} /\ \A n \in S : n \in 1..MaxMsgid
  BY IdempotenceAssumption DEF IdempotenceAssumption, Msgs
<1>2. Min(S) \in S /\ \A n \in S : Min(S) <= n
  BY <1>1, LeastExists
<1> DEFINE U == {u \in Nat : \A n \in S : n <= u}
           u == Min(U)
<1>3. MaxMsgid \in U
  BY <1>1
<1>4. U \in SUBSET Nat /\ U # {}
  BY <1>3
<1>5. u \in U /\ \A n \in U : u <= n
  <2> HIDE DEF U
  <2> QED
    BY <1>4, LeastExists
<1> HIDE DEF u
<1>6. u \in Nat /\ \A n \in S : n <= u
  BY <1>5
<1>7. u \in S
  <2> SUFFICES ASSUME u \notin S PROVE FALSE
    OBVIOUS
  <2>1. \A n \in S : n \in Nat /\ n < u
    BY <1>1, <1>6
  <2>2. u - 1 \in Nat /\ \A n \in S : n <= u - 1
    BY <1>1, <1>6, <2>1
  <2>3. u - 1 \in U
    BY <2>2
  <2> QED
    BY <1>5, <1>6, <2>3
<1>8. Max(S) \in S /\ \A n \in S : Max(S) >= n
  <2>1. \A n \in S : u >= n
    BY <1>1, <1>6
  <2> QED
    BY <1>7, <2>1, Zenon DEF Max
<1>9. \A n \in S : n <= Max(S)
  BY <1>1, <1>8
<1> QED
  BY <1>2, <1>8, <1>9

(* There are finitely many messages. *)
LEMMA FiniteMsgs ==
    ASSUME NEW S \in SUBSET Msgs
    PROVE  IsFiniteSet(S) /\ Cardinality(S) \in Nat
<1>1. MaxMsgid \in Int /\ 1 \in Int
  BY IdempotenceAssumption DEF IdempotenceAssumption
<1>2. IsFiniteSet(Msgs)
  BY <1>1, FS_Interval, Zenon DEF Msgs
<1> QED
  BY <1>2, FS_Subset, FS_CardinalityType, Zenon

(* A request holds its messages from the first to the last, and its size   *)
(* is at most their distance.                                              *)
LEMMA RequestFacts ==
    ASSUME NEW b \in Request
    PROVE  /\ b.msgs \in (SUBSET Msgs) \ {{}} /\ b.seq \in Int /\ b.pid \in Nat
           /\ First(b) \in b.msgs /\ Final(b) \in b.msgs
           /\ \A m \in b.msgs : m \in Int /\ First(b) <= m /\ m <= Final(b)
           /\ First(b) \in Msgs /\ Final(b) \in Msgs /\ First(b) \in Int /\ Final(b) \in Int
           /\ Base(b) \in Int /\ First(b) = Base(b) + b.seq
<1>1. b.msgs \in (SUBSET Msgs) \ {{}} /\ b.seq \in Int /\ b.pid \in Nat
  BY DEF Request
<1>2. \A m \in Msgs : m \in Int
  BY DEF Msgs
<1>3. /\ First(b) \in b.msgs /\ Final(b) \in b.msgs
      /\ \A m \in b.msgs : First(b) <= m /\ m <= Final(b)
      /\ First(b) \in Msgs /\ Final(b) \in Msgs
  BY <1>1, FirstLast, Zenon DEF First, Final
<1>4. Base(b) \in Int /\ First(b) = Base(b) + b.seq
  BY <1>1, <1>2, <1>3 DEF Base
<1> QED
  BY <1>1, <1>2, <1>3, <1>4

(* The size of a request. *)
LEMMA SizeFacts ==
    ASSUME NEW b \in Request
    PROVE  /\ Cardinality(b.msgs) \in Nat /\ 1 <= Cardinality(b.msgs)
           /\ Cardinality(b.msgs) <= Final(b) - First(b) + 1
<1> DEFINE S == First(b) .. Final(b)
<1>1. /\ b.msgs \in (SUBSET Msgs) \ {{}} /\ First(b) \in b.msgs /\ First(b) \in Int /\ Final(b) \in Int
      /\ \A m \in b.msgs : m \in Int /\ First(b) <= m /\ m <= Final(b)
  BY RequestFacts
<1>2. IsFiniteSet(b.msgs) /\ Cardinality(b.msgs) \in Nat
  BY <1>1, FiniteMsgs
<1>3. Cardinality(b.msgs) # 0
  BY <1>1, <1>2, FS_EmptySet, Zenon
<1>4. b.msgs \subseteq S
  BY <1>1
<1>5. First(b) <= Final(b)
  BY <1>1
<1>6. IsFiniteSet(S) /\ Cardinality(S) = Final(b) - First(b) + 1
  BY <1>1, <1>5, FS_Interval
<1> HIDE DEF S
<1>7. Cardinality(b.msgs) <= Cardinality(S)
  BY <1>4, <1>6, FS_Subset
<1> QED
  BY <1>2, <1>3, <1>6, <1>7

(* A batch is what a queue holds up to some message. *)
LEMMA BatchPrefix ==
    ASSUME TypeInv, NEW queue \in (SUBSET Msgs) \ {{}}, NEW batch \in Batches(queue)
    PROVE  /\ batch \in (SUBSET Msgs) \ {{}} /\ batch \subseteq queue
           /\ \A m \in queue : m <= Max(batch) => m \in batch
<1> DEFINE first   == Min(queue)
           last    == msg[first].last
           Upto(m) == {k \in queue : k <= m}
           Span(n) == {m \in queue : Cardinality(Upto(m)) <= n}
<1>1. first \in queue /\ first \in Msgs /\ \A n \in queue : first <= n
  BY FirstLast
<1> HIDE DEF first
<1>2. queue \subseteq Int /\ first \in Int
  BY <1>1 DEF Msgs
<1>3. Upto(first) = {first}
  <2>1. \A k \in queue : k <= first <=> k = first
    BY <1>1, <1>2
  <2> QED
    BY <1>1, <2>1
<1>4. Cardinality(Upto(first)) = 1
  BY <1>3, FS_Singleton
<1>5. \A m \in queue : Upto(m) \in SUBSET Msgs
  OBVIOUS
<1>6. \A m \in queue : IsFiniteSet(Upto(m)) /\ Cardinality(Upto(m)) \in Nat
  BY <1>5, FiniteMsgs, Zenon
<1>7. ASSUME NEW m \in queue, NEW n \in queue, m <= n
      PROVE  Cardinality(Upto(m)) <= Cardinality(Upto(n))
  <2>1. Upto(m) \subseteq Upto(n)
    <3>1. m \in Int /\ n \in Int /\ \A k \in queue : k \in Int
      BY <1>2
    <3>2. \A k \in queue : k <= m => k <= n
      BY <1>7, <3>1
    <3> QED
      BY <3>2
  <2> HIDE DEF Upto
  <2> QED
    BY <1>6, <2>1, FS_Subset
<1>8. ASSUME NEW n \in Nat \ {0} PROVE first \in Span(n)
  BY <1>1, <1>4
<1>9. BatchNum \in Nat \ {0}
  BY IdempotenceAssumption DEF IdempotenceAssumption
<1>10. last \in Int /\ (last = 0 \/ first <= last)
  <2>1. msg[first].last = 0 \/ msg[first].last >= first
    BY <1>1, Zenon DEF TypeInv
  <2>2. msg \in [Msgs -> MsgState]
    BY DEF TypeInv
  <2>3. msg[first] \in MsgState
    BY <1>1, <2>2
  <2>4. msg[first].last \in Int
    BY <2>3, IdempotenceAssumption DEF MsgState, IdempotenceAssumption
  <2> QED
    BY <1>2, <2>1, <2>4
<1> HIDE DEF last
<1>11. batch \in (IF last # 0 THEN {{m \in Span(BatchNum) : m <= last}} ELSE {Span(n) : n \in 1..BatchNum})
  BY Zenon DEF Batches, first, last
<1> HIDE DEF Upto
<1>12. PICK n \in Nat \ {0} :
          \/ last # 0 /\ batch = {m \in Span(n) : m <= last}
          \/ batch = Span(n)
  BY <1>9, <1>11
<1>13. first \in batch /\ batch \subseteq queue
  BY <1>8, <1>10, <1>12
<1>14. batch \in (SUBSET Msgs) \ {{}}
  BY <1>13
<1>15. Max(batch) \in batch /\ Max(batch) \in queue /\ Max(batch) \in Int
  BY <1>2, <1>13, <1>14, FirstLast, Zenon
<1>16. ASSUME NEW m \in queue, m <= Max(batch) PROVE m \in batch
  <2>1. Cardinality(Upto(m)) <= Cardinality(Upto(Max(batch)))
    BY <1>7, <1>15, <1>16, SMTT(30)
  <2>2. Cardinality(Upto(Max(batch))) <= n
    BY <1>12, <1>15, SMTT(30)
  <2>3. m \in Span(n)
    BY <1>6, <1>15, <2>1, <2>2, SMTT(30)
  <2>4. last # 0 /\ batch = {k \in Span(n) : k <= last} => m <= last
    BY <1>2, <1>10, <1>15, <1>16
  <2> QED
    BY <1>12, <2>3, <2>4
<1> QED
  BY <1>13, <1>14, <1>16

(* There is one way to put a set of messages in order, and it has all of   *)
(* them.                                                                   *)
LEMMA InOrderFacts ==
    ASSUME NEW S \in SUBSET Msgs
    PROVE  /\ InOrder(S) \in [1..Cardinality(S) -> S]
           /\ \A n, k \in 1..Cardinality(S) : n < k => InOrder(S)[n] < InOrder(S)[k]
           /\ \A m \in S : \E n \in 1..Cardinality(S) : InOrder(S)[n] = m
<1> DEFINE c       == Cardinality(S)
           Upto(m) == {k \in S : k <= m}
           rank    == [m \in S |-> Cardinality(Upto(m))]
           Good(s) == s \in [1..c -> S] /\ \A n, k \in 1..c : n < k => s[n] < s[k]
<1>1. IsFiniteSet(S) /\ c \in Nat /\ S \subseteq Int
  BY FiniteMsgs DEF Msgs
<1>2. IsFiniteSet(1..c) /\ Cardinality(1..c) = c
  <2>1. 1 \in Int /\ c \in Int
    BY <1>1
  <2> HIDE DEF c
  <2>2. IsFiniteSet(1..c) /\ Cardinality(1..c) = IF 1 > c THEN 0 ELSE c - 1 + 1
    BY <2>1, FS_Interval
  <2> QED
    BY <1>1, <2>2
<1>3. \A m \in S : IsFiniteSet(Upto(m)) /\ Cardinality(Upto(m)) \in Nat /\ m \in Upto(m)
  BY <1>1, FiniteMsgs
<1>4. \A m \in S : Cardinality(Upto(m)) \in 1..c
  <2> SUFFICES ASSUME NEW m \in S PROVE Cardinality(Upto(m)) \in 1..c
    OBVIOUS
  <2>1. Cardinality(Upto(m)) # 0
    BY <1>3, FS_EmptySet, Zenon
  <2>2. Upto(m) \in SUBSET S
    OBVIOUS
  <2> HIDE DEF Upto
  <2>3. Cardinality(Upto(m)) <= c
    BY <1>1, <2>2, FS_Subset
  <2> HIDE DEF c
  <2> QED
    BY <1>1, <1>3, <2>1, <2>3, SMTT(30)
<1>5. ASSUME NEW m \in S, NEW k \in S, m < k
      PROVE  Cardinality(Upto(m)) < Cardinality(Upto(k))
  <2>1. m \in Int /\ k \in Int /\ \A j \in S : j \in Int
    BY <1>1
  <2>2. Upto(m) \in SUBSET Upto(k)
    <3>1. \A j \in S : j <= m => j <= k
      BY <1>5, <2>1
    <3> QED
      BY <3>1, SMTT(30)
  <2>3. k \notin Upto(m) /\ k \in Upto(k)
    BY <1>5, <2>1
  <2> HIDE DEF Upto
  <2>4. /\ Cardinality(Upto(m)) <= Cardinality(Upto(k))
        /\ Cardinality(Upto(k)) = Cardinality(Upto(m)) => Upto(k) = Upto(m)
    BY <1>3, <2>2, FS_Subset
  <2>5. Upto(k) # Upto(m)
    BY <2>3
  <2> QED
    BY <1>3, <2>4, <2>5
<1>6. rank \in [S -> 1..c] /\ \A m \in S : rank[m] = Cardinality(Upto(m))
  BY <1>4
<1> HIDE DEF Upto, rank, c
<1>7. \A m, k \in S : m < k => rank[m] < rank[k]
  BY <1>5, <1>6
<1>8. \A m \in S : rank[m] \in Int
  BY <1>1, <1>6
<1>9. ASSUME NEW m \in S, NEW k \in S, rank[m] = rank[k] PROVE m = k
  <2>1. m \in Int /\ k \in Int
    BY <1>1
  <2>2. ~(m < k) /\ ~(k < m)
    BY <1>7, <1>8, <1>9
  <2> QED
    BY <2>1, <2>2
<1>10. rank \in Injection(S, 1..c)
  BY <1>6, <1>9, Zenon DEF Injection, IsInjective
<1>11. rank \in Surjection(S, 1..c)
  <2>1. Cardinality(S) = Cardinality(1..c)
    BY <1>2 DEF c
  <2> QED
    BY <1>2, <1>10, <2>1, FS_Injection, Zenon
<1>12. \A n \in 1..c : \E m \in S : rank[m] = n
  BY <1>11, Zenon DEF Surjection
<1> DEFINE t == [n \in 1..c |-> CHOOSE m \in S : rank[m] = n]
<1>13. \A n \in 1..c : t[n] \in S /\ rank[t[n]] = n
  BY <1>12
<1>14. t \in [1..c -> S]
  BY <1>12
<1> HIDE DEF t
<1>15. ASSUME NEW n \in 1..c, NEW k \in 1..c, n < k PROVE t[n] < t[k]
  <2>1. t[n] \in S /\ t[k] \in S /\ rank[t[n]] = n /\ rank[t[k]] = k
    BY <1>13
  <2>2. n \in Int /\ k \in Int
    BY <1>1
  <2>3. t[n] \in Int /\ t[k] \in Int
    BY <1>1, <2>1, Zenon
  <2>4. ~(t[k] < t[n])
    BY <1>7, <1>15, <2>1, <2>2, SMTT(30)
  <2>5. t[k] # t[n]
    BY <1>15, <2>1, <2>2
  <2> QED
    BY <2>3, <2>4, <2>5
<1>16. Good(t)
  BY <1>14, <1>15
<1>17. InOrder(S) = CHOOSE s \in [1..c -> S] : \A n, k \in 1..c : n < k => s[n] < s[k]
  <2>1. \A s \in [1..c -> S] : DOMAIN s = 1..c
    OBVIOUS
  <2>2. \A s \in [1..c -> S] : (\A n, k \in DOMAIN s : n < k => s[n] < s[k])
                                  <=> (\A n, k \in 1..c : n < k => s[n] < s[k])
    BY <2>1, Zenon
  <2> QED
    BY <2>2, Zenon DEF InOrder, c
<1>18. Good(InOrder(S))
  BY <1>16, <1>17, Zenon
<1> DEFINE s == InOrder(S)
<1>19. s \in [1..c -> S] /\ \A n, k \in 1..c : n < k => s[n] < s[k]
  BY <1>18
<1> HIDE DEF s, Good
<1>20. ASSUME NEW n \in 1..c, NEW k \in 1..c, s[n] = s[k] PROVE n = k
  <2>1. s[n] \in Int /\ s[k] \in Int
    BY <1>1, <1>19, Zenon
  <2>2. ~(n < k) /\ ~(k < n)
    BY <1>19, <1>20, <2>1
  <2>3. n \in Int /\ k \in Int
    BY <1>1
  <2> QED
    BY <2>2, <2>3
<1>21. s \in Injection(1..c, S)
  BY <1>19, <1>20, Zenon DEF Injection, IsInjective
<1>22. s \in Surjection(1..c, S)
  <2>1. Cardinality(1..c) = Cardinality(S)
    BY <1>2 DEF c
  <2> QED
    BY <1>1, <1>21, <2>1, FS_Injection, Zenon
<1>23. \A m \in S : \E n \in 1..c : s[n] = m
  BY <1>22, Zenon DEF Surjection
<1> QED
  BY <1>19, <1>23, Zenon DEF s, c

(* The log with a batch at its end. *)
LEMMA LogAppended ==
    ASSUME NEW l \in Seq(Msgs), NEW S \in SUBSET Msgs
    PROVE  l \o InOrder(S) \in Seq(Msgs) /\ Range(l \o InOrder(S)) = Range(l) \cup S
<1> DEFINE c == Cardinality(S)
           s == InOrder(S)
           t == l \o s
<1>1. /\ c \in Nat /\ s \in [1..c -> S] /\ \A m \in S : \E n \in 1..c : s[n] = m
  BY FiniteMsgs, InOrderFacts, Zenon
<1> HIDE DEF s, c
<1>2. s \in Seq(Msgs) /\ Len(s) = c
  BY <1>1
<1>3. /\ t \in Seq(Msgs) /\ Len(l) \in Nat /\ Len(t) = Len(l) + c /\ DOMAIN l = 1..Len(l)
      /\ DOMAIN t = 1..Len(t)
      /\ \A n \in 1..Len(t) : t[n] = IF n <= Len(l) THEN l[n] ELSE s[n - Len(l)]
  BY <1>1, <1>2, SMTT(30)
<1> HIDE DEF t
<1>4. ASSUME NEW m \in Range(t) PROVE m \in Range(l) \cup S
  <2>1. PICK n \in 1..Len(t) : m = t[n]
    BY <1>3, Zenon DEF Range
  <2>2. CASE n <= Len(l)
    <3>1. n \in DOMAIN l /\ m = l[n]
      BY <1>1, <1>3, <2>1, <2>2, SMTT(30)
    <3> QED
      BY <3>1, Zenon DEF Range
  <2>3. CASE ~(n <= Len(l))
    <3>1. n - Len(l) \in 1..c /\ m = s[n - Len(l)]
      BY <1>1, <1>3, <2>1, <2>3, SMTT(30)
    <3> QED
      BY <1>1, <3>1
  <2> QED
    BY <2>2, <2>3
<1>5. ASSUME NEW m \in Range(l) PROVE m \in Range(t)
  <2>1. PICK n \in 1..Len(l) : m = l[n]
    BY <1>3, Zenon DEF Range
  <2>2. n \in 1..Len(t) /\ t[n] = m
    BY <1>1, <1>3, <2>1
  <2> QED
    BY <1>3, <2>2, Zenon DEF Range
<1>6. ASSUME NEW m \in S PROVE m \in Range(t)
  <2>1. PICK n \in 1..c : s[n] = m
    BY <1>1
  <2> DEFINE k == n + Len(l)
  <2>2. k \in 1..Len(t) /\ ~(k <= Len(l)) /\ k - Len(l) = n
    BY <1>1, <1>3
  <2> HIDE DEF k
  <2>3. t[k] = m
    BY <1>3, <2>1, <2>2, SMTT(30)
  <2> QED
    BY <1>3, <2>2, <2>3, Zenon DEF Range
<1> QED
  BY <1>3, <1>4, <1>5, <1>6, Zenon DEF t, s

-----------------------------------------------------------------------------
(* Steps of the client *)

(* The types of what the invariant compares. *)
LEMMA Numbers ==
    ASSUME TypeInv, View, LedgerInv
    PROVE  /\ msgid \in Int /\ tp.pid \in Nat /\ tp.base \in Int /\ rk.pid \in Nat
           /\ Open \subseteq Msgs /\ \A m \in Open : m \in Int /\ m <= msgid
           /\ Flying \subseteq Request /\ Live \subseteq Request
           /\ leader.epoch \in Nat /\ leader.next \in Int /\ \A p \in leader.seen : p[1] \in Int
           /\ log \in Seq(Msgs) /\ Logged \subseteq Msgs
<1>1. msgid \in 0..MaxMsgid /\ tp \in Eos /\ rk \in Instance
  BY Zenon DEF TypeInv
<1>2. msgid \in Int
  BY <1>1
<1>3. tp.pid \in Nat /\ tp.base \in Int /\ rk.pid \in Nat
  BY <1>1, Zenon DEF Eos, Instance
<1>4. Open \subseteq Msgs /\ \A m \in Open : m \in Int /\ m <= msgid
  BY DEF Open, Msgs
<1>5. /\ stale \subseteq Request /\ log \in Seq(Msgs)
      /\ leader \in [epoch : Nat, next : Int, seen : SUBSET (Int \X Int)]
  BY Zenon DEF LedgerInv, Numbered
<1>6. leader.epoch \in Nat /\ leader.next \in Int /\ leader.seen \subseteq Int \X Int
  BY <1>5
<1>7. Flying \subseteq Request
  BY Zenon DEF View
<1>8. Live \subseteq Request
  BY <1>5, <1>7, Zenon DEF Live
<1>9. Logged \subseteq Msgs
  BY <1>5 DEF Logged, Range
<1> QED
  BY <1>2, <1>3, <1>4, <1>5, <1>6, <1>7, <1>8, <1>9, SMTT(30)

(* A step of the client that starts no request keeps the invariant, if it  *)
(* does not change how a batch would be sent again, makes up no response,  *)
(* keeps the order of the queues, and reports what is so.                  *)
LEMMA ClientStep ==
    ASSUME TypeInv, View, LedgerInv, TypeInv', View',
           UNCHANGED <<msgid, leader, log>>, tp'.pid = tp.pid, tp'.base = tp.base, rk.pid <= rk'.pid,
           Open' \subseteq Open, Flying' \subseteq Flying,
           stale \subseteq stale', stale' \subseteq stale \cup Flying',
           \A f \in Open', e \in Msgs : Ends(f, e, Flying, msg) => Ends(f, e, Flying', msg'),
           \A m \in Msgs : msg'[m].last <= msgid,
           \A x \in Outcomes' : x.err \in Confirms => x \in Outcomes,
           \A x \in Members(results') : x.err \notin Confirms,
           Queued', Doubted', Persisted'
    PROVE  LedgerInv'
<1>1. Live' \subseteq Live /\ stale' \subseteq Live /\ Logged' = Logged
  BY Zenon DEF Live, Logged
<1>2. /\ rk.pid \in Nat /\ tp.pid \in Nat /\ rk'.pid \in Nat
      /\ Open \subseteq Msgs /\ Live \subseteq Request
  <2>1. rk' \in Instance
    BY Zenon DEF TypeInv
  <2>2. rk'.pid \in Nat
    BY <2>1, Zenon DEF Instance
  <2> QED
    BY <2>2, Numbers, Zenon
<1>3. Numbered'
  <2>1. Numbered
    BY Zenon DEF LedgerInv
  <2>2. tp'.pid <= rk'.pid
    BY <1>2, <2>1 DEF Numbered
  <2> QED
    BY <1>1, <1>2, <2>1, <2>2, Zenon DEF Numbered
<1>4. Whole'
  <2>1. Whole
    BY Zenon DEF LedgerInv
  <2> QED
    BY <1>1, <2>1, Zenon DEF Whole
<1>5. Resent'
  <2>1. Resent
    BY Zenon DEF LedgerInv
  <2> SUFFICES ASSUME NEW b \in stale', First(b) \in Open'
               PROVE  Ends(First(b), Final(b), Flying', msg')
    BY Zenon DEF Resent
  <2>2. CASE b \in Flying'
    BY <2>2, Zenon DEF Ends
  <2>3. CASE b \in stale
    <3>1. Final(b) \in Msgs
      BY <1>1, <1>2, RequestFacts, Zenon
    <3> QED
      BY <2>1, <2>3, <3>1, Zenon DEF Resent
  <2> QED
    BY <2>2, <2>3, Zenon
<1>6. SeenLogged'
  <2>1. SeenLogged
    BY Zenon DEF LedgerInv
  <2> QED
    BY <1>1, <2>1, Zenon DEF SeenLogged
<1>7. Front'
  <2>1. Front
    BY Zenon DEF LedgerInv
  <2> QED
    BY <1>1, <2>1, Zenon DEF Front, Behind
<1>8. Confirmed'
  <2>1. Confirmed
    BY Zenon DEF LedgerInv
  <2> QED
    BY <1>1, <2>1, Zenon DEF Confirmed
<1> QED
  BY <1>3, <1>4, <1>5, <1>6, <1>7, <1>8, Zenon DEF LedgerInv

(* A step of the client that reports nothing and leaves all requests in    *)
(* flight keeps the invariant, if it does not forget that a request may    *)
(* have been written.                                                      *)
LEMMA QuietStep ==
    ASSUME TypeInv, View, LedgerInv, TypeInv', View',
           UNCHANGED <<msgid, leader, log, msg, report>>,
           tp'.pid = tp.pid, tp'.base = tp.base, rk.pid <= rk'.pid,
           Flying' = Flying, Waiting' = Waiting, tp.drain => tp'.drain \/ Flying = {},
           stale \subseteq stale', stale' \subseteq stale \cup Flying,
           \A x \in Outcomes' : x.err \in Confirms => x \in Outcomes,
           \A x \in Members(results') : x.err \notin Confirms,
           \A r \in Flying :
              r \in stale' \ stale \/ (\E x \in Outcomes : x.req = r /\ x.sent /\ x.err \in Leaves)
                 => \E x \in Outcomes' : x.req = r /\ x.sent /\ x.err \in Leaves
    PROVE  LedgerInv'
<1>1. Open' = Open /\ Logged' = Logged
  BY Zenon DEF Open, Logged
<1>2. Queued'
  <2>1. Queued
    BY Zenon DEF LedgerInv
  <2> QED
    BY <2>1, Zenon DEF Queued
<1>3. Doubted'
  <2>1. Doubted
    BY Zenon DEF LedgerInv
  <2>2. Flying \subseteq Request /\ \A r \in Flying : r.msgs \subseteq Open
    BY Zenon DEF View
  <2>3. \A x \in Outcomes : x.req \in Flying
    BY Zenon DEF View
  <2> SUFFICES ASSUME NEW m \in Msgs, m \in Logged' \/ \E b \in stale' : m \in b.msgs
               PROVE  /\ m <= msgid'
                      /\ report'[m] # "NOT_PERSISTED"
                      /\ report'[m] = "none" => Doubtful(m, Outcomes', msg')
    BY Zenon DEF Doubted
  <2>4. CASE m \in Logged \/ \E b \in stale : m \in b.msgs
    <3>1. /\ m <= msgid /\ report[m] # "NOT_PERSISTED"
          /\ report[m] = "none" => Doubtful(m, Outcomes, msg)
      BY <2>1, <2>4, Zenon DEF Doubted
    <3>2. Doubtful(m, Outcomes, msg) => Doubtful(m, Outcomes', msg')
      BY <2>3, Zenon DEF Doubtful
    <3> QED
      BY <3>1, <3>2, Zenon
  <2>5. CASE \E b \in stale' \ stale : m \in b.msgs
    <3>1. PICK b \in stale' \ stale : m \in b.msgs
      BY <2>5
    <3>2. b \in Flying /\ m \in Open
      BY <2>2, <3>1, Zenon
    <3>3. Doubtful(m, Outcomes', msg')
      BY <3>1, <3>2, Zenon DEF Doubtful
    <3>4. m <= msgid /\ report[m] = "none"
      BY <3>2, Zenon DEF Open
    <3> QED
      BY <3>3, <3>4, SMTT(30)
  <2> QED
    BY <1>1, <2>4, <2>5, Zenon
<1>4. Persisted'
  <2>1. Persisted
    BY Zenon DEF LedgerInv
  <2> QED
    BY <1>1, <2>1, Zenon DEF Persisted
<1>5. \A m \in Msgs : msg'[m].last <= msgid
  BY Zenon DEF LedgerInv, Numbered
<1> QED
  BY <1>1, <1>2, <1>3, <1>4, <1>5, ClientStep, ZenonT(40)

(* The elements of sequences. *)
LEMMA NoMembers == Members(<<>>) = {}
  BY DEF Members

(* A sequence with one more element. *)
LEMMA MembersAppend ==
    ASSUME NEW S, NEW s \in Seq(S), NEW x \in S
    PROVE  Members(Append(s, x)) = Members(s) \cup {x}
<1> DEFINE t == Append(s, x)
<1>1. /\ Len(s) \in Nat /\ Len(t) = Len(s) + 1 /\ t[Len(s) + 1] = x
      /\ \A n \in 1..Len(s) : t[n] = s[n]
  OBVIOUS
<1> HIDE DEF t
<1>2. \A n : n \in 1..Len(t) <=> n \in 1..Len(s) \/ n = Len(s) + 1
  BY <1>1
<1> QED
  BY <1>1, <1>2, Zenon DEF Members, t

(* Two sequences in a row. *)
LEMMA MembersJoint ==
    ASSUME NEW s \in Seq(Result), NEW t \in Seq(Result)
    PROVE  Members(s \o t) = Members(s) \cup Members(t)
<1> DEFINE u == s \o t
<1>1. /\ Len(s) \in Nat /\ Len(t) \in Nat /\ Len(u) = Len(s) + Len(t)
      /\ \A n \in 1..Len(u) : u[n] = IF n <= Len(s) THEN s[n] ELSE t[n - Len(s)]
  OBVIOUS
<1> HIDE DEF u
<1>2. ASSUME NEW n \in 1..Len(u) PROVE u[n] \in Members(s) \cup Members(t)
  <2>1. CASE n <= Len(s)
    <3>1. n \in 1..Len(s) /\ u[n] = s[n]
      BY <1>1, <2>1
    <3> QED
      BY <3>1, Zenon DEF Members
  <2>2. CASE ~(n <= Len(s))
    <3>1. n - Len(s) \in 1..Len(t) /\ u[n] = t[n - Len(s)]
      BY <1>1, <2>2
    <3> QED
      BY <3>1, Zenon DEF Members
  <2> QED
    BY <2>1, <2>2
<1>3. ASSUME NEW n \in 1..Len(s) PROVE s[n] \in Members(u)
  <2>1. n \in 1..Len(u) /\ u[n] = s[n]
    BY <1>1
  <2> QED
    BY <2>1, Zenon DEF Members
<1>4. ASSUME NEW n \in 1..Len(t) PROVE t[n] \in Members(u)
  <2> DEFINE k == n + Len(s)
  <2>1. k \in 1..Len(u) /\ ~(k <= Len(s)) /\ k - Len(s) = n
    BY <1>1
  <2> HIDE DEF k
  <2>2. u[k] = t[n]
    BY <1>1, <2>1
  <2> QED
    BY <2>1, <2>2, Zenon DEF Members
<1> QED
  BY <1>2, <1>3, <1>4, Zenon DEF Members, u

(* The first element and the others. *)
LEMMA MembersTail ==
    ASSUME NEW S, NEW s \in Seq(S), s # <<>>
    PROVE  Members(s) = {Head(s)} \cup Members(Tail(s)) /\ Head(s) \in S
<1> DEFINE t == Tail(s)
<1>1. /\ Len(s) \in Nat \ {0} /\ Len(t) = Len(s) - 1 /\ Head(s) = s[1] /\ Head(s) \in S
      /\ \A n \in 1..Len(t) : t[n] = s[n + 1]
  OBVIOUS
<1> HIDE DEF t
<1>2. 1 \in 1..Len(s) /\ \A n \in 1..Len(t) : n + 1 \in 1..Len(s)
  BY <1>1
<1>3. \A n \in 1..Len(s) : n = 1 \/ (n - 1 \in 1..Len(t) /\ (n - 1) + 1 = n)
  BY <1>1
<1>4. \A n \in 1..Len(s) : s[n] \in {Head(s)} \cup Members(t)
  <2> SUFFICES ASSUME NEW n \in 1..Len(s), n # 1 PROVE s[n] \in Members(t)
    BY <1>1
  <2>1. n - 1 \in 1..Len(t) /\ t[n - 1] = s[n]
    BY <1>1, <1>3
  <2> QED
    BY <2>1, Zenon DEF Members
<1>5. \A n \in 1..Len(t) : t[n] \in Members(s)
  BY <1>1, <1>2, Zenon DEF Members
<1>6. Head(s) \in Members(s)
  BY <1>1, <1>2, Zenon DEF Members
<1> QED
  BY <1>1, <1>4, <1>5, <1>6, ZenonT(40) DEF Members, t

(* The results of the requests R, if all end with one error. *)
Ended(R, err, sent) == {[req |-> r, err |-> err, sent |-> sent] : r \in R}

(* Requests handed to their callbacks. *)
LEMMA MembersFailed ==
    ASSUME NEW s \in Seq(Request), NEW err \in Errors, NEW sent \in BOOLEAN
    PROVE  /\ Failed(s, err, sent) \in Seq(Result)
           /\ Members(Failed(s, err, sent)) = Ended(Members(s), err, sent)
<1> DEFINE f == Failed(s, err, sent)
<1>1. Len(s) \in Nat /\ DOMAIN s = 1..Len(s) /\ \A n \in 1..Len(s) : s[n] \in Request
  OBVIOUS
<1>2. f = [n \in 1..Len(s) |-> [req |-> s[n], err |-> err, sent |-> sent]]
  BY <1>1, Zenon DEF Failed
<1>3. \A n \in 1..Len(s) : [req |-> s[n], err |-> err, sent |-> sent] \in Result
  BY <1>1, Zenon DEF Result
<1> HIDE DEF f
<1>4. f \in Seq(Result) /\ Len(f) = Len(s)
  BY <1>1, <1>2, <1>3, SMTT(30)
<1>5. \A n \in 1..Len(s) : f[n] = [req |-> s[n], err |-> err, sent |-> sent]
  BY <1>2, Zenon
<1> QED
  BY <1>4, <1>5, Zenon DEF Members, Ended, f

(* The epoch of an instance stays or goes up. *)
LEMMA PidKept ==
    ASSUME NEW k, {"pid", "state"} \subseteq DOMAIN k, NEW state, NEW err
    PROVE  /\ SetState(k, state).pid = k.pid /\ DOMAIN SetState(k, state) = DOMAIN k
           /\ Fatal(k, err).pid = k.pid /\ DOMAIN Fatal(k, err) = DOMAIN k
  BY Zenon DEF SetState, Fatal

(* The end of a drain may start the next epoch. *)
LEMMA PidRises ==
    ASSUME NEW k, {"pid", "state"} \subseteq DOMAIN k, k.pid \in Nat
    PROVE  k.pid <= DrainDone(k).pid
<1> DEFINE j == [k EXCEPT !.pid = @ + 1]
<1>1. DOMAIN j = DOMAIN k /\ j.pid = k.pid + 1
  BY Zenon
<1> HIDE DEF j
<1>2. SetState(j, "ASSIGNED").pid = j.pid /\ SetState(k, "REQ_PID").pid = k.pid
  BY <1>1, PidKept, Zenon
<1>3. DrainDone(k) \in {SetState(k, "REQ_PID"), SetState(j, "ASSIGNED"), k}
  BY Zenon DEF DrainDone, j
<1> QED
  BY <1>1, <1>2, <1>3

(* So does that of the instance after an error. *)
LEMMA AfterErrorPid ==
    ASSUME rk \in Instance, NEW p, NEW last
    PROVE  rk.pid <= AfterError(p, last).pid
<1> DEFINE raised == Raise(rk, p)
           failed == Permanent(raised, p)
<1>1. rk.pid \in Nat /\ {"pid", "state"} \subseteq DOMAIN rk
  BY Zenon DEF Instance
<1>2. raised.pid = rk.pid /\ DOMAIN raised = DOMAIN rk
  <2>1. raised \in {rk, SetState(rk, "DRAIN_BUMP"), Fatal(rk, p.raise)}
    BY Zenon DEF Raise
  <2> HIDE DEF raised
  <2> QED
    BY <1>1, <2>1, PidKept, ZenonT(40)
<1> HIDE DEF raised
<1>3. failed.pid = rk.pid /\ DOMAIN failed = DOMAIN rk
  <2> DEFINE f == Fatal(raised, "__GAPLESS_GUARANTEE")
  <2>1. failed \in {raised, SetState(f, "DRAIN_RESET"), SetState(raised, "DRAIN_BUMP")}
    BY Zenon DEF Permanent
  <2> HIDE DEF failed
  <2>2. f.pid = rk.pid /\ DOMAIN f = DOMAIN rk
    BY <1>1, <1>2, PidKept, Zenon
  <2> HIDE DEF f
  <2>3. SetState(f, "DRAIN_RESET").pid = rk.pid /\ DOMAIN SetState(f, "DRAIN_RESET") = DOMAIN rk
    BY <1>1, <2>2, PidKept, Zenon
  <2>4. SetState(raised, "DRAIN_BUMP").pid = rk.pid /\ DOMAIN SetState(raised, "DRAIN_BUMP") = DOMAIN rk
    BY <1>1, <1>2, PidKept, Zenon
  <2> QED
    BY <1>2, <2>1, <2>3, <2>4, Zenon
<1>4. AfterError(p, last) \in {failed, DrainDone(failed)}
  BY Zenon DEF AfterError, raised
<1> HIDE DEF failed
<1>5. failed.pid <= DrainDone(failed).pid
  BY <1>1, <1>3, PidRises, Zenon
<1> QED
  BY <1>1, <1>3, <1>4, <1>5, SMTT(30)

(* A step that leaves the requests and their outcomes alone. *)
LEMMA IdleStep ==
    ASSUME TypeInv, View, LedgerInv, TypeInv', View',
           UNCHANGED <<msgid, leader, log, msg, report, outbufs, waitresps, resps, results, old, stale>>,
           tp'.pid = tp.pid, tp'.base = tp.base, rk.pid <= rk'.pid,
           Waiting' = Waiting, tp.drain => tp'.drain \/ Flying = {}
    PROVE  LedgerInv'
<1>1. Flying' = Flying /\ Outcomes' = Outcomes /\ Members(results') = Members(results)
  BY Zenon DEF Flying, Outcomes, Answered
<1>2. \A x \in Members(results) : x.err \notin Confirms
  BY Zenon DEF LedgerInv, Confirmed
<1>3. stale \subseteq stale' /\ stale' \subseteq stale \cup Flying /\ stale' \ stale = {}
  OBVIOUS
<1>4. \A x \in Outcomes' : x.err \in Confirms => x \in Outcomes
  BY <1>1, Zenon
<1>5. \A r \in Flying :
         r \in stale' \ stale \/ (\E x \in Outcomes : x.req = r /\ x.sent /\ x.err \in Leaves)
            => \E x \in Outcomes' : x.req = r /\ x.sent /\ x.err \in Leaves
  BY <1>1, <1>3, Zenon
<1>6. \A x \in Members(results') : x.err \notin Confirms
  BY <1>1, <1>2, Zenon
<1> QED
  BY <1>1, <1>3, <1>4, <1>5, <1>6, QuietStep, Zenon

(* The main thread on its way to a PID. *)
LEMMA PidLedger ==
    ASSUME TypeInv, View, LedgerInv, TypeInv', View', PidFsm \/ PidUpdate \/ PidFailed
    PROVE  LedgerInv'
<1>1. /\ UNCHANGED <<msgid, msgq, xmitq, msg, report, tp, outbufs, waitresps, resps, results, old, stale>>
      /\ UNCHANGED <<leader, log>>
  BY Zenon DEF PidFsm, PidUpdate, PidFailed, queues, network, move, remote
<1>2. rk.pid <= rk'.pid
  <2>1. rk \in Instance
    BY Zenon DEF TypeInv
  <2>2. {"pid", "state"} \subseteq DOMAIN rk /\ rk.pid \in Nat
    BY <2>1, Zenon DEF Instance
  <2> DEFINE j == [rk EXCEPT !.pid = @ + 1]
             f == Fatal(rk, "__UNSUPPORTED_FEATURE")
  <2>3. DOMAIN j = DOMAIN rk /\ j.pid = rk.pid + 1
    BY <2>2, Zenon
  <2>4. DOMAIN f = DOMAIN rk /\ f.pid = rk.pid
    BY <2>2, PidKept, Zenon
  <2>5. \/ \E s : rk' = SetState(rk, s)
        \/ rk' = SetState(j, "ASSIGNED")
        \/ rk' = SetState(f, "FATAL_ERROR")
    BY Zenon DEF PidFsm, PidUpdate, PidFailed
  <2> HIDE DEF j, f
  <2>6. \A s : SetState(rk, s).pid = rk.pid
    BY <2>2, PidKept, Zenon
  <2>7. SetState(j, "ASSIGNED").pid = rk.pid + 1 /\ SetState(f, "FATAL_ERROR").pid = rk.pid
    BY <2>2, <2>3, <2>4, PidKept, Zenon
  <2>8. rk'.pid = rk.pid \/ rk'.pid = rk.pid + 1
    BY <2>5, <2>6, <2>7, Zenon
  <2> QED
    BY <2>2, <2>8
<1>3. Waiting' = Waiting
  BY <1>1, Zenon DEF Waiting
<1> QED
  BY <1>1, <1>2, <1>3, IdleStep, Zenon

(* Steps that are neither about messages nor about requests. *)
LEMMA OtherLedger ==
    ASSUME TypeInv, View, LedgerInv, TypeInv', View', Connect \/ UNCHANGED vars
    PROVE  LedgerInv'
<1>1. /\ UNCHANGED <<msgid, msgq, xmitq, msg, report, rk, outbufs, waitresps, resps, results, old, stale>>
      /\ UNCHANGED <<leader, log, tp>>
  BY Zenon DEF Connect, vars, queues, network, move, remote
<1>2. tp \in Eos /\ rk.pid \in Nat
  BY Numbers, Zenon DEF TypeInv
<1>3. tp'.pid = tp.pid /\ tp'.base = tp.base /\ (tp.drain => tp'.drain)
  BY <1>1, <1>2, Zenon DEF Eos
<1>4. Waiting' = Waiting
  BY <1>1, Zenon DEF Waiting
<1>5. rk.pid <= rk'.pid
  BY <1>1, <1>2
<1> QED
  BY <1>1, <1>3, <1>4, <1>5, IdleStep, Zenon

(* The first request of outbufs is sent. *)
LEMMA SendLedger ==
    ASSUME TypeInv, View, LedgerInv, TypeInv', View', Send
    PROVE  LedgerInv'
<1> DEFINE h == Head(outbufs)
<1>1. /\ outbufs # <<>> /\ waitresps' = Append(waitresps, h) /\ outbufs' = Tail(outbufs)
      /\ UNCHANGED <<msgid, msgq, xmitq, msg, report, tp, rk, resps, results, old, stale, leader, log>>
  BY Zenon DEF Send, queues, move, remote
<1>2. outbufs \in Seq(Request) /\ waitresps \in Seq(Request) /\ resps \in Seq(Errors) /\ Len(resps) <= Len(waitresps)
  BY Zenon DEF TypeInv
<1>3. Members(outbufs) = {h} \cup Members(outbufs') /\ h \in Request
  BY <1>1, <1>2, MembersTail, Zenon
<1> HIDE DEF h
<1>4. Members(waitresps') = Members(waitresps) \cup {h}
  <2>1. Members(Append(waitresps, h)) = Members(waitresps) \cup {h}
    BY <1>2, <1>3, MembersAppend
  <2> QED
    BY <1>1, <2>1, Zenon
<1>5. Flying' = Flying
  BY <1>1, <1>3, <1>4, Zenon DEF Flying
<1>6. \A n \in 1..Len(resps) : waitresps'[n] = waitresps[n]
  <2>1. /\ Len(resps) \in Nat /\ Len(waitresps) \in Nat
        /\ \A n \in 1..Len(waitresps) : waitresps'[n] = waitresps[n]
    BY <1>1, <1>2, <1>3
  <2> QED
    BY <1>2, <2>1, SMTT(30)
<1>7. Outcomes' = Outcomes
  BY <1>1, <1>6, Zenon DEF Outcomes, Answered
<1>8. Members(results') = Members(results) /\ \A x \in Members(results) : x.err \notin Confirms
  BY <1>1, Zenon DEF LedgerInv, Confirmed
<1>9. stale \subseteq stale' /\ stale' \subseteq stale \cup Flying /\ stale' \ stale = {}
  BY <1>1
<1>10. Waiting' = Waiting /\ rk.pid <= rk'.pid
  BY <1>1, Numbers DEF Waiting
<1>11. \A r \in Flying :
         r \in stale' \ stale \/ (\E x \in Outcomes : x.req = r /\ x.sent /\ x.err \in Leaves)
            => \E x \in Outcomes' : x.req = r /\ x.sent /\ x.err \in Leaves
  BY <1>7, <1>9, Zenon
<1>12. \A x \in Outcomes' : x.err \in Confirms => x \in Outcomes
  BY <1>7, Zenon
<1>13. \A x \in Members(results') : x.err \notin Confirms
  BY <1>8, Zenon
<1>14. tp'.pid = tp.pid /\ tp'.base = tp.base /\ (tp.drain => tp'.drain)
  BY <1>1, Zenon
<1> QED
  BY <1>1, <1>5, <1>9, <1>10, <1>11, <1>12, <1>13, <1>14, QuietStep, ZenonT(40)

(* They are the results of those requests. *)
LEMMA EndedReqs ==
    ASSUME NEW R, NEW err, NEW sent
    PROVE  {x.req : x \in Ended(R, err, sent)} = R
<1> DEFINE X == Ended(R, err, sent)
<1>1. \A x \in X : x.req \in R
  BY DEF Ended
<1>2. ASSUME NEW r \in R PROVE \E x \in X : x.req = r
  <2> DEFINE x == [req |-> r, err |-> err, sent |-> sent]
  <2>1. x \in X /\ x.req = r
    BY DEF Ended
  <2> QED
    BY <2>1, Zenon
<1> HIDE DEF X
<1>3. {x.req : x \in X} = R
  BY <1>1, <1>2, Zenon
<1> QED
  BY <1>3 DEF X

(* The requests of outbufs, which were not sent, are handed to their       *)
(* callbacks.                                                              *)
LEMMA UnsentFail ==
    ASSUME TypeInv, LedgerInv, results = <<>>, NEW err \in Errors, err \notin Confirms,
           results' = Failed(outbufs, err, FALSE), outbufs' = <<>>,
           UNCHANGED <<waitresps, resps, old>>
    PROVE  /\ Flying' = Flying
           /\ \A x \in Outcomes' : x.err \in Confirms => x \in Outcomes
           /\ Outcomes \subseteq Outcomes'
           /\ \A x \in Members(results') : x.err \notin Confirms
<1>1. Members(results') = Ended(Members(outbufs), err, FALSE)
  BY MembersFailed, Zenon DEF TypeInv
<1>2. Members(results) = {} /\ Members(outbufs') = {}
  BY NoMembers, Zenon
<1>3. {x.req : x \in Members(results')} = Members(outbufs)
  <2>1. {x.req : x \in Ended(Members(outbufs), err, FALSE)} = Members(outbufs)
    BY ONLY EndedReqs, Zenon
  <2> QED
    BY ONLY <1>1, <2>1, Zenon
<1>4. Flying' = Flying
  BY <1>2, <1>3, Zenon DEF Flying
<1>5. \A x \in Members(results') : x.err \notin Confirms
  <2>1. \A x \in Ended(Members(outbufs), err, FALSE) : x.err = err
    BY ONLY DEF Ended
  <2> QED
    BY <1>1, <2>1, Zenon
<1>6. Answered' = Answered
  BY Zenon DEF Answered
<1> QED
  BY <1>2, <1>4, <1>5, <1>6, Zenon DEF Outcomes

(* toppar_producer_serve() drops requests of another epoch. *)
LEMMA PurgeOutbufsLedger ==
    ASSUME TypeInv, View, LedgerInv, TypeInv', View', PurgeOutbufs
    PROVE  LedgerInv'
<1>1. /\ results = <<>> /\ results' = Failed(outbufs, "__RETRY", FALSE) /\ outbufs' = <<>>
      /\ UNCHANGED <<msgid, msgq, xmitq, msg, report, tp, rk, waitresps, resps, old, stale, leader, log>>
  BY Zenon DEF PurgeOutbufs, queues, move, remote
<1>2. "__RETRY" \in Errors /\ "__RETRY" \notin Confirms
  BY DEF Errors, Confirms
<1>3. /\ Flying' = Flying
      /\ \A x \in Outcomes' : x.err \in Confirms => x \in Outcomes
      /\ Outcomes \subseteq Outcomes'
      /\ \A x \in Members(results') : x.err \notin Confirms
  BY <1>1, <1>2, UnsentFail, Zenon
<1>4. stale \subseteq stale' /\ stale' \subseteq stale \cup Flying /\ stale' \ stale = {}
  BY <1>1
<1>5. Waiting' = Waiting /\ rk.pid <= rk'.pid
  BY <1>1, Numbers DEF Waiting
<1>6. \A r \in Flying :
         r \in stale' \ stale \/ (\E x \in Outcomes : x.req = r /\ x.sent /\ x.err \in Leaves)
            => \E x \in Outcomes' : x.req = r /\ x.sent /\ x.err \in Leaves
  BY <1>3, <1>4, Zenon
<1>7. tp'.pid = tp.pid /\ tp'.base = tp.base /\ (tp.drain => tp'.drain)
  BY <1>1, Zenon
<1> QED
  BY <1>1, <1>3, <1>4, <1>5, <1>6, <1>7, QuietStep, Zenon

(* A lost connection or a timeout: what was sent may have been written. *)
LEMMA FailLedger ==
    ASSUME TypeInv, View, LedgerInv, TypeInv', View', NEW err \in {"__TRANSPORT", "__TIMED_OUT"}, Fail(err)
    PROVE  LedgerInv'
<1> DEFINE unsent == IF err = "__TIMED_OUT" THEN "__TIMED_OUT_QUEUE" ELSE err
           f      == Failed(waitresps, err, TRUE)
           g      == Failed(outbufs, unsent, FALSE)
           late   == {waitresps[n] : n \in Len(resps) + 1 .. Len(waitresps)}
<1>1. /\ results = <<>> /\ results' = f \o g
      /\ outbufs' = <<>> /\ waitresps' = <<>> /\ resps' = <<>>
      /\ stale' = stale \cup late
      /\ UNCHANGED <<msgid, msgq, xmitq, msg, report, tp, rk, old, leader, log>>
  BY Zenon DEF Fail, queues, move, remote
<1>2. /\ err \in Errors /\ unsent \in Errors /\ err \notin Confirms /\ unsent \notin Confirms
      /\ err \in Leaves
  BY DEF Errors, Confirms, Leaves
<1>3. outbufs \in Seq(Request) /\ waitresps \in Seq(Request) /\ resps \in Seq(Errors) /\ Len(resps) <= Len(waitresps)
  BY Zenon DEF TypeInv
<1> HIDE DEF unsent
<1>4. /\ f \in Seq(Result) /\ Members(f) = Ended(Members(waitresps), err, TRUE)
      /\ g \in Seq(Result) /\ Members(g) = Ended(Members(outbufs), unsent, FALSE)
  BY <1>2, <1>3, MembersFailed, Zenon
<1> HIDE DEF f, g
<1>5. Members(results') = Members(f) \cup Members(g)
  <2>1. Members(f \o g) = Members(f) \cup Members(g)
    <3>1. f \in Seq(Result) /\ g \in Seq(Result)
      BY <1>4
    <3> QED
      BY ONLY <3>1, MembersJoint, Zenon
  <2> QED
    BY <1>1, <2>1, Zenon
<1>6. /\ Members(results) = {} /\ Members(outbufs') = {} /\ Members(waitresps') = {}
      /\ Answered' = {}
  <2>1. Members(results) = {} /\ Members(outbufs') = {} /\ Members(waitresps') = {}
    BY <1>1, NoMembers, Zenon
  <2>2. 1..Len(resps') = {}
    BY <1>1
  <2>3. Answered' = {}
    BY <2>2, Zenon DEF Answered
  <2> QED
    BY <2>1, <2>3
<1>7. /\ {x.req : x \in Members(f)} = Members(waitresps)
      /\ {x.req : x \in Members(g)} = Members(outbufs)
      /\ \A x \in Members(f) : x.err = err /\ x.sent = TRUE
      /\ \A x \in Members(g) : x.err = unsent

  <2>1. /\ {x.req : x \in Ended(Members(waitresps), err, TRUE)} = Members(waitresps)
        /\ {x.req : x \in Ended(Members(outbufs), unsent, FALSE)} = Members(outbufs)
    BY ONLY EndedReqs, Zenon
  <2>2. /\ \A x \in Ended(Members(waitresps), err, TRUE) : x.err = err /\ x.sent = TRUE
        /\ \A x \in Ended(Members(outbufs), unsent, FALSE) : x.err = unsent
    BY ONLY DEF Ended
  <2> QED
    BY <1>4, <2>1, <2>2, Zenon
<1>8. Flying' = Flying
  <2>1. {x.req : x \in Members(results')} = Members(waitresps) \cup Members(outbufs)
    BY <1>5, <1>7, Zenon
  <2> QED
    BY <1>1, <1>6, <2>1, Zenon DEF Flying
<1>9. \A x \in Members(results') : x.err \notin Confirms
  BY <1>2, <1>5, <1>7, Zenon
<1>10. \A x \in Outcomes' : x.err \in Confirms => x \in Outcomes
  BY <1>1, <1>6, <1>9, Zenon DEF Outcomes
<1>11. late \subseteq Members(waitresps) /\ \A x \in Answered : x.req \in Members(waitresps)
  <2>1. Len(resps) \in Nat /\ Len(waitresps) \in Nat
    BY <1>3
  <2>2. \A n \in Len(resps) + 1 .. Len(waitresps) : n \in 1..Len(waitresps)
    BY <1>3, <2>1
  <2>3. \A n \in 1..Len(resps) : n \in 1..Len(waitresps)
    BY <1>3, <2>1
  <2>4. late \subseteq Members(waitresps)
    BY <2>2, Zenon DEF Members
  <2>5. \A n \in 1..Len(resps) : waitresps[n] \in Members(waitresps)
    BY <2>3, Zenon DEF Members
  <2> QED
    BY <2>4, <2>5 DEF Answered
<1> HIDE DEF late
<1>12. ASSUME NEW r \in Members(waitresps)
       PROVE  \E x \in Outcomes' : x.req = r /\ x.sent /\ x.err \in Leaves
  <2>1. PICK x \in Members(f) : x.req = r
    BY <1>7, Zenon
  <2>2. x \in Outcomes'
    BY <1>5, Zenon DEF Outcomes
  <2>3. x.sent /\ x.err \in Leaves
    BY <1>2, <1>7, Zenon
  <2> QED
    BY <2>1, <2>2, <2>3, Zenon
<1>13. \A r \in Flying :
         r \in stale' \ stale \/ (\E x \in Outcomes : x.req = r /\ x.sent /\ x.err \in Leaves)
            => \E x \in Outcomes' : x.req = r /\ x.sent /\ x.err \in Leaves
  <2>1. \A x \in Outcomes : x \in Answered \/ x \in Members(old)
    BY <1>6, Zenon DEF Outcomes
  <2>2. Members(old) \subseteq Outcomes'
    BY <1>1, Zenon DEF Outcomes
  <2> QED
    BY <1>1, <1>11, <1>12, <2>1, <2>2, Zenon
<1>14. stale \subseteq stale' /\ stale' \subseteq stale \cup Flying
  BY <1>1, <1>11, ZenonT(40) DEF Flying
<1>15. Waiting' = Waiting /\ rk.pid <= rk'.pid
  BY <1>1, Numbers DEF Waiting
<1>16. tp'.pid = tp.pid /\ tp'.base = tp.base /\ (tp.drain => tp'.drain)
  BY <1>1, Zenon
<1> QED
  BY <1>1, <1>8, <1>9, <1>10, <1>13, <1>14, <1>15, <1>16, QuietStep, ZenonT(40)

(* Messages that wait are reported with the status they have: those that   *)
(* are in the log or may get there are in doubt.                           *)
LEMMA GiveUp ==
    ASSUME TypeInv, View, LedgerInv, TypeInv', View', NEW gone, gone \subseteq Waiting,
           UNCHANGED <<msgid, leader, log, msg, stale>>,
           tp' = tp, rk.pid <= rk'.pid, Waiting' = Waiting \ gone, Flying' = Flying,
           report' = [m \in Msgs |-> IF m \in gone THEN msg[m].status ELSE report[m]],
           Outcomes \subseteq Outcomes',
           \A x \in Outcomes' : x.err \in Confirms => x \in Outcomes,
           \A x \in Members(results') : x.err \notin Confirms
    PROVE  LedgerInv'
<1>1. /\ Waiting \subseteq Open /\ \A x \in Outcomes : x.req \in Flying
      /\ \A r \in Flying : r.msgs \cap Waiting = {}
  BY Zenon DEF View
<1>2. /\ \A m \in gone : report'[m] = msg[m].status
      /\ \A m \in Msgs : m \notin gone => report'[m] = report[m]
  <2>1. gone \subseteq Msgs
    BY <1>1, Zenon DEF Open
  <2> QED
    BY <2>1, Zenon
<1>3. \A m \in Msgs : msg[m].status # "none"
  <2>1. msg \in [Msgs -> MsgState]
    BY Zenon DEF TypeInv
  <2>2. \A m \in Msgs : msg[m].status \in Statuses
    BY <2>1, Zenon DEF MsgState
  <2> QED
    BY <2>2 DEF Statuses
<1>4. Open' = Open \ gone /\ Logged' = Logged /\ gone \subseteq Open
  <2>1. gone \subseteq Open
    BY <1>1, Zenon
  <2> QED
    BY <1>2, <1>3, <2>1, Zenon DEF Open, Logged
<1>5. Queued'
  <2>1. Queued
    BY Zenon DEF LedgerInv
  <2> QED
    BY <2>1, Zenon DEF Queued
<1>6. Doubted'
  <2>1. Doubted
    BY Zenon DEF LedgerInv
  <2> SUFFICES ASSUME NEW m \in Msgs, m \in Logged \/ \E b \in stale : m \in b.msgs
               PROVE  /\ m <= msgid
                      /\ report'[m] # "NOT_PERSISTED"
                      /\ report'[m] = "none" => Doubtful(m, Outcomes', msg)
    BY <1>4, Zenon DEF Doubted
  <2>2. /\ m <= msgid
        /\ report[m] # "NOT_PERSISTED"
        /\ report[m] = "none" => Doubtful(m, Outcomes, msg)
    BY <2>1, Zenon DEF Doubted
  <2>3. CASE m \in gone
    <3>1. report[m] = "none" /\ \A x \in Outcomes : m \notin x.req.msgs
      BY <1>1, <1>4, <2>3, Zenon DEF Open
    <3>2. msg[m].status # "NOT_PERSISTED"
      BY <2>2, <3>1, Zenon DEF Doubtful
    <3> QED
      BY <1>2, <1>3, <2>2, <2>3, <3>2, Zenon
  <2>4. CASE m \notin gone
    BY <1>2, <2>2, <2>4, Zenon DEF Doubtful
  <2> QED
    BY <2>3, <2>4
<1>7. Persisted'
  <2>1. Persisted
    BY Zenon DEF LedgerInv
  <2>2. \A m \in gone : report'[m] # "PERSISTED"
    BY <1>2, <1>4, <2>1, Zenon DEF Persisted, Open
  <2>3. \A m \in Msgs : report'[m] = "PERSISTED" => m \in Logged'
    BY <1>2, <1>4, <2>1, <2>2, Zenon DEF Persisted
  <2>4. \A m \in Msgs : report'[m] = "none" => msg'[m].status # "PERSISTED"
    BY <1>2, <1>3, <2>1, Zenon DEF Persisted
  <2> QED
    BY <2>3, <2>4, Zenon DEF Persisted
<1>8. \A m \in Msgs : msg'[m].last <= msgid
  BY Zenon DEF LedgerInv, Numbered
<1>9. \A f \in Open', e \in Msgs : Ends(f, e, Flying, msg) => Ends(f, e, Flying', msg')
  BY Zenon
<1>10. /\ stale \subseteq stale' /\ stale' \subseteq stale \cup Flying'
       /\ Open' \subseteq Open /\ Flying' \subseteq Flying /\ tp'.pid = tp.pid /\ tp'.base = tp.base
  BY <1>4, Zenon
<1> QED
  BY <1>5, <1>6, <1>7, <1>8, <1>9, <1>10, ClientStep, ZenonT(40)

(* Messages are not sent within message.timeout.ms. *)
LEMMA MsgTimeoutLedger ==
    ASSUME TypeInv, View, LedgerInv, TypeInv', View', NEW k \in Msgs, MsgTimeout(k)
    PROVE  LedgerInv'
<1> DEFINE expired == {m \in msgq \cup xmitq : m <= k}
           bump    == SetState(rk, "DRAIN_BUMP")
<1>1. /\ report' = [m \in Msgs |-> IF m \in expired THEN msg[m].status ELSE report[m]]
      /\ msgq' = msgq \ expired /\ xmitq' = xmitq \ expired
      /\ rk' \in {rk, DrainDone(bump), bump}
      /\ UNCHANGED <<msgid, msg, tp, outbufs, waitresps, resps, results, old, stale, leader, log>>
  <2>1. PICK pid \in RoundPids : rk' = CASE pid = 0 -> rk
                                        [] pid # 0 /\ Drained -> DrainDone(bump)
                                        [] pid # 0 /\ ~Drained -> bump
    BY Zenon DEF MsgTimeout
  <2> HIDE DEF bump
  <2>3. rk' \in {rk, DrainDone(bump), bump}
    BY <2>1, Zenon
  <2> QED
    BY <2>3, Zenon DEF MsgTimeout, network, move, remote
<1>2. rk.pid <= rk'.pid
  <2>1. rk \in Instance
    BY Zenon DEF TypeInv
  <2>2. {"pid", "state"} \subseteq DOMAIN rk /\ rk.pid \in Nat
    BY <2>1, Zenon DEF Instance
  <2>3. bump.pid = rk.pid /\ DOMAIN bump = DOMAIN rk
    BY <2>2, PidKept, Zenon
  <2> HIDE DEF bump
  <2>4. bump.pid <= DrainDone(bump).pid
    BY <2>2, <2>3, PidRises, Zenon
  <2> QED
    BY <1>1, <2>2, <2>3, <2>4
<1>3. expired \subseteq Waiting /\ Waiting' = Waiting \ expired
  BY <1>1, Zenon DEF Waiting
<1> HIDE DEF expired
<1>4. Flying' = Flying /\ Outcomes' = Outcomes /\ Members(results') = Members(results)
  BY <1>1, Zenon DEF Flying, Outcomes, Answered
<1>5. \A x \in Members(results) : x.err \notin Confirms
  BY Zenon DEF LedgerInv, Confirmed
<1>6. /\ Outcomes \subseteq Outcomes' /\ \A x \in Outcomes' : x.err \in Confirms => x \in Outcomes
      /\ \A x \in Members(results') : x.err \notin Confirms
  BY <1>4, <1>5, Zenon
<1> QED
  BY <1>1, <1>2, <1>3, <1>4, <1>6, GiveUp, Zenon

(* A fatal error empties the queues. *)
LEMMA PurgeQueuesLedger ==
    ASSUME TypeInv, View, LedgerInv, TypeInv', View', PurgeQueues
    PROVE  LedgerInv'
<1>1. /\ results = <<>> /\ results' = Failed(outbufs, "__PURGE_QUEUE", FALSE) /\ outbufs' = <<>>
      /\ report' = [m \in Msgs |-> IF m \in msgq \cup xmitq THEN msg[m].status ELSE report[m]]
      /\ msgq' = {} /\ xmitq' = {} /\ rk' = [rk EXCEPT !.purge = FALSE]
      /\ UNCHANGED <<msgid, msg, tp, waitresps, resps, old, stale, leader, log>>
  BY Zenon DEF PurgeQueues, move, remote
<1>2. "__PURGE_QUEUE" \in Errors /\ "__PURGE_QUEUE" \notin Confirms
  BY DEF Errors, Confirms
<1>3. /\ Flying' = Flying
      /\ \A x \in Outcomes' : x.err \in Confirms => x \in Outcomes
      /\ Outcomes \subseteq Outcomes'
      /\ \A x \in Members(results') : x.err \notin Confirms
  BY <1>1, <1>2, UnsentFail, Zenon
<1>4. rk.pid <= rk'.pid
  <2>1. rk \in Instance
    BY Zenon DEF TypeInv
  <2>2. rk'.pid = rk.pid /\ rk.pid \in Nat
    BY <1>1, <2>1, Zenon DEF Instance
  <2> QED
    BY <2>2
<1>5. Waiting \subseteq Waiting /\ Waiting' = Waiting \ Waiting
  BY <1>1, Zenon DEF Waiting
<1>6. report' = [m \in Msgs |-> IF m \in Waiting THEN msg[m].status ELSE report[m]]
  BY <1>1, Zenon DEF Waiting
<1>7. tp' = tp /\ UNCHANGED <<msgid, leader, log, msg, stale>>
  BY <1>1, Zenon
<1> QED
  BY <1>3, <1>4, <1>5, <1>6, <1>7, GiveUp, Zenon

-----------------------------------------------------------------------------
(* Results of requests *)

(* One request in flight ended with x, and is no longer in flight. *)
Handled(x) ==
    /\ Flying = Flying' \cup {x.req} /\ Outcomes = Outcomes' \cup {x}
    /\ Members(results') \subseteq Members(results)
    /\ UNCHANGED <<msgid, leader, log, stale>>

(* The other requests and their outcomes stay. *)
LEMMA HandledFacts ==
    ASSUME TypeInv, View, View', NEW x \in Outcomes, Handled(x),
           \A m \in x.req.msgs : m \notin Open' \/ m \in Waiting'
    PROVE  /\ x.req \in Flying /\ x.req \in Request /\ x \in Result
           /\ x.req.pid = tp.pid /\ x.req.msgs \subseteq Open \ Waiting
           /\ First(x.req) \in x.req.msgs /\ Final(x.req) \in x.req.msgs
           /\ First(x.req) \in Msgs /\ Final(x.req) \in Msgs /\ Final(x.req) <= msgid
           /\ \A m \in x.req.msgs : m <= Final(x.req)
           /\ Flying' \subseteq Flying /\ Outcomes' \subseteq Outcomes
           /\ \A r \in Flying' : r.msgs \cap x.req.msgs = {}
           /\ \A r \in Flying : r = x.req \/ r \in Flying'
           /\ \A y \in Outcomes : y = x \/ (y \in Outcomes' /\ y.req.msgs \cap x.req.msgs = {})
           /\ \A r \in Flying : r \in Request /\ First(r) \in r.msgs
<1>1. x \in Result /\ x.req \in Flying /\ x.req \in Request
  BY Zenon DEF View
<1>2. x.req.pid = tp.pid /\ x.req.msgs \subseteq Open \ Waiting
  BY <1>1, Zenon DEF View
<1>3. \A r \in Flying : r \in Request /\ First(r) \in r.msgs
  <2>1. Flying \subseteq Request
    BY Zenon DEF View
  <2> QED
    BY <2>1, RequestFacts, Zenon
<1>4. /\ First(x.req) \in x.req.msgs /\ Final(x.req) \in x.req.msgs
      /\ \A m \in x.req.msgs : m <= Final(x.req)
      /\ First(x.req) \in Msgs /\ Final(x.req) \in Msgs
  BY <1>1, RequestFacts, Zenon
<1>5. Final(x.req) <= msgid
  BY <1>2, <1>4, Zenon DEF Open
<1>6. Flying' \subseteq Flying /\ Outcomes' \subseteq Outcomes /\ \A r \in Flying : r = x.req \/ r \in Flying'
  BY Zenon DEF Handled
<1>7. x.req \notin Flying'
  <2>1. \A r \in Flying' : r.msgs \subseteq Open' \ Waiting'
    BY Zenon DEF View
  <2> QED
    BY <1>4, <2>1, Zenon
<1>8. \A r \in Flying' : r.msgs \cap x.req.msgs = {}
  <2>1. \A r \in Flying : r = x.req \/ r.msgs \cap x.req.msgs = {}
    BY <1>1, Zenon DEF View
  <2> QED
    BY <1>6, <1>7, <2>1, Zenon
<1>9. ASSUME NEW y \in Outcomes, y # x PROVE y \in Outcomes' /\ y.req.msgs \cap x.req.msgs = {}
  <2>1. y \in Outcomes'
    BY <1>9, Zenon DEF Handled
  <2>2. y.req \in Flying'
    BY <2>1, Zenon DEF View
  <2> QED
    BY <1>8, <2>1, <2>2, Zenon
<1> QED
  BY <1>1, <1>2, <1>3, <1>4, <1>5, <1>6, <1>8, <1>9, Zenon

(* What a request that succeeded does to the messages. *)
LEMMA SuccessLedger ==
    ASSUME TypeInv, View, LedgerInv, TypeInv', View', NEW x \in Outcomes, x.err = "NO_ERROR",
           NEW last, Success(x.req, last), Handled(x)
    PROVE  LedgerInv'
<1> DEFINE b == x.req
           acked == IF tp.acked < Min(b.msgs) - 1 THEN ImplicitAck(Max(b.msgs)) ELSE {}
           gone == b.msgs \cup acked
<1>1. /\ report' = [m \in Msgs |-> IF m \in gone THEN "PERSISTED" ELSE report[m]]
      /\ msgq' = msgq \ acked /\ xmitq' = xmitq \ acked /\ msg' = msg
      /\ tp'.pid = tp.pid /\ tp'.base = tp.base /\ tp'.drain = tp.drain
  <2>1. tp \in Eos
    BY Zenon DEF TypeInv
  <2>2. tp'.pid = tp.pid /\ tp'.base = tp.base /\ tp'.drain = tp.drain
    BY <2>1, Zenon DEF Success, Eos
  <2> QED
    BY <2>2, Zenon DEF Success
<1>2. UNCHANGED <<msgid, leader, log, stale>>
  BY Zenon DEF Handled
<1>3. rk.pid <= rk'.pid
  <2>1. rk \in Instance
    BY Zenon DEF TypeInv
  <2>2. {"pid", "state"} \subseteq DOMAIN rk /\ rk.pid \in Nat
    BY <2>1, Zenon DEF Instance
  <2> DEFINE f == Fatal(rk, "__INCONSISTENT")
  <2>3. rk' \in {rk, f, DrainDone(rk), DrainDone(f)}
    BY Zenon DEF Success
  <2>4. f.pid = rk.pid /\ DOMAIN f = DOMAIN rk
    BY <2>2, PidKept, Zenon
  <2> HIDE DEF f
  <2>5. f.pid <= DrainDone(f).pid
    BY <2>2, <2>4, PidRises, Zenon
  <2>6. rk.pid <= DrainDone(rk).pid
    BY <2>2, PidRises, Zenon
  <2> QED
    BY <2>2, <2>3, <2>4, <2>5, <2>6, SMTT(30)
<1>4. acked \subseteq Waiting /\ \A m \in acked : m <= Final(b)
  BY Zenon DEF ImplicitAck, Waiting, Final
<1> HIDE DEF acked
<1>5. b \in Flying /\ b.msgs \subseteq Open /\ Waiting \subseteq Open /\ gone \subseteq Open /\ Open \subseteq Msgs
  <2>1. b \in Flying
    BY Zenon DEF View
  <2>2. b.msgs \subseteq Open /\ Waiting \subseteq Open
    BY <2>1, Zenon DEF View
  <2> QED
    BY <1>4, <2>1, <2>2, Zenon DEF Open
<1>6. /\ \A m \in gone : report'[m] = "PERSISTED"
      /\ \A m \in Msgs : m \notin gone => report'[m] = report[m]
  BY <1>1, <1>5, Zenon
<1>7. Open' = Open \ gone /\ Waiting' = Waiting \ acked /\ Logged' = Logged
  <2>1. Open' = Open \ gone
    BY <1>2, <1>5, <1>6, Zenon DEF Open
  <2> QED
    BY <1>1, <1>2, <2>1, Zenon DEF Waiting, Logged
<1>8. \A m \in x.req.msgs : m \notin Open' \/ m \in Waiting'
  BY <1>7, Zenon
<1>9. /\ \A m \in b.msgs : m <= Final(b)
      /\ First(b) \in b.msgs
      /\ Flying' \subseteq Flying /\ Outcomes' \subseteq Outcomes
      /\ \A r \in Flying : r = b \/ r \in Flying'
      /\ \A y \in Outcomes : y = x \/ y \in Outcomes'
  BY <1>8, HandledFacts, Zenon
<1>10. gone \subseteq Logged
  <2>1. x.err \in Confirms
    BY DEF Confirms
  <2>2. \A m \in Open : m <= Final(b) => m \in Logged
    BY <2>1, Zenon DEF LedgerInv, Confirmed
  <2> QED
    BY <1>4, <1>5, <1>9, <2>2, Zenon
<1>11. \A f \in Open', e \in Msgs : Ends(f, e, Flying, msg) => Ends(f, e, Flying', msg')
  <2> SUFFICES ASSUME NEW f \in Open', NEW e \in Msgs, Ends(f, e, Flying, msg)
               PROVE  Ends(f, e, Flying', msg)
    BY <1>1, Zenon
  <2>1. f # First(b)
    BY <1>7, <1>9, Zenon
  <2> HIDE DEF b
  <2> QED
    BY <1>9, <2>1, Zenon DEF Ends
<1>12. Queued'
  <2>1. Queued
    BY Zenon DEF LedgerInv
  <2> QED
    BY <1>1, <1>7, <1>9, <2>1, Zenon DEF Queued
<1>13. Doubted'
  <2>1. Doubted
    BY Zenon DEF LedgerInv
  <2> SUFFICES ASSUME NEW m \in Msgs, m \in Logged \/ \E c \in stale : m \in c.msgs
               PROVE  /\ m <= msgid
                      /\ report'[m] # "NOT_PERSISTED"
                      /\ report'[m] = "none" => Doubtful(m, Outcomes', msg)
    BY <1>1, <1>2, <1>7, Zenon DEF Doubted
  <2>2. /\ m <= msgid
        /\ report[m] # "NOT_PERSISTED"
        /\ report[m] = "none" => Doubtful(m, Outcomes, msg)
    BY <2>1, Zenon DEF Doubted
  <2>3. CASE m \in gone
    BY <1>6, <2>2, <2>3, Zenon
  <2>4. CASE m \notin gone
    <3>1. report'[m] = report[m] /\ m \notin x.req.msgs
      BY <1>6, <2>4, Zenon
    <3>2. Doubtful(m, Outcomes, msg) => Doubtful(m, Outcomes', msg)
      BY <1>9, <3>1, Zenon DEF Doubtful
    <3> QED
      BY <2>2, <3>1, <3>2, Zenon
  <2> QED
    BY <2>3, <2>4
<1>14. Persisted'
  <2>1. Persisted
    BY Zenon DEF LedgerInv
  <2> QED
    BY <1>1, <1>6, <1>7, <1>10, <2>1, ZenonT(40) DEF Persisted
<1>15. \A m \in Msgs : msg'[m].last <= msgid
  BY <1>1, Zenon DEF LedgerInv, Numbered
<1>16. \A y \in Members(results') : y.err \notin Confirms
  BY Zenon DEF LedgerInv, Confirmed, Handled
<1>17. /\ stale \subseteq stale' /\ stale' \subseteq stale \cup Flying' /\ Open' \subseteq Open
       /\ \A y \in Outcomes' : y.err \in Confirms => y \in Outcomes
  BY <1>2, <1>7, <1>9, Zenon
<1> QED
  BY <1>1, <1>2, <1>3, <1>9, <1>11, <1>12, <1>13, <1>14, <1>15, <1>16, <1>17, ClientStep, ZenonT(40)

(* A decision that a request which may have been written leaves its        *)
(* messages in doubt, and that only a duplicate counts as written.         *)
Prudent(p, err, sent) ==
    /\ p.status \in Statuses
    /\ sent /\ err \in Leaves \ {"NO_ERROR"} => p.status # "NOT_PERSISTED"
    /\ p.status = "PERSISTED" => err = "DUPLICATE_SEQUENCE_NUMBER" /\ p.actions = {}

(* The decisions of handle_Produce_error() are of that kind. *)
LEMMA PrudentError ==
    ASSUME NEW b, b.pid = tp.pid, NEW err \in Errors, NEW sent \in BOOLEAN
    PROVE  Prudent(ProduceError(b, err, sent), err, sent)
<1> DEFINE p == ProduceError(b, err, sent)
<1>1. CASE err = "DUPLICATE_SEQUENCE_NUMBER"
  <2>1. p = Perr({}, "PERSISTED", 1, TRUE, "nothing")
    BY <1>1, SMTT(30) DEF ProduceError, IdempotentError, IdempotentErrors
  <2> QED
    BY <1>1, <2>1, SMTT(30) DEF Perr, Statuses, Prudent
<1>2. CASE err \in {"OUT_OF_ORDER_SEQUENCE_NUMBER", "UNKNOWN_PRODUCER_ID"}
  <2> DEFINE lost  == Perr({"PERMANENT"}, "POSSIBLY_PERSISTED", 1, FALSE, err)
             again == Perr({"RETRY"}, "NOT_PERSISTED", 0, FALSE, "bump")
  <2>1. err \in IdempotentErrors
    BY <1>2 DEF IdempotentErrors
  <2>2. p = IdempotentError(b, err)
    BY <2>1, Zenon DEF ProduceError
  <2>3. lost.status = "POSSIBLY_PERSISTED" /\ again.status = "NOT_PERSISTED"
    BY DEF Perr
  <2> HIDE DEF p, lost, again
  <2>4. ASSUME err = "OUT_OF_ORDER_SEQUENCE_NUMBER" PROVE p \in {lost, again}
    BY <2>2, <2>4, SMTT(30) DEF IdempotentError, lost, again
  <2>5. ASSUME err = "UNKNOWN_PRODUCER_ID" PROVE p \in {lost, again}
    BY <2>2, <2>5, SMTT(30) DEF IdempotentError, lost, again
  <2>6. p \in {lost, again}
    BY <1>2, <2>4, <2>5
  <2>7. p.status \in {"POSSIBLY_PERSISTED", "NOT_PERSISTED"}
    BY <2>3, <2>6, ZenonT(40)
  <2> USE DEF p
  <2> QED
    BY <1>2, <2>7, SMTT(30) DEF Statuses, Leaves, Confirms, Prudent
<1>3. CASE err \notin IdempotentErrors
  <2> DEFINE actions  == Actions(err)
             incr     == IF (actions \cap {"REFRESH"} # {} /\ err # "__TRANSPORT") \/ ~sent THEN 0 ELSE 1
             possibly == "MSG_POSSIBLY_PERSISTED" \in actions /\ incr = 1
             status   == IF possibly THEN "POSSIBLY_PERSISTED" ELSE "NOT_PERSISTED"
  <2>1. \/ p = Perr(actions, status, 1, FALSE, "nothing")
        \/ p = Perr(actions, status, incr, possibly, "nothing")
    BY <1>3, Zenon DEF ProduceError
  <2>2. p.status = status
    <3> HIDE DEF status, incr, possibly, actions, p
    <3>1. \A a, i, k : Perr(a, status, i, k, "nothing").status = status
      BY DEF Perr
    <3> QED
      BY <2>1, <3>1, Zenon
  <2>3. p.status \in {"POSSIBLY_PERSISTED", "NOT_PERSISTED"}
    BY <2>2, Zenon
  <2>4. ASSUME sent, err \in Leaves \ {"NO_ERROR"} PROVE status = "POSSIBLY_PERSISTED"
    <3>1. err \in {"NOT_ENOUGH_REPLICAS_AFTER_APPEND", "__TRANSPORT", "__TIMED_OUT"}
      BY <1>3, <2>4, SMTT(30) DEF Leaves, Confirms, IdempotentErrors
    <3>2. CASE err = "__TRANSPORT"
      <4>1. actions = {"REFRESH", "MSG_POSSIBLY_PERSISTED"}
        BY <3>2, SMTT(30) DEF Actions
      <4> QED
        BY <2>4, <3>2, <4>1, SMTT(30)
    <3>3. CASE err \in {"NOT_ENOUGH_REPLICAS_AFTER_APPEND", "__TIMED_OUT"}
      <4>1. actions = {"RETRY", "MSG_POSSIBLY_PERSISTED"}
        BY <3>3, SMTT(30) DEF Actions
      <4> HIDE DEF actions
      <4>2. actions \cap {"REFRESH"} = {} /\ "MSG_POSSIBLY_PERSISTED" \in actions
        BY <4>1
      <4> QED
        BY <2>4, <4>2
    <3> QED
      BY <3>1, <3>2, <3>3, SMTT(30)
  <2> HIDE DEF status
  <2> QED
    BY <2>2, <2>3, <2>4, SMTT(30) DEF Statuses, Prudent
<1> HIDE DEF p
<1>4. \/ err = "DUPLICATE_SEQUENCE_NUMBER" \/ err \notin IdempotentErrors
      \/ err \in {"OUT_OF_ORDER_SEQUENCE_NUMBER", "UNKNOWN_PRODUCER_ID"}
  BY DEF IdempotentErrors
<1> QED
  BY <1>1, <1>2, <1>3, <1>4, SMTT(30) DEF p

(* What a request that failed does to the messages. *)
LEMMA FailureLedger ==
    ASSUME TypeInv, View, LedgerInv, TypeInv', View', NEW x \in Outcomes, x.err # "NO_ERROR",
           NEW last, Failure(x.req, ProduceError(x.req, x.err, x.sent), last), Handled(x)
    PROVE  LedgerInv'
<1> DEFINE b == x.req
           p == ProduceError(b, x.err, x.sent)
           retried == Retried(b, p)
           gone == b.msgs \ retried
<1>1. /\ msg' = [m \in Msgs |->
                      [retries |-> IF m \in retried THEN msg[m].retries + p.incr ELSE msg[m].retries,
                       last    |-> IF m = First(b) THEN Final(b) ELSE msg[m].last,
                       status  |-> IF m \in b.msgs THEN NewStatus(msg[m].status, p.status)
                                                   ELSE msg[m].status]]
      /\ msgq' = msgq \cup retried /\ xmitq' = xmitq
      /\ report' = [m \in Msgs |-> IF m \in gone THEN msg'[m].status ELSE report[m]]
      /\ rk' = AfterError(p, last)
  BY Zenon DEF Failure, First, Final
<1>2. /\ tp'.pid = tp.pid /\ tp'.base = tp.base
      /\ tp'.drain = (tp.drain \/ p.actions \cap {"REFRESH", "RETRY"} # {})
  <2>1. tp \in Eos
    BY Zenon DEF TypeInv
  <2>2. tp' = [tp EXCEPT !.ack = IF p.ack THEN b.seq + Cardinality(b.msgs) ELSE @,
                         !.err = b.seq + Cardinality(b.msgs),
                         !.drain = @ \/ p.actions \cap {"REFRESH", "RETRY"} # {}]
    BY Zenon DEF Failure
  <2> HIDE DEF p
  <2> QED
    BY <2>1, <2>2, Zenon DEF Eos
<1>3. UNCHANGED <<msgid, leader, log, stale>>
  BY Zenon DEF Handled
<1>4. rk.pid <= rk'.pid
  <2>1. rk \in Instance
    BY Zenon DEF TypeInv
  <2> QED
    BY <1>1, <2>1, AfterErrorPid, Zenon
<1>5. retried \subseteq b.msgs /\ (p.actions \cap {"REFRESH", "RETRY"} = {} => retried = {})
  BY Zenon DEF Retried
<1>6. /\ p.status \in Statuses
      /\ x.sent /\ x.err \in Leaves => p.status # "NOT_PERSISTED"
      /\ p.status = "PERSISTED" => x.err \in Confirms /\ retried = {}
  <2>1. x \in Result /\ b \in Flying
    BY Zenon DEF View
  <2>2. b.pid = tp.pid
    BY <2>1, Zenon DEF View
  <2>3. x.err \in Errors /\ x.sent \in BOOLEAN
    BY <2>1, Zenon DEF Result
  <2>4. Prudent(p, x.err, x.sent)
    BY <2>2, <2>3, PrudentError, Zenon
  <2> HIDE DEF p, retried
  <2>5. "DUPLICATE_SEQUENCE_NUMBER" \in Confirms
    BY DEF Confirms
  <2>6. p.actions = {} => p.actions \cap {"REFRESH", "RETRY"} = {}
    BY Zenon
  <2> QED
    BY <1>5, <2>4, <2>5, <2>6, ZenonT(40) DEF Prudent
<1> HIDE DEF p, retried
<1>7. b \in Flying /\ b.msgs \subseteq Open /\ gone \subseteq Open /\ Open \subseteq Msgs
  <2>1. b \in Flying
    BY Zenon DEF View
  <2>2. b.msgs \subseteq Open
    BY <2>1, Zenon DEF View
  <2> QED
    BY <2>1, <2>2, Zenon DEF Open
<1>8. /\ \A m \in Msgs : msg'[m].last = IF m = First(b) THEN Final(b) ELSE msg[m].last
      /\ \A m \in Msgs : msg'[m].status = IF m \in b.msgs THEN NewStatus(msg[m].status, p.status)
                                                          ELSE msg[m].status
  BY <1>1, Zenon
<1>9. /\ \A m \in gone : report'[m] = msg'[m].status
      /\ \A m \in Msgs : m \notin gone => report'[m] = report[m]
  BY <1>1, <1>7, ZenonT(40)
<1>10. \A m \in Msgs : msg'[m].status # "none"
  <2>1. msg' \in [Msgs -> MsgState]
    BY Zenon DEF TypeInv
  <2>2. \A m \in Msgs : msg'[m].status \in Statuses
    BY <2>1, Zenon DEF MsgState
  <2> QED
    BY <2>2 DEF Statuses
<1>11. Open' = Open \ gone /\ Waiting' = Waiting \cup retried /\ Logged' = Logged
  <2>1. Open' = Open \ gone
    BY <1>3, <1>7, <1>9, <1>10, ZenonT(40) DEF Open
  <2>2. Waiting' = Waiting \cup retried
    BY <1>1, Zenon DEF Waiting
  <2> QED
    BY <1>3, <2>1, <2>2, Zenon DEF Logged
<1>12. \A m \in x.req.msgs : m \notin Open' \/ m \in Waiting'
  BY <1>11, Zenon
<1>13. /\ \A m \in b.msgs : m <= Final(b)
       /\ First(b) \in b.msgs /\ Final(b) \in Msgs /\ Final(b) <= msgid
       /\ Flying' \subseteq Flying /\ Outcomes' \subseteq Outcomes
       /\ \A r \in Flying' : r.msgs \cap b.msgs = {}
       /\ \A r \in Flying : r = b \/ r \in Flying'
       /\ \A y \in Outcomes : y = x \/ (y \in Outcomes' /\ y.req.msgs \cap b.msgs = {})
       /\ \A r \in Flying : First(r) \in r.msgs
  BY <1>12, HandledFacts, Zenon
<1>14. \A f \in Open', e \in Msgs : Ends(f, e, Flying, msg) => Ends(f, e, Flying', msg')
  <2> SUFFICES ASSUME NEW f \in Open', NEW e \in Msgs, Ends(f, e, Flying, msg)
               PROVE  Ends(f, e, Flying', msg')
    BY Zenon
  <2>1. f \in Msgs
    BY <1>7, <1>11, Zenon
  <2>2. CASE f = First(b)
    <3>1. \A r \in Flying' : First(r) # f
      BY <1>13, <2>2, Zenon
    <3>2. e = Final(b)
      <4>1. PICK r \in Flying : First(r) = f /\ Final(r) = e
        BY <1>7, <2>2, Zenon DEF Ends
      <4>2. r = b
        BY <1>13, <3>1, <4>1, Zenon
      <4> QED
        BY <4>1, <4>2, Zenon
    <3>3. msg'[f].last = Final(b)
      BY <1>8, <2>1, <2>2, ZenonT(40)
    <3> QED
      BY <3>1, <3>2, <3>3, Zenon DEF Ends
  <2>3. CASE f # First(b)
    <3>1. msg'[f].last = msg[f].last
      BY <1>8, <2>1, <2>3, ZenonT(40)
    <3> HIDE DEF b
    <3> QED
      BY <1>13, <2>3, <3>1, Zenon DEF Ends
  <2> QED
    BY <2>2, <2>3, SMTT(30)
<1>15. Queued'
  <2>1. Queued
    BY Zenon DEF LedgerInv
  <2>2. CASE p.actions \cap {"REFRESH", "RETRY"} = {}
    BY <1>2, <1>5, <1>11, <1>13, <2>1, <2>2, ZenonT(40) DEF Queued
  <2>3. CASE p.actions \cap {"REFRESH", "RETRY"} # {}
    BY <1>2, <2>3, ZenonT(40) DEF Queued
  <2> QED
    BY <2>2, <2>3
<1>16. Doubted'
  <2>1. Doubted
    BY Zenon DEF LedgerInv
  <2> SUFFICES ASSUME NEW m \in Msgs, m \in Logged \/ \E c \in stale : m \in c.msgs
               PROVE  /\ m <= msgid
                      /\ report'[m] # "NOT_PERSISTED"
                      /\ report'[m] = "none" => Doubtful(m, Outcomes', msg')
    BY <1>3, <1>11, Zenon DEF Doubted
  <2>2. /\ m <= msgid
        /\ report[m] # "NOT_PERSISTED"
        /\ report[m] = "none" => Doubtful(m, Outcomes, msg)
    BY <2>1, Zenon DEF Doubted
  <2>3. CASE m \in b.msgs
    <3>1. Doubtful(m, Outcomes, msg)
      BY <1>7, <2>2, <2>3, Zenon DEF Open
    <3>2. msg[m].status # "NOT_PERSISTED" \/ p.status # "NOT_PERSISTED"
      BY <1>6, <1>13, <2>3, <3>1, Zenon DEF Doubtful
    <3>3. msg'[m].status = NewStatus(msg[m].status, p.status)
      BY <1>8, <2>3, Zenon
    <3>4. msg'[m].status # "NOT_PERSISTED"
      BY <3>2, <3>3, Zenon DEF NewStatus
    <3> QED
      BY <1>9, <2>2, <3>4, Zenon DEF Doubtful
  <2>4. CASE m \notin b.msgs
    <3>1. report'[m] = report[m] /\ msg'[m].status = msg[m].status
      BY <1>8, <1>9, <2>4, Zenon
    <3>2. Doubtful(m, Outcomes, msg) => Doubtful(m, Outcomes', msg')
      BY <1>13, <2>4, <3>1, Zenon DEF Doubtful
    <3> QED
      BY <2>2, <3>1, <3>2, Zenon
  <2> QED
    BY <2>3, <2>4
<1>17. Persisted'
  <2>1. Persisted
    BY Zenon DEF LedgerInv
  <2>2. ASSUME NEW m \in b.msgs, msg'[m].status = "PERSISTED" PROVE p.status = "PERSISTED"
    <3>1. m \in Open /\ m \in Msgs
      BY <1>7, Zenon
    <3>2. msg'[m].status = NewStatus(msg[m].status, p.status) /\ msg[m].status # "PERSISTED"
      BY <1>8, <2>1, <3>1, Zenon DEF Persisted, Open
    <3> QED
      BY <2>2, <3>2, Zenon DEF NewStatus
  <2>3. ASSUME NEW m \in gone, report'[m] = "PERSISTED" PROVE m \in Logged
    <3>1. m \in b.msgs /\ m \in Open /\ m <= Final(b) /\ p.status = "PERSISTED"
      BY <1>7, <1>9, <1>13, <2>2, <2>3, Zenon
    <3>2. x.err \in Confirms
      BY <1>6, <3>1, Zenon
    <3> QED
      BY <3>1, <3>2, Zenon DEF LedgerInv, Confirmed
  <2>4. \A m \in Msgs : report'[m] = "PERSISTED" => m \in Logged'
    BY <1>9, <1>11, <2>1, <2>3, ZenonT(40) DEF Persisted
  <2>5. ASSUME NEW m \in Msgs, report'[m] = "none" PROVE msg'[m].status # "PERSISTED"
    <3>1. m \notin gone /\ report[m] = "none"
      BY <1>9, <1>10, <2>5, Zenon
    <3>2. CASE m \in b.msgs
      <4>1. retried # {}
        BY <3>1, <3>2, Zenon
      <4> QED
        BY <1>6, <2>2, <3>2, <4>1, Zenon
    <3>3. CASE m \notin b.msgs
      BY <1>8, <2>1, <3>1, <3>3, ZenonT(40) DEF Persisted
    <3> QED
      BY <3>2, <3>3
  <2> QED
    BY <2>4, <2>5, Zenon DEF Persisted
<1>18. \A m \in Msgs : msg'[m].last <= msgid
  <2>1. \A m \in Msgs : msg[m].last <= msgid
    BY Zenon DEF LedgerInv, Numbered
  <2> QED
    BY <1>8, <1>13, <2>1, Zenon
<1>19. \A y \in Members(results') : y.err \notin Confirms
  BY Zenon DEF LedgerInv, Confirmed, Handled
<1>20. /\ stale \subseteq stale' /\ stale' \subseteq stale \cup Flying' /\ Open' \subseteq Open
       /\ \A y \in Outcomes' : y.err \in Confirms => y \in Outcomes
  BY <1>3, <1>11, <1>13, Zenon
<1> QED
  BY <1>2, <1>3, <1>4, <1>13, <1>14, <1>15, <1>16, <1>17, <1>18, <1>19, <1>20, ClientStep, ZenonT(40)

(* A result is handled. *)
LEMMA ResultLedger ==
    ASSUME TypeInv, View, LedgerInv, TypeInv', View', NEW x \in Outcomes, NEW last,
           ProduceResult(x.req, x.err, x.sent, last), Handled(x)
    PROVE  LedgerInv'
<1>1. CASE x.err = "NO_ERROR" /\ Success(x.req, last)
  BY <1>1, SuccessLedger, Zenon
<1>2. CASE x.err # "NO_ERROR" /\ Failure(x.req, ProduceError(x.req, x.err, x.sent), last)
  BY <1>2, FailureLedger, Zenon
<1> QED
  BY <1>1, <1>2, Zenon DEF ProduceResult

(* The response to the first request that was sent. *)
LEMMA ReceiveLedger ==
    ASSUME TypeInv, View, LedgerInv, TypeInv', View', Receive
    PROVE  LedgerInv'
<1> DEFINE r == Head(waitresps)
           x == [req |-> r, err |-> Head(resps), sent |-> TRUE]
           Reply(n) == [req |-> waitresps[n], err |-> resps[n], sent |-> TRUE]
<1>1. /\ resps # <<>> /\ waitresps' = Tail(waitresps) /\ resps' = Tail(resps)
      /\ ProduceResult(r, Head(resps), TRUE, LastInflight)
      /\ UNCHANGED <<msgid, outbufs, results, old, stale, leader, log>>
  BY Zenon DEF Receive, move, remote
<1>2. waitresps \in Seq(Request) /\ resps \in Seq(Errors) /\ Len(resps) <= Len(waitresps)
  BY Zenon DEF TypeInv
<1>3. /\ Len(resps) \in Nat /\ 1 \in 1..Len(resps) /\ Len(resps') = Len(resps) - 1
      /\ Head(resps) = resps[1] /\ Head(waitresps) = waitresps[1] /\ waitresps # <<>>
      /\ \A n \in 1..Len(resps') : resps'[n] = resps[n + 1] /\ waitresps'[n] = waitresps[n + 1]
  <2>1. /\ Len(resps) \in Nat \ {0} /\ Len(waitresps) \in Nat \ {0} /\ waitresps # <<>>
        /\ Len(resps') = Len(resps) - 1 /\ Len(waitresps') = Len(waitresps) - 1
        /\ Head(resps) = resps[1] /\ Head(waitresps) = waitresps[1]
        /\ \A n \in 1..Len(resps') : resps'[n] = resps[n + 1]
        /\ \A n \in 1..Len(waitresps') : waitresps'[n] = waitresps[n + 1]
    BY <1>1, <1>2, SMTT(30)
  <2>2. 1 \in 1..Len(resps) /\ \A n \in 1..Len(resps') : n \in 1..Len(waitresps')
    BY <1>2, <2>1, SMTT(30)
  <2> QED
    BY <2>1, <2>2, Zenon
<1>4. Members(waitresps) = {r} \cup Members(waitresps')
  BY <1>1, <1>2, <1>3, MembersTail, Zenon
<1>5. Flying = Flying' \cup {r}
  BY <1>1, <1>4, Zenon DEF Flying
<1>6. Answered = Answered' \cup {x}
  <2>1. \A n \in 1..Len(resps) : n = 1 \/ (n - 1 \in 1..Len(resps') /\ (n - 1) + 1 = n)
    BY <1>3
  <2>2. \A n \in 1..Len(resps') : n + 1 \in 1..Len(resps)
    BY <1>3, SMTT(30)
  <2>3. /\ Answered = {Reply(n) : n \in 1..Len(resps)} /\ x = Reply(1)
        /\ Answered' = {Reply(n + 1) : n \in 1..Len(resps')}
    <3>1. Answered = {Reply(n) : n \in 1..Len(resps)}
      BY Zenon DEF Answered
    <3>2. x = Reply(1)
      BY <1>3, Zenon
    <3>3. Answered' = {Reply(n + 1) : n \in 1..Len(resps')}
      BY <1>3, Zenon DEF Answered
    <3> QED
      BY <3>1, <3>2, <3>3, SMTT(30)
  <2> HIDE DEF Reply, x
  <2>4. ASSUME NEW n \in 1..Len(resps) PROVE Reply(n) \in Answered' \cup {x}
    <3>1. CASE n = 1
      BY <2>3, <3>1, Zenon
    <3>2. CASE n # 1
      <4>1. n - 1 \in 1..Len(resps') /\ (n - 1) + 1 = n
        BY <2>1, <3>2, Zenon
      <4> QED
        BY <2>3, <4>1, Zenon
    <3> QED
      BY <3>1, <3>2
  <2>5. \A y \in Answered' \cup {x} : y \in Answered
    BY <1>3, <2>2, <2>3, Zenon
  <2> QED
    BY <2>3, <2>4, <2>5, ZenonT(40)
<1>7. x.req = r /\ x.err = Head(resps) /\ x.sent = TRUE
  BY Zenon
<1> HIDE DEF x, r, Reply
<1>8. x \in Outcomes /\ Outcomes = Outcomes' \cup {x}
  BY <1>1, <1>6, Zenon DEF Outcomes
<1>9. Handled(x)
  BY <1>1, <1>5, <1>7, <1>8, Zenon DEF Handled
<1> QED
  BY <1>1, <1>7, <1>8, <1>9, ResultLedger, Zenon

(* The result of a request that was not answered. *)
LEMMA HandleResultLedger ==
    ASSUME TypeInv, View, LedgerInv, TypeInv', View', HandleResult
    PROVE  LedgerInv'
<1> DEFINE x == Head(results)
<1>1. /\ results # <<>> /\ results' = Tail(results)
      /\ Failure(x.req, ProduceError(x.req, x.err, x.sent), LastInflight)
      /\ UNCHANGED <<msgid, outbufs, waitresps, resps, old, stale, leader, log>>
  BY Zenon DEF HandleResult, move, remote
<1>2. results \in Seq(Result)
  BY Zenon DEF TypeInv
<1>3. Members(results) = {x} \cup Members(results')
  BY <1>1, <1>2, MembersTail, Zenon
<1> HIDE DEF x
<1>4. {y.req : y \in Members(results)} = {x.req} \cup {y.req : y \in Members(results')}
  BY <1>3, Zenon
<1>5. Flying = Flying' \cup {x.req}
  BY <1>1, <1>4, Zenon DEF Flying
<1>6. x \in Outcomes /\ Outcomes = Outcomes' \cup {x}
  BY <1>1, <1>3, Zenon DEF Outcomes, Answered
<1>7. Handled(x)
  BY <1>1, <1>3, <1>5, <1>6, Zenon DEF Handled
<1>8. x.err # "NO_ERROR"
  <2>1. x.err \notin Confirms
    BY <1>3, Zenon DEF LedgerInv, Confirmed
  <2> QED
    BY <2>1 DEF Confirms
<1> QED
  BY <1>1, <1>6, <1>7, <1>8, FailureLedger, Zenon

-----------------------------------------------------------------------------
(* New messages and new requests *)

(* All messages in a request have been produced, and those of a request    *)
(* that may still be written are not reported as lost.                     *)
LEMMA LiveFacts ==
    ASSUME TypeInv, View, LedgerInv, NEW b \in Live
    PROVE  /\ b \in Request
           /\ \A m \in b.msgs : m \in Msgs /\ m <= msgid /\ report[m] # "NOT_PERSISTED"
           /\ First(b) <= msgid /\ Final(b) <= msgid
<1>1. b \in Request
  BY Numbers, Zenon
<1>2. b.msgs \subseteq Msgs /\ First(b) \in b.msgs /\ Final(b) \in b.msgs
  BY <1>1, RequestFacts, Zenon
<1>3. ASSUME NEW m \in b.msgs PROVE m <= msgid /\ report[m] # "NOT_PERSISTED"
  <2>1. CASE b \in Flying
    <3>1. m \in Open
      BY <2>1, Zenon DEF View
    <3>2. m <= msgid /\ report[m] = "none"
      BY <3>1, Zenon DEF Open
    <3> QED
      BY <3>2
  <2>2. CASE b \in stale
    BY <1>2, <2>2, Zenon DEF LedgerInv, Doubted
  <2> QED
    BY <2>1, <2>2, Zenon DEF Live
<1> QED
  BY <1>1, <1>2, <1>3, Zenon

(* A new message comes after all others. *)
LEMMA ProduceLedger ==
    ASSUME TypeInv, View, LedgerInv, TypeInv', View', Produce
    PROVE  LedgerInv'
<1> DEFINE new == msgid + 1
<1>1. /\ msgid' = new /\ msgq' = msgq \cup {new}
      /\ UNCHANGED <<xmitq, msg, report, tp, rk, outbufs, waitresps, resps, results, old, stale, leader, log>>
  BY Zenon DEF Produce, network, move, remote
<1>2. msgid \in Int /\ Open \subseteq Msgs /\ \A m \in Msgs : m \in Int
  <2>1. \A m \in Msgs : m \in Int
    BY DEF Msgs
  <2> QED
    BY <2>1, Numbers, Zenon
<1>3. new \in Int /\ msgid < new /\ msgid <= new
  BY <1>2
<1>4. \A m \in Int : m <= msgid => m <= new /\ m < new /\ m # new
  BY <1>2
<1>5. \A m \in Int : m <= new => m <= msgid \/ m = new
  BY <1>2
<1> HIDE DEF new
<1>6. Open \subseteq Open' /\ Open' \subseteq Open \cup {new} /\ Waiting' = Waiting \cup {new} /\ Logged' = Logged
  <2>1. Open \subseteq Open'
    BY <1>1, <1>2, <1>4, Zenon DEF Open
  <2>2. Open' \subseteq Open \cup {new}
    BY <1>1, <1>2, <1>5, Zenon DEF Open
  <2> QED
    BY <1>1, <2>1, <2>2, Zenon DEF Waiting, Logged
<1>7. Flying' = Flying /\ Outcomes' = Outcomes /\ Members(results') = Members(results) /\ Live' = Live
  BY <1>1, Zenon DEF Flying, Outcomes, Answered, Live
<1>8. \A b \in Live : /\ First(b) \in Int /\ Final(b) \in Int /\ Base(b) \in Int
                      /\ First(b) <= msgid /\ Final(b) <= msgid
  BY Numbers, LiveFacts, RequestFacts, ZenonT(40)
<1>9. \A b \in Live : Final(b) < new /\ First(b) # new /\ ~(new <= Final(b))
  BY <1>2, <1>3, <1>8, SMTT(30)
<1>10. Numbered'
  <2>1. Numbered
    BY Zenon DEF LedgerInv
  <2>2. tp.base \in Int /\ \A m \in Msgs : msg[m].last \in Int
    <3>1. msg \in [Msgs -> MsgState] /\ tp.base \in Int
      BY Numbers, Zenon DEF TypeInv
    <3>2. \A m \in Msgs : msg[m].last \in 0..MaxMsgid
      BY <3>1, Zenon DEF MsgState
    <3> QED
      BY <3>1, <3>2, IdempotenceAssumption, SMTT(30) DEF IdempotenceAssumption
  <2>3. tp.base <= new /\ \A m \in Open' : tp.base <= m
    <3>1. tp.base <= new
      BY <1>4, <2>1, <2>2, Zenon DEF Numbered
    <3> QED
      BY <1>6, <2>1, <3>1, Zenon DEF Numbered
  <2>4. \A b \in Live : Base(b) <= new /\ \A m \in Open' : Base(b) <= m
    <3>1. \A b \in Live : Base(b) <= new
      BY <1>4, <1>8, <2>1, Zenon DEF Numbered
    <3> QED
      BY <1>6, <2>1, <3>1, Zenon DEF Numbered
  <2>5. \A m \in Msgs : msg[m].last <= new
    BY <1>4, <2>1, <2>2, Zenon DEF Numbered
  <2> QED
    BY <1>1, <1>7, <2>1, <2>3, <2>4, <2>5, ZenonT(40) DEF Numbered
<1>11. Queued'
  <2>1. Queued /\ Flying \subseteq Live
    BY Zenon DEF LedgerInv, Live
  <2> QED
    BY <1>1, <1>6, <1>7, <1>9, <2>1, Zenon DEF Queued
<1>12. Whole'
  <2>1. Whole
    BY Zenon DEF LedgerInv
  <2> QED
    BY <1>6, <1>7, <1>9, <2>1, Zenon DEF Whole
<1>13. Resent'
  <2>1. Resent /\ stale \subseteq Live
    BY Zenon DEF LedgerInv, Live
  <2>2. \A b \in stale : First(b) \in Open' => First(b) \in Open
    BY <1>6, <1>9, <2>1, Zenon
  <2> QED
    BY <1>1, <1>7, <2>1, <2>2, Zenon DEF Resent
<1>14. \A base \in Int : Behind(base) => ~(new < base + leader.next) /\ base + leader.next <= new + 1
  <2>1. leader.next \in Int
    BY Numbers, Zenon
  <2>2. \A base \in Int : Behind(base) => base + leader.next <= msgid + 1
    BY Zenon DEF Behind
  <2>3. \A base \in Int : base + leader.next <= msgid + 1
           => ~(new < base + leader.next) /\ base + leader.next <= new + 1
    BY <1>2, <2>1 DEF new
  <2> QED
    BY <2>2, <2>3, Zenon
<1>15. \A base \in Int : Behind(base) => base + leader.next <= new + 1
                                         /\ \A m \in Open' : m < base + leader.next => m \in Logged
  BY <1>6, <1>14, Zenon DEF Behind
<1>16. Front'
  <2>1. Front /\ tp.base \in Int
    BY Numbers, Zenon DEF LedgerInv
  <2>2. leader.epoch # 0 /\ leader.epoch = tp.pid => Behind(tp.base)
    BY <2>1, Zenon DEF Front
  <2>3. leader.epoch # 0 => \A b \in Live : b.pid = leader.epoch => Behind(Base(b))
    BY <2>1, Zenon DEF Front
  <2>4. leader.epoch # 0 /\ leader.epoch = tp.pid =>
          tp.base + leader.next <= new + 1 /\ \A m \in Open' : m < tp.base + leader.next => m \in Logged
    BY <1>15, <2>1, <2>2, Zenon
  <2>5. leader.epoch # 0 => \A b \in Live : b.pid = leader.epoch =>
          Base(b) + leader.next <= new + 1 /\ \A m \in Open' : m < Base(b) + leader.next => m \in Logged
    BY <1>8, <1>15, <2>3, Zenon
  <2> QED
    BY <1>1, <1>6, <1>7, <2>4, <2>5, ZenonT(40) DEF Front, Behind
<1>17. SeenLogged'
  <2>1. SeenLogged
    BY Zenon DEF LedgerInv
  <2> SUFFICES ASSUME leader.epoch # 0, leader.epoch = tp.pid,
                      NEW p \in leader.seen, NEW f \in Open', f = tp.base + p[1]
               PROVE  \E e \in Msgs : /\ Ends(f, e, Flying, msg)
                                      /\ \A m \in Open' : f <= m /\ m <= e => m \in Logged
    BY <1>1, <1>6, <1>7, Zenon DEF SeenLogged
  <2>2. f \in Open
    <3>1. tp.base \in Int /\ leader.next \in Int /\ p[1] \in Int
      BY Numbers, Zenon
    <3>2. p[1] < leader.next
      BY Zenon DEF LedgerInv, Numbered
    <3>3. Behind(tp.base)
      BY Zenon DEF LedgerInv, Front
    <3>4. ~(new < tp.base + leader.next)
      BY <1>14, <3>1, <3>3, Zenon
    <3>5. f # new
      BY <1>3, <3>1, <3>2, <3>4, SMTT(30)
    <3> QED
      BY <1>6, <3>5, Zenon
  <2>3. PICK e \in Msgs : /\ Ends(f, e, Flying, msg)
                          /\ \A m \in Open : f <= m /\ m <= e => m \in Logged
    BY <2>1, <2>2, Zenon DEF SeenLogged
  <2>4. e <= msgid
    <3>1. f \in Msgs /\ Flying \subseteq Live
      BY <1>2, <2>2, Zenon DEF Live
    <3>2. msg[f].last <= msgid
      BY <3>1, ZenonT(40) DEF LedgerInv, Numbered
    <3> QED
      BY <1>8, <2>3, <3>1, <3>2, ZenonT(40) DEF Ends
  <2>5. ~(new <= e)
    BY <1>2, <1>3, <2>4, SMTT(30)
  <2> QED
    BY <1>6, <2>3, <2>5, Zenon
<1>18. Confirmed'
  <2>1. Confirmed
    BY Zenon DEF LedgerInv
  <2>2. \A x \in Outcomes : x.req \in Live
    BY Zenon DEF View, Live
  <2> QED
    BY <1>6, <1>7, <1>9, <2>1, <2>2, ZenonT(40) DEF Confirmed
<1>19. Doubted'
  <2>1. Doubted
    BY Zenon DEF LedgerInv
  <2> QED
    BY <1>1, <1>2, <1>4, <1>6, <1>7, <2>1, ZenonT(40) DEF Doubted
<1>20. Persisted'
  <2>1. Persisted
    BY Zenon DEF LedgerInv
  <2> QED
    BY <1>1, <1>6, <2>1, Zenon DEF Persisted
<1> QED
  BY <1>10, <1>11, <1>12, <1>13, <1>16, <1>17, <1>18, <1>19, <1>20, ZenonT(40) DEF LedgerInv

(* A step that starts requests N, none or one, perhaps in a new epoch,     *)
(* keeps the invariant, if N skips no message and is as it was sent        *)
(* before.                                                                 *)
LEMMA StartStep ==
    ASSUME TypeInv, View, LedgerInv, TypeInv', View',
           UNCHANGED <<msgid, leader, log, msg, report, waitresps, resps, results, old, stale>>,
           rk'.pid = rk.pid, NEW N, N \subseteq Request, Flying' = Flying \cup N,
           tp.pid <= tp'.pid, tp'.pid <= rk.pid,
           tp'.pid = tp.pid => tp'.base = tp.base,
           tp'.pid # tp.pid => tp'.base <= msgid /\ \A m \in Open : tp'.base <= m,
           \A b \in N : b.pid = tp'.pid /\ 0 < b.pid /\ Base(b) = tp'.base,
           \A b \in N, m \in Open : First(b) <= m /\ m <= Final(b) => m \in b.msgs,
           \A f \in Open, e \in Msgs : Ends(f, e, Flying, msg) => Ends(f, e, Flying', msg),
           Queued'
    PROVE  LedgerInv'
<1>1. Open' = Open /\ Logged' = Logged /\ Live' = Live \cup N /\ Outcomes' = Outcomes
  BY Zenon DEF Open, Logged, Live, Outcomes, Answered
<1>2. /\ tp.pid \in Nat /\ tp'.pid \in Nat /\ rk.pid \in Nat /\ leader.epoch \in Nat
      /\ Live \subseteq Request /\ \A b \in Live : b.pid \in Nat
  <2>1. tp' \in Eos
    BY Zenon DEF TypeInv
  <2>2. tp'.pid \in Nat
    BY <2>1, ZenonT(40) DEF Eos
  <2> QED
    BY <2>2, Numbers, RequestFacts, Zenon
<1>3. \A k \in Nat : k <= tp.pid => k <= tp'.pid
  BY <1>2, SMTT(30)
<1>4. \A k \in Nat : k <= tp.pid => (k = tp'.pid => tp'.pid = tp.pid)
  BY <1>2
<1>5. tp'.base <= msgid /\ \A m \in Open : tp'.base <= m
  BY Zenon DEF LedgerInv, Numbered
<1>6. ASSUME NEW b \in Live
      PROVE  /\ 0 < b.pid /\ b.pid <= tp'.pid /\ Base(b) <= msgid
             /\ b.pid = tp'.pid => Base(b) = tp'.base
             /\ \A m \in Open : Base(b) <= m
  <2>1. /\ 0 < b.pid /\ b.pid <= tp.pid /\ Base(b) <= msgid
        /\ b.pid = tp.pid => Base(b) = tp.base
        /\ \A m \in Open : Base(b) <= m
    BY Zenon DEF LedgerInv, Numbered
  <2>2. b.pid <= tp'.pid /\ (b.pid = tp'.pid => tp'.pid = tp.pid)
    BY <1>2, <1>3, <1>4, <2>1, Zenon
  <2> QED
    BY <2>1, <2>2, ZenonT(40)
<1>7. ASSUME NEW b \in N
      PROVE  /\ 0 < b.pid /\ b.pid <= tp'.pid /\ Base(b) <= msgid
             /\ b.pid = tp'.pid => Base(b) = tp'.base
             /\ \A m \in Open : Base(b) <= m
  <2>1. tp'.pid <= tp'.pid
    BY <1>2
  <2> QED
    BY <1>5, <2>1, ZenonT(40)
<1>8. \A b, c \in Live \cup N : b.pid = c.pid => Base(b) = Base(c)
  <2>1. \A b, c \in Live : b.pid = c.pid => Base(b) = Base(c)
    BY Zenon DEF LedgerInv, Numbered
  <2> QED
    BY <1>6, <2>1, Zenon
<1>9. Numbered'
  <2>1. Numbered
    BY Zenon DEF LedgerInv
  <2>2. leader.epoch <= tp'.pid
    BY <1>2, <1>3, <2>1, Zenon DEF Numbered
  <2> QED
    BY <1>1, <1>5, <1>6, <1>7, <1>8, <2>1, <2>2, ZenonT(40) DEF Numbered
<1>10. Whole'
  <2>1. Whole
    BY Zenon DEF LedgerInv
  <2> QED
    BY <1>1, <2>1, Zenon DEF Whole
<1>11. Resent'
  <2>1. Resent
    BY Zenon DEF LedgerInv
  <2>2. \A b \in stale : Final(b) \in Msgs
    BY <1>2, RequestFacts, Zenon DEF Live
  <2> QED
    BY <1>1, <2>1, <2>2, ZenonT(40) DEF Resent
<1>12. leader.epoch = tp'.pid => tp'.pid = tp.pid /\ tp'.base = tp.base
  BY <1>2, <1>4, Zenon DEF LedgerInv, Numbered
<1>13. SeenLogged'
  <2>1. SeenLogged
    BY Zenon DEF LedgerInv
  <2> SUFFICES ASSUME leader'.epoch # 0, leader'.epoch = tp'.pid,
                      NEW p \in leader'.seen, NEW f \in Open', f = tp'.base + p[1]
               PROVE  \E e \in Msgs : /\ Ends(f, e, Flying', msg')
                                      /\ \A m \in Open' : f <= m /\ m <= e => m \in Logged'
    BY Zenon DEF SeenLogged
  <2>2. PICK e \in Msgs : /\ Ends(f, e, Flying, msg)
                          /\ \A m \in Open : f <= m /\ m <= e => m \in Logged
    BY <1>1, <1>12, <2>1, Zenon DEF SeenLogged
  <2> QED
    BY <1>1, <2>2, Zenon
<1>14. Front'
  <2>1. Front
    BY Zenon DEF LedgerInv
  <2>2. leader.epoch # 0 /\ leader.epoch = tp'.pid => Behind(tp.base)
    BY <1>12, <2>1, Zenon DEF Front
  <2>3. leader.epoch # 0 => \A b \in Live : b.pid = leader.epoch => Behind(Base(b))
    BY <2>1, Zenon DEF Front
  <2>4. leader.epoch # 0 => \A b \in N : b.pid = leader.epoch => Behind(Base(b))
    BY <1>12, <2>2, Zenon
  <2> QED
    BY <1>1, <1>12, <2>2, <2>3, <2>4, ZenonT(40) DEF Front, Behind
<1>15. Confirmed' /\ Doubted' /\ Persisted'
  <2>1. Confirmed /\ Doubted /\ Persisted
    BY Zenon DEF LedgerInv
  <2> QED
    BY <1>1, <2>1, Zenon DEF Confirmed, Doubted, Persisted
<1> QED
  BY <1>9, <1>10, <1>11, <1>13, <1>14, <1>15, ZenonT(40) DEF LedgerInv
(* The requests N are the first messages that wait, unless they were sent  *)
(* before all that was in their batch then.                                *)
LEMMA ServeStep ==
    ASSUME TypeInv, View, LedgerInv, TypeInv', View',
           UNCHANGED <<msgid, leader, log, msg, report, waitresps, resps, results, old, stale>>,
           rk'.pid = rk.pid, tp.drain => Flying = {}, tp'.pid = rk.pid, 0 < rk.pid,
           tp'.pid = tp.pid => tp'.base = tp.base,
           tp'.pid # tp.pid => Flying = {} /\ Waiting # {} /\ tp'.base = Min(Waiting),
           NEW N, N \subseteq Request, Flying' = Flying \cup N, Waiting' \subseteq Waiting,
           \A b \in N : /\ b.pid = tp'.pid /\ Base(b) = tp'.base
                        /\ b.msgs \subseteq Waiting /\ b.msgs \cap Waiting' = {}
                        /\ \A m \in Waiting : m <= Final(b) => m \in b.msgs
                        /\ msg[First(b)].last \in {0, Final(b)}
    PROVE  LedgerInv'
<1>1. /\ Waiting \subseteq Open /\ Open \subseteq Msgs /\ \A m \in Msgs : m \in Int /\ m # 0
      /\ \A m \in Open : m <= msgid
  <2>1. \A m \in Msgs : m \in Int /\ m # 0
    BY DEF Msgs
  <2> QED
    BY <2>1, Numbers, ZenonT(40) DEF View
<1>2. \A r \in Flying \cup N : /\ First(r) \in r.msgs /\ Final(r) \in Int /\ First(r) \in Int
                               /\ \A m \in r.msgs : m <= Final(r)
  BY Numbers, RequestFacts, Zenon
<1>3. \A r \in Flying, m \in Waiting : Final(r) < m
  BY Zenon DEF LedgerInv, Queued
<1>4. Queued'
  <2>1. \A b \in N, m \in Waiting' : ~(m <= Final(b)) /\ m \in Int
    BY <1>1, ZenonT(40)
  <2>2. \A b \in N, m \in Waiting' : Final(b) < m
    BY <1>2, <2>1, SMTT(30)
  <2> QED
    BY <1>3, <2>2, Zenon DEF Queued
<1>5. ASSUME NEW b \in N, NEW m \in Open, First(b) <= m, m <= Final(b) PROVE m \in b.msgs
  <2>1. CASE m \in Waiting
    BY <1>5, <2>1, ZenonT(40)
  <2>2. ASSUME NEW r \in Flying, m \in r.msgs PROVE FALSE
    <3>1. Final(r) < First(b)
      BY <1>2, <1>3, Zenon
    <3>2. m <= Final(r) /\ m \in Int /\ Final(r) \in Int /\ First(b) \in Int
      BY <1>1, <1>2, <2>2, Zenon
    <3> QED
      BY <1>5, <3>1, <3>2, SMTT(30)
  <2> QED
    BY <2>1, <2>2, ZenonT(40) DEF View
<1>6. ASSUME NEW f \in Open, NEW e \in Msgs, Ends(f, e, Flying, msg) PROVE Ends(f, e, Flying', msg)
  <2>1. ASSUME NEW b \in N, First(b) = f PROVE Ends(f, e, Flying', msg)
    <3>1. f \in Waiting
      BY <1>2, <2>1, Zenon
    <3>2. \A r \in Flying : First(r) # f
      <4>1. \A r \in Flying : r.msgs \cap Waiting = {}
        BY Zenon DEF View
      <4> QED
        BY <1>2, <3>1, <4>1, Zenon
    <3>3. msg[f].last = e
      BY <1>6, <3>2, Zenon DEF Ends
    <3>4. e = Final(b)
      BY <1>1, <2>1, <3>3, Zenon
    <3> QED
      BY <2>1, <3>4, Zenon DEF Ends
  <2>2. ASSUME \A b \in N : First(b) # f PROVE Ends(f, e, Flying', msg)
    BY <1>6, <2>2, Zenon DEF Ends
  <2> QED
    BY <2>1, <2>2, Zenon
<1>7. ASSUME tp'.pid # tp.pid PROVE tp'.base <= msgid /\ \A m \in Open : tp'.base <= m
  <2>1. Waiting \in (SUBSET Msgs) \ {{}}
    BY <1>1, <1>7, Zenon
  <2>2. Min(Waiting) \in Waiting /\ \A m \in Waiting : Min(Waiting) <= m
    BY <2>1, FirstLast, Zenon
  <2>3. Open \subseteq Waiting
    BY <1>7, ZenonT(40) DEF View
  <2> QED
    BY <1>1, <1>7, <2>2, <2>3, ZenonT(40)
<1>8. tp.pid <= tp'.pid /\ tp'.pid <= rk.pid
  <2>1. tp.pid <= rk.pid /\ rk.pid \in Nat
    BY Numbers, Zenon DEF LedgerInv, Numbered
  <2> QED
    BY <2>1
<1>9. \A b \in N : b.pid = tp'.pid /\ 0 < b.pid /\ Base(b) = tp'.base
  BY Zenon
<1> QED
  BY <1>4, <1>5, <1>6, <1>7, <1>8, <1>9, StartStep, ZenonT(40)

(* The epoch toppar_producer_serve() takes for the partition. *)
LEMMA ServeEpoch ==
    ASSUME TypeInv, View, LedgerInv, Pid # 0, Waiting # {}, (Pid # tp.pid) => Inflight = 0,
           tp' = IF Pid # tp.pid THEN PidChange([tp EXCEPT !.drain = FALSE], Pid, Waiting)
                                 ELSE [tp EXCEPT !.drain = FALSE]
    PROVE  /\ Pid = rk.pid /\ tp'.pid = rk.pid /\ 0 < rk.pid
           /\ tp'.pid = tp.pid => tp'.base = tp.base
           /\ tp'.pid # tp.pid => Flying = {} /\ Waiting # {} /\ tp'.base = Min(Waiting)
<1> DEFINE eos == [tp EXCEPT !.drain = FALSE]
<1>1. tp \in Eos /\ rk.pid \in Nat /\ (Inflight = 0 => Flying = {})
  BY Numbers, Zenon DEF TypeInv, View
<1>2. Pid = rk.pid
  BY Zenon DEF Pid
<1>3. 0 < rk.pid
  BY <1>1, <1>2, SMTT(30)
<1>4. eos \in Eos /\ eos.pid = tp.pid /\ eos.base = tp.base
  BY <1>1, Zenon DEF Eos
<1> HIDE DEF eos
<1>5. PidChange(eos, Pid, Waiting).pid = Pid /\ PidChange(eos, Pid, Waiting).base = Min(Waiting)
  BY <1>4, Zenon DEF PidChange, Eos
<1>6. CASE Pid # tp.pid
  <2>1. tp' = PidChange(eos, Pid, Waiting)
    BY <1>6, Zenon DEF eos
  <2> QED
    BY <1>1, <1>2, <1>3, <1>5, <1>6, <2>1, ZenonT(40)
<1>7. CASE Pid = tp.pid
  <2>1. tp' = eos
    BY <1>7, Zenon DEF eos
  <2> QED
    BY <1>2, <1>3, <1>4, <1>7, <2>1, Zenon
<1> QED
  BY <1>6, <1>7, SMTT(30)

(* The request toppar_producer_serve() makes of what waits. *)
LEMMA ServeBatch ==
    ASSUME TypeInv, TypeInv', Waiting \in (SUBSET Msgs) \ {{}}, NEW r \in Request,
           r.msgs \in Batches(Waiting), r.seq = Sequence(Min(r.msgs), tp')
    PROVE  /\ Base(r) = tp'.base /\ r.msgs \subseteq Waiting
           /\ \A m \in Waiting : m <= Final(r) => m \in r.msgs
<1>1. /\ r.msgs \subseteq Waiting
      /\ \A m \in Waiting : m <= Max(r.msgs) => m \in r.msgs
  BY BatchPrefix, Zenon
<1>2. First(r) \in Int
  BY RequestFacts, Zenon
<1>3. tp'.base \in Int
  BY Zenon DEF TypeInv, Eos
<1>4. r.seq = First(r) - tp'.base
  BY Zenon DEF Sequence, First
<1>5. Base(r) = tp'.base
  BY <1>2, <1>3, <1>4, SMTT(30) DEF Base
<1> QED
  BY <1>1, <1>5, Zenon DEF Final

(* The messages that wait become a request, or stay in the queue. *)
LEMMA ServeLedger ==
    ASSUME TypeInv, View, LedgerInv, TypeInv', View', Serve
    PROVE  LedgerInv'
<1> DEFINE eos == [tp EXCEPT !.drain = FALSE]
<1>1. /\ Pid # 0 /\ outbufs = <<>> /\ msgq' = {}
      /\ UNCHANGED <<msgid, msg, report, waitresps, resps, results, old, stale, leader, log>>
  BY Zenon DEF Serve, ServeQueue, move, remote
<1>2. xmitq \cup msgq = Waiting /\ Waiting' = xmitq'
  BY <1>1, Zenon DEF Waiting
<1>3. /\ tp \in Eos /\ rk \in Instance /\ rk.pid \in Nat /\ Waiting \subseteq Msgs
      /\ Inflight \in Nat /\ (Inflight = 0 => Flying = {})
  BY Numbers, Zenon DEF TypeInv, View, Waiting
<1>4. \/ xmitq' = Waiting /\ UNCHANGED <<tp, rk, outbufs>>
      \/ /\ ~(tp.drain /\ Inflight > 0) /\ xmitq' = Waiting /\ tp' = eos
         /\ UNCHANGED <<rk, outbufs>>
      \/ /\ ~(tp.drain /\ Inflight > 0) /\ Waiting # {} /\ (Pid # tp.pid => Inflight = 0)
         /\ tp' = IF Pid # tp.pid THEN PidChange(eos, Pid, Waiting) ELSE eos
         /\ (xmitq' = Waiting /\ UNCHANGED <<rk, outbufs>>) \/ ProduceRequest(Pid, Waiting, tp')
  <2>1. ServeQueue(Pid, Waiting)
    BY <1>2, Zenon DEF Serve
  <2>2. ~AwaitsOldPid(Pid) => (Pid # tp.pid => Inflight = 0)
    <3>1. ~(Inflight > 0) => Inflight = 0
      BY <1>3
    <3> QED
      BY <3>1, Zenon DEF AwaitsOldPid
  <2> QED
    BY <2>1, <2>2, Zenon DEF ServeQueue
<1>5. ~(tp.drain /\ Inflight > 0) => (tp.drain => Flying = {})
  <2>1. Inflight = 0 \/ Inflight > 0
    BY <1>3
  <2> QED
    BY <1>3, <2>1, Zenon
<1>6. rk.pid <= rk.pid
  BY <1>3
<1>7. CASE xmitq' = Waiting /\ UNCHANGED <<tp, rk, outbufs>>
  BY <1>1, <1>2, <1>6, <1>7, IdleStep, ZenonT(40)
<1>8. CASE ~(tp.drain /\ Inflight > 0) /\ xmitq' = Waiting /\ tp' = eos /\ UNCHANGED <<rk, outbufs>>
  <2>1. tp'.pid = tp.pid /\ tp'.base = tp.base
    BY <1>3, <1>8, Zenon DEF Eos
  <2> QED
    BY <1>1, <1>2, <1>5, <1>6, <1>8, <2>1, IdleStep, ZenonT(40)
<1>9. CASE /\ ~(tp.drain /\ Inflight > 0) /\ Waiting # {} /\ (Pid # tp.pid => Inflight = 0)
           /\ tp' = IF Pid # tp.pid THEN PidChange(eos, Pid, Waiting) ELSE eos
           /\ (xmitq' = Waiting /\ UNCHANGED <<rk, outbufs>>) \/ ProduceRequest(Pid, Waiting, tp')
  <2>1. /\ Pid = rk.pid /\ tp'.pid = rk.pid /\ 0 < rk.pid
        /\ tp'.pid = tp.pid => tp'.base = tp.base
        /\ tp'.pid # tp.pid => Flying = {} /\ Waiting # {} /\ tp'.base = Min(Waiting)
    BY <1>1, <1>9, ServeEpoch, Zenon
  <2> HIDE DEF eos
  <2>2. tp.drain => Flying = {}
    BY <1>5, <1>9, Zenon
  <2>3. ASSUME xmitq' = Waiting, rk'.pid = rk.pid, outbufs' = outbufs PROVE LedgerInv'
    <3> DEFINE N == {}
    <3>1. Flying' = Flying \cup N /\ N \subseteq Request /\ Waiting' \subseteq Waiting
      BY <1>1, <1>2, <2>3, Zenon DEF Flying
    <3>2. \A b \in N : /\ b.pid = tp'.pid /\ Base(b) = tp'.base
                       /\ b.msgs \subseteq Waiting /\ b.msgs \cap Waiting' = {}
                       /\ \A m \in Waiting : m <= Final(b) => m \in b.msgs
                       /\ msg[First(b)].last \in {0, Final(b)}
      BY Zenon
    <3> HIDE DEF N
    <3> QED
      BY <1>1, <2>1, <2>2, <2>3, <3>1, <3>2, ServeStep, ZenonT(40)
  <2>4. CASE ProduceRequest(Pid, Waiting, tp')
    <3>1. PICK batch \in Batches(Waiting) :
             \/ /\ msg[Min(batch)].last \in {0, Max(batch)}
                /\ outbufs' = <<[msgs |-> batch, seq |-> Sequence(Min(batch), tp'), pid |-> Pid]>>
                /\ xmitq' = Waiting \ batch
                /\ rk' = rk
             \/ /\ rk' = Fatal(rk, "__INCONSISTENT")
                /\ xmitq' = Waiting
                /\ outbufs' = outbufs
      BY <2>4, Zenon DEF ProduceRequest
    <3> DEFINE r == [msgs |-> batch, seq |-> Sequence(Min(batch), tp'), pid |-> Pid]
    <3>2. CASE rk' = Fatal(rk, "__INCONSISTENT") /\ xmitq' = Waiting /\ outbufs' = outbufs
      <4>1. {"pid", "state"} \subseteq DOMAIN rk
        BY <1>3, Zenon DEF Instance
      <4>2. rk'.pid = rk.pid
        BY <3>2, <4>1, PidKept, Zenon
      <4> QED
        BY <2>3, <3>2, <4>2, Zenon
    <3>3. CASE /\ msg[Min(batch)].last \in {0, Max(batch)}
               /\ outbufs' = <<r>> /\ xmitq' = Waiting \ batch /\ rk' = rk
      <4>1. Waiting \in (SUBSET Msgs) \ {{}} /\ tp'.pid \in Nat
        BY <1>3, <1>9, <2>1, Zenon
      <4>2. batch \in (SUBSET Msgs) \ {{}} /\ Sequence(Min(batch), tp') \in Int
        <5>1. batch \in (SUBSET Msgs) \ {{}}
          BY <4>1, BatchPrefix, ZenonT(40)
        <5>2. Min(batch) \in Int
          BY <5>1, FirstLast, SMTT(30) DEF Msgs
        <5>3. tp'.base \in Int
          BY Zenon DEF TypeInv, Eos
        <5> QED
          BY <5>1, <5>2, <5>3, SMTT(30) DEF Sequence
      <4>3. /\ r \in Request /\ r.msgs = batch /\ r.pid = tp'.pid /\ Base(r) = tp'.base
            /\ r.msgs \subseteq Waiting
            /\ \A m \in Waiting : m <= Final(r) => m \in r.msgs
            /\ msg[First(r)].last \in {0, Final(r)}
        <5>1. r \in Request /\ r.msgs = batch /\ r.pid = tp'.pid /\ r.seq = Sequence(Min(r.msgs), tp')
          BY <2>1, <4>1, <4>2, Zenon DEF Request
        <5> HIDE DEF r
        <5>2. /\ Base(r) = tp'.base /\ r.msgs \subseteq Waiting
              /\ \A m \in Waiting : m <= Final(r) => m \in r.msgs
          BY <4>1, <5>1, ServeBatch, Zenon
        <5> QED
          BY <3>3, <5>1, <5>2, Zenon DEF First, Final
      <4> HIDE DEF r
      <4>4. Members(outbufs) = {} /\ Members(outbufs') = {r}
        <5>1. Members(<<>>) = {}
          BY NoMembers, SMTT(30)
        <5>2. Members(<<r>>) = {r}
          BY DEF Members
        <5> QED
          BY <1>1, <3>3, <5>1, <5>2, ZenonT(40)
      <4>5. Flying' = Flying \cup {r}
        BY <1>1, <4>4, Zenon DEF Flying
      <4>6. Waiting' \subseteq Waiting /\ r.msgs \cap Waiting' = {}
        BY <1>2, <3>3, <4>3, Zenon
      <4>7. \A b \in {r} : /\ b.pid = tp'.pid /\ Base(b) = tp'.base
                           /\ b.msgs \subseteq Waiting /\ b.msgs \cap Waiting' = {}
                           /\ \A m \in Waiting : m <= Final(b) => m \in b.msgs
                           /\ msg[First(b)].last \in {0, Final(b)}
        BY <4>3, <4>6, Zenon
      <4>8. {r} \subseteq Request /\ rk'.pid = rk.pid
        BY <3>3, <4>3, Zenon
      <4> QED
        BY <1>1, <2>1, <2>2, <4>5, <4>6, <4>7, <4>8, ServeStep, ZenonT(40)
    <3> QED
      BY <3>1, <3>2, <3>3, Zenon
  <2> QED
    BY <1>9, <2>3, <2>4, Zenon
<1> QED
  BY <1>4, <1>7, <1>8, <1>9, Zenon

-----------------------------------------------------------------------------
(* The leader writes *)

(* A request that fits extends the log up to its last message. *)
LEMMA FitsFacts ==
    ASSUME TypeInv, View, LedgerInv, NEW b \in Live, Fits(b)
    PROVE  \A m \in Open : m <= Final(b) => m \in Logged \cup b.msgs
<1>1. /\ b.pid \in Nat /\ 0 < b.pid /\ Base(b) \in Int /\ First(b) \in Int /\ First(b) = Base(b) + b.seq
      /\ leader.next \in Int /\ b.seq \in Int
  <2>1. b \in Request /\ leader.next \in Int
    BY Numbers, Zenon
  <2> QED
    BY <2>1, RequestFacts, Zenon DEF LedgerInv, Numbered
<1>2. SUFFICES ASSUME NEW m \in Open, m <= Final(b), m \notin b.msgs PROVE m \in Logged
  BY Zenon
<1>3. m \in Int /\ ~(First(b) <= m)
  BY <1>2, Numbers, Zenon DEF LedgerInv, Whole
<1>4. m < First(b)
  BY <1>1, <1>3
<1>5. CASE b.pid = leader.epoch /\ b.seq = leader.next
  <2>1. leader.epoch # 0 /\ m < Base(b) + leader.next
    BY <1>1, <1>4, <1>5, SMTT(30)
  <2> QED
    BY <1>5, <2>1, Zenon DEF LedgerInv, Front, Behind
<1>6. CASE b.seq = 0
  <2>1. Base(b) <= m
    BY Zenon DEF LedgerInv, Numbered
  <2> QED
    BY <1>1, <1>3, <1>4, <1>6, <2>1, SMTT(30)
<1> QED
  BY <1>5, <1>6, Zenon DEF Fits

(* A request in flight that the leader has seen is in the log, up to its   *)
(* last message.                                                           *)
LEMMA SeenFacts ==
    ASSUME TypeInv, View, LedgerInv, NEW b \in Flying, Seen(b)
    PROVE  \A m \in Open : m <= Final(b) => m \in Logged
<1>1. /\ b \in Live /\ b.pid = leader.epoch /\ <<b.seq, Cardinality(b.msgs)>> \in leader.seen
      /\ b.pid = tp.pid /\ b.msgs \subseteq Open
  BY Zenon DEF Live, Seen, View
<1>2. /\ First(b) \in b.msgs /\ First(b) \in Int /\ First(b) = Base(b) + b.seq /\ b.seq \in Int
      /\ b.pid \in Nat /\ 0 < b.pid /\ Base(b) = tp.base /\ tp.base \in Int /\ leader.next \in Int
  <2>1. b \in Request /\ leader.next \in Int /\ tp.base \in Int
    BY <1>1, Numbers, Zenon
  <2> QED
    BY <1>1, <2>1, RequestFacts, Zenon DEF LedgerInv, Numbered
<1>3. leader.epoch # 0 /\ leader.epoch = tp.pid /\ First(b) = tp.base + b.seq
  BY <1>1, <1>2, SMTT(30)
<1>4. b.seq < leader.next
  <2> DEFINE p == <<b.seq, Cardinality(b.msgs)>>
  <2>1. p[1] < leader.next
    BY <1>1, Zenon DEF LedgerInv, Numbered
  <2> QED
    BY <2>1
<1>5. PICK e \in Msgs : /\ Ends(First(b), e, Flying, msg)
                        /\ \A m \in Open : First(b) <= m /\ m <= e => m \in Logged
  <2> DEFINE p == <<b.seq, Cardinality(b.msgs)>>
  <2>1. p[1] = b.seq
    OBVIOUS
  <2>2. p \in leader.seen
    BY <1>1
  <2> HIDE DEF p
  <2>3. First(b) \in Open /\ First(b) = tp.base + p[1]
    BY <1>1, <1>2, <1>3, <2>1, Zenon
  <2>4. SeenLogged
    BY Zenon DEF LedgerInv
  <2> QED
    BY <1>3, <2>2, <2>3, <2>4, Zenon DEF SeenLogged
<1>6. e = Final(b)
  <2>1. PICK r \in Flying : First(r) = First(b) /\ Final(r) = e
    BY <1>5, Zenon DEF Ends
  <2>2. r \in Request
    BY Numbers, Zenon
  <2>3. First(r) \in r.msgs
    BY <2>2, RequestFacts, Zenon
  <2>4. r = b \/ r.msgs \cap b.msgs = {}
    BY Zenon DEF View
  <2>5. r = b
    BY <1>2, <2>1, <2>3, <2>4, Zenon
  <2> QED
    BY <2>1, <2>5, Zenon
<1>7. SUFFICES ASSUME NEW m \in Open, m <= Final(b), ~(First(b) <= m) PROVE m \in Logged
  BY <1>5, <1>6, Zenon
<1>8. m \in Int
  BY Numbers, Zenon
<1>9. m < tp.base + leader.next
  BY <1>2, <1>3, <1>4, <1>7, <1>8, SMTT(30)
<1> QED
  BY <1>3, <1>9, Zenon DEF LedgerInv, Front, Behind

(* The leader takes a request. *)
LEMMA TakeStep ==
    ASSUME TypeInv, View, LedgerInv, TypeInv', View',
           UNCHANGED <<msgid, msgq, xmitq, msg, report, tp, rk, outbufs, waitresps, results, old>>,
           stale' \subseteq stale, NEW b \in Live, ~Seen(b), Fits(b), Written(b),
           b \in stale \/ \E x \in Outcomes' : x.req = b /\ x.sent /\ x.err \in Leaves,
           Outcomes \subseteq Outcomes', \A x \in Outcomes' : x \in Outcomes \/ x.req = b
    PROVE  LedgerInv'
<1> DEFINE size == Cardinality(b.msgs)
           seen == IF b.pid = leader.epoch THEN leader.seen ELSE {}
<1>1. /\ log' = log \o InOrder(b.msgs)
      /\ leader' = [epoch |-> b.pid, next |-> b.seq + size, seen |-> seen \cup {<<b.seq, size>>}]
  BY Zenon DEF Written
<1>2. leader'.epoch = b.pid /\ leader'.next = b.seq + size /\ leader'.seen = seen \cup {<<b.seq, size>>}
  BY <1>1, Zenon
<1>3. /\ b \in Request /\ Flying' = Flying /\ Open' = Open /\ Waiting' = Waiting
      /\ Live' \subseteq Live /\ Members(results') = Members(results)
  <2>1. b \in Request
    BY Numbers, Zenon
  <2> QED
    BY <2>1, Zenon DEF Flying, Open, Waiting, Live
<1>4. /\ b.seq \in Int /\ b.pid \in Nat /\ 0 < b.pid /\ b.msgs \in (SUBSET Msgs) \ {{}}
      /\ First(b) \in Int /\ Final(b) \in Int /\ Base(b) \in Int /\ First(b) = Base(b) + b.seq
      /\ \A m \in b.msgs : m \in Int /\ First(b) <= m /\ m <= Final(b)
      /\ First(b) \in b.msgs /\ Final(b) \in Msgs
      /\ b.pid <= tp.pid /\ (b.pid = tp.pid => Base(b) = tp.base)
  BY <1>3, RequestFacts, Zenon DEF LedgerInv, Numbered
<1>5. size \in Nat /\ 1 <= size /\ size <= Final(b) - First(b) + 1
  BY <1>3, SizeFacts, Zenon
<1> HIDE DEF size
<1>6. log' \in Seq(Msgs) /\ Logged' = Logged \cup b.msgs
  BY <1>1, <1>4, Numbers, LogAppended, ZenonT(40) DEF Logged
<1>7. \A m \in Open : m <= Final(b) => m \in Logged'
  BY <1>6, FitsFacts, Zenon
<1>8. seen \subseteq Int \X Int /\ \A p \in seen : p[1] \in Int /\ p[1] < b.seq + size
  <2>1. leader.seen \subseteq Int \X Int /\ \A p \in leader.seen : p[1] < leader.next
    <3>1. Numbered
      BY Zenon DEF LedgerInv
    <3>2. leader \in [epoch : Nat, next : Int, seen : SUBSET (Int \X Int)]
      BY <3>1, Zenon DEF Numbered
    <3>3. leader.seen \subseteq Int \X Int
      BY <3>2
    <3> QED
      BY <3>1, <3>3, Zenon DEF Numbered
  <2>2. CASE b.pid = leader.epoch /\ b.seq = leader.next
    <3>1. \A p \in leader.seen : p[1] \in Int /\ p[1] < b.seq + size
      BY <1>4, <1>5, <2>1, <2>2, SMTT(30)
    <3> QED
      BY <2>1, <2>2, <3>1, ZenonT(40)
  <2>3. CASE b.pid > leader.epoch
    <3>1. b.pid # leader.epoch
      BY <1>4, <2>3, Numbers, SMTT(30)
    <3> QED
      BY <3>1, ZenonT(40)
  <2> QED
    BY <2>2, <2>3, Zenon DEF Fits
<1>9. Numbered'
  <2>1. Numbered
    BY Zenon DEF LedgerInv
  <2>2. leader' \in [epoch : Nat, next : Int, seen : SUBSET (Int \X Int)]
    <3>1. b.seq + size \in Int /\ <<b.seq, size>> \in Int \X Int
      BY <1>4, <1>5, SMTT(30)
    <3>2. seen \cup {<<b.seq, size>>} \in SUBSET (Int \X Int)
      BY <1>8, <3>1, Zenon
    <3> HIDE DEF seen
    <3> QED
      BY <1>1, <1>4, <3>1, <3>2, ZenonT(40)
  <2>3. \A p \in leader'.seen : p[1] < leader'.next
    <3>1. <<b.seq, size>>[1] < b.seq + size
      BY <1>4, <1>5, SMTT(30)
    <3> HIDE DEF seen
    <3> QED
      BY <1>2, <1>8, <3>1, ZenonT(40)
  <2> HIDE DEF seen
  <2> QED
    BY <1>2, <1>3, <1>4, <1>6, <2>1, <2>2, <2>3, ZenonT(40) DEF Numbered
<1>10. Queued' /\ Whole' /\ Resent'
  <2>1. Queued /\ Whole /\ Resent
    BY Zenon DEF LedgerInv
  <2> QED
    BY <1>3, <2>1, Zenon DEF Queued, Whole, Resent
<1>11. /\ Base(b) + leader'.next <= msgid + 1
       /\ \A m \in Open : m < Base(b) + leader'.next => m \in Logged'
  <2>1. Final(b) <= msgid /\ msgid \in Int /\ \A m \in Open : m \in Int
    BY LiveFacts, Numbers, ZenonT(40)
  <2>2. Base(b) + leader'.next <= Final(b) + 1
    BY <1>2, <1>4, <1>5, SMTT(30)
  <2>3. Base(b) + leader'.next \in Int
    BY <1>2, <1>4, <1>5, SMTT(30)
  <2>4. Base(b) + leader'.next <= msgid + 1
    BY <1>4, <2>1, <2>2, <2>3, SMTT(30)
  <2>5. \A m \in Open : m < Base(b) + leader'.next => m <= Final(b)
    BY <1>4, <2>1, <2>2, <2>3, SMTT(30)
  <2> QED
    BY <1>7, <2>4, <2>5, Zenon
<1>12. Front'
  <2>1. \A c \in Live : c.pid = b.pid => Base(c) = Base(b)
    BY Zenon DEF LedgerInv, Numbered
  <2>2. leader'.epoch = tp'.pid => Base(b) = tp'.base
    BY <1>2, <1>4, Zenon
  <2>3. \A c \in Live' : c.pid = leader'.epoch => Base(c) = Base(b)
    BY <1>2, <1>3, <2>1, Zenon
  <2> QED
    BY <1>3, <1>11, <2>2, <2>3, ZenonT(40) DEF Front, Behind
<1>13. SeenLogged'
  <2> SUFFICES ASSUME leader'.epoch = tp'.pid,
                      NEW p \in leader'.seen, NEW f \in Open', f = tp'.base + p[1]
               PROVE  \E e \in Msgs : /\ Ends(f, e, Flying', msg')
                                      /\ \A m \in Open' : f <= m /\ m <= e => m \in Logged'
    BY Zenon DEF SeenLogged
  <2>1. CASE p = <<b.seq, size>>
    <3>1. f = First(b)
      BY <1>2, <1>4, <2>1, SMTT(30)
    <3>2. Ends(f, Final(b), Flying, msg)
      <4>1. CASE b \in Flying
        BY <3>1, <4>1, Zenon DEF Ends
      <4>2. CASE b \in stale
        BY <1>3, <3>1, <4>2, Zenon DEF LedgerInv, Resent
      <4> QED
        BY <4>1, <4>2, ZenonT(40) DEF Live
    <3> QED
      BY <1>3, <1>4, <1>7, <3>2, ZenonT(40)
  <2>2. CASE p \in seen
    <3>1. b.pid = leader.epoch /\ p \in leader.seen
      BY <2>2, ZenonT(40)
    <3>2. leader.epoch # 0 /\ leader.epoch = tp.pid
      BY <1>2, <1>4, <3>1, SMTT(30)
    <3>3. SeenLogged
      BY Zenon DEF LedgerInv
    <3>4. PICK e \in Msgs : /\ Ends(f, e, Flying, msg)
                            /\ \A m \in Open : f <= m /\ m <= e => m \in Logged
      BY <1>3, <3>1, <3>2, <3>3, Zenon DEF SeenLogged
    <3> QED
      BY <1>3, <1>6, <3>4, Zenon
  <2> HIDE DEF seen
  <2> QED
    BY <1>2, <2>1, <2>2, Zenon
<1>14. Confirmed'
  <2>1. Confirmed
    BY Zenon DEF LedgerInv
  <2> QED
    BY <1>3, <1>6, <1>7, <2>1, ZenonT(40) DEF Confirmed
<1>15. Doubted'
  <2>1. Doubted
    BY Zenon DEF LedgerInv
  <2> SUFFICES ASSUME NEW m \in Msgs, m \in Logged' \/ \E c \in stale' : m \in c.msgs
               PROVE  /\ m <= msgid
                      /\ report[m] # "NOT_PERSISTED"
                      /\ report[m] = "none" => Doubtful(m, Outcomes', msg)
    BY Zenon DEF Doubted
  <2>2. CASE m \in Logged \/ \E c \in stale : m \in c.msgs
    <3>1. /\ m <= msgid /\ report[m] # "NOT_PERSISTED"
          /\ report[m] = "none" => Doubtful(m, Outcomes, msg)
      BY <2>1, <2>2, ZenonT(40) DEF Doubted
    <3>2. Doubtful(m, Outcomes, msg) => Doubtful(m, Outcomes', msg)
      BY ZenonT(40) DEF Doubtful
    <3> QED
      BY <3>1, <3>2, Zenon
  <2>3. CASE m \in b.msgs /\ b \notin stale
    <3>1. m <= msgid /\ report[m] # "NOT_PERSISTED"
      BY <2>3, LiveFacts, Zenon
    <3>2. Doubtful(m, Outcomes', msg)
      BY <2>3, Zenon DEF Doubtful
    <3> QED
      BY <3>1, <3>2, ZenonT(40)
  <2> QED
    BY <1>6, <2>2, <2>3, ZenonT(40)
<1>16. Persisted'
  <2>1. Persisted
    BY Zenon DEF LedgerInv
  <2> QED
    BY <1>6, <2>1, Zenon DEF Persisted
<1> QED
  BY <1>9, <1>10, <1>12, <1>13, <1>14, <1>15, <1>16, ZenonT(40) DEF LedgerInv

(* A response arrives, or a late request, and the log stays as it is. *)
LEMMA KeepStep ==
    ASSUME TypeInv, View, LedgerInv,
           UNCHANGED <<msgid, msgq, xmitq, msg, report, tp, rk, outbufs, waitresps, results, old, leader, log>>,
           stale' \subseteq stale, Outcomes \subseteq Outcomes',
           \A x \in Outcomes' : x.err \in Confirms =>
              x \in Outcomes \/ \A m \in Open : m <= Final(x.req) => m \in Logged
    PROVE  LedgerInv'
<1>1. /\ Flying' = Flying /\ Open' = Open /\ Waiting' = Waiting /\ Logged' = Logged
      /\ Live' \subseteq Live /\ Members(results') = Members(results)
  BY Zenon DEF Flying, Open, Waiting, Live, Logged
<1>2. Numbered' /\ Queued' /\ Whole' /\ Resent'
  <2>1. Numbered /\ Queued /\ Whole /\ Resent
    BY Zenon DEF LedgerInv
  <2>2. Numbered'
    BY <1>1, <2>1, Zenon DEF Numbered
  <2> QED
    BY <1>1, <2>1, <2>2, ZenonT(40) DEF Queued, Whole, Resent
<1>3. SeenLogged' /\ Front'
  <2>1. SeenLogged /\ Front
    BY Zenon DEF LedgerInv
  <2>2. SeenLogged'
    <3> SUFFICES ASSUME leader'.epoch # 0, leader'.epoch = tp'.pid,
                        NEW p \in leader'.seen, NEW f \in Open', f = tp'.base + p[1]
                 PROVE  \E e \in Msgs : /\ Ends(f, e, Flying', msg')
                                        /\ \A m \in Open' : f <= m /\ m <= e => m \in Logged'
      BY Zenon DEF SeenLogged
    <3>1. /\ leader.epoch # 0 /\ leader.epoch = tp.pid
          /\ p \in leader.seen /\ f \in Open /\ f = tp.base + p[1]
      BY <1>1, Zenon
    <3>2. \E e \in Msgs : /\ Ends(f, e, Flying, msg)
                          /\ \A m \in Open : f <= m /\ m <= e => m \in Logged
      BY <2>1, <3>1, ZenonT(40) DEF SeenLogged
    <3>3. msg' = msg
      BY ZenonT(40)
    <3> QED
      BY ONLY <1>1, <3>2, <3>3, Zenon
  <2> QED
    BY <1>1, <2>1, <2>2, Zenon DEF Front, Behind
<1>4. Confirmed'
  <2>1. Confirmed
    BY Zenon DEF LedgerInv
  <2> QED
    BY <1>1, <2>1, Zenon DEF Confirmed
<1>5. Doubted'
  <2>1. Doubted
    BY Zenon DEF LedgerInv
  <2>2. \A m \in Msgs : Doubtful(m, Outcomes, msg) => Doubtful(m, Outcomes', msg')
    BY Zenon DEF Doubtful
  <2> QED
    BY <1>1, <2>1, <2>2, ZenonT(40) DEF Doubted
<1>6. Persisted'
  <2>1. Persisted
    BY Zenon DEF LedgerInv
  <2> QED
    BY <1>1, <2>1, Zenon DEF Persisted
<1> QED
  BY <1>2, <1>3, <1>4, <1>5, <1>6, ZenonT(40) DEF LedgerInv

(* The leader answers. *)
LEMMA AnswerLedger ==
    ASSUME TypeInv, View, LedgerInv, TypeInv', View', Answer
    PROVE  LedgerInv'
<1> DEFINE n == Len(resps) + 1
           b == waitresps[n]
<1>1. /\ UNCHANGED <<msgid, msgq, xmitq, msg, report, tp, rk, outbufs, waitresps, results, old, stale>>
      /\ Len(resps) < Len(waitresps)
      /\ \/ /\ \E err \in Verdicts(b) : resps' = Append(resps, err)
            /\ Written(b)
         \/ /\ \E err \in Rejections : resps' = Append(resps, err)
            /\ UNCHANGED <<leader, log>>
         \/ /\ Seen(b) \/ Fits(b)
            /\ resps' = Append(resps, "NOT_ENOUGH_REPLICAS_AFTER_APPEND")
            /\ Written(b)
  BY Zenon DEF Answer, queues, move, remote
<1>2. /\ resps \in Seq(Errors) /\ waitresps \in Seq(Request)
      /\ Len(resps) \in Nat /\ Len(waitresps) \in Nat /\ n \in 1..Len(waitresps)
  <2>1. resps \in Seq(Errors) /\ waitresps \in Seq(Request)
    BY Zenon DEF TypeInv
  <2> QED
    BY <1>1, <2>1, SMTT(30)
<1>3. b \in Flying /\ b \in Live
  BY <1>2, Zenon DEF Flying, Members, Live
<1> HIDE DEF b
<1>4. ASSUME NEW err, resps' = Append(resps, err)
      PROVE  Outcomes' = Outcomes \cup {[req |-> b, err |-> err, sent |-> TRUE]}
  <2>1. Len(resps') = n /\ resps'[n] = err /\ \A k \in 1..Len(resps) : resps'[k] = resps[k]
    BY <1>2, <1>4, SMTT(30)
  <2>2. 1..n = (1..Len(resps)) \cup {n}
    BY <1>2
  <2> DEFINE A(k) == [req |-> waitresps[k], err |-> resps[k], sent |-> TRUE]
             B(k) == [req |-> waitresps'[k], err |-> resps'[k], sent |-> TRUE]
  <2>3. (\A k \in 1..Len(resps) : B(k) = A(k)) /\ B(n) = [req |-> b, err |-> err, sent |-> TRUE]
    BY <1>1, <2>1, Zenon DEF b
  <2>4. Answered = {A(k) : k \in 1..Len(resps)} /\ Answered' = {B(k) : k \in 1..n}
    BY <2>1, Zenon DEF Answered
  <2> HIDE DEF A, B, n
  <2>5. Answered' = Answered \cup {[req |-> b, err |-> err, sent |-> TRUE]}
    BY <2>2, <2>3, <2>4, Zenon
  <2>6. Members(results') = Members(results) /\ Members(old') = Members(old)
    BY <1>1, Zenon
  <2> QED
    BY <2>5, <2>6, ZenonT(40) DEF Outcomes
<1>5. ASSUME NEW err, resps' = Append(resps, err), UNCHANGED <<leader, log>>,
             err \in Confirms => Seen(b)
      PROVE  LedgerInv'
  <2> DEFINE x == [req |-> b, err |-> err, sent |-> TRUE]
  <2>1. Outcomes' = Outcomes \cup {x} /\ x.req = b /\ x.err = err
    BY <1>4, <1>5, Zenon
  <2> HIDE DEF x
  <2>2. err \in Confirms => \A m \in Open : m <= Final(b) => m \in Logged
    BY <1>3, <1>5, SeenFacts, ZenonT(40)
  <2>3. \A y \in Outcomes' : y.err \in Confirms =>
           y \in Outcomes \/ \A m \in Open : m <= Final(y.req) => m \in Logged
    BY <2>1, <2>2, Zenon
  <2>4. Outcomes \subseteq Outcomes' /\ stale' \subseteq stale
    BY <1>1, <2>1, Zenon
  <2>5. UNCHANGED <<msgid, msgq, xmitq, msg, report, tp, rk, outbufs, waitresps, results, old, leader, log>>
    BY <1>1, <1>5, Zenon
  <2> QED
    BY <2>3, <2>4, <2>5, KeepStep, ZenonT(40)
<1>6. ASSUME NEW err \in Leaves, resps' = Append(resps, err), Written(b), ~Seen(b), Fits(b)
      PROVE  LedgerInv'
  <2> DEFINE x == [req |-> b, err |-> err, sent |-> TRUE]
  <2>1. Outcomes' = Outcomes \cup {x} /\ x.req = b /\ x.err = err /\ x.sent
    BY <1>4, <1>6, Zenon
  <2> HIDE DEF x
  <2>2. /\ \E y \in Outcomes' : y.req = b /\ y.sent /\ y.err \in Leaves
        /\ Outcomes \subseteq Outcomes' /\ stale' \subseteq stale
        /\ \A y \in Outcomes' : y \in Outcomes \/ y.req = b
    BY <1>1, <2>1, Zenon
  <2>3. UNCHANGED <<msgid, msgq, xmitq, msg, report, tp, rk, outbufs, waitresps, results, old>>
    BY <1>1, Zenon
  <2> QED
    BY <1>3, <1>6, <2>2, <2>3, TakeStep, ZenonT(40)
<1>7. ASSUME Written(b), ~(~Seen(b) /\ Fits(b)) PROVE UNCHANGED <<leader, log>>
  BY <1>7, Zenon DEF Written, remote
<1>8. CASE \E err \in Verdicts(b) : resps' = Append(resps, err) /\ Written(b)
  <2>1. PICK err \in Verdicts(b) : resps' = Append(resps, err) /\ Written(b)
    BY <1>8
  <2>2. CASE Seen(b)
    BY <1>5, <1>7, <2>1, <2>2, ZenonT(40)
  <2>3. CASE ~Seen(b) /\ Fits(b)
    <3>0. ~(b.pid < leader.epoch) /\ ~(leader.epoch = 0 /\ b.seq # 0)
      <4>1. leader.epoch \in Nat /\ b.pid \in Nat /\ 0 < b.pid
        BY <1>3, Numbers, RequestFacts, ZenonT(40) DEF LedgerInv, Numbered
      <4> QED
        BY <2>3, <4>1, SMTT(30) DEF Fits
    <3>1. Verdicts(b) = {"NO_ERROR"}
      BY <2>3, <3>0, Zenon DEF Verdicts
    <3>2. err \in Leaves
      BY <2>1, <3>1, Zenon DEF Leaves, Confirms
    <3> QED
      BY <1>6, <2>1, <2>3, <3>2, ZenonT(40)
  <2>4. CASE ~Seen(b) /\ ~Fits(b)
    <3>1. Verdicts(b) \subseteq {"INVALID_PRODUCER_EPOCH", "UNKNOWN_PRODUCER_ID", "OUT_OF_ORDER_SEQUENCE_NUMBER"}
      BY <2>4, Zenon DEF Verdicts
    <3>2. err \notin Confirms
      BY <2>1, <3>1, SMTT(30) DEF Confirms
    <3> QED
      BY <1>5, <1>7, <2>1, <2>4, <3>2, ZenonT(40)
  <2> QED
    BY <2>2, <2>3, <2>4, ZenonT(40)
<1>9. CASE (\E err \in Rejections : resps' = Append(resps, err)) /\ UNCHANGED <<leader, log>>
  <2>1. PICK err \in Rejections : resps' = Append(resps, err)
    BY <1>9
  <2>2. err \notin Confirms
    BY <2>1 DEF Confirms, Rejections
  <2> QED
    BY <1>5, <1>9, <2>1, <2>2, ZenonT(40)
<1>10. CASE (Seen(b) \/ Fits(b)) /\ resps' = Append(resps, "NOT_ENOUGH_REPLICAS_AFTER_APPEND") /\ Written(b)
  <2>1. "NOT_ENOUGH_REPLICAS_AFTER_APPEND" \in Leaves /\ "NOT_ENOUGH_REPLICAS_AFTER_APPEND" \notin Confirms
    BY DEF Leaves, Confirms
  <2>2. CASE ~Seen(b) /\ Fits(b)
    BY <1>6, <1>10, <2>1, <2>2, Zenon
  <2>3. CASE Seen(b)
    BY <1>5, <1>7, <1>10, <2>1, <2>3, ZenonT(40)
  <2> QED
    BY <1>10, <2>2, <2>3, Zenon
<1> QED
  BY <1>1, <1>8, <1>9, <1>10, ZenonT(40)

(* A request of a lost connection reaches the leader. *)
LEMMA WriteStaleLedger ==
    ASSUME TypeInv, View, LedgerInv, TypeInv', View', NEW b \in stale, WriteStale(b)
    PROVE  LedgerInv'
<1>1. /\ UNCHANGED <<msgid, msgq, xmitq, msg, report, tp, rk, outbufs, waitresps, results, old>>
      /\ resps' = resps /\ stale' \subseteq stale /\ Written(b)
  BY Zenon DEF WriteStale, queues, move
<1>2. Outcomes' = Outcomes /\ b \in Live
  BY <1>1, Zenon DEF Outcomes, Answered, Live
<1>3. CASE ~Seen(b) /\ Fits(b)
  BY <1>1, <1>2, <1>3, TakeStep, Zenon
<1>4. CASE ~(~Seen(b) /\ Fits(b))
  <2>1. UNCHANGED <<leader, log>>
    BY <1>1, <1>4, Zenon DEF Written, remote
  <2> QED
    BY <1>1, <1>2, <2>1, KeepStep, ZenonT(40)
<1> QED
  BY <1>3, <1>4, Zenon

(* The leader forgets the producer. *)
LEMMA ForgetLedger ==
    ASSUME TypeInv, View, LedgerInv, TypeInv', View', Forget
    PROVE  LedgerInv'
<1>1. /\ UNCHANGED <<msgid, msgq, xmitq, msg, report, tp, rk, outbufs, waitresps, resps, results, old, stale, log>>
      /\ leader' = [epoch |-> 0, next |-> 0, seen |-> {}]
  BY Zenon DEF Forget, queues, network, move
<1>2. leader'.epoch = 0 /\ leader'.seen = {}
  BY <1>1, ZenonT(40)
<1>3. leader' \in [epoch : Nat, next : Int, seen : SUBSET (Int \X Int)] /\ leader'.epoch <= tp'.pid
  <2>1. tp.pid \in Nat
    BY Numbers, Zenon
  <2> QED
    BY <1>1, <2>1, SMTT(30)
<1>4. /\ Flying' = Flying /\ Open' = Open /\ Waiting' = Waiting /\ Logged' = Logged
      /\ Live' = Live /\ Members(results') = Members(results) /\ Outcomes' = Outcomes
  BY <1>1, Zenon DEF Flying, Open, Waiting, Live, Logged, Outcomes, Answered
<1>5. Numbered'
  <2>1. Numbered
    BY Zenon DEF LedgerInv
  <2> QED
    BY <1>1, <1>2, <1>3, <1>4, <2>1, ZenonT(40) DEF Numbered
<1>6. SeenLogged' /\ Front'
  BY <1>2, Zenon DEF SeenLogged, Front
<1>7. Queued /\ Whole /\ Resent /\ Confirmed /\ Doubted /\ Persisted
  BY Zenon DEF LedgerInv
<1>8. Queued' /\ Whole' /\ Resent'
  BY <1>1, <1>4, <1>7, ZenonT(40) DEF Queued, Whole, Resent
<1>9. Confirmed' /\ Doubted' /\ Persisted'
  <2>1. Confirmed'
    BY <1>1, <1>4, <1>7, Zenon DEF Confirmed
  <2>2. Doubted'
    BY <1>1, <1>4, <1>7, ZenonT(40) DEF Doubted
  <2> QED
    BY <1>1, <1>4, <1>7, <2>1, <2>2, ZenonT(40) DEF Persisted
<1> QED
  BY <1>5, <1>6, <1>8, <1>9, ZenonT(40) DEF LedgerInv

-----------------------------------------------------------------------------
(* The steps together *)

(* At the start nothing has been produced. *)
LEMMA LedgerInit ==
    ASSUME Init
    PROVE  LedgerInv
<1>1. /\ outbufs = <<>> /\ waitresps = <<>> /\ resps = <<>> /\ results = <<>> /\ old = <<>>
      /\ stale = {} /\ log = <<>> /\ leader = [epoch |-> 0, next |-> 0, seen |-> {}]
      /\ msgid = 0 /\ msgq = {} /\ xmitq = {} /\ report = [m \in Msgs |-> "none"]
      /\ msg = [m \in Msgs |-> [retries |-> 0, last |-> 0, status |-> "NOT_PERSISTED"]]
      /\ tp.pid = 0 /\ tp.base = 0 /\ rk.pid = 0
  BY Zenon DEF Init
<1>2. Flying = {} /\ Live = {} /\ Members(results) = {} /\ Members(old) = {}
  BY <1>1, NoMembers, Zenon DEF Flying, Live
<1>3. Answered = {}
  <2>1. 1..Len(resps) = {}
    BY <1>1, SMTT(30)
  <2> QED
    BY <2>1, ZenonT(40) DEF Answered
<1>4. Outcomes = {} /\ Waiting = {}
  BY <1>1, <1>2, <1>3, ZenonT(40) DEF Outcomes, Waiting
<1>5. Open = {} /\ Logged = {}
  <2>1. \A m \in Msgs : ~(m <= msgid)
    BY <1>1, SMTT(30) DEF Msgs
  <2>2. Logged = {}
    BY <1>1, SMTT(30) DEF Logged, Range
  <2> QED
    BY <2>1, <2>2, ZenonT(40) DEF Open
<1>6. leader.epoch = 0 /\ leader.next = 0 /\ leader.seen = {}
  BY <1>1, SMTT(30)
<1>7. \A m \in Msgs : msg[m].last = 0 /\ msg[m].status = "NOT_PERSISTED" /\ report[m] = "none"
  BY <1>1, Zenon
<1>8. Numbered
  <2>1. /\ leader \in [epoch : Nat, next : Int, seen : SUBSET (Int \X Int)]
        /\ log \in Seq(Msgs) /\ leader.epoch <= tp.pid /\ tp.pid <= rk.pid /\ tp.base <= msgid
    BY <1>1, SMTT(30)
  <2>2. \A m \in Msgs : msg[m].last <= msgid
    BY <1>1, <1>7, SMTT(30)
  <2> QED
    BY <1>1, <1>2, <1>5, <1>6, <2>1, <2>2, ZenonT(40) DEF Numbered
<1>9. Queued /\ Whole /\ Resent /\ SeenLogged /\ Front /\ Confirmed
  BY <1>1, <1>2, <1>4, <1>5, <1>6, ZenonT(40) DEF Queued, Whole, Resent, SeenLogged, Front, Confirmed
<1>10. Doubted /\ Persisted
  <2>1. \A m \in Msgs : report[m] # "PERSISTED" /\ msg[m].status # "PERSISTED"
    BY <1>7, SMTT(30)
  <2> QED
    BY <1>1, <1>5, <2>1, ZenonT(40) DEF Doubted, Persisted
<1> QED
  BY <1>8, <1>9, <1>10, ZenonT(40) DEF LedgerInv

(* Every step keeps the ledger right. *)
LEMMA LedgerStep ==
    ASSUME TypeInv, View, LedgerInv, TypeInv', View', [Next]_vars
    PROVE  LedgerInv'
<1>1. CASE Produce \/ Serve
  BY <1>1, ProduceLedger, ServeLedger, ZenonT(40)
<1>2. CASE PurgeOutbufs \/ Send \/ PurgeQueues
  BY <1>2, PurgeOutbufsLedger, SendLedger, PurgeQueuesLedger, ZenonT(40)
<1>3. CASE \E k \in Msgs : MsgTimeout(k)
  BY <1>3, MsgTimeoutLedger, ZenonT(40)
<1>4. CASE Receive \/ HandleResult
  BY <1>4, ReceiveLedger, HandleResultLedger, Zenon
<1>5. CASE \E err \in {"__TRANSPORT", "__TIMED_OUT"} : Fail(err)
  BY <1>5, FailLedger, Zenon
<1>6. CASE Connect \/ UNCHANGED vars
  BY <1>6, OtherLedger, Zenon
<1>7. ~(GetPid \/ Collect \/ ServeLate \/ OldLeader \/ Leave \/ Join)
  <2>1. OneThread
    BY Zenon DEF View
  <2>2. round.pid = 0 /\ round.moved = FALSE /\ ending.at = "none"
    BY <2>1, Zenon DEF OneThread, NoRound, NoResult
  <2>3. ending.at # "counted" /\ ending.at # "decided" /\ ending.at # "retried" /\ ending.at # "handled"
    BY <2>2, SMTT(30)
  <2>4. ~(moves < MaxMoves)
    BY <2>1 DEF OneThread
  <2>5. ~GetPid /\ ~Collect /\ ~ServeLate /\ ~Leave /\ ~Join
    BY <2>1, <2>2, <2>4, ZenonT(40) DEF OneThread, GetPid, Collect, ServeLate, Leave, Join
  <2>6. ~OldLeader
    BY <2>1, <2>3, Zenon
    DEF OneThread, OldLeader, OldResult, OldSuccess, OldError, OldRetry, OldReport, OldDone
  <2> QED
    BY <2>5, <2>6, Zenon
<1>8. CASE PidFsm \/ PidUpdate \/ PidFailed
  BY <1>8, PidLedger, ZenonT(40)
<1>9. CASE Answer \/ Forget
  BY <1>9, AnswerLedger, ForgetLedger, Zenon
<1>10. CASE \E b \in stale : WriteStale(b)
  BY <1>10, WriteStaleLedger, Zenon
<1>11. CASE Settled
  BY <1>11, OtherLedger, Zenon DEF Settled
<1> QED
  BY <1>1, <1>2, <1>3, <1>4, <1>5, <1>6, <1>7, <1>8, <1>9, <1>10, <1>11, ZenonT(40)
  DEF Next, BrokerThread, Leader

(* With the ledger right, no report is wrong. *)
LEMMA LedgerReports ==
    ASSUME LedgerInv
    PROVE  ReportsTrue
BY Zenon DEF LedgerInv, Doubted, Persisted, ReportsTrue, Logged

=============================================================================
