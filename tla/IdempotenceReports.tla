------------------------- MODULE IdempotenceReports -------------------------
(***************************************************************************)
(* The delivery reports of the idempotent producer are true while the      *)
(* partition keeps its leader.  The theorem joins IdempotenceProofs, where *)
(* IInv says in which place every request and message is and ThreadInv     *)
(* that one thread works on the partition, with IdempotenceLedger, where   *)
(* LedgerInv says what the producer knows of the log: View is what the     *)
(* second needs of the first.                                              *)
(***************************************************************************)
EXTENDS IdempotenceProofs, IdempotenceLedger

(* No request is in a sequence twice when they are apart. *)
LEMMA OneIndex ==
    ASSUME NEW s \in Seq(Request), Apart(s), NEW n \in 1..Len(s), NEW k \in 1..Len(s)
    PROVE  /\ s[n] = s[k] => n = k
           /\ s[n] = s[k] \/ s[n].msgs \cap s[k].msgs = {}
<1>1. s[n] \in Request
  OBVIOUS
<1>2. s[n].msgs # {}
  BY <1>1, ZenonT(40) DEF Request
<1> QED
  BY <1>2, ZenonT(40) DEF Apart

(* Nor in two sequences that hold different messages. *)
LEMMA TwoPlaces ==
    ASSUME NEW s \in Seq(Request), NEW t \in Seq(Request), Held(s) \cap Held(t) = {},
           NEW n \in 1..Len(s), NEW k \in 1..Len(t)
    PROVE  s[n] # t[k] /\ s[n].msgs \cap t[k].msgs = {}
<1>1. s[n] \in Request
  OBVIOUS
<1>2. s[n].msgs # {}
  BY <1>1, ZenonT(40) DEF Request
<1>3. s[n].msgs \subseteq Held(s) /\ t[k].msgs \subseteq Held(t)
  BY HeldAt, ZenonT(40)
<1> QED
  BY <1>2, <1>3, ZenonT(40)

(* The four places, and what IInv says of them. *)
LEMMA Places ==
    ASSUME IInv, MaxMoves = 0
    PROVE  LET a == outbufs
               b == waitresps
               c == Reqs(results)
               d == Reqs(old)
           IN  /\ a \in Seq(Request) /\ b \in Seq(Request) /\ c \in Seq(Request) /\ d \in Seq(Request)
               /\ Apart(a) /\ Apart(b) /\ Apart(c) /\ Apart(d)
               /\ Held(a) \cap Held(b) = {} /\ Held(a) \cap Held(c) = {} /\ Held(b) \cap Held(c) = {}
               /\ Held(a) \cap Held(d) = {} /\ Held(b) \cap Held(d) = {} /\ Held(c) \cap Held(d) = {}
               /\ Held(Requests) = Held(a) \cup Held(b) \cup Held(c) \cup Held(d)
               /\ Flying = Members(a) \cup Members(b) \cup Members(c) \cup Members(d)
               /\ \A r \in Flying : r.pid = tp.pid /\ tp.pid = rk.pid
<1> DEFINE a == outbufs
           b == waitresps
           c == Reqs(results)
           d == Reqs(old)
<1>1. a \in Seq(Request) /\ b \in Seq(Request) /\ c \in Seq(Request) /\ d \in Seq(Request)
  BY RequestsType, ZenonT(40) DEF IInv
<1>2. Flying = Members(a) \cup Members(b) \cup Members(c) \cup Members(d)
  <2>1. ASSUME NEW xs \in Seq(Result) PROVE Members(Reqs(xs)) = {x.req : x \in Members(xs)}
    <3>1. Len(Reqs(xs)) = Len(xs) /\ \A n \in 1..Len(xs) : Reqs(xs)[n] = xs[n].req
      BY ReqsType, ZenonT(40)
    <3> QED
      BY <3>1, ZenonT(40) DEF Members
  <2>2. results \in Seq(Result) /\ old \in Seq(Result)
    BY Known, ZenonT(40)
  <2>3. Members(c) = {x.req : x \in Members(results)} /\ Members(d) = {x.req : x \in Members(old)}
    BY <2>1, <2>2, ZenonT(40)
  <2> QED
    BY <2>3, ZenonT(40) DEF Flying
<1>3. Requests = All(a, b, c, d)
  BY RequestsAll, ZenonT(40)
<1> HIDE DEF a, b, c, d
<1>4. Parts(Requests, a, b, c, d)
  BY <1>1, <1>3, AllParts, ZenonT(40)
<1>5. Apart(Requests)
  BY ZenonT(40) DEF IInv, PlaceInv
<1>6. /\ Apart(a) /\ Apart(b) /\ Apart(c) /\ Apart(d)
      /\ Held(Requests) = Held(a) \cup Held(b) \cup Held(c) \cup Held(d)
      /\ Held(a) \cap Held(b) = {} /\ (Held(a) \cup Held(b)) \cap Held(c) = {}
      /\ (Held(a) \cup Held(b) \cup Held(c)) \cap Held(d) = {}
  BY <1>4, <1>5, ZenonT(40) DEF Parts
<1>7. /\ Held(a) \cap Held(c) = {} /\ Held(b) \cap Held(c) = {}
      /\ Held(a) \cap Held(d) = {} /\ Held(b) \cap Held(d) = {} /\ Held(c) \cap Held(d) = {}
  BY <1>6, ZenonT(40)
<1>8. \A r \in Flying : r.pid = tp.pid /\ tp.pid = rk.pid
  <2>1. Requests = <<>> \/ (Alike(Requests, tp.pid) /\ tp.pid = rk.pid)
    BY EpochAlike, DrainedEpoch, ZenonT(40) DEF IInv, DrainInv
  <2>2. CASE Requests = <<>>
    <3>1. Len(Requests) = 0 /\ Len(a) \in Nat /\ Len(b) \in Nat /\ Len(c) \in Nat /\ Len(d) \in Nat
      BY <1>1, <2>2, SMTT(30)
    <3>2. Len(Requests) = Len(a) + Len(b) + Len(c) + Len(d)
      BY <1>4, ZenonT(40) DEF Parts
    <3>3. Len(a) = 0 /\ Len(b) = 0 /\ Len(c) = 0 /\ Len(d) = 0
      BY ONLY <3>1, <3>2, SMTT(30)
    <3>4. 1..0 = {}
      BY SMTT(30)
    <3> QED
      BY <1>2, <3>3, <3>4, ZenonT(40) DEF Members
  <2>3. CASE Alike(Requests, tp.pid) /\ tp.pid = rk.pid
    <3>1. Alike(a, tp.pid) /\ Alike(b, tp.pid) /\ Alike(c, tp.pid) /\ Alike(d, tp.pid)
      BY <1>4, <2>3, ZenonT(40) DEF Parts
    <3> QED
      BY <1>2, <2>3, <3>1, ZenonT(40) DEF Alike, Members
  <2> QED
    BY <2>1, <2>2, <2>3, ZenonT(40)
<1> QED
  BY <1>1, <1>2, <1>6, <1>7, <1>8, ZenonT(40) DEF a, b, c, d

(* Every outcome is that of a request at one place. *)
LEMMA OutcomePlace ==
    ASSUME IInv, NEW x \in Outcomes
    PROVE  /\ x \in Result
           /\ \/ \E n \in 1..Len(waitresps) :
                    /\ n <= Len(resps) /\ x.req = waitresps[n]
                    /\ x = [req |-> waitresps[n], err |-> resps[n], sent |-> TRUE]
              \/ \E n \in 1..Len(Reqs(results)) : x.req = Reqs(results)[n] /\ x = results[n]
              \/ \E n \in 1..Len(Reqs(old)) : x.req = Reqs(old)[n] /\ x = old[n]
<1>1. CASE x \in Answered
  <2>1. PICK n \in 1..Len(resps) : x = [req |-> waitresps[n], err |-> resps[n], sent |-> TRUE]
    BY <1>1, ZenonT(40) DEF Answered
  <2>2. /\ Len(resps) \in Nat /\ Len(waitresps) \in Nat /\ Len(resps) <= Len(waitresps)
        /\ resps \in Seq(Errors) /\ waitresps \in Seq(Request)
    BY Known, ZenonT(40)
  <2>3. n \in 1..Len(waitresps) /\ n <= Len(resps)
    BY <2>2, SMTT(30)
  <2>4. resps[n] \in Errors /\ waitresps[n] \in Request
    BY <2>2, <2>3, SMTT(30)
  <2>5. x.req = waitresps[n]
    BY <2>1, ZenonT(40)
  <2>6. x \in Result
    BY <2>1, <2>4, ZenonT(40) DEF Result
  <2> QED
    BY <2>1, <2>3, <2>5, <2>6, ZenonT(40)
<1>2. ASSUME NEW xs \in Seq(Result), x \in Members(xs)
      PROVE  x \in Result /\ \E n \in 1..Len(Reqs(xs)) : x.req = Reqs(xs)[n] /\ x = xs[n]
  <2>1. PICK n \in 1..Len(xs) : x = xs[n]
    BY <1>2, ZenonT(40) DEF Members
  <2> QED
    BY <2>1, ReqsType, ZenonT(40)
<1>3. results \in Seq(Result) /\ old \in Seq(Result)
  BY Known, ZenonT(40)
<1> QED
  BY <1>1, <1>2, <1>3, ZenonT(40) DEF Outcomes
(* A request has one outcome, and a request that waits for its response    *)
(* has none but the response.                                              *)
LEMMA OneOutcome ==
    ASSUME IInv, MaxMoves = 0
    PROVE  /\ \A x, y \in Outcomes : x.req = y.req => x = y
           /\ \A x \in Outcomes, n \in 1..Len(waitresps) : x.req = waitresps[n] => n <= Len(resps)
           /\ \A x \in Outcomes : x.req \in Flying
<1> DEFINE b == waitresps
           c == Reqs(results)
           d == Reqs(old)
           InB(x) == \E n \in 1..Len(b) : /\ n <= Len(resps) /\ x.req = b[n]
                                          /\ x = [req |-> waitresps[n], err |-> resps[n], sent |-> TRUE]
           InC(x) == \E n \in 1..Len(c) : x.req = c[n] /\ x = results[n]
           InD(x) == \E n \in 1..Len(d) : x.req = d[n] /\ x = old[n]
<1>1. /\ b \in Seq(Request) /\ c \in Seq(Request) /\ d \in Seq(Request)
      /\ Apart(b) /\ Apart(c) /\ Apart(d)
      /\ Held(b) \cap Held(c) = {} /\ Held(b) \cap Held(d) = {} /\ Held(c) \cap Held(d) = {}
      /\ Members(b) \cup Members(c) \cup Members(d) \subseteq Flying
  BY Places, ZenonT(40)
<1>2. \A x \in Outcomes : InB(x) \/ InC(x) \/ InD(x)
  BY OutcomePlace, ZenonT(40)
<1>3. /\ \A n, k \in 1..Len(b) : b[n] = b[k] => n = k
      /\ \A n, k \in 1..Len(c) : c[n] = c[k] => n = k
      /\ \A n, k \in 1..Len(d) : d[n] = d[k] => n = k
  <2> HIDE DEF b, c, d
  <2> QED
    BY <1>1, OneIndex, ZenonT(40)
<1>4. /\ \A n \in 1..Len(b), k \in 1..Len(c) : b[n] # c[k]
      /\ \A n \in 1..Len(b), k \in 1..Len(d) : b[n] # d[k]
      /\ \A n \in 1..Len(c), k \in 1..Len(d) : c[n] # d[k]
  <2> HIDE DEF b, c, d
  <2> QED
    BY <1>1, TwoPlaces, ZenonT(40)
<1> HIDE DEF c, d
<1>5. /\ Members(b) \cap Members(c) = {} /\ Members(b) \cap Members(d) = {}
      /\ Members(c) \cap Members(d) = {}
  BY <1>4, ZenonT(40) DEF Members
<1>6. ASSUME NEW x \in Outcomes
      PROVE  /\ InB(x) => x.req \in Members(b)
             /\ InC(x) => x.req \in Members(c)
             /\ InD(x) => x.req \in Members(d)
  BY Zenon DEF Members
<1>7. ASSUME NEW x \in Outcomes, NEW y \in Outcomes, x.req = y.req PROVE x = y
  <2>1. (InB(x) /\ InB(y)) \/ (InC(x) /\ InC(y)) \/ (InD(x) /\ InD(y))
    <3> HIDE DEF InB, InC, InD
    <3>1. x.req \in Members(b) => InB(x) /\ InB(y)
      BY <1>2, <1>5, <1>6, <1>7, ZenonT(40)
    <3>2. x.req \in Members(c) => InC(x) /\ InC(y)
      BY <1>2, <1>5, <1>6, <1>7, ZenonT(40)
    <3>3. x.req \in Members(d) => InD(x) /\ InD(y)
      BY <1>2, <1>5, <1>6, <1>7, ZenonT(40)
    <3> QED
      BY <1>2, <1>6, <3>1, <3>2, <3>3, ZenonT(40)
  <2>2. CASE InB(x) /\ InB(y)
    BY <1>3, <1>7, <2>2, ZenonT(40)
  <2>3. CASE InC(x) /\ InC(y)
    BY <1>3, <1>7, <2>3, ZenonT(40)
  <2>4. CASE InD(x) /\ InD(y)
    BY <1>3, <1>7, <2>4, ZenonT(40)
  <2> QED
    BY <2>1, <2>2, <2>3, <2>4, ZenonT(40)
<1>8. ASSUME NEW x \in Outcomes, NEW n \in 1..Len(waitresps), x.req = waitresps[n] PROVE n <= Len(resps)
  <2>1. x.req \in Members(b)
    BY <1>8, ZenonT(40) DEF Members
  <2>2. InB(x)
    <3> HIDE DEF InB, InC, InD
    <3> QED
      BY <1>2, <1>5, <1>6, <2>1, ZenonT(40)
  <2> QED
    BY <1>3, <1>8, <2>2, ZenonT(40)
<1>9. ASSUME NEW x \in Outcomes PROVE x.req \in Members(b) \cup Members(c) \cup Members(d)
  <2> HIDE DEF InB, InC, InD
  <2> QED
    BY <1>2, <1>6, ZenonT(40)
<1> QED
  BY <1>1, <1>7, <1>8, <1>9, ZenonT(40)

(* What the ledger needs of IInv and ThreadInv. *)
LEMMA InvView ==
    ASSUME IInv, ThreadInv, MaxMoves = 0
    PROVE  View
<1> DEFINE a == outbufs
           b == waitresps
           c == Reqs(results)
           d == Reqs(old)
<1>0. OneThread
  BY Zenon DEF OneThread, ThreadInv, FixedInv
<1>1. /\ a \in Seq(Request) /\ b \in Seq(Request) /\ c \in Seq(Request) /\ d \in Seq(Request)
      /\ Apart(a) /\ Apart(b) /\ Apart(c) /\ Apart(d)
      /\ Held(a) \cap Held(b) = {} /\ Held(a) \cap Held(c) = {} /\ Held(b) \cap Held(c) = {}
      /\ Held(a) \cap Held(d) = {} /\ Held(b) \cap Held(d) = {} /\ Held(c) \cap Held(d) = {}
      /\ Held(Requests) = Held(a) \cup Held(b) \cup Held(c) \cup Held(d)
      /\ Flying = Members(a) \cup Members(b) \cup Members(c) \cup Members(d)
      /\ \A r \in Flying : r.pid = tp.pid /\ tp.pid = rk.pid
  BY Places, ZenonT(40)
<1> HIDE DEF a, b, c, d
<1>2. Flying \subseteq Request
  <2>1. ASSUME NEW s \in Seq(Request) PROVE Members(s) \subseteq Request
    <3>1. \A n \in 1..Len(s) : s[n] \in Request
      OBVIOUS
    <3> QED
      BY <3>1, ZenonT(40) DEF Members
  <2> QED
    BY <1>1, <2>1, ZenonT(40)
<1>3. /\ \A r \in Flying : r.msgs \subseteq Held(Requests)
      /\ \A m \in Held(Requests) : \E r \in Flying : m \in r.msgs
  <2>1. ASSUME NEW s
        PROVE  /\ \A r \in Members(s) : r.msgs \subseteq Held(s)
               /\ \A m \in Held(s) : \E r \in Members(s) : m \in r.msgs
    BY Zenon DEF Held, Members
  <2>2. /\ \A r \in Members(a) : r.msgs \subseteq Held(a)
        /\ \A r \in Members(b) : r.msgs \subseteq Held(b)
        /\ \A r \in Members(c) : r.msgs \subseteq Held(c)
        /\ \A r \in Members(d) : r.msgs \subseteq Held(d)
    BY <2>1, ZenonT(40)
  <2>3. /\ \A m \in Held(a) : \E r \in Members(a) : m \in r.msgs
        /\ \A m \in Held(b) : \E r \in Members(b) : m \in r.msgs
        /\ \A m \in Held(c) : \E r \in Members(c) : m \in r.msgs
        /\ \A m \in Held(d) : \E r \in Members(d) : m \in r.msgs
    BY <2>1, ZenonT(40)
  <2>4. \A r \in Flying : r.msgs \subseteq Held(Requests)
    BY <1>1, <2>2, ZenonT(40)
  <2>5. \A m \in Held(Requests) : \E r \in Flying : m \in r.msgs
    BY <1>1, <2>3, ZenonT(40)
  <2> QED
    BY <2>4, <2>5, ZenonT(40)
<1>4. Waiting \subseteq Open /\ Held(Requests) \subseteq Open \ Waiting /\ Open \subseteq Waiting \cup Held(Requests)
  <2>1. /\ Held(Requests) \cap (msgq \cup xmitq \cup Reported \cup New) = {}
        /\ (msgq \cup xmitq) \cap (Reported \cup New) = {}
        /\ Msgs = Held(Requests) \cup msgq \cup xmitq \cup Reported \cup New
    <3>1. ending.left = {}
      BY <1>0, Zenon DEF OneThread, NoResult
    <3> QED
      BY <3>1, ZenonT(40) DEF IInv, PlaceInv, Away
  <2>2. Open = Msgs \ (Reported \cup New)
    <3>1. msgid \in Int
      BY Known, SMTT(30)
    <3>2. \A m \in Msgs : ~(m > msgid) <=> m <= msgid
      BY <3>1, SMTT(30) DEF Msgs
    <3> QED
      BY <3>2, ZenonT(40) DEF Open, Reported, New
  <2> QED
    BY <2>1, <2>2, ZenonT(40) DEF Waiting
<1>5. \A r, q \in Flying : r = q \/ r.msgs \cap q.msgs = {}
  <2>1. ASSUME NEW s \in Seq(Request), Apart(s), NEW r \in Members(s), NEW q \in Members(s)
        PROVE  r = q \/ r.msgs \cap q.msgs = {}
    BY <2>1, OneIndex, ZenonT(40) DEF Members
  <2>2. ASSUME NEW s, NEW r \in Members(s) PROVE r.msgs \subseteq Held(s)
    BY Zenon DEF Held, Members
  <2>3. /\ \A r \in Members(a) : r.msgs \subseteq Held(a)
        /\ \A r \in Members(b) : r.msgs \subseteq Held(b)
        /\ \A r \in Members(c) : r.msgs \subseteq Held(c)
        /\ \A r \in Members(d) : r.msgs \subseteq Held(d)
    BY <2>2, ZenonT(40)
  <2> SUFFICES ASSUME NEW r \in Flying, NEW q \in Flying PROVE r = q \/ r.msgs \cap q.msgs = {}
    OBVIOUS
  <2>4. CASE r \in Members(a)
    <3>1. CASE q \in Members(a)
      BY <1>1, <2>1, <2>4, <3>1, ZenonT(40)
    <3>2. CASE q \notin Members(a)
      <4>1. q.msgs \subseteq Held(b) \cup Held(c) \cup Held(d)
        BY <1>1, <2>3, <3>2, ZenonT(40)
      <4>2. r.msgs \subseteq Held(a)
        BY <2>3, <2>4, ZenonT(40)
      <4> QED
        BY <1>1, <4>1, <4>2, ZenonT(40)
    <3> QED
      BY <3>1, <3>2, ZenonT(40)
  <2>5. CASE r \in Members(b)
    <3>1. CASE q \in Members(b)
      BY <1>1, <2>1, <2>5, <3>1, ZenonT(40)
    <3>2. CASE q \notin Members(b)
      <4>1. q.msgs \subseteq Held(a) \cup Held(c) \cup Held(d)
        BY <1>1, <2>3, <3>2, ZenonT(40)
      <4>2. r.msgs \subseteq Held(b)
        BY <2>3, <2>5, ZenonT(40)
      <4> QED
        BY <1>1, <4>1, <4>2, ZenonT(40)
    <3> QED
      BY <3>1, <3>2, Zenon
  <2>6. CASE r \in Members(c)
    <3>1. CASE q \in Members(c)
      BY <1>1, <2>1, <2>6, <3>1, ZenonT(40)
    <3>2. CASE q \notin Members(c)
      <4>1. q.msgs \subseteq Held(a) \cup Held(b) \cup Held(d)
        BY <1>1, <2>3, <3>2, ZenonT(40)
      <4>2. r.msgs \subseteq Held(c)
        BY <2>3, <2>6, ZenonT(40)
      <4> QED
        BY <1>1, <4>1, <4>2, ZenonT(40)
    <3> QED
      BY <3>1, <3>2, Zenon
  <2>7. CASE r \in Members(d)
    <3>1. CASE q \in Members(d)
      BY <1>1, <2>1, <2>7, <3>1, ZenonT(40)
    <3>2. CASE q \notin Members(d)
      <4>1. q.msgs \subseteq Held(a) \cup Held(b) \cup Held(c)
        BY <1>1, <2>3, <3>2, ZenonT(40)
      <4>2. r.msgs \subseteq Held(d)
        BY <2>3, <2>7, ZenonT(40)
      <4> QED
        BY <1>1, <4>1, <4>2, ZenonT(40)
    <3> QED
      BY <3>1, <3>2, Zenon
  <2> QED
    BY <1>1, <2>4, <2>5, <2>6, <2>7, ZenonT(40)
<1>6. Outcomes \subseteq Result
  BY OutcomePlace, ZenonT(40)
<1>7. Inflight \in Nat /\ (Inflight = 0 => Flying = {})
  <2>1. Inflight \in Nat /\ (Inflight = 0 => Requests = <<>>)
    BY InflightHeld, ZenonT(40) DEF IInv
  <2>2. ASSUME Requests = <<>> PROVE Flying = {}
    <3>1. Held(Requests) = {}
      BY <2>2, NoneHeld, ZenonT(40)
    <3>2. \A r \in Flying : r.msgs # {}
      BY <1>2, ZenonT(40) DEF Request
    <3> QED
      BY <1>3, <3>1, <3>2, ZenonT(40)
  <2> QED
    BY <2>1, <2>2, ZenonT(40)
<1>8. \A r \in Flying : r.pid = tp.pid /\ tp.pid = rk.pid /\ r.msgs \subseteq Open \ Waiting
  BY <1>1, <1>3, <1>4, ZenonT(40)
<1>9. \A m \in Open : m \in Waiting \/ \E r \in Flying : m \in r.msgs
  BY <1>3, <1>4, ZenonT(40)
<1> QED
  BY <1>0, <1>2, <1>4, <1>5, <1>6, <1>7, <1>8, <1>9, OneOutcome, ZenonT(40) DEF View

(* LedgerInv is an invariant while the partition keeps its leader: each    *)
(* step keeps it, given where the requests and messages are before and     *)
(* after the step.                                                         *)
THEOREM LedgerKept ==
    ASSUME MaxMoves = 0
    PROVE  Spec => []LedgerInv
<1>1. Init => LedgerInv
  BY LedgerInit, ZenonT(40)
<1>2. IInv /\ ThreadInv => TypeInv /\ View
  BY InvView, ZenonT(40) DEF IInv
<1>3. TypeInv /\ View /\ LedgerInv /\ TypeInv' /\ View' /\ [Next]_vars => LedgerInv'
  BY LedgerStep, ZenonT(40)
<1> QED
  BY <1>1, <1>2, <1>3, Invariance, PTL DEF Spec

(* While the partition keeps its leader, whatever else happens:            *)
(* a message reported as persisted is in the log of the leader, and one    *)
(* reported as not persisted is not and will not be: handle_ProduceReply() *)
(* and what it does to the status of messages that may have been written,  *)
(* the implicit acknowledgement of earlier batches, timeouts and purges    *)
(* never report what is not so, whatever responses and connections are     *)
(* lost and however late a request of a lost connection is written.        *)
THEOREM ReportsAreTrue ==
    ASSUME MaxMoves = 0
    PROVE  Spec => []ReportsTrue
<1>1. LedgerInv => ReportsTrue
  BY LedgerReports, Zenon
<1> QED
  BY <1>1, LedgerKept, PTL

=============================================================================
