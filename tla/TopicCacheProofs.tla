-------------------------- MODULE TopicCacheProofs --------------------------
(***************************************************************************)
(* Theorems about TopicCache, for any finite set of threads and any set of *)
(* topics.  IInv is inductive as it stands: a reference count is what the  *)
(* tree and the running calls hold, so that the object a call or a caller  *)
(* has is never replaced.  For one caller, OneCallerInv is inductive on    *)
(* top of it.  What is shown for several callers is shown for tree         *)
(* operations that do not overlap, which the code does not see to.         *)
(***************************************************************************)
EXTENDS TopicCache, FiniteSetTheorems, TLAPS

(* The calls that hold a reference are threads, so they can be counted. *)
LEMMA HoldingFinite ==
    ASSUME NEW n
    PROVE  IsFiniteSet(Holding(n)) /\ Cardinality(Holding(n)) \in Nat
  BY TopicCacheAssumption, FS_Subset, FS_CardinalityType DEF Holding, TopicCacheAssumption

(* Some call holds topic n, so its count of calls is positive. *)
LEMMA HoldingCounts ==
    ASSUME NEW n, NEW t \in Holding(n)
    PROVE  Cardinality(Holding(n)) > 0
  BY HoldingFinite, FS_EmptySet

(* A call that begins to hold topic n is counted once more for n. *)
LEMMA HoldingGrows ==
    ASSUME NEW t \in Threads, NEW n, t \notin Holding(n), Holding(n)' = Holding(n) \cup {t}
    PROVE  Cardinality(Holding(n)') = Cardinality(Holding(n)) + 1
  BY HoldingFinite, FS_AddElement

(* A call that ends is counted once less. *)
LEMMA HoldingShrinks ==
    ASSUME NEW t \in Threads, NEW n, t \in Holding(n), Holding(n)' = Holding(n) \ {t}
    PROVE  Cardinality(Holding(n)') = Cardinality(Holding(n)) - 1
  BY HoldingFinite, FS_RemoveElement

(* The main thread is not one of the callers. *)
LEMMA MainNotThread == Main \in Actors /\ \A t \in Threads : t # Main /\ t \in Actors
  BY TopicCacheAssumption DEF TopicCacheAssumption, Actors

-----------------------------------------------------------------------------
(* Initially nothing is held, stored or returned. *)
LEMMA IInvInit == Init => IInv
<1> SUFFICES ASSUME Init PROVE IInv
  OBVIOUS
<1> USE DEF Init
<1>1. ControlType /\ CallType /\ TopicType
  BY TopicCacheAssumption, MainNotThread
  DEF ControlType, CallType, TopicType, TopicCacheAssumption, Actors
<1>2. exited \in BOOLEAN
  BY Zenon
<1>3. RefcntExact
  <2> SUFFICES ASSUME NEW n \in Topics PROVE refcnt[n] = InTree(n) + Cardinality(Holding(n))
    BY DEF RefcntExact
  <2>1. Holding(n) = {}
    BY MainNotThread DEF Holding
  <2> QED
    BY <2>1, FS_EmptySet DEF InTree
<1>4. HoldsLive /\ TreeLive /\ QuietDestroy
  BY MainNotThread DEF HoldsLive, TreeLive, QuietDestroy
<1> QED
  BY <1>1, <1>2, <1>3, <1>4 DEF IInv, TypeOK

(* A call that holds a reference to topic n: n is a topic, its object is   *)
(* the latest and its count is positive.                                   *)
LEMMA HeldObject ==
    ASSUME IInv, NEW t \in Threads, pc[t] \in {"find", "insert", "drop"}
    PROVE  /\ topic[t] \in Topics
           /\ t \in Holding(topic[t])
           /\ refcnt[topic[t]] > 0
           /\ rktopic[t] = object[topic[t]]
           /\ rktopic[t] \in Nat \ {0}
<1> DEFINE n == topic[t]
<1>1. n \in Topics
  BY DEF IInv, TypeOK, CallType
<1>2. t \in Holding(n)
  BY DEF Holding
<1>3. refcnt[n] > 0
  <2>1. Cardinality(Holding(n)) > 0 /\ Cardinality(Holding(n)) \in Nat
    BY <1>2, HoldingCounts, HoldingFinite
  <2> QED
    BY <1>1, <2>1 DEF IInv, RefcntExact, InTree
<1>4. rktopic[t] = object[n] /\ object[n] > 0
  BY <1>1, <1>3, SMTT(30) DEF IInv, HoldsLive, TreeLive
<1> QED
  BY <1>1, <1>2, <1>3, <1>4 DEF IInv, TypeOK, TopicType

(* Slices of the type invariant after every step; that the reference       *)
(* counts are not negative follows from RefcntExact.                       *)
LEMMA TypeStep ==
    ASSUME IInv, [Next]_vars
    PROVE  /\ ControlType' /\ CallType'
           /\ object' \in [Topics -> Nat] /\ tree' \in [Topics -> Nat]
           /\ returned' \subseteq Topics \X Nat
           /\ refcnt' \in [Topics -> Int]
<1> DEFINE Goal == /\ ControlType' /\ CallType'
                   /\ object' \in [Topics -> Nat] /\ tree' \in [Topics -> Nat]
                   /\ returned' \subseteq Topics \X Nat
                   /\ refcnt' \in [Topics -> Int]
<1>0. ControlType /\ CallType /\ TopicType
  BY DEF IInv, TypeOK
<1> USE <1>0, TopicCacheAssumption, MainNotThread
    DEF TopicCacheAssumption, ControlType, CallType, TopicType, Goto
<1>1. ASSUME NEW t \in Threads, NEW n \in Topics, TopicNew(t, n) PROVE Goal
  <2>1. PICK o \in Candidates(n) : /\ object' = [object EXCEPT ![n] = o]
                                   /\ rktopic' = [rktopic EXCEPT ![t] = o]
    BY <1>1, ZenonT(40) DEF TopicNew
  <2>2. o \in Nat
    BY DEF Candidates
  <2>4. calls[t] + 1 \in 0 .. MaxCalls
    BY <1>1 DEF TopicNew
  <2>5. ControlType'
    BY <1>1 DEF TopicNew
  <2>6. CallType'
    BY <1>1, <2>1, <2>2, <2>4 DEF TopicNew
  <2> QED
    BY <1>1, <2>1, <2>2, <2>5, <2>6 DEF TopicNew
<1>2. ASSUME NEW t \in Threads, TopicNewFails(t) PROVE Goal
  <2>1. calls[t] + 1 \in 0 .. MaxCalls
    BY <1>2 DEF TopicNewFails
  <2> QED
    BY <1>2, <2>1 DEF TopicNewFails
<1>3. ASSUME NEW t \in Threads, Find(t) PROVE Goal
  BY <1>3 DEF Find
<1>4. ASSUME NEW t \in Threads, Insert(t) PROVE Goal
  <2>1. topic[t] \in Topics /\ rktopic[t] \in Nat
    OBVIOUS
  <2>2. ControlType'
    BY <1>4 DEF Insert, Return
  <2>3. CallType' /\ object' \in [Topics -> Nat]
    BY <1>4 DEF Insert
  <2>4. tree' \in [Topics -> Nat] /\ returned' \subseteq Topics \X Nat
    BY <1>4, <2>1 DEF Insert
  <2>5. refcnt' \in [Topics -> Int]
    BY <1>4, <2>1, SMTT(30) DEF Insert, TopicDestroy
  <2> QED
    BY <2>2, <2>3, <2>4, <2>5
<1>5. ASSUME NEW t \in Threads, Drop(t) PROVE Goal
  BY <1>5 DEF Drop, Return, TopicDestroy
<1>6. ASSUME NEW t \in Threads, Finish(t) PROVE Goal
  BY <1>6 DEF Finish
<1>7. CASE ReleaseTree
  BY <1>7 DEF ReleaseTree, InTree
<1>8. CASE DestroyInstance
  BY <1>8 DEF DestroyInstance
<1>9. CASE UNCHANGED vars
  BY <1>9 DEF vars
<1> QED
  BY <1>1, <1>2, <1>3, <1>4, <1>5, <1>6, <1>7, <1>8, <1>9
  DEF Next, ThreadStep, MainStep, Terminated

-----------------------------------------------------------------------------
(* A call that begins, ends or goes on changes who holds topic n only for  *)
(* itself and only for its own topic.                                      *)
LEMMA HoldingFrame ==
    ASSUME NEW t \in Threads, NEW n,
           \A u \in Threads \ {t} : pc'[u] = pc[u] /\ topic'[u] = topic[u]
    PROVE  /\ t \notin Holding(n)' => Holding(n)' = Holding(n) \ {t}
           /\ t \in Holding(n)' => Holding(n)' = Holding(n) \cup {t}
  BY DEF Holding

(* Every step keeps the reference counts exact. *)
LEMMA RefcntStep ==
    ASSUME IInv, [Next]_vars
    PROVE  RefcntExact'
<1> SUFFICES ASSUME NEW n \in Topics
             PROVE  refcnt'[n] = InTree(n)' + Cardinality(Holding(n)')
  BY DEF RefcntExact
<1>0. /\ ControlType /\ CallType /\ TopicType
      /\ refcnt[n] = InTree(n) + Cardinality(Holding(n))
      /\ Cardinality(Holding(n)) \in Nat
  BY HoldingFinite DEF IInv, TypeOK, RefcntExact
<1>u. ASSUME Holding(n)' = Holding(n), refcnt'[n] = refcnt[n], tree'[n] = tree[n]
      PROVE  refcnt'[n] = InTree(n)' + Cardinality(Holding(n)')
  BY <1>0, <1>u DEF InTree
<1> USE <1>0, MainNotThread DEF ControlType, CallType, TopicType, Goto
<1>1. ASSUME NEW t \in Threads, NEW k \in Topics, TopicNew(t, k)
      PROVE  refcnt'[n] = InTree(n)' + Cardinality(Holding(n)')
  <2>1. \A u \in Threads \ {t} : pc'[u] = pc[u] /\ topic'[u] = topic[u]
    BY <1>1 DEF TopicNew
  <2>2. t \notin Holding(n) /\ (t \in Holding(n)' <=> n = k)
    BY <1>1 DEF TopicNew, Holding
  <2>3. CASE n = k
    <3>0. Holding(n)' = Holding(n) \cup {t}
      BY <2>1, <2>2, <2>3, HoldingFrame
    <3>1. Cardinality(Holding(n)') = Cardinality(Holding(n)) + 1
      <4>1. t \notin Holding(n)
        BY <2>2
      <4> HIDE DEF ControlType, CallType, TopicType, Goto
      <4> QED
        BY <3>0, <4>1, HoldingGrows, ZenonT(40)
    <3>2. refcnt'[n] = refcnt[n] + 1 /\ InTree(n)' = InTree(n) /\ InTree(n) \in Nat
      BY <1>1, <2>3 DEF TopicNew, InTree
    <3> QED
      BY <3>1, <3>2
  <2>4. CASE n # k
    <3>0. t \notin Holding(n) /\ t \notin Holding(n)'
      BY <2>2, <2>4
    <3>1. Holding(n)' = Holding(n)
      <4>1. Holding(n)' = Holding(n) \ {t}
        BY <2>1, <3>0, HoldingFrame, SMTT(30)
      <4> QED
        BY <3>0, <4>1, SMTT(30)
    <3>2. refcnt'[n] = refcnt[n] /\ tree'[n] = tree[n]
      BY <1>1, <2>4, SMTT(30) DEF TopicNew
    <3> QED
      BY <3>1, <3>2, <1>u
  <2> QED
    BY <2>3, <2>4
<1>2. ASSUME NEW t \in Threads, TopicNewFails(t) \/ Find(t) \/ Finish(t)
      PROVE  refcnt'[n] = InTree(n)' + Cardinality(Holding(n)')
  <2>1. Holding(n)' = Holding(n)
    BY <1>2, SMTT(30) DEF TopicNewFails, Find, Finish, Holding
  <2> QED
    BY <1>2, <2>1, <1>u, SMTT(30) DEF TopicNewFails, Find, Finish
<1>3. ASSUME NEW t \in Threads, pc[t] \in {"insert", "drop"}, Return(t), topic' = topic
      PROVE  /\ n # topic[t] => Holding(n)' = Holding(n)
             /\ n = topic[t] => Cardinality(Holding(n)') = Cardinality(Holding(n)) - 1
  <2>1. \A u \in Threads \ {t} : pc'[u] = pc[u] /\ topic'[u] = topic[u]
    BY <1>3, SMTT(30) DEF Return
  <2>2. t \notin Holding(n)' /\ (t \in Holding(n) <=> n = topic[t])
    BY <1>3, SMTT(30) DEF Return, Holding
  <2>3. Holding(n)' = Holding(n) \ {t}
    BY <2>1, <2>2, HoldingFrame, SMTT(30)
  <2>4. ASSUME n = topic[t]
        PROVE  Cardinality(Holding(n)') = Cardinality(Holding(n)) - 1
    <3>1. t \in Holding(n)
      BY <2>2, <2>4, SMTT(30)
    <3> HIDE DEF ControlType, CallType, TopicType, Goto
    <3> QED
      BY <3>1, <2>3, HoldingShrinks, SMTT(30)
  <2> QED
    BY <2>2, <2>3, <2>4
<1>4. ASSUME NEW t \in Threads, Insert(t)
      PROVE  refcnt'[n] = InTree(n)' + Cardinality(Holding(n)')
  <2>0. pc[t] = "insert" /\ topic' = topic /\ topic[t] \in Topics /\ rktopic[t] \in Nat \ {0}
    BY <1>4, HeldObject, SMTT(30) DEF Insert
  <2>1. CASE tree[topic[t]] = 0
    <3>1. /\ Return(t) /\ refcnt' = refcnt
          /\ tree' = [tree EXCEPT ![topic[t]] = rktopic[t]]
      BY <1>4, <2>1, SMTT(30) DEF Insert
    <3>2. CASE n = topic[t]
      <4>1. InTree(n) = 0 /\ InTree(n)' = 1
        BY <2>0, <2>1, <3>1, <3>2, SMTT(30) DEF InTree
      <4> QED
        BY <1>3, <2>0, <3>1, <3>2, <4>1, SMTT(30)
    <3>3. CASE n # topic[t]
      BY <1>3, <1>u, <2>0, <3>1, <3>3, SMTT(30)
    <3> QED
      BY <3>2, <3>3, SMTT(30)
  <2>2. CASE tree[topic[t]] # 0 /\ role = "producer"
    <3>1. UNCHANGED <<pc, topic, refcnt, tree>>
      BY <1>4, <2>2, SMTT(30) DEF Insert
    <3> QED
      BY <3>1, <1>u, SMTT(30) DEF Holding
  <2>3. CASE tree[topic[t]] # 0 /\ role # "producer"
    <3>1. TopicDestroy(topic[t]) /\ Return(t) /\ tree' = tree
      BY <1>4, <2>3, SMTT(30) DEF Insert
    <3>2. CASE n = topic[t]
      <4>1. refcnt'[n] = refcnt[n] - 1 /\ InTree(n)' = InTree(n) /\ InTree(n) \in Nat
        BY <3>1, <3>2, SMTT(30) DEF TopicDestroy, InTree
      <4> QED
        BY <1>3, <2>0, <3>1, <3>2, <4>1, SMTT(30)
    <3>3. CASE n # topic[t]
      <4>1. refcnt'[n] = refcnt[n]
        BY <3>1, <3>3, SMTT(30) DEF TopicDestroy
      <4> QED
        BY <1>3, <1>u, <2>0, <3>1, <3>3, <4>1, SMTT(30)
    <3> QED
      BY <3>2, <3>3
  <2> QED
    BY <2>1, <2>2, <2>3, SMTT(30)
<1>5. ASSUME NEW t \in Threads, Drop(t)
      PROVE  refcnt'[n] = InTree(n)' + Cardinality(Holding(n)')
  <2>0. /\ pc[t] = "drop" /\ topic' = topic /\ tree' = tree
        /\ TopicDestroy(topic[t]) /\ Return(t)
    BY <1>5, SMTT(30) DEF Drop
  <2>1. CASE n = topic[t]
    <3>1. refcnt'[n] = refcnt[n] - 1 /\ InTree(n)' = InTree(n) /\ InTree(n) \in Nat
      BY <2>0, <2>1, SMTT(30) DEF TopicDestroy, InTree
    <3> QED
      BY <1>3, <2>0, <2>1, <3>1, SMTT(30)
  <2>2. CASE n # topic[t]
    <3>1. refcnt'[n] = refcnt[n]
      BY <2>0, <2>2 DEF TopicDestroy
    <3> QED
      BY <1>3, <1>u, <2>0, <2>2, <3>1, SMTT(30)
  <2> QED
    BY <2>1, <2>2
<1>6. CASE ReleaseTree
  <2>1. Holding(n) = {} /\ Holding(n)' = {}
    BY <1>6 DEF ReleaseTree, Holding
  <2>2. refcnt'[n] = refcnt[n] - InTree(n) /\ InTree(n)' = 0
    BY <1>6, SMTT(30) DEF ReleaseTree, InTree
  <2>3. Cardinality(Holding(n)) = 0 /\ Cardinality(Holding(n)') = 0
    BY <2>1, FS_EmptySet, SMTT(30)
  <2>4. InTree(n) \in Nat
    BY DEF InTree
  <2> QED
    BY <2>2, <2>3, <2>4, SMTT(30)
<1>7. CASE DestroyInstance
  <2>1. Holding(n)' = Holding(n)
    BY <1>7, SMTT(30) DEF DestroyInstance, Holding
  <2> QED
    BY <1>7, <2>1, <1>u, SMTT(30) DEF DestroyInstance
<1>8. CASE UNCHANGED vars
  BY <1>8, <1>u, SMTT(30) DEF vars, Holding
<1> QED
  BY <1>1, <1>2, <1>4, <1>5, <1>6, <1>7, <1>8 DEF Next, ThreadStep, MainStep, Terminated

-----------------------------------------------------------------------------
(* While the tree or a call holds a reference, rd_kafka_topic_new() finds  *)
(* the object; a new one is a number above zero.                           *)
LEMMA CandidatesFound ==
    ASSUME IInv, NEW n \in Topics, NEW o \in Candidates(n)
    PROVE  /\ o \in Nat \ {0}
           /\ tree[n] # 0 => o = object[n]
           /\ \A u \in Threads : u \in Holding(n) => o = object[n]
<1>1. refcnt[n] \in Nat /\ object[n] \in Nat /\ (refcnt[n] > 0 => object[n] > 0)
  BY DEF IInv, TypeOK, TopicType, TreeLive
<1>2. o \in Nat \ {0} /\ (refcnt[n] > 0 => o = object[n])
  BY <1>1, SMTT(30) DEF Candidates
<1>3. tree[n] # 0 => refcnt[n] > 0
  BY HoldingFinite, SMTT(30) DEF IInv, RefcntExact, InTree
<1>4. \A u \in Threads : u \in Holding(n) => refcnt[n] > 0
  BY HeldObject, SMTT(30) DEF Holding
<1> QED
  BY <1>2, <1>3, <1>4

(* A running call keeps a reference to the latest object of its topic. *)
LEMMA HoldsStep ==
    ASSUME IInv, [Next]_vars
    PROVE  HoldsLive'
<1> SUFFICES ASSUME NEW u \in Threads, pc'[u] \in {"find", "insert", "drop"}
             PROVE  /\ rktopic'[u] = object'[topic'[u]]
                    /\ pc'[u] = "drop" => tree'[topic'[u]] # 0
  BY SMTT(30) DEF HoldsLive
<1> DEFINE Goal == /\ rktopic'[u] = object'[topic'[u]]
                   /\ pc'[u] = "drop" => tree'[topic'[u]] # 0
<1>0. /\ ControlType /\ CallType /\ TopicType
      /\ pc[u] \in {"find", "insert", "drop"} =>
            /\ rktopic[u] = object[topic[u]]
            /\ pc[u] = "drop" => tree[topic[u]] # 0
      /\ pc[u] = "insert" => rktopic[u] # 0
      /\ pc[u] # "done" => pc[Main] = "run"
  BY HeldObject, SMTT(30) DEF IInv, TypeOK, HoldsLive, QuietDestroy
<1> USE <1>0, MainNotThread DEF ControlType, CallType, TopicType, Goto
<1>1. ASSUME NEW t \in Threads, NEW n \in Topics, TopicNew(t, n) PROVE Goal
  <2>1. PICK o \in Candidates(n) : /\ object' = [object EXCEPT ![n] = o]
                                   /\ rktopic' = [rktopic EXCEPT ![t] = o]
    BY <1>1, ZenonT(40) DEF TopicNew
  <2>2. u # t => pc'[u] = pc[u] /\ topic'[u] = topic[u] /\ rktopic'[u] = rktopic[u]
    BY <1>1, <2>1 DEF TopicNew
  <2>3. u # t /\ topic[u] = n => o = object[n]
    BY <2>2, CandidatesFound, SMTT(30) DEF Holding
  <2>4. tree' = tree /\ (u = t => topic'[u] = n /\ pc'[u] = "find" /\ rktopic'[u] = o)
    BY <1>1, <2>1 DEF TopicNew
  <2>5. object'[n] = o /\ (topic'[u] # n => object'[topic'[u]] = object[topic'[u]])
    BY <1>1, <2>1 DEF TopicNew
  <2>6. CASE u = t
    BY <2>4, <2>5, <2>6, ZenonT(40)
  <2>7. CASE u # t
    BY <2>2, <2>3, <2>4, <2>5, <2>7, SMTT(30)
  <2> QED
    BY <2>6, <2>7, SMTT(30)
<1>2. ASSUME NEW t \in Threads, TopicNewFails(t) \/ Finish(t) PROVE Goal
  BY <1>2, SMTT(30) DEF TopicNewFails, Finish
<1>3. ASSUME NEW t \in Threads, Find(t) PROVE Goal
  BY <1>3, SMTT(30) DEF Find
<1>4. ASSUME NEW t \in Threads, Insert(t) PROVE Goal
  <2>1. topic[t] \in Topics /\ rktopic[t] # 0
    BY <1>4, HeldObject, SMTT(30) DEF Insert
  <2>2. tree' = tree \/ tree' = [tree EXCEPT ![topic[t]] = rktopic[t]]
    BY <1>4, SMTT(30) DEF Insert
  <2>3. \A n \in Topics : tree[n] # 0 => tree'[n] # 0
    BY <2>1, <2>2, SMTT(30)
  <2>4. UNCHANGED <<topic, rktopic, object>> /\ (pc' = pc \/ Return(t))
    BY <1>4, SMTT(30) DEF Insert
  <2> QED
    BY <2>3, <2>4, SMTT(30) DEF Return
<1>5. ASSUME NEW t \in Threads, Drop(t) PROVE Goal
  BY <1>5, SMTT(30) DEF Drop, Return
<1>6. CASE ReleaseTree
  BY <1>6, SMTT(30) DEF ReleaseTree
<1>7. CASE DestroyInstance
  BY <1>7, SMTT(30) DEF DestroyInstance
<1>8. CASE UNCHANGED vars
  BY <1>8, SMTT(30) DEF vars
<1> QED
  BY <1>1, <1>2, <1>3, <1>4, <1>5, <1>6, <1>7, <1>8, ZenonT(40)
  DEF Next, ThreadStep, MainStep, Terminated

(* The tree keeps the latest objects, the ones that were returned. *)
LEMMA TreeStep ==
    ASSUME IInv, [Next]_vars
    PROVE  TreeLive'
<1>0. /\ ControlType /\ CallType /\ TopicType /\ TreeLive
      /\ pc[Main] # "run" => \A t \in Threads : pc[t] = "done"
  BY SMTT(30) DEF IInv, TypeOK, QuietDestroy
<1> USE <1>0, MainNotThread DEF ControlType, CallType, TopicType, Goto, TreeLive
<1>1. ASSUME NEW t \in Threads, NEW n \in Topics, TopicNew(t, n) PROVE TreeLive'
  <2>1. PICK o \in Candidates(n) : object' = [object EXCEPT ![n] = o]
    BY <1>1, ZenonT(40) DEF TopicNew
  <2>2. o \in Nat \ {0} /\ (tree[n] # 0 => o = object[n])
    BY CandidatesFound
  <2>3. UNCHANGED <<tree, returned>> /\ pc'[Main] = pc[Main]
    BY <1>1 DEF TopicNew
  <2>4. \A k \in Topics : object'[k] = IF k = n THEN o ELSE object[k]
    BY <2>1, SMTT(30)
  <2>5. \A k \in Topics : k # n => refcnt'[k] = refcnt[k]
    BY <1>1, SMTT(30) DEF TopicNew
  <2> QED
    BY <2>2, <2>3, <2>4, <2>5, SMTT(30)
<1>2. ASSUME NEW t \in Threads, TopicNewFails(t) \/ Find(t) \/ Finish(t) PROVE TreeLive'
  BY <1>2, SMTT(30) DEF TopicNewFails, Find, Finish
<1>3. ASSUME NEW t \in Threads, pc[t] \in {"insert", "drop"}, Insert(t) \/ Drop(t)
      PROVE  \A k \in Topics : refcnt'[k] > 0 => refcnt[k] > 0
  BY <1>3, SMTT(30) DEF Insert, Drop, TopicDestroy
<1>4. ASSUME NEW t \in Threads, Insert(t) PROVE TreeLive'
  <2>0. /\ topic[t] \in Topics /\ rktopic[t] # 0 /\ rktopic[t] = object[topic[t]]
        /\ pc[t] = "insert" /\ pc'[Main] = pc[Main] /\ object' = object
    BY <1>4, HeldObject, SMTT(30) DEF Insert, Return
  <2>1. \A k \in Topics : refcnt'[k] > 0 => object'[k] > 0
    BY <1>3, <1>4, <2>0, SMTT(30)
  <2>2. CASE tree[topic[t]] = 0
    <3>1. /\ tree' = [tree EXCEPT ![topic[t]] = rktopic[t]]
          /\ returned' = returned \cup {<<topic[t], rktopic[t]>>}
      BY <1>4, <2>2, SMTT(30) DEF Insert
    <3>2. \A k \in Topics : tree'[k] = IF k = topic[t] THEN rktopic[t] ELSE tree[k]
      BY <3>1, <2>0, SMTT(30)
    <3>3. pc[Main] = "run" => \A h \in returned : h[1] \in Topics /\ h[1] # topic[t]
      BY <2>2, SMTT(30)
    <3> QED
      BY <2>0, <2>1, <3>1, <3>2, <3>3, SMTT(30)
  <2>3. CASE tree[topic[t]] # 0
    <3>1. UNCHANGED <<tree, returned>>
      BY <1>4, <2>3, SMTT(30) DEF Insert
    <3> QED
      BY <2>0, <2>1, <3>1, SMTT(30)
  <2> QED
    BY <2>2, <2>3, SMTT(30)
<1>5. ASSUME NEW t \in Threads, Drop(t) PROVE TreeLive'
  <2>1. /\ pc[t] = "drop" /\ topic[t] \in Topics /\ rktopic[t] # 0
        /\ rktopic[t] = object[topic[t]] /\ tree[topic[t]] # 0
    BY <1>5, HeldObject, SMTT(30) DEF Drop, IInv, HoldsLive
  <2>2. /\ UNCHANGED <<tree, object>> /\ pc'[Main] = pc[Main]
        /\ returned' = returned \cup {<<topic[t], rktopic[t]>>}
    BY <1>5, SMTT(30) DEF Drop, Return
  <2> QED
    BY <1>3, <1>5, <2>1, <2>2, SMTT(30)
<1>6. CASE ReleaseTree
  BY <1>6, SMTT(30) DEF ReleaseTree, InTree
<1>7. CASE DestroyInstance
  BY <1>7, SMTT(30) DEF DestroyInstance
<1>8. CASE UNCHANGED vars
  BY <1>8, SMTT(30) DEF vars
<1> QED
  BY <1>1, <1>2, <1>4, <1>5, <1>6, <1>7, <1>8, ZenonT(40) DEF Next, ThreadStep, MainStep, Terminated

(* When destroy() has begun no call is running and the tree is empty. *)
LEMMA QuietStep ==
    ASSUME IInv, [Next]_vars
    PROVE  QuietDestroy'
<1>0. ControlType /\ CallType /\ TopicType /\ QuietDestroy
  BY SMTT(30) DEF IInv, TypeOK
<1> USE <1>0, MainNotThread DEF ControlType, CallType, TopicType, Goto, QuietDestroy
<1>1. ASSUME NEW t \in Threads, ThreadStep(t) PROVE QuietDestroy'
  <2>1. pc[t] # "done"
    BY <1>1, SMTT(30) DEF ThreadStep, TopicNew, TopicNewFails, Find, Insert, Drop, Finish
  <2>2. pc'[Main] = pc[Main]
    BY <1>1, SMTT(30) DEF ThreadStep, TopicNew, TopicNewFails, Find, Insert, Drop, Finish, Return
  <2> QED
    BY <2>1, <2>2, SMTT(30)
<1>2. CASE ReleaseTree
  BY <1>2, SMTT(30) DEF ReleaseTree
<1>3. CASE DestroyInstance
  BY <1>3, SMTT(30) DEF DestroyInstance
<1>4. CASE UNCHANGED vars
  BY <1>4 DEF vars
<1> QED
  BY <1>1, <1>2, <1>3, <1>4, SMTT(30) DEF Next, MainStep, Terminated

(* exit(-1) is called or it is not. *)
LEMMA ExitedStep ==
    ASSUME IInv, [Next]_vars
    PROVE  exited' \in BOOLEAN
<1>1. exited \in BOOLEAN
  BY SMTT(30) DEF IInv, TypeOK
<1>2. exited' = exited \/ exited' = TRUE
  BY ZenonT(40) DEF Next, ThreadStep, MainStep, Terminated, TopicNew, TopicNewFails, Find, Insert,
         Drop, Finish, ReleaseTree, DestroyInstance, vars
<1> QED
  BY <1>1, <1>2, Zenon

LEMMA IInvStep ==
    ASSUME IInv, [Next]_vars
    PROVE  IInv'
<1>1. /\ ControlType' /\ CallType'
      /\ object' \in [Topics -> Nat] /\ tree' \in [Topics -> Nat]
      /\ returned' \subseteq Topics \X Nat
      /\ refcnt' \in [Topics -> Int]
  BY TypeStep
<1>2. RefcntExact'
  BY RefcntStep, SMTT(30)
<1>3. \A n \in Topics : refcnt'[n] \in Nat
  <2>1. \A n \in Topics : Cardinality(Holding(n)') \in Nat
    <3>1. ASSUME NEW n \in Topics PROVE IsFiniteSet(Holding(n)')
      <4>1. Holding(n)' \subseteq Threads
        BY DEF Holding
      <4> QED
        BY <4>1, TopicCacheAssumption, FS_Subset, SMTT(30)
    <3> QED
      BY <3>1, FS_CardinalityType, SMTT(30)
  <2> QED
    BY <1>2, <2>1 DEF RefcntExact, InTree
<1>4. refcnt' \in [Topics -> Nat]
  BY <1>1, <1>3, SMTT(30)
<1>5. TopicType'
  BY <1>1, <1>4 DEF TopicType
<1>6. TypeOK'
  BY <1>1, <1>5, ExitedStep, Zenon DEF TypeOK
<1> QED
  BY <1>2, <1>6, HoldsStep, TreeStep, QuietStep DEF IInv

-----------------------------------------------------------------------------
(* The inductive invariant holds in every behaviour, for any number of     *)
(* topics, calls and threads, for the producer and for the consumer.       *)
THEOREM Invariance == Spec => []IInv
<1>1. Init => IInv
  BY IInvInit
<1>2. IInv /\ [Next]_vars => IInv'
  BY IInvStep
<1> QED
  BY <1>1, <1>2, PTL DEF Spec

(* Types; no reference count of a topic is ever below zero. *)
THEOREM TypeCorrect == Spec => []TypeOK
<1>1. IInv => TypeOK
  BY DEF IInv
<1> QED
  BY <1>1, Invariance, PTL

(* get_topic() neither leaks a reference nor drops one twice, wherever     *)
(* calls interleave between its operations on the tree.                    *)
THEOREM NoLeak == Spec => []RefcntExact
<1>1. IInv => RefcntExact
  BY SMTT(30) DEF IInv
<1> QED
  BY <1>1, Invariance, PTL

(* Until destroy() a handle that get_topic() returned is the live object   *)
(* of its topic.                                                           *)
THEOREM HandlesStayAlive == Spec => []HandlesAlive
<1>1. IInv => HandlesAlive
  <2> SUFFICES ASSUME IInv, pc[Main] = "run", NEW h \in returned
               PROVE  refcnt[h[1]] > 0 /\ object[h[1]] = h[2] /\ tree[h[1]] = h[2]
    BY SMTT(30) DEF HandlesAlive
  <2>1. h[1] \in Topics /\ tree[h[1]] = h[2] /\ h[2] # 0
    BY SMTT(30) DEF IInv, TypeOK, TopicType, TreeLive
  <2>2. object[h[1]] = h[2]
    BY <2>1, SMTT(30) DEF IInv, TreeLive
  <2>3. refcnt[h[1]] > 0
    BY <2>1, HoldingFinite, SMTT(30) DEF IInv, RefcntExact, InTree
  <2> QED
    BY <2>1, <2>2, <2>3, SMTT(30)
<1> QED
  BY <1>1, Invariance, PTL

(* Once destroy() has released the tree no application reference is left. *)
THEOREM DestroyReleasesAll == Spec => []AllReleased
<1>1. IInv => AllReleased
  <2> SUFFICES ASSUME IInv, pc[Main] # "run", NEW n \in Topics
               PROVE  refcnt[n] = 0
    BY SMTT(30) DEF AllReleased
  <2>1. tree[n] = 0 /\ Holding(n) = {}
    BY SMTT(30) DEF IInv, QuietDestroy, Holding
  <2>2. Cardinality(Holding(n)) = 0
    BY <2>1, FS_EmptySet
  <2> QED
    BY <2>1, <2>2, SMTT(30) DEF IInv, RefcntExact, InTree
<1> QED
  BY <1>1, Invariance, PTL

(* In a client that one thread uses, as produce.c and consume.c use        *)
(* theirs, the insertion never fails and the producer never calls exit(-1).*)
THEOREM OneCallerNeverExits ==
    ASSUME \A t, u \in Threads : t = u
    PROVE  Spec => []NeverExits
<1>1. Init => OneCallerInv
  BY MainNotThread, SMTT(30) DEF Init, OneCallerInv, Actors
<1>2. ASSUME IInv, OneCallerInv, [Next]_vars PROVE OneCallerInv'
  <2>0. /\ ControlType /\ CallType /\ TopicType
        /\ ~exited
        /\ \A t \in Threads : pc[t] = "insert" => tree[topic[t]] = 0
    BY <1>2, SMTT(30) DEF IInv, TypeOK, OneCallerInv
  <2> USE <2>0, MainNotThread DEF ControlType, CallType, TopicType, Goto, OneCallerInv
  <2>1. ASSUME NEW t \in Threads, NEW n \in Topics, TopicNew(t, n) PROVE OneCallerInv'
    BY <2>1, ZenonT(40) DEF TopicNew
  <2>2. ASSUME NEW t \in Threads, TopicNewFails(t) \/ Find(t) \/ Finish(t) PROVE OneCallerInv'
    <3>1. UNCHANGED <<exited, tree, topic>>
      BY <2>2, Zenon DEF TopicNewFails, Find, Finish
    <3>2. ASSUME NEW u \in Threads, pc'[u] = "insert"
          PROVE  tree[topic[u]] = 0
      BY <2>2, <3>2, SMTT(30) DEF TopicNewFails, Find, Finish
    <3> QED
      BY <3>1, <3>2, Zenon
  <2>3. ASSUME NEW t \in Threads, Insert(t) PROVE OneCallerInv'
    <3>1. pc[t] = "insert" /\ tree[topic[t]] = 0 /\ Return(t) /\ exited' = exited
      BY <2>3, SMTT(30) DEF Insert
    <3>2. \A u \in Threads : pc'[u] # "insert"
      BY <3>1, ZenonT(40) DEF Return
    <3> QED
      BY <3>1, <3>2, ZenonT(40)
  <2>4. ASSUME NEW t \in Threads, Drop(t) PROVE OneCallerInv'
    BY <2>4, ZenonT(40) DEF Drop, Return
  <2>5. CASE MainStep
    <3>1. \A u \in Threads : pc'[u] # "insert"
      BY <1>2, <2>5, ZenonT(40) DEF MainStep, ReleaseTree, DestroyInstance, IInv, QuietDestroy
    <3>2. exited' = exited
      BY <2>5, Zenon DEF MainStep, ReleaseTree, DestroyInstance
    <3> QED
      BY <3>1, <3>2, Zenon
  <2>6. CASE UNCHANGED vars
    BY <2>6, SMTT(30) DEF vars
  <2> QED
    BY <1>2, <2>1, <2>2, <2>3, <2>4, <2>5, <2>6, ZenonT(40) DEF Next, ThreadStep, Terminated
<1>3. OneCallerInv => NeverExits
  BY Zenon DEF OneCallerInv, NeverExits
<1> QED
  BY <1>1, <1>2, <1>3, Invariance, PTL DEF Spec
=============================================================================
