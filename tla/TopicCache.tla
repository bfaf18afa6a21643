----------------------------- MODULE TopicCache -----------------------------
(***************************************************************************)
(* Topic handles: kafkatools_producer_get_topic() and                      *)
(* kafkatools_consumer_get_topic(), which keep one reference to every      *)
(* topic in the red-black tree of the producer or consumer, and the part   *)
(* of destroy that gives the references back.  Of librdkafka there is the  *)
(* application reference count of a topic object: rd_kafka_topic_new()     *)
(* adds one and finds the object of that name or makes a new one,          *)
(* rd_kafka_topic_destroy() drops one; at zero the object may go.          *)
(*                                                                         *)
(* The tree is a map from names to objects; an object is a number, new for *)
(* every object of the same name.  get_topic() takes no lock, so calls of  *)
(* several threads interleave; each operation on the tree is one step,     *)
(* which for several threads is the best case: unlocked, the operations    *)
(* race on the memory of the tree as well.                                 *)
(***************************************************************************)
EXTENDS Integers, FiniteSets

CONSTANTS
    Threads,    \* application threads that ask for topics
    Main,       \* the thread that destroys the producer or consumer
    Topics,     \* topic names
    MaxCalls,   \* get_topic() calls of each thread
    Roles       \* which get_topic() it is: "producer", "consumer"

ASSUME TopicCacheAssumption ==
    /\ IsFiniteSet(Threads)
    /\ Main \notin Threads
    /\ MaxCalls \in Nat
    /\ Roles \subseteq {"producer", "consumer"}

VARIABLES
    role,       \* producer or consumer
    pc,         \* control point of every thread, and of Main
    calls,      \* calls[t]: get_topic() calls of thread t so far
    topic,      \* topic[t]: topic_name of the running call
    rktopic,    \* rktopic[t]: the object the running call got
    object,     \* object[n]: latest object of name n, 0 if there was none
    refcnt,     \* refcnt[n]: rkt_app_refcnt of that object
    tree,       \* tree[n]: object under name n in rktopic_tree, or 0
    returned,   \* <<name, object>> pairs handed to the application
    exited      \* exit(-1) was called

vars == <<role, pc, calls, topic, rktopic, object, refcnt, tree, returned, exited>>

Actors == Threads \cup {Main}

(* Threads whose running call holds a reference to topic n. *)
Holding(n) == {t \in Threads : pc[t] \in {"find", "insert", "drop"} /\ topic[t] = n}

InTree(n) == IF tree[n] # 0 THEN 1 ELSE 0

Init ==
    /\ role \in Roles
    /\ pc = [p \in Actors |-> IF p = Main THEN "run" ELSE "idle"]
    /\ calls = [t \in Threads |-> 0]
    /\ topic \in [Threads -> Topics]
    /\ rktopic = [t \in Threads |-> 0]
    /\ object = [n \in Topics |-> 0]
    /\ refcnt = [n \in Topics |-> 0]
    /\ tree = [n \in Topics |-> 0]
    /\ returned = {}
    /\ exited = FALSE

Goto(p, to) == pc' = [pc EXCEPT ![p] = to]

(* rd_kafka_topic_destroy(): drop one application reference. *)
TopicDestroy(n) == refcnt' = [refcnt EXCEPT ![n] = @ - 1]

(* Definitions named X_Y are X with the plausible mistake Y; they show     *)
(* that the properties below notice it, and no specification uses them.    *)

(* The call is over: back to the application. *)
Return(t) == Goto(t, "idle")

-----------------------------------------------------------------------------
(* What rd_kafka_topic_new() may return for n: the object the application  *)
(* has references to; without one, a new object, or the old one if         *)
(* librdkafka itself still keeps it.                                       *)
Candidates(n) ==
    IF refcnt[n] > 0 THEN {object[n]} ELSE {object[n] + 1} \cup ({object[n]} \ {0})

(* get_topic(n): rd_kafka_topic_new() finds the object or makes one... *)
TopicNew(t, n) ==
    /\ pc[t] = "idle"
    /\ calls[t] < MaxCalls
    /\ calls' = [calls EXCEPT ![t] = @ + 1]
    /\ topic' = [topic EXCEPT ![t] = n]
    /\ refcnt' = [refcnt EXCEPT ![n] = @ + 1]
    /\ \E o \in Candidates(n) :
           /\ object' = [object EXCEPT ![n] = o]
           /\ rktopic' = [rktopic EXCEPT ![t] = o]
    /\ Goto(t, "find")
    /\ UNCHANGED <<role, tree, returned, exited>>

(* ... or fails, on a bad name or configuration: get_topic() is NULL. *)
TopicNewFails(t) ==
    /\ pc[t] = "idle"
    /\ calls[t] < MaxCalls
    /\ calls' = [calls EXCEPT ![t] = @ + 1]
    /\ UNCHANGED <<role, pc, topic, rktopic, object, refcnt, tree, returned, exited>>

Find_Skipped(t) ==
    /\ pc[t] = "find"
    /\ Goto(t, "insert")
    /\ UNCHANGED <<role, calls, topic, rktopic, object, refcnt, tree, returned, exited>>

(* rbtree_find() by name. *)
Find(t) ==
    /\ pc[t] = "find"
    /\ Goto(t, IF tree[topic[t]] = 0 THEN "insert" ELSE "drop")
    /\ UNCHANGED <<role, calls, topic, rktopic, object, refcnt, tree, returned, exited>>

(* rbtree_insert_unique() of a topic that was not found: the reference now *)
(* belongs to the tree.  Should the name be there after all, the producer  *)
(* exits and the consumer drops its reference and returns NULL.            *)
Insert(t) ==
    /\ pc[t] = "insert"
    /\ LET n == topic[t] IN
       IF tree[n] = 0
       THEN /\ tree' = [tree EXCEPT ![n] = rktopic[t]]
            /\ returned' = returned \cup {<<n, rktopic[t]>>}
            /\ Return(t)
            /\ UNCHANGED <<refcnt, exited>>
       ELSE /\ IF role = "producer"
               THEN exited' = TRUE /\ UNCHANGED <<pc, refcnt>>
               ELSE TopicDestroy(n) /\ Return(t) /\ UNCHANGED exited
            /\ UNCHANGED <<tree, returned>>
    /\ UNCHANGED <<role, calls, topic, rktopic, object>>

Drop_Twice(t) ==
    /\ pc[t] = "drop"
    /\ refcnt' = [refcnt EXCEPT ![topic[t]] = @ - 2]
    /\ returned' = returned \cup {<<topic[t], rktopic[t]>>}
    /\ Return(t)
    /\ UNCHANGED <<role, calls, topic, rktopic, object, tree, exited>>

Drop_Never(t) ==
    /\ pc[t] = "drop"
    /\ returned' = returned \cup {<<topic[t], rktopic[t]>>}
    /\ Return(t)
    /\ UNCHANGED <<role, calls, topic, rktopic, object, refcnt, tree, exited>>

(* The topic was found: the tree's reference is enough.  What the call     *)
(* returns is its own rktopic, not the object in the tree.                 *)
Drop(t) ==
    /\ pc[t] = "drop"
    /\ TopicDestroy(topic[t])
    /\ returned' = returned \cup {<<topic[t], rktopic[t]>>}
    /\ Return(t)
    /\ UNCHANGED <<role, calls, topic, rktopic, object, tree, exited>>

Finish(t) ==
    /\ pc[t] = "idle"
    /\ calls[t] = MaxCalls
    /\ Goto(t, "done")
    /\ UNCHANGED <<role, calls, topic, rktopic, object, refcnt, tree, returned, exited>>

-----------------------------------------------------------------------------
ReleaseTree_OnlyCleans ==
    /\ pc[Main] = "run"
    /\ \A t \in Threads : pc[t] = "done"
    /\ tree' = [n \in Topics |-> 0]
    /\ Goto(Main, "clean")
    /\ UNCHANGED <<role, calls, topic, rktopic, object, refcnt, returned, exited>>

(* destroy(): rktopic_object_release() on every node, then rbtree_clean()... *)
ReleaseTree ==
    /\ pc[Main] = "run"
    /\ \A t \in Threads : pc[t] = "done"
    /\ refcnt' = [n \in Topics |-> refcnt[n] - InTree(n)]
    /\ tree' = [n \in Topics |-> 0]
    /\ Goto(Main, "clean")
    /\ UNCHANGED <<role, calls, topic, rktopic, object, returned, exited>>

(* ... then rd_kafka_destroy(), and the structure is freed. *)
DestroyInstance ==
    /\ pc[Main] = "clean"
    /\ Goto(Main, "dead")
    /\ UNCHANGED <<role, calls, topic, rktopic, object, refcnt, tree, returned, exited>>

(* The process has ended. *)
Terminated ==
    /\ exited \/ pc[Main] = "dead"
    /\ UNCHANGED vars

ThreadStep(t) ==
    \/ \E n \in Topics : TopicNew(t, n)
    \/ TopicNewFails(t) \/ Find(t) \/ Insert(t) \/ Drop(t) \/ Finish(t)

MainStep == ReleaseTree \/ DestroyInstance

Next ==
    \/ ~exited /\ \E t \in Threads : ThreadStep(t)
    \/ ~exited /\ MainStep
    \/ Terminated

Spec == Init /\ [][Next]_vars

-----------------------------------------------------------------------------
(* Properties. *)

ControlType ==
    /\ role \in Roles
    /\ pc \in [Actors -> {"idle", "find", "insert", "drop", "done", "run", "clean", "dead"}]
    /\ \A t \in Threads : pc[t] \in {"idle", "find", "insert", "drop", "done"}
    /\ pc[Main] \in {"run", "clean", "dead"}

CallType ==
    /\ calls \in [Threads -> 0 .. MaxCalls]
    /\ topic \in [Threads -> Topics]
    /\ rktopic \in [Threads -> Nat]

TopicType ==
    /\ object \in [Topics -> Nat]
    /\ refcnt \in [Topics -> Nat]
    /\ tree \in [Topics -> Nat]
    /\ returned \subseteq Topics \X Nat

(* Every variable keeps its type; in particular no reference count of a    *)
(* topic drops below zero (kafkatools_producer.c:608).                     *)
TypeOK == ControlType /\ CallType /\ TopicType /\ exited \in BOOLEAN

(* The reference count of a topic is exactly what the tree and the running *)
(* calls hold: no path through get_topic() (kafkatools_producer.c:585-612, *)
(* kafkatools_consumer.c:406-434) leaks a reference or drops one twice.    *)
RefcntExact ==
    \A n \in Topics : refcnt[n] = InTree(n) + Cardinality(Holding(n))

(* Every handle get_topic() has returned is the live object of its name    *)
(* until destroy releases the tree, although the call gave its own         *)
(* reference back (kafkatools_producer.c:608): all callers share one       *)
(* object per topic.                                                       *)
HandlesAlive ==
    pc[Main] = "run" =>
        \A h \in returned : refcnt[h[1]] > 0 /\ object[h[1]] = h[2] /\ tree[h[1]] = h[2]

(* No reference outlives the client: destroy() gives back the tree's       *)
(* references before rd_kafka_destroy() (kafkatools_producer.c:527-533).   *)
AllReleased ==
    pc[Main] # "run" => \A n \in Topics : refcnt[n] = 0

(* In a client one thread uses, kafkatools_producer_get_topic() never gets *)
(* to the insertion that fails (kafkatools_producer.c:603, "should never   *)
(* run to this!"): what rbtree_find() does not find can be inserted.       *)
NeverExits == ~exited

-----------------------------------------------------------------------------
(* The inductive invariant. *)

(* A call that holds a reference holds it to the live object. *)
HoldsLive ==
    \A t \in Threads : pc[t] \in {"find", "insert", "drop"} =>
        /\ rktopic[t] = object[topic[t]]
        /\ pc[t] = "drop" => tree[topic[t]] # 0

(* The tree holds live objects, and every object returned is in the tree. *)
TreeLive ==
    /\ \A n \in Topics : tree[n] # 0 => tree[n] = object[n]
    /\ \A n \in Topics : refcnt[n] > 0 => object[n] > 0
    /\ pc[Main] = "run" => \A h \in returned : tree[h[1]] = h[2] /\ h[2] # 0

(* The threads are done when destroy() begins. *)
QuietDestroy ==
    pc[Main] # "run" => /\ \A t \in Threads : pc[t] = "done"
                        /\ \A n \in Topics : tree[n] = 0

IInv == TypeOK /\ RefcntExact /\ HoldsLive /\ TreeLive /\ QuietDestroy

(* With one caller, nothing comes between find and insert. *)
OneCallerInv ==
    /\ ~exited
    /\ \A t \in Threads : pc[t] = "insert" => tree[topic[t]] = 0

=============================================================================
