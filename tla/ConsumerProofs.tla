--------------------------- MODULE ConsumerProofs ---------------------------
(***************************************************************************)
(* NothingLeaks, ReleasedOnce and ClientLast of Consumer hold for every    *)
(* topics and properties argument and every set of topic names: what is    *)
(* allocated, and who owns it, is a function of the point control is at.   *)
(***************************************************************************)
EXTENDS Consumer, TLAPS

(* What the locals of create and the consumer object own at each point, *)
(* and that this is all there is.                                       *)
Owned ==
    /\ pc \in {"start", "topics", "props", "new", "brokers", "mutex", "created",
               "destroying", "destroyed", "failed"}
    /\ pc = "start" => live = {} /\ local = {} /\ field = {}
    /\ pc = "topics" => live = {"consumer", "tp_list"} /\ local = {"tp_list"} /\ field = {}
    /\ pc = "props" => /\ live = {"consumer", "tp_list", "conf", "topic_conf"}
                       /\ local = {"tp_list", "conf", "topic_conf"} /\ field = {}
    /\ pc = "new" => /\ live = {"consumer", "tp_list", "conf"}
                     /\ local = {"tp_list", "conf"} /\ field = {}
    /\ pc = "brokers" => /\ live = {"consumer", "tp_list", "rk"}
                         /\ local = {"tp_list", "rkConsumer"} /\ field = {}
    /\ pc = "mutex" => /\ live = {"consumer", "tp_list", "rk"}
                       /\ local = {} /\ field = {"tp_list", "rkConsumer"}
    /\ pc = "created" => live \ {"app_conf"} = {"consumer", "tp_list", "rk"}
    /\ pc = "destroying" => live = {"consumer", "rk"}
    /\ pc \in {"failed", "destroyed"} => live = {}
    /\ misused = {}

(* The application has one reference to each topic of the tree, and the *)
(* tree is empty but between create and destroy.                        *)
OneRefEach ==
    /\ tree \subseteq Names
    /\ pc # "created" => tree = {}
    /\ refs = [n \in Names |-> IF n \in tree THEN 1 ELSE 0]

Inv == Owned /\ OneRefEach

(* create() starts with nothing. *)
LEMMA InitInv == Init => Inv
  BY DEF Init, Inv, Owned, OneRefEach

(* An exit of create() through on_error_result frees everything, and      *)
(* nothing twice, whichever of the points before the return it leaves     *)
(* from.                                                                  *)
LEMMA ErrorReleasesAll ==
    ASSUME NEW code, Owned, Error(code),
           pc \in {"topics", "props", "new", "brokers", "mutex"}
    PROVE  Owned'
<1> USE DEF Owned, Error, Object
<1>1. CASE pc = "topics"
  BY <1>1
<1>2. CASE pc = "props"
  BY <1>2
<1>3. CASE pc = "new"
  BY <1>3
<1>4. CASE pc = "brokers"
  BY <1>4
<1>5. CASE pc = "mutex"
  BY <1>5
<1> QED
  BY <1>1, <1>2, <1>3, <1>4, <1>5

(* An exit through on_error_result leaves the topics alone: there are     *)
(* none yet.                                                              *)
LEMMA ErrorKeepsRefs ==
    ASSUME NEW code, OneRefEach, Error(code), UNCHANGED use,
           pc \in {"topics", "props", "new", "brokers", "mutex"}
    PROVE  OneRefEach'
  BY DEF OneRefEach, Error, use

(* Every step keeps the ownership and the references. *)
LEMMA NextInv == Inv /\ [Next]_vars => Inv'
<1> SUFFICES ASSUME Owned, OneRefEach, [Next]_vars
             PROVE  Owned' /\ OneRefEach'
  BY DEF Inv
<1> USE DEF use
<1>1. CASE Create
  BY <1>1 DEF Create, Owned, OneRefEach
<1>2. CASE AddTopic
  <2>1. CASE TooLong(topics[i + 1])
    BY <1>2, <2>1, ErrorReleasesAll, ErrorKeepsRefs DEF AddTopic
  <2>2. CASE ~TooLong(topics[i + 1])
    BY <1>2, <2>2 DEF AddTopic, Owned, OneRefEach
  <2> QED
    BY <2>1, <2>2
<1>3. CASE ConfNew
  BY <1>3 DEF ConfNew, Owned, OneRefEach
<1>4. CASE SetProp
  <2>1. CASE SetResult(props[i + 1]) = "OK"
    BY <1>4, <2>1 DEF SetProp, Owned, OneRefEach
  <2>2. CASE SetResult(props[i + 1]) # "OK"
    BY <1>4, <2>2, ErrorReleasesAll, ErrorKeepsRefs DEF SetProp
  <2> QED
    BY <2>1, <2>2
<1>5. CASE SetGroup
  BY <1>5 DEF SetGroup, Owned, OneRefEach
<1>6. CASE SetGroupFails
  BY <1>6, ErrorReleasesAll, ErrorKeepsRefs DEF SetGroupFails
<1>7. CASE KafkaNew
  BY <1>7 DEF KafkaNew, Owned, OneRefEach
<1>8. CASE KafkaNewFails
  BY <1>8, ErrorReleasesAll, ErrorKeepsRefs DEF KafkaNewFails
<1>9. CASE NoBrokerAdded
  BY <1>9, ErrorReleasesAll, ErrorKeepsRefs DEF NoBrokerAdded
<1>10. CASE HandOver
  <2>1. CASE group
    BY <1>10, <2>1 DEF HandOver, Owned, OneRefEach
  <2>2. CASE ~group
    BY <1>10, <2>2, ErrorReleasesAll, ErrorKeepsRefs DEF HandOver
  <2> QED
    BY <2>1, <2>2
<1>11. CASE MutexInit
  BY <1>11 DEF MutexInit, Owned, OneRefEach
<1>12. CASE MutexInitFails
  BY <1>12, ErrorReleasesAll, ErrorKeepsRefs DEF MutexInitFails
<1>13. CASE NewTopicConf
  BY <1>13 DEF NewTopicConf, Owned, OneRefEach
<1>14. CASE NewTopicConfFails
  BY <1>14 DEF NewTopicConfFails, Owned, OneRefEach
<1>15. CASE \E n \in Names : GetTopic(n)
  <2> PICK n \in Names : GetTopic(n)
    BY <1>15
  <2>1. Owned'
    BY DEF GetTopic, Owned
  <2>2. tree' \subseteq Names /\ pc' = "created"
    BY DEF GetTopic, OneRefEach
  <2>3. refs' = [k \in Names |-> IF k \in tree' THEN 1 ELSE 0]
    BY DEF GetTopic, OneRefEach
  <2> QED
    BY <2>1, <2>2, <2>3 DEF OneRefEach
<1>16. CASE GetTopicFails
  BY <1>16 DEF GetTopicFails, Owned, OneRefEach
<1>17. CASE ReleaseTopics
  <2>1. Owned'
    BY <1>17 DEF ReleaseTopics, Owned
  <2>2. refs' = [k \in Names |-> IF k \in tree' THEN 1 ELSE 0]
    BY <1>17 DEF ReleaseTopics, OneRefEach
  <2> QED
    BY <1>17, <2>1, <2>2 DEF ReleaseTopics, OneRefEach
<1>18. CASE DestroyClient
  BY <1>18 DEF DestroyClient, Owned, OneRefEach
<1>19. CASE Terminated
  BY <1>19 DEF Terminated, vars, Owned, OneRefEach
<1>20. CASE UNCHANGED vars
  BY <1>20 DEF vars, Owned, OneRefEach
<1> QED
  BY <1>1, <1>2, <1>3, <1>4, <1>5, <1>6, <1>7, <1>8, <1>9, <1>10, <1>11, <1>12,
     <1>13, <1>14, <1>15, <1>16, <1>17, <1>18, <1>19, <1>20 DEF Next

(* Ownership and references are as Inv says in every reachable state. *)
LEMMA AlwaysInv == Spec => []Inv
  BY InitInv, NextInv, PTL DEF Spec

(* Whichever call inside kafkatools_consumer_create() fails, and for any  *)
(* arguments, nothing is left allocated; nor after destroy.               *)
THEOREM SpecNothingLeaks == Spec => []NothingLeaks
<1>1. Inv => NothingLeaks
  BY DEF Inv, Owned, NothingLeaks
<1> QED
  BY <1>1, AlwaysInv, PTL

(* No exit of kafkatools_consumer_create() frees an object twice or one    *)
(* that was handed over, and destroy frees what create returned.           *)
THEOREM SpecReleasedOnce == Spec => []ReleasedOnce
<1>1. Inv => ReleasedOnce
  BY DEF Inv, Owned, ReleasedOnce
<1> QED
  BY <1>1, AlwaysInv, PTL

(* rd_kafka_destroy() never runs while the application holds a reference  *)
(* to a topic, however often kafkatools_consumer_get_topic() was called.  *)
THEOREM SpecClientLast == Spec => []ClientLast
<1>1. Inv => ClientLast
  BY DEF Inv, Owned, OneRefEach, ClientLast
<1> QED
  BY <1>1, AlwaysInv, PTL
=============================================================================
