------------------------------ MODULE Consumer ------------------------------
(***************************************************************************)
(* How a consumer comes to be and ends: kafkatools_consumer_create(),      *)
(* which builds the list of topic partitions from its topics argument,     *)
(* configures and creates the client and hands both over to the consumer   *)
(* object; the calls an application makes on it; and                       *)
(* kafkatools_consumer_destroy(), which is also create's error exit.       *)
(*                                                                         *)
(* A topics argument is a text, a sequence of tokens: a name, ":", "-" or  *)
(* a number.  live holds what is allocated; an object that another one has *)
(* taken over (topic_conf by conf, conf by the client) leaves it.  misused *)
(* collects what was released without being owned.                         *)
(***************************************************************************)
EXTENDS Integers, Sequences, FiniteSetsExt

CONSTANTS
    TOPICS_MAX,     \* KAFKATOOLS_TOPICS_MAX
    PROPS_MAX,      \* KAFKATOOLS_CONF_PROPS_MAX
    NAMELEN,        \* KAFKATOOLS_TOPIC_NAMELEN
    IDLEN,          \* sizeof(p), the buffer for the start id
    Width,          \* characters of every token
    NumberOf,       \* the number a token of digits stands for
    Names,          \* topic names
    TopicArgs,      \* topics arguments: sequences of texts
    PropArgs        \* names and values arguments: sequences of properties

ASSUME ConsumerAssumption ==
    /\ TOPICS_MAX \in Nat /\ PROPS_MAX \in Nat /\ NAMELEN \in Nat /\ IDLEN \in Nat
    /\ \A token \in DOMAIN NumberOf : NumberOf[token] \in Nat
    /\ Names \cap (DOMAIN NumberOf \cup {":", "-"}) = {}

VARIABLES
    topics, props, groupid, brokers,    \* the arguments of create
    pc,         \* control point
    i,          \* topics or properties done
    list,       \* what tp_list holds: <<topic, partition>> pairs
    local,      \* local pointers of create that are not NULL
    field,      \* pointers of the consumer object that are not NULL
    group,      \* is group.id set in conf?
    result,     \* what create returned
    live, misused,
    tree,       \* topics in rktopic_tree
    refs,       \* refs[n]: application references to topic n
    errcode     \* consumer->errcode

args == <<topics, props, groupid, brokers>>
use  == <<tree, refs, errcode>>
vars == <<args, pc, i, list, local, field, group, result, live, misused, use>>

Init ==
    /\ topics \in TopicArgs
    /\ props \in PropArgs
    /\ groupid \in BOOLEAN
    /\ brokers \in BOOLEAN
    /\ pc = "start"
    /\ i = 0
    /\ list = <<>>
    /\ local = {} /\ field = {}
    /\ group = FALSE
    /\ result = "none"
    /\ live = {} /\ misused = {}
    /\ tree = {}
    /\ refs = [n \in Names |-> 0]
    /\ errcode = "SUCCESS"

-----------------------------------------------------------------------------
(* The partitions of a topics argument.                                    *)
(* Definitions named X_Y are X with the plausible mistake Y; they show     *)
(* that the properties below notice it, and no specification uses them.    *)

Chars(text) == MapThenSumSet(LAMBDA k : Width[text[k]], DOMAIN text)

(* strchr(): the position of c in the text at or after k, 0 for NULL. *)
StrChr(text, c, k) ==
    LET found == {j \in k .. Len(text) : text[j] = c}
    IN  IF found = {} THEN 0 ELSE Min(found)

(* atoi(): the number the text starts with, 0 if it does not. *)
Atoi(text) ==
    IF text # <<>> /\ text[1] \in DOMAIN NumberOf THEN NumberOf[text[1]] ELSE 0

AddRange_Exclusive(topic, start, stop) ==
    [k \in 1 .. stop - start |-> <<topic, start + k - 1>>]

(* rd_kafka_topic_partition_list_add_range() *)
AddRange(topic, start, stop) ==
    [k \in 1 .. stop - start + 1 |-> <<topic, start + k - 1>>]

(* One element of topics: the texts given to atoi() for the first id start *)
(* at the ':'.                                                             *)
Parse(text) ==
    LET id == StrChr(text, ":", 1)
        q  == StrChr(text, "-", id)
        startid == Atoi(SubSeq(text, id, q - 1))
        stopid  == Atoi(SubSeq(text, q + 1, Len(text)))
    IN  IF id = 0 THEN << <<text[1], -1>> >>
        ELSE IF q = 0 THEN << <<text[1], Atoi(SubSeq(text, id, Len(text)))>> >>
        ELSE IF startid < stopid THEN AddRange(text[1], startid, stopid)
        ELSE AddRange(text[1], stopid, startid)

(* A name or a start id that does not fit its buffer. *)
TooLong(text) ==
    LET id == StrChr(text, ":", 1)
        q  == StrChr(text, "-", id)
    IN  /\ id # 0
        /\ \/ Chars(SubSeq(text, 1, id - 1)) > NAMELEN
           \/ q # 0 /\ Chars(SubSeq(text, id, q - 1)) >= IDLEN

-----------------------------------------------------------------------------
(* kafkatools_consumer_create() *)

(* The object a pointer points to. *)
Object(pointer) == IF pointer = "rkConsumer" THEN "rk" ELSE pointer

Error_ForgetsLocals(code) ==
    /\ live' = live \ ({"consumer"} \cup {Object(p) : p \in field})
    /\ misused' = misused
    /\ local' = {} /\ field' = {}
    /\ result' = code
    /\ pc' = "failed"

(* on_error_result: destroy the consumer with what it was handed, then     *)
(* what the local pointers still hold.                                     *)
Error(code) ==
    LET mine   == {Object(p) : p \in local}
        theirs == {"consumer"} \cup {Object(p) : p \in field}
    IN  /\ live' = live \ (mine \cup theirs)
        /\ misused' = misused \cup ((mine \cup theirs) \ live) \cup (mine \cap theirs)
        /\ local' = {} /\ field' = {}
        /\ result' = code
        /\ pc' = "failed"

(* The consumer object, all zero, and the list. *)
Create ==
    /\ pc = "start"
    /\ live' = {"consumer", "tp_list"}
    /\ local' = {"tp_list"}
    /\ pc' = "topics"
    /\ UNCHANGED <<args, i, list, field, group, result, misused, use>>

MoreTopics == i < TOPICS_MAX /\ i < Len(topics)

AddTopic ==
    /\ pc = "topics"
    /\ MoreTopics
    /\ IF TooLong(topics[i + 1])
       THEN Error("EARG") /\ UNCHANGED <<i, list>>
       ELSE /\ list' = list \o Parse(topics[i + 1])
            /\ i' = i + 1
            /\ UNCHANGED <<pc, local, field, result, live, misused>>
    /\ UNCHANGED <<args, group, use>>

ConfNew ==
    /\ pc = "topics"
    /\ ~MoreTopics
    /\ live' = live \cup {"conf", "topic_conf"}
    /\ local' = local \cup {"conf", "topic_conf"}
    /\ i' = 0
    /\ pc' = "props"
    /\ UNCHANGED <<args, list, field, group, result, misused, use>>

MoreProps == i < PROPS_MAX /\ i < Len(props)

(* A "topic." property is tried on the topic configuration, and on the     *)
(* global one if it is unknown there; any other on the global one.         *)
SetResult(p) == IF p.prefixed /\ p.topic # "UNKNOWN" THEN p.topic ELSE p.global

SetProp ==
    /\ pc = "props"
    /\ MoreProps
    /\ IF SetResult(props[i + 1]) = "OK"
       THEN /\ i' = i + 1
            /\ group' = (group \/ props[i + 1].group)
            /\ UNCHANGED <<pc, local, field, result, live, misused>>
       ELSE Error("ECONF") /\ UNCHANGED <<i, group>>
    /\ UNCHANGED <<args, list, use>>

(* group.id; then conf takes over the topic configuration. *)
SetGroup ==
    /\ pc = "props"
    /\ ~MoreProps
    /\ group' = (group \/ groupid)
    /\ local' = local \ {"topic_conf"}
    /\ live' = live \ {"topic_conf"}
    /\ pc' = "new"
    /\ UNCHANGED <<args, i, list, field, result, misused, use>>

SetGroupFails ==
    /\ pc = "props"
    /\ ~MoreProps
    /\ groupid
    /\ Error("ECONF")
    /\ UNCHANGED <<args, i, list, group, use>>

(* rd_kafka_new() takes conf over, or fails and leaves it. *)
KafkaNew ==
    /\ pc = "new"
    /\ local' = (local \ {"conf"}) \cup {"rkConsumer"}
    /\ live' = (live \ {"conf"}) \cup {"rk"}
    /\ pc' = "brokers"
    /\ UNCHANGED <<args, i, list, field, group, result, misused, use>>

KafkaNewFails ==
    /\ pc = "new"
    /\ Error("ENOMEM")
    /\ UNCHANGED <<args, i, list, group, use>>

NoBrokerAdded ==
    /\ pc = "brokers"
    /\ brokers
    /\ Error("ERROR")
    /\ UNCHANGED <<args, i, list, group, use>>

HandOver_KeepsLocals ==
    /\ pc = "brokers"
    /\ IF group
       THEN /\ field' = local
            /\ pc' = "mutex"
            /\ UNCHANGED <<local, result, live, misused>>
       ELSE Error("ERROR")
    /\ UNCHANGED <<args, i, list, group, use>>

(* rd_kafka_poll_set_consumer() needs the consumer group a group.id makes; *)
(* then the consumer object gets the client and the list.                  *)
HandOver ==
    /\ pc = "brokers"
    /\ IF group
       THEN /\ field' = local
            /\ local' = {}
            /\ pc' = "mutex"
            /\ UNCHANGED <<result, live, misused>>
       ELSE Error("ERROR")
    /\ UNCHANGED <<args, i, list, group, use>>

MutexInit ==
    /\ pc = "mutex"
    /\ result' = "SUCCESS"
    /\ pc' = "created"
    /\ UNCHANGED <<args, i, list, local, field, group, live, misused, use>>

MutexInitFails ==
    /\ pc = "mutex"
    /\ Error("EFATAL")
    /\ UNCHANGED <<args, i, list, group, use>>

-----------------------------------------------------------------------------
(* The calls of the application. *)

(* kafkatools_consumer_new_topic_conf(): its configuration object goes to  *)
(* the application, or is destroyed at the first bad property.             *)
NewTopicConf ==
    /\ pc = "created"
    /\ "app_conf" \notin live
    /\ errcode' = "SUCCESS"
    /\ live' = live \cup {"app_conf"}
    /\ UNCHANGED <<args, pc, i, list, local, field, group, result, misused, tree, refs>>

NewTopicConfFails ==
    /\ pc = "created"
    /\ errcode' = "ECONF"
    /\ UNCHANGED <<args, pc, i, list, local, field, group, result, live, misused, tree, refs>>

GetTopic_KeepsRef(n) ==
    /\ pc = "created"
    /\ live' = live \ {"app_conf"}
    /\ tree' = tree \cup {n}
    /\ refs' = [refs EXCEPT ![n] = @ + 1]
    /\ n \notin tree \/ refs[n] < 2
    /\ UNCHANGED <<args, pc, i, list, local, field, group, result, misused, errcode>>

(* kafkatools_consumer_get_topic(): the tree has the reference of the      *)
(* first call for a name, later calls give theirs back;                    *)
(* rd_kafka_topic_new() takes the topic configuration, if there is one.    *)
GetTopic(n) ==
    /\ pc = "created"
    /\ live' = live \ {"app_conf"}
    /\ tree' = tree \cup {n}
    /\ refs' = [refs EXCEPT ![n] = IF n \in tree THEN @ ELSE @ + 1]
    /\ UNCHANGED <<args, pc, i, list, local, field, group, result, misused, errcode>>

GetTopicFails ==
    /\ pc = "created"
    /\ live' = live \ {"app_conf"}
    /\ errcode' = "ENOMEM"
    /\ UNCHANGED <<args, pc, i, list, local, field, group, result, misused, tree, refs>>

(* kafkatools_consumer_destroy(): the list and the topics of the tree ...  *)
ReleaseTopics ==
    /\ pc = "created"
    /\ "app_conf" \notin live
    /\ live' = live \ {"tp_list"}
    /\ refs' = [n \in Names |-> IF n \in tree THEN refs[n] - 1 ELSE refs[n]]
    /\ tree' = {}
    /\ pc' = "destroying"
    /\ UNCHANGED <<args, i, list, local, field, group, result, misused, errcode>>

(* ... then the client, the mutex and the consumer object. *)
DestroyClient ==
    /\ pc = "destroying"
    /\ live' = live \ {"rk", "consumer"}
    /\ misused' = misused \cup ({"rk", "consumer"} \ live)
    /\ field' = {}
    /\ pc' = "destroyed"
    /\ UNCHANGED <<args, i, list, local, group, result, use>>

Terminated ==
    /\ pc \in {"failed", "destroyed"}
    /\ UNCHANGED vars

Next ==
    \/ Create \/ AddTopic \/ ConfNew \/ SetProp \/ SetGroup \/ SetGroupFails
    \/ KafkaNew \/ KafkaNewFails \/ NoBrokerAdded \/ HandOver
    \/ MutexInit \/ MutexInitFails
    \/ NewTopicConf \/ NewTopicConfFails
    \/ (\E n \in Names : GetTopic(n)) \/ GetTopicFails
    \/ ReleaseTopics \/ DestroyClient \/ Terminated

Spec == Init /\ [][Next]_vars
-----------------------------------------------------------------------------
(* Properties. *)

(* What the comment at kafkatools_consumer.c:125-130 says an element of    *)
(* topics means: "topicName:startPartitionid-endPartitionid", with one id  *)
(* for a single partition and none for whatever the group assigns.         *)
FirstId(text) == NumberOf[text[3]]
LastId(text)  == NumberOf[text[Len(text)]]

Asked(text) ==
    {text[1]} \X (IF Len(text) = 1 THEN {-1}
                  ELSE IF FirstId(text) <= LastId(text) THEN FirstId(text) .. LastId(text)
                  ELSE LastId(text) .. FirstId(text))

Elements == 1 .. (IF Len(topics) < TOPICS_MAX THEN Len(topics) ELSE TOPICS_MAX)

ListIsAsked ==
    /\ {list[k] : k \in DOMAIN list} = UNION {Asked(topics[k]) : k \in Elements}
    /\ Len(list) = MapThenSumSet(LAMBDA k : Cardinality(Asked(topics[k])), Elements)

(* Whichever step of create fails, before or after the client and the list *)
(* were handed over, nothing of the consumer stays behind; nor does after  *)
(* destroy (kafkatools_consumer.c:290-340).                                *)
NothingLeaks ==
    /\ pc \in {"failed", "destroyed"} => live = {}
    /\ pc = "created" => live \ {"app_conf"} = {"consumer", "tp_list", "rk"}

(* No error exit releases an object twice, or one that the configuration,  *)
(* the client or the consumer has taken over (kafkatools_consumer.c:234-   *)
(* 250, 271-276, 290-305).                                                 *)
ReleasedOnce == misused = {}

(* rd_kafka_destroy() runs when the application has no reference to a      *)
(* topic left: it would wait for the reference otherwise                   *)
(* (kafkatools_consumer.c:327-335, 414-431).                               *)
ClientLast == "rk" \notin live => \A n \in Names : refs[n] = 0

Taken(p) ==
    IF p.prefixed THEN p.topic = "OK" \/ (p.topic = "UNKNOWN" /\ p.global = "OK")
    ELSE p.global = "OK"

(* create() succeeds only if every property was taken by one of the two    *)
(* configurations, and with a topic list whose ranges start at 0, as       *)
(* consume.c's "test:0-7", only with exactly the partitions it names;      *)
(* ECONF means that a property was not taken, or the group id              *)
(* (kafkatools_consumer.c:119-175, 197-232).                               *)
ArgumentsDecide ==
    LET taken == \A k \in 1 .. Len(props) : k <= PROPS_MAX => Taken(props[k])
        fromZero == \A k \in Elements : Len(topics[k]) = 1 \/ FirstId(topics[k]) = 0
    IN  /\ result = "SUCCESS" => taken /\ (fromZero => ListIsAsked)
        /\ result = "ECONF" => ~taken \/ groupid

(* The list has the partitions the topics argument names: "topicA:1-2" the *)
(* partitions 1 and 2, "topicB:1" partition 1                              *)
(* (kafkatools_consumer.c:125-130).                                        *)
PartitionsAsAsked == result = "SUCCESS" => ListIsAsked
=============================================================================
