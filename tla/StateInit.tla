----------------------------- MODULE StateInit ------------------------------
(***************************************************************************)
(* How a producer comes to be: main() of produce.c calls                   *)
(* kafkatools_producer_state_init() twice, which reads the properties of   *)
(* the topic's section (kafkatools_props_readconf() on readconf.c),        *)
(* creates the producer (kafkatools_producer_create()), gets the topic and *)
(* sets the partition scope; state_uninit() ends it.                       *)
(*                                                                         *)
(* A properties file is a sequence of lines: section headers, and pairs    *)
(* with the bytes they take in propsbuf.  What is allocated is a set of    *)
(* <<call, object>> pairs; misused collects objects that were released     *)
(* while the program did not own them.                                     *)
(***************************************************************************)
EXTENDS Integers, Sequences, FiniteSetsExt

CONSTANTS
    PROPS_MAX,        \* KAFKATOOLS_CONF_PROPS_MAX
    PARTITIONID_MAX,  \* KAFKATOOLS_PARTITIONID_MAX
    Topic,            \* the topic on the command line
    Scopes,           \* what follows its ':': <<>>, <<p>> or <<min, max>>
    Argcs,            \* argument counts of produce: 2 .. 4
    NamedFiles,       \* files the properties argument may name
    DefaultFiles,     \* files kafka-producer.properties may be
    MutexInitFails    \* may pthread_mutex_init() fail?

ASSUME StateInitAssumption ==
    /\ PROPS_MAX \in Nat \ {0}
    /\ PARTITIONID_MAX \in Nat
    /\ Argcs \subseteq 2 .. 4
    /\ MutexInitFails \in BOOLEAN
    /\ Topic # ""
    /\ \A s \in Scopes : s \in Seq(Int) /\ Len(s) <= 2
    /\ \A f \in NamedFiles \cup DefaultFiles :
           /\ f.lines \in Seq([kind : {"section", "pair"}, name : STRING, bytes : Nat])
           /\ \A k \in 1 .. Len(f.lines) : f.lines[k].kind = "pair" => f.lines[k].bytes > 0

VARIABLES
    argc, scope, files,     \* the command line and the properties files
    pc, call,               \* control point; which call of state_init runs
    pos, secname,           \* CONF_position: next line and current section
    ret,                    \* result of readconf, then of state_init
    props, outsz, outbuf,   \* kafkatools_props_readconf()
    conf,                   \* conf[c]: pairs set in the configuration of call c
    state,                  \* state.producer (its call, 0: NULL) and state.site
    live,                   \* what is allocated
    misused                 \* what was released without being owned

fileVars == <<pos, secname, props, outsz, outbuf>>
vars == <<argc, scope, files, pc, call, fileVars, ret, conf, state, live, misused>>

ReadErrors == {"EFILE", "EPROPS", "EBREAK"}

-----------------------------------------------------------------------------
(* Definitions named X_Y are X with the plausible mistake Y; they show     *)
(* that the properties below notice it, and no specification uses them.    *)

(* The properties file of call c: state_init gets argv[2] in the first     *)
(* call if there is one, in the second only if argc is 3.                  *)
PathOf(c) == IF argc = 3 \/ (argc = 4 /\ c = 1) THEN "named" ELSE "default"

File == files[PathOf(call)]

Line == File.lines[pos]

Bytes(pairs) == MapThenSumSet(LAMBDA k : pairs[k].bytes, DOMAIN pairs)

Init ==
    /\ argc \in Argcs
    /\ scope \in Scopes
    /\ files \in [named : NamedFiles, default : DefaultFiles]
    /\ pc = "main"
    /\ call = 0
    /\ pos = 1 /\ secname = "" /\ props = 0 /\ outsz = 0 /\ outbuf = <<>>
    /\ ret = "none"
    /\ conf = << <<>>, <<>> >>
    /\ state = [producer |-> 0, topic |-> FALSE, partition |-> 0, min |-> 0, max |-> 0]
    /\ live = {}
    /\ misused = {}

Mine(objects) == {call} \X objects

Free(objects) ==
    /\ live' = live \ Mine(objects)
    /\ misused' = misused \cup (Mine(objects) \ live)

Return(result) ==
    /\ ret' = result
    /\ pc' = "returned"

(* kafkatools_producer_state_init() is called. *)
Call ==
    /\ \/ pc = "main"
       \/ pc = "returned" /\ call = 1
    /\ call' = call + 1
    /\ live' = live \cup {call + 1} \X {"propsfile", "topicpt"}
    /\ ret' = "none"
    /\ pc' = "exists"
    /\ UNCHANGED <<argc, scope, files, fileVars, conf, state, misused>>

FileMissing ==
    /\ pc = "exists"
    /\ File.status = "missing"
    /\ Free({"propsfile", "topicpt"})
    /\ Return("EFILE")
    /\ UNCHANGED <<argc, scope, files, call, fileVars, conf, state>>

-----------------------------------------------------------------------------
(* kafkatools_props_readconf(). *)

(* It returns; the caller frees propsfile and does not look at an error. *)
ReadconfReturns(result) ==
    /\ ret' = result
    /\ pc' = "retrieve"

OpenFails ==
    /\ pc = "exists"
    /\ File.status = "unreadable"
    /\ Free({"propsfile"})
    /\ ReadconfReturns("EFILE")
    /\ outbuf' = <<>>
    /\ UNCHANGED <<argc, scope, files, call, pos, secname, props, outsz, conf, state>>

Open ==
    /\ pc = "exists"
    /\ File.status = "ok"
    /\ live' = live \cup Mine({"cpos"})
    /\ pos' = 1 /\ secname' = "" /\ props' = 0 /\ outsz' = 0 /\ outbuf' = <<>>
    /\ pc' = "count"
    /\ UNCHANGED <<argc, scope, files, call, ret, conf, state, misused>>

EndOfFile == pos > Len(File.lines)

(* ConfGetNextPair() passes a section header. *)
Header ==
    /\ pc \in {"count", "copy"}
    /\ ~EndOfFile
    /\ Line.kind = "section"
    /\ secname' = Line.name
    /\ pos' = pos + 1
    /\ UNCHANGED <<argc, scope, files, pc, call, ret, props, outsz, outbuf, conf, state, live, misused>>

(* A pair was read; only those of the topic's section are used. *)
IsPair == ~EndOfFile /\ Line.kind = "pair"
Wanted == secname = Topic

TooMany_OffByOne(n) == n > PROPS_MAX

TooMany(n) == n >= PROPS_MAX

(* First pass: count the pairs and their bytes. *)
CountPair ==
    /\ pc = "count"
    /\ IsPair
    /\ props' = IF Wanted THEN props + 1 ELSE props
    /\ outsz' = IF Wanted THEN outsz + Line.bytes ELSE outsz
    /\ pos' = pos + 1
    /\ IF TooMany(props')
       THEN Free({"cpos", "propsfile"}) /\ ReadconfReturns("EPROPS")
       ELSE UNCHANGED <<pc, ret, live, misused>>
    /\ UNCHANGED <<argc, scope, files, call, secname, outbuf, conf, state>>

CountEnds_NoRewind ==
    /\ pc = "count"
    /\ EndOfFile
    /\ IF outsz = 0
       THEN Free({"cpos", "propsfile"}) /\ ReadconfReturns("OK")
       ELSE /\ live' = live \cup Mine({"propsbuf"})
            /\ pc' = "copy"
            /\ UNCHANGED <<ret, misused>>
    /\ UNCHANGED <<argc, scope, files, call, pos, secname, props, outsz, outbuf, conf, state>>

(* The end of the first pass: nothing to copy, or rewind() for the second; *)
(* the section name stays what it was at the end of the file.              *)
CountEnds ==
    /\ pc = "count"
    /\ EndOfFile
    /\ IF outsz = 0
       THEN Free({"cpos", "propsfile"}) /\ ReadconfReturns("OK") /\ UNCHANGED pos
       ELSE /\ live' = live \cup Mine({"propsbuf"})
            /\ pos' = 1
            /\ pc' = "copy"
            /\ UNCHANGED <<ret, misused>>
    /\ UNCHANGED <<argc, scope, files, call, secname, props, outsz, outbuf, conf, state>>

Breaks ==
    /\ Free({"propsbuf", "cpos", "propsfile"})
    /\ outbuf' = <<>>
    /\ ReadconfReturns("EBREAK")

(* Second pass: copy the pairs as long as the buffer has room. *)
CopyPair ==
    /\ pc = "copy"
    /\ IsPair
    /\ IF Wanted /\ Bytes(outbuf) + Line.bytes > outsz
       THEN Breaks
       ELSE /\ outbuf' = IF Wanted THEN Append(outbuf, Line) ELSE outbuf
            /\ UNCHANGED <<pc, ret, live, misused>>
    /\ pos' = pos + 1
    /\ UNCHANGED <<argc, scope, files, call, secname, props, outsz, conf, state>>

CopyEnds ==
    /\ pc = "copy"
    /\ EndOfFile
    /\ IF Bytes(outbuf) # outsz
       THEN Breaks
       ELSE Free({"cpos", "propsfile"}) /\ ReadconfReturns("OK") /\ UNCHANGED outbuf
    /\ UNCHANGED <<argc, scope, files, call, pos, secname, props, outsz, conf, state>>

-----------------------------------------------------------------------------
(* kafkatools_props_retrieve() and kafkatools_producer_create(). *)

(* readconf's result is passed on as the number of properties: an error    *)
(* code is negative, so there are none.                                    *)
NumProps == IF ret = "OK" THEN props ELSE 0

(* propsbuf is NULL unless readconf succeeded with something to copy. *)
PropsBuf == IF NumProps > 0 THEN {"propsbuf"} ELSE {}

(* The names and values are those in propsbuf; a new producer and conf. *)
Create ==
    /\ pc = "retrieve"
    /\ live' = live \cup Mine({"client", "conf"})
    /\ pc' = "conf"
    /\ UNCHANGED <<argc, scope, files, call, fileVars, ret, conf, state, misused>>

CreateFails_LeaksBuffer(handle) ==
    /\ Free({"client", "conf", "topicpt"} \cup handle)
    /\ Return("ERROR")

(* create's error exit: destroy(producer, 0), which also ends the client   *)
(* handle and what it owns, then conf; after it, state_init's own exit.    *)
CreateFails(handle) ==
    /\ Free({"client", "conf", "topicpt"} \cup handle \cup PropsBuf)
    /\ Return("ERROR")

(* rd_kafka_conf_set() of the next property. *)
ConfSet ==
    /\ pc = "conf"
    /\ Len(conf[call]) < NumProps
    /\ conf' = [conf EXCEPT ![call] = Append(@, outbuf[Len(@) + 1])]
    /\ UNCHANGED <<argc, scope, files, pc, call, fileVars, ret, state, live, misused>>

ConfSetFails ==
    /\ pc = "conf"
    /\ Len(conf[call]) < NumProps
    /\ CreateFails({})
    /\ UNCHANGED <<argc, scope, files, call, fileVars, conf, state>>

KafkaNew_HandsOutEarly ==
    /\ pc = "conf"
    /\ Len(conf[call]) = NumProps
    /\ live' = (live \ Mine({"conf"})) \cup Mine({"rk"})
    /\ state' = [state EXCEPT !.producer = call]
    /\ pc' = "mutex"
    /\ UNCHANGED <<argc, scope, files, call, fileVars, ret, conf, misused>>

(* rd_kafka_new() takes the conf object over... *)
KafkaNew ==
    /\ pc = "conf"
    /\ Len(conf[call]) = NumProps
    /\ live' = (live \ Mine({"conf"})) \cup Mine({"rk"})
    /\ pc' = "mutex"
    /\ UNCHANGED <<argc, scope, files, call, fileVars, ret, conf, state, misused>>

(* ... or fails and leaves it to the caller. *)
KafkaNewFails ==
    /\ pc = "conf"
    /\ Len(conf[call]) = NumProps
    /\ CreateFails({})
    /\ UNCHANGED <<argc, scope, files, call, fileVars, conf, state>>

(* pthread_mutex_init(); the error exit still has its pointer to conf. *)
MutexFails ==
    /\ pc = "mutex"
    /\ MutexInitFails
    /\ CreateFails({"rk"})
    /\ UNCHANGED <<argc, scope, files, call, fileVars, conf, state>>

Created_DestroysConf ==
    /\ pc = "mutex"
    /\ state' = [state EXCEPT !.producer = call]
    /\ Free(PropsBuf \cup {"conf"})
    /\ pc' = "topic"
    /\ UNCHANGED <<argc, scope, files, call, fileVars, ret, conf>>

Created ==
    /\ pc = "mutex"
    /\ state' = [state EXCEPT !.producer = call]
    /\ Free(PropsBuf)
    /\ pc' = "topic"
    /\ UNCHANGED <<argc, scope, files, call, fileVars, ret, conf>>

-----------------------------------------------------------------------------
(* The site: topic handle and partition scope. *)

(* No partition means 0; a range leaves site.partition as it was. *)
SetScope(s) ==
    CASE Len(s.scope) = 0 -> [s.site EXCEPT !.partition = 0, !.min = 0, !.max = 0]
      [] Len(s.scope) = 1 -> [s.site EXCEPT !.partition = s.scope[1], !.min = s.scope[1],
                                            !.max = s.scope[1]]
      [] Len(s.scope) = 2 -> [s.site EXCEPT !.min = s.scope[1], !.max = s.scope[2]]

ValidScope(site) == 0 <= site.min /\ site.min <= site.max /\ site.max <= PARTITIONID_MAX

(* kafkatools_producer_get_topic() may fail; a bad site is refused, with   *)
(* the producer left in the state.                                         *)
SetSite ==
    /\ pc = "topic"
    /\ \E topic \in BOOLEAN :
           /\ state' = [SetScope([scope |-> scope, site |-> state]) EXCEPT !.topic = topic]
           /\ Return(IF topic /\ ValidScope(state') THEN "SUCCESS" ELSE "EARG")
    /\ Free({"topicpt"})
    /\ UNCHANGED <<argc, scope, files, call, fileVars, conf>>

(* main() gives up when the second call failed... *)
Exit ==
    /\ pc = "returned"
    /\ call = 2
    /\ ret # "SUCCESS"
    /\ pc' = "exit"
    /\ UNCHANGED <<argc, scope, files, call, fileVars, ret, conf, state, live, misused>>

(* kafkatools_producer_destroy(state->producer, ...). *)
DestroyProducer(parts) ==
    LET objects == {state.producer} \X parts
    IN  /\ live' = live \ objects
        /\ misused' = misused \cup (objects \ live)

Uninit_OnlyHandle ==
    /\ pc = "returned"
    /\ call = 2
    /\ ret = "SUCCESS"
    /\ DestroyProducer({"rk"})
    /\ pc' = "exit"
    /\ UNCHANGED <<argc, scope, files, call, fileVars, ret, conf, state>>

(* ... and ends with kafkatools_producer_state_uninit() otherwise. *)
Uninit ==
    /\ pc = "returned"
    /\ call = 2
    /\ ret = "SUCCESS"
    /\ DestroyProducer({"client", "rk"})
    /\ pc' = "exit"
    /\ UNCHANGED <<argc, scope, files, call, fileVars, ret, conf, state>>

Terminated ==
    /\ pc = "exit"
    /\ UNCHANGED vars

Next ==
    \/ Call \/ FileMissing \/ OpenFails \/ Open \/ Header \/ CountPair \/ CountEnds
    \/ CopyPair \/ CopyEnds \/ Create \/ ConfSet \/ ConfSetFails \/ KafkaNew
    \/ KafkaNewFails \/ MutexFails \/ Created \/ SetSite \/ Exit \/ Uninit \/ Terminated

Spec == Init /\ [][Next]_vars

-----------------------------------------------------------------------------
(* Properties. *)

(* What the file says: the pairs under the header of the topic. *)
SectionAt(lines, k) ==
    LET headers == {j \in 1 .. k : lines[j].kind = "section"}
    IN  IF headers = {} THEN "" ELSE lines[Max(headers)].name

PairsOf(lines) ==
    LET all == [k \in 1 .. Len(lines) |-> [line |-> lines[k], section |-> SectionAt(lines, k)]]
        mine == SelectSeq(all, LAMBDA e : e.line.kind = "pair" /\ e.section = Topic)
    IN  [k \in 1 .. Len(mine) |-> mine[k].line]

(* Pairs before the first header, in a file whose last section is the      *)
(* topic's, count as the topic's in the second pass.                       *)
Stray(lines) ==
    /\ SectionAt(lines, Len(lines)) = Topic
    /\ \E k \in 1 .. Len(lines) : lines[k].kind = "pair" /\ SectionAt(lines, k) = ""

Clients == {c \in 1 .. 2 : <<c, "rk">> \in live}

Objects == {"propsfile", "topicpt", "cpos", "propsbuf", "client", "conf", "rk"}

(* Every variable keeps its type; in particular the terminator             *)
(* props_retrieve() writes after the last property                         *)
(* (kafkatools_producer.c:384) is within the arrays of PROPS_MAX.          *)
TypeOK ==
    /\ pc \in {"main", "exists", "count", "copy", "retrieve", "conf", "mutex", "topic",
               "returned", "exit"}
    /\ call \in 0 .. 2
    /\ ret \in {"none", "OK", "SUCCESS", "ERROR", "EARG"} \cup ReadErrors
    /\ props \in 0 .. PROPS_MAX
    /\ NumProps < PROPS_MAX
    /\ outsz \in Nat
    /\ Bytes(outbuf) <= outsz
    /\ state.producer \in 0 .. call
    /\ live \subseteq (1 .. 2) \X Objects
    /\ misused \subseteq (1 .. 2) \X Objects

(* However state_init() returns, on each of its error exits too, the       *)
(* temporaries of the call are gone, and a failed create leaves no part of *)
(* a producer (kafkatools_producer.c:172-249, 496-503).                    *)
TemporariesFreed ==
    pc \in {"returned", "exit"} =>
        /\ live \subseteq (1 .. 2) \X {"client", "rk"}
        /\ ret \in {"ERROR", "EFILE"} => Mine(Objects) \cap live = {}

(* Whatever state_init() returns, a producer it has made and not released  *)
(* is the one in state->producer, also when it refuses the scope after the *)
(* create (kafkatools_producer.c:236-246), and state->producer is never a  *)
(* producer that a failed create has freed (452-503).                      *)
StateHasProducer ==
    pc = "returned" =>
        /\ <<call, "client">> \in live <=> state.producer = call
        /\ state.producer # 0 => {state.producer} \X {"client", "rk"} \subseteq live

(* Nothing is released twice or while librdkafka owns it, on any exit of   *)
(* state_init() and create, but for conf when pthread_mutex_init() fails   *)
(* (kafkatools_producer.c:487-500).                                        *)
ReleasedOnce ==
    misused # {} => MutexInitFails /\ misused \subseteq (1 .. 2) \X {"conf"}
                    /\ \A x \in misused : x[1] = call => ret = "ERROR"

(* A client is configured with all the properties of the topic's section   *)
(* or with none of them, never with some, whatever goes wrong between the  *)
(* two passes of kafkatools_props_readconf() (kafkatools_producer.c:280-   *)
(* 355).  The passes agree, so that it is all of them for every readable   *)
(* file with fewer than PROPS_MAX and no stray pairs.                      *)
SectionConfigured ==
    \A c \in Clients :
        LET f     == files[PathOf(c)]
            pairs == PairsOf(f.lines)
        IN  /\ conf[c] \in {<<>>, pairs}
            /\ f.status = "ok" /\ Len(pairs) < PROPS_MAX /\ ~Stray(f.lines)
                   => conf[c] = pairs

(* When main() ends well, state_uninit() (kafkatools_producer.c:253-256)   *)
(* has released all of the second call's producer.  Only the producer of   *)
(* the first call, which the second replaced in the state without          *)
(* releasing it (produce.c:92-112), may be left.                           *)
OnlyFirstLeft ==
    pc = "exit" /\ ret = "SUCCESS" => live \subseteq {1} \X {"client", "rk"}

(* A state that state_init() succeeds to make has been made "from          *)
(* properties file" (kafkatools.h:164): the file was read.                 *)
MadeFromFile ==
    ret = "SUCCESS" => conf[call] = PairsOf(File.lines)

=============================================================================
