------------------------------ MODULE Producer ------------------------------
(***************************************************************************)
(* The producing side of kafkatools: application threads that run the      *)
(* message loop of produce.c, each message through                         *)
(* kafkatools_produce_timedwait(), and the main thread that ends with      *)
(* kafkatools_producer_destroy().  Below them is the part of librdkafka    *)
(* 1.4.2 the wrapper depends on: the message count bounded by              *)
(* queue.buffering.max.messages, the reply queue rk_rep of delivery        *)
(* reports, and rd_kafka_poll(), which moves that queue to a queue local   *)
(* to the calling thread and runs the delivery callbacks from there.       *)
(*                                                                         *)
(* Queues are sets: no property depends on the order of the reports.  The  *)
(* payload of a message is its identity <<thread, index>>.                 *)
(***************************************************************************)
EXTENDS Integers, FiniteSets

CONSTANTS
    Threads,        \* application threads that produce
    Main,           \* the thread that creates and destroys the producer
    Messages,       \* messages each thread sends (produce.c: messages)
    MaxQueue,       \* queue.buffering.max.messages
    RetryCounts,    \* values passed as retry_count
    FlushWaits,     \* values passed as flush_wait_ms
    MinId, MaxId    \* site.partitionid_min, site.partitionid_max

ASSUME ProducerAssumption ==
    /\ IsFiniteSet(Threads)
    /\ Main \notin Threads
    /\ Messages \in Nat
    /\ MaxQueue \in Nat \ {0}
    /\ RetryCounts \subseteq Int
    /\ FlushWaits \subseteq Int
    /\ MinId \in Nat /\ MaxId \in Nat /\ MinId <= MaxId

VARIABLES
    pc,         \* control point of every thread
    i,          \* i[t]: index of the message thread t is sending
    budget,     \* budget[t]: the retry_count thread t passes
    retry,      \* retry[t]: retry_count of the running call
    ret,        \* ret[t]: result of the last rd_kafka_produce() of the call
    lasterr,    \* lasterr[t]: rd_kafka_last_error(), which is thread-local
    arg,        \* arg[t]: partition argument of that rd_kafka_produce()
    outcome,    \* outcome[m]: what the call for message m returned
    errcode,    \* producer->errcode, shared
    partition,  \* state.site.partition, shared
    rkProducer, \* producer->rkProducer: "handle", "NULL", or "freed" struct
    flush,      \* flush_wait_ms of the running destroy
    outq,       \* messages librdkafka holds for the brokers
    rep,        \* rk_rep: messages whose report waits to be served
    localq,     \* localq[p]: reports poller p is serving (rd_kafka_q_serve)
    cnt,        \* rk_curr_msgs.cnt
    placed,     \* placed[m]: partition m was accepted for, or Unplaced
    reports,    \* reports[m]: how often the callback ran for m
    purged      \* messages destroyed with librdkafka, without a report

callVars  == <<i, budget, retry, ret, lasterr, arg, outcome>>
wrapVars  == <<errcode, partition, rkProducer, flush>>
libVars   == <<outq, rep, localq, cnt, placed, reports, purged>>
vars      == <<pc, callVars, wrapVars, libVars>>

Pollers   == Threads \cup {Main}
Msgs      == Threads \X (0 .. Messages - 1)
Partition == MinId .. MaxId
Unplaced  == -1
Errors    == {"NO_ERROR", "QUEUE_FULL", "OTHER"}

ThreadPC  == {"idle", "try", "part", "poll", "serve", "ret", "geterr", "done"}
MainPC    == {"run", "flush", "poll", "serve", "check", "clean", "dead"}

(* The message the running call of thread t is about. *)
Msg(t) == <<t, i[t]>>

(* Messages rd_kafka_produce() has taken. *)
Accepted == {m \in Msgs : placed[m] # Unplaced}

(* Messages whose delivery callback has run. *)
Reported == {m \in Msgs : reports[m] > 0}

(* Messages in librdkafka's queues; and those that rd_kafka_produce() has  *)
(* counted but not yet put in the queue of a partition.                    *)
Serving      == {m \in Msgs : \E p \in Pollers : m \in localq[p]}
InLibrary    == outq \cup rep \cup Serving
Partitioning == {m \in Msgs : pc[m[1]] = "part" /\ m = Msg(m[1])}

-----------------------------------------------------------------------------
(* Definitions named X_Y are X with the plausible mistake Y; they show     *)
(* that the properties below notice it, and no specification uses them.    *)

(* produce.c: the partition of message id. *)
GET_PARTITIONID(id) == (id % (MaxId - MinId + 1)) + MinId

(* n-- on an int that is tested against 0: a negative budget never gets to *)
(* 0 (the wrap of the counter after 2^31 rounds is not modelled).          *)
Decrement(n) == IF n > 0 THEN n - 1 ELSE n

Init ==
    /\ pc = [p \in Pollers |-> IF p = Main THEN "run" ELSE "idle"]
    /\ i = [t \in Threads |-> 0]
    /\ budget \in [Threads -> RetryCounts]
    /\ retry = [t \in Threads |-> 0]
    /\ ret = [t \in Threads |-> 0]
    /\ lasterr = [t \in Threads |-> "NO_ERROR"]
    /\ arg = [t \in Threads |-> MinId]
    /\ outcome = [m \in Msgs |-> "none"]
    /\ errcode = "NO_ERROR"
    /\ partition = MinId
    /\ rkProducer = "handle"
    /\ flush = 0
    /\ outq = {}
    /\ rep = {}
    /\ localq = [p \in Pollers |-> {}]
    /\ cnt = 0
    /\ placed = [m \in Msgs |-> Unplaced]
    /\ reports = [m \in Msgs |-> 0]
    /\ purged = {}

Goto(p, to) == pc' = [pc EXCEPT ![p] = to]

-----------------------------------------------------------------------------
(* The message loop and kafkatools_produce_timedwait(). *)

Call_ClearsErrcode(t) ==
    /\ pc[t] = "idle"
    /\ i[t] < Messages
    /\ partition' = GET_PARTITIONID(i[t])
    /\ errcode' = "NO_ERROR"
    /\ retry' = [retry EXCEPT ![t] = budget[t]]
    /\ ret' = [ret EXCEPT ![t] = 0]
    /\ Goto(t, "try")
    /\ UNCHANGED <<i, budget, lasterr, arg, outcome, rkProducer, flush, libVars>>

(* Next message: choose its partition in the shared site and call. *)
Call(t) ==
    /\ pc[t] = "idle"
    /\ i[t] < Messages
    /\ partition' = GET_PARTITIONID(i[t])
    /\ retry' = [retry EXCEPT ![t] = budget[t]]
    /\ ret' = [ret EXCEPT ![t] = 0]
    /\ Goto(t, "try")
    /\ UNCHANGED <<i, budget, lasterr, arg, outcome, errcode, rkProducer, flush, libVars>>

(* One round of the retry loop begins. *)
Attempt(t) ==
    /\ pc[t] = "try"
    /\ retry[t] # 0
    /\ retry' = [retry EXCEPT ![t] = Decrement(@)]

Result_ForgetsError(t, err) ==
    /\ lasterr' = [lasterr EXCEPT ![t] = err]
    /\ UNCHANGED <<i, budget, ret, outcome, wrapVars>>

(* What rd_kafka_produce() returns and leaves as the last error. *)
Result(t, err) ==
    /\ ret' = [ret EXCEPT ![t] = IF err = "NO_ERROR" THEN 0 ELSE -1]
    /\ lasterr' = [lasterr EXCEPT ![t] = err]
    /\ UNCHANGED <<i, budget, outcome, wrapVars>>

HasRoom_OffByOne == cnt <= MaxQueue

(* rd_kafka_curr_msgs_add(): test and increment happen under one lock. *)
HasRoom == cnt < MaxQueue

(* The message is created and counted, with the partition in the site. *)
ProduceNew(t) ==
    /\ Attempt(t)
    /\ HasRoom
    /\ cnt' = cnt + 1
    /\ arg' = [arg EXCEPT ![t] = partition]
    /\ Goto(t, "part")
    /\ UNCHANGED <<i, budget, ret, lasterr, outcome, wrapVars>>
    /\ UNCHANGED <<outq, rep, localq, placed, reports, purged>>

(* rd_kafka_msg_partitioner() queues it for the brokers... *)
ProduceOk(t) ==
    /\ pc[t] = "part"
    /\ Result(t, "NO_ERROR")
    /\ outq' = outq \cup {Msg(t)}
    /\ placed' = [placed EXCEPT ![Msg(t)] = arg[t]]
    /\ Goto(t, "ret")
    /\ UNCHANGED <<retry, arg, rep, localq, cnt, reports, purged>>

PartitionerError_KeepsCount(t) ==
    /\ pc[t] = "part"
    /\ Result(t, "OTHER")
    /\ Goto(t, "ret")
    /\ UNCHANGED <<retry, arg, libVars>>

(* ... or fails, topic or partition being unknown; the message is destroyed. *)
PartitionerError(t) ==
    /\ pc[t] = "part"
    /\ Result(t, "OTHER")
    /\ cnt' = cnt - 1
    /\ Goto(t, "ret")
    /\ UNCHANGED <<retry, arg, outq, rep, localq, placed, reports, purged>>

ProduceFull_NoPoll(t) ==
    /\ Attempt(t)
    /\ ~HasRoom
    /\ Result(t, "QUEUE_FULL")
    /\ Goto(t, "try")
    /\ UNCHANGED <<arg, libVars>>

(* The queue is full: wait for delivery reports, then retry. *)
ProduceFull(t) ==
    /\ Attempt(t)
    /\ ~HasRoom
    /\ Result(t, "QUEUE_FULL")
    /\ Goto(t, "poll")
    /\ UNCHANGED <<arg, libVars>>

(* Fatal producer error, or message too large: nothing is counted. *)
ProduceError(t) ==
    /\ Attempt(t)
    /\ Result(t, "OTHER")
    /\ Goto(t, "ret")
    /\ UNCHANGED <<arg, libVars>>

(* The retry budget is used up: leave the loop with the last result. *)
Exhausted(t) ==
    /\ pc[t] = "try"
    /\ retry[t] = 0
    /\ Goto(t, "ret")
    /\ UNCHANGED <<callVars, wrapVars, libVars>>

NextMessage(t) ==
    /\ i' = [i EXCEPT ![t] = @ + 1]
    /\ Goto(t, "idle")

ReturnSuccess(t) ==
    /\ pc[t] = "ret"
    /\ ret[t] = 0
    /\ outcome' = [outcome EXCEPT ![Msg(t)] = "SUCCESS"]
    /\ NextMessage(t)
    /\ UNCHANGED <<budget, retry, ret, lasterr, arg, errcode, partition, rkProducer, flush, libVars>>

ReturnError(t) ==
    /\ pc[t] = "ret"
    /\ ret[t] = -1
    /\ errcode' = lasterr[t]
    /\ outcome' = [outcome EXCEPT ![Msg(t)] = "ERROR"]
    /\ Goto(t, "geterr")
    /\ UNCHANGED <<i, budget, retry, ret, lasterr, arg, partition, rkProducer, flush, libVars>>

(* produce.c reads producer->errcode after a failed call and goes on. *)
GetErrstr(t) ==
    /\ pc[t] = "geterr"
    /\ NextMessage(t)
    /\ UNCHANGED <<budget, retry, ret, lasterr, arg, outcome, errcode, partition, rkProducer, flush,
                   libVars>>

Finish(t) ==
    /\ pc[t] = "idle"
    /\ i[t] = Messages
    /\ Goto(t, "done")
    /\ UNCHANGED <<callVars, wrapVars, libVars>>

-----------------------------------------------------------------------------
(* librdkafka. *)

(* A broker acknowledges m, or m fails for good (message.timeout.ms). *)
Complete(m) ==
    /\ m \in outq
    /\ outq' = outq \ {m}
    /\ rep' = rep \cup {m}
    /\ UNCHANGED <<pc, callVars, wrapVars, localq, cnt, placed, reports, purged>>

(* Where control goes after rd_kafka_poll(): the retry loop, or the test   *)
(* in rd_kafka_flush().                                                    *)
AfterPoll(p) == IF p = Main THEN "check" ELSE "try"

PollTake_KeepsQueue(p) ==
    /\ pc[p] = "poll"
    /\ rep # {}
    /\ localq' = [localq EXCEPT ![p] = rep]
    /\ Goto(p, "serve")
    /\ UNCHANGED <<callVars, wrapVars, outq, rep, cnt, placed, reports, purged>>

(* rd_kafka_poll() finds reports: the whole queue becomes local to p. *)
PollTake(p) ==
    /\ pc[p] = "poll"
    /\ rep # {}
    /\ localq' = [localq EXCEPT ![p] = rep]
    /\ rep' = {}
    /\ Goto(p, "serve")
    /\ UNCHANGED <<callVars, wrapVars, outq, cnt, placed, reports, purged>>

(* rd_kafka_poll() times out. *)
PollTimeout(p) ==
    /\ pc[p] = "poll"
    /\ rep = {}
    /\ Goto(p, AfterPoll(p))
    /\ UNCHANGED <<callVars, wrapVars, libVars>>

(* The delivery callback for m, after which the message is destroyed and   *)
(* no longer counts against the queue limit.                               *)
Callback(p, m) ==
    /\ pc[p] = "serve"
    /\ m \in localq[p]
    /\ reports' = [reports EXCEPT ![m] = @ + 1]
    /\ localq' = [localq EXCEPT ![p] = @ \ {m}]
    /\ cnt' = cnt - 1
    /\ Goto(p, IF localq[p] = {m} THEN AfterPoll(p) ELSE "serve")
    /\ UNCHANGED <<callVars, wrapVars, outq, rep, placed, purged>>

-----------------------------------------------------------------------------
(* kafkatools_producer_destroy(). *)

(* The handle is taken out of the structure.  The mutex locked around all  *)
(* of it is taken by no other function of the wrapper, and by no caller.   *)
DestroyLock ==
    /\ pc[Main] = "run"
    /\ rkProducer' = "NULL"
    /\ flush' \in FlushWaits
    /\ Goto(Main, "flush")
    /\ UNCHANGED <<callVars, errcode, partition, libVars>>

FlushLoop_Positive ==
    /\ pc[Main] = "flush"
    /\ flush' = Decrement(flush)
    /\ Goto(Main, IF flush > 0 THEN "poll" ELSE "clean")
    /\ UNCHANGED <<callVars, errcode, partition, rkProducer, libVars>>

(* while (flush_wait_ms-- != 0) rd_kafka_flush(rk, 1). *)
FlushLoop ==
    /\ pc[Main] = "flush"
    /\ flush' = Decrement(flush)
    /\ Goto(Main, IF flush = 0 THEN "clean" ELSE "poll")
    /\ UNCHANGED <<callVars, errcode, partition, rkProducer, libVars>>

(* rd_kafka_flush() after a poll: drained, or out of time, or poll again. *)
FlushCheck ==
    /\ pc[Main] = "check"
    /\ IF rep = {} /\ cnt = 0
       THEN Goto(Main, "clean")
       ELSE Goto(Main, "flush") \/ Goto(Main, "poll")
    /\ UNCHANGED <<callVars, wrapVars, libVars>>

(* rd_kafka_destroy() purges what is left without calling back, then the   *)
(* mutex and the structure go.                                             *)
DestroyFinal ==
    /\ pc[Main] = "clean"
    /\ purged' = purged \cup outq \cup rep
    /\ outq' = {}
    /\ rep' = {}
    /\ cnt' = 0
    /\ rkProducer' = "freed"
    /\ Goto(Main, "dead")
    /\ UNCHANGED <<callVars, errcode, partition, flush, localq, placed, reports>>

(* produce.c calls destroy after the message loop.  That a program with    *)
(* several threads does so too is assumed: destroy checks nothing.         *)
LoopsOver  == \A t \in Threads : pc[t] = "done"
EndProgram == LoopsOver /\ DestroyLock

(* The program has ended. *)
Terminated ==
    /\ pc[Main] = "dead"
    /\ UNCHANGED vars

-----------------------------------------------------------------------------
PollStep(p) ==
    \/ PollTake(p)
    \/ PollTimeout(p)
    \/ \E m \in Msgs : Callback(p, m)

ThreadStep(t) ==
    \/ Call(t)
    \/ ProduceNew(t) \/ ProduceOk(t) \/ PartitionerError(t)
    \/ ProduceFull(t) \/ ProduceError(t) \/ Exhausted(t)
    \/ ReturnSuccess(t) \/ ReturnError(t) \/ GetErrstr(t)
    \/ Finish(t)
    \/ PollStep(t)

MainStep ==
    \/ EndProgram \/ FlushLoop \/ FlushCheck \/ DestroyFinal
    \/ PollStep(Main)

Next ==
    \/ \E t \in Threads : ThreadStep(t)
    \/ MainStep
    \/ \E m \in Msgs : Complete(m)
    \/ Terminated

Spec == Init /\ [][Next]_vars

(* Errors of the library other than a full queue: they may happen, but no  *)
(* scheduling makes them happen.                                           *)
LibraryError(t) == ProduceError(t) \/ PartitionerError(t)

(* Threads are scheduled; librdkafka settles every message, since          *)
(* message.timeout.ms is finite unless configured to 0.                    *)
FairSpec ==
    /\ Spec
    /\ \A t \in Threads : WF_vars(ThreadStep(t) /\ ~LibraryError(t))
    /\ WF_vars(MainStep)
    /\ \A m \in Msgs : WF_vars(Complete(m))

-----------------------------------------------------------------------------
(* Properties. *)

ControlType ==
    /\ pc \in [Pollers -> ThreadPC \cup MainPC]
    /\ \A t \in Threads : pc[t] \in ThreadPC
    /\ pc[Main] \in MainPC
    /\ i \in [Threads -> 0 .. Messages]
    /\ \A t \in Threads : pc[t] \notin {"idle", "done"} => i[t] < Messages

CallType ==
    /\ budget \in [Threads -> RetryCounts]
    /\ retry \in [Threads -> Int]
    /\ ret \in [Threads -> {0, -1}]
    /\ lasterr \in [Threads -> Errors]
    /\ arg \in [Threads -> Partition]
    /\ outcome \in [Msgs -> {"none", "SUCCESS", "ERROR"}]

WrapType ==
    /\ errcode \in Errors
    /\ partition \in Partition
    /\ rkProducer \in {"handle", "NULL", "freed"}
    /\ flush \in Int

LibType ==
    /\ outq \subseteq Msgs
    /\ rep \subseteq Msgs
    /\ localq \in [Pollers -> SUBSET Msgs]
    /\ cnt \in Int
    /\ placed \in [Msgs -> Partition \cup {Unplaced}]
    /\ reports \in [Msgs -> Nat]
    /\ purged \subseteq Msgs

(* Every variable keeps its type; in particular the partition written to   *)
(* the site by produce.c:145 never leaves [partitionid_min,                *)
(* partitionid_max], whichever thread wrote it last.                       *)
TypeOK == ControlType /\ CallType /\ WrapType /\ LibType

(* A message librdkafka accepted is always in exactly one place: waiting   *)
(* for a broker, waiting for a poll, in the local queue of one polling     *)
(* thread, reported, or purged; and it is reported at most once.  So no    *)
(* interleaving of concurrent polls loses a report or runs the delivery    *)
(* callback (kafkatools_producer.c:91) twice for one message.              *)
AcceptedInOnePlace ==
    /\ Accepted = InLibrary \cup Reported \cup purged
    /\ outq \cap rep = {}
    /\ \A p \in Pollers : localq[p] \cap (outq \cup rep) = {}
    /\ \A p, q \in Pollers : p # q => localq[p] \cap localq[q] = {}
    /\ InLibrary \cap Reported = {}
    /\ purged \cap (InLibrary \cup Reported) = {}
    /\ \A m \in Msgs : reports[m] <= 1

(* librdkafka's count is the number of messages it really holds, those in  *)
(* the partitioner and reports being served included, and stays within     *)
(* queue.buffering.max.messages although the threads test and fill the     *)
(* queue concurrently (kafkatools_producer.c:650-658).                     *)
QueueAccounted ==
    /\ cnt = Cardinality(InLibrary \cup Partitioning)
    /\ cnt <= MaxQueue

(* The return code of kafkatools_produce_timedwait() tells the truth: on   *)
(* KAFKATOOLS_ERROR the message was never taken, so sending it again       *)
(* cannot duplicate it; on KAFKATOOLS_SUCCESS it was taken, unless         *)
(* retry_count was 0, in which case the call succeeds without producing.   *)
ReturnCodeTruthful ==
    \A m \in Msgs :
        /\ outcome[m] = "ERROR" => m \notin Accepted
        /\ outcome[m] = "SUCCESS" => (m \in Accepted <=> budget[m[1]] # 0)

(* kafkatools_producer_destroy(KAFKATOOLS_WAIT_INFINITE), as produce.c:157 *)
(* calls it, never discards a message: when it returns, every accepted     *)
(* message has had its report.                                             *)
InfiniteFlushLosesNothing ==
    rkProducer = "freed" /\ flush < 0 => Accepted = Reported

(* A failed call never reads as "no error": whichever thread wrote         *)
(* producer->errcode last, kafkatools_producer_get_errstr() after          *)
(* KAFKATOOLS_ERROR (produce.c:149) gives the code of some failed call.    *)
ErrcodeIsError ==
    \A t \in Threads : pc[t] = "geterr" => errcode # "NO_ERROR"

(* Threads that use one state the way produce.c:117-145 does each get the  *)
(* partition their own policy chose, although the site is shared and read  *)
(* again by every retry of rd_kafka_produce().                             *)
PartitionIsCallers ==
    \A m \in Accepted : placed[m] = GET_PARTITIONID(m[2])

(* No call waits forever, with an unlimited retry_count either, and        *)
(* destroy returns: a full queue always drains because the waiting thread  *)
(* itself serves the reports.                                              *)
ProgramEnds == <>(rkProducer = "freed")

-----------------------------------------------------------------------------
(* The inductive invariant behind the safety properties. *)

(* Where the main thread is and what destroy has done to the producer. *)
DestroyInv ==
    /\ rkProducer = CASE pc[Main] = "run"  -> "handle"
                       [] pc[Main] = "dead" -> "freed"
                       [] OTHER             -> "NULL"
    /\ pc[Main] # "run" => \A t \in Threads : pc[t] = "done"
    /\ pc[Main] # "dead" => purged = {}
    /\ pc[Main] = "dead" => InLibrary = {}
    /\ pc[Main] \in {"clean", "dead"} /\ flush < 0 => InLibrary \cup purged = {}

(* Reports are in a local queue only while their poller serves them. *)
LocalInv ==
    \A p \in Pollers : pc[p] # "serve" => localq[p] = {}

(* Is the message of thread t's running call in the hands of librdkafka? *)
Taken(t) == pc[t] = "ret" /\ ret[t] = 0 /\ budget[t] # 0

(* What a thread knows about its retries. *)
RetryInv ==
    \A t \in Threads :
        /\ pc[t] = "try" /\ budget[t] = 0 => retry[t] = 0 /\ ret[t] = 0
        /\ pc[t] = "try" /\ budget[t] # 0 /\ retry[t] = 0 => ret[t] = -1
        /\ pc[t] \in {"poll", "serve"} => budget[t] # 0 /\ ret[t] = -1
        /\ pc[t] = "part" => budget[t] # 0
        /\ pc[t] = "ret" /\ budget[t] = 0 => ret[t] = 0

(* An error that is still to be returned, or was, is one. *)
ErrorInv ==
    /\ \A t \in Threads :
           pc[t] \in {"try", "poll", "serve", "ret"} /\ ret[t] = -1 => lasterr[t] # "NO_ERROR"
    /\ ErrcodeIsError

(* Messages a thread has not got to are untouched. *)
FreshInv ==
    \A t \in Threads : \A k \in 0 .. Messages - 1 :
        /\ k > i[t] => <<t, k>> \notin Accepted /\ outcome[<<t, k>>] = "none"
        /\ k = i[t] => /\ <<t, k>> \in Accepted <=> Taken(t)
                       /\ pc[t] # "geterr" => outcome[<<t, k>>] = "none"

IInv ==
    /\ TypeOK
    /\ AcceptedInOnePlace
    /\ QueueAccounted
    /\ ReturnCodeTruthful
    /\ DestroyInv
    /\ LocalInv
    /\ RetryInv
    /\ ErrorInv
    /\ FreshInv

(* A destroy that was given an endless budget still has one. *)
FlushInv ==
    pc[Main] # "run" => flush < 0 \/ \E w \in FlushWaits : w >= 0

=============================================================================
