-------------------------------- MODULE Fetch --------------------------------
(***************************************************************************)
(* The simple consumer of librdkafka on one partition, from                *)
(* rd_kafka_consume_start() to the messages rd_kafka_consume() returns.    *)
(* consume.c starts and consumes; an application may also seek, stop, and  *)
(* pause and resume.  enable.partition.eof=false, as in consume.c; the     *)
(* offset store is left out.                                               *)
(*                                                                         *)
(* Four parties take steps: the application (Call, Consume), the main      *)
(* thread, which serves the partition's ops, its query timer and the       *)
(* metadata (OpServe, QueryTimer, LeaderUpdate), the broker threads        *)
(* (Leave, Join, Serve, FetchReply), and the cluster, which is not part of *)
(* this code (OffsetAnswer, Elect, Trim, Extend).                          *)
(*                                                                         *)
(* The record rktp is the code's rd_kafka_toppar_t; every step on it takes *)
(* its lock, and the functions the handlers call map a record to a record. *)
(* A message is its offset.  Backoffs are delays and so are left out, but  *)
(* for the one after a Fetch error (BackedOff).                            *)
(***************************************************************************)
EXTENDS Integers, Sequences, FiniteSetsExt

CONSTANTS
    Brokers,        \* the brokers that may lead the partition
    None,           \* no broker
    Starts, Seeks,  \* offsets the application starts at and seeks to
    AutoReset,      \* auto.offset.reset
    QueuedMin,      \* queued.min.messages
    BatchSize,      \* messages in a stored batch
    MaxEnd,         \* bound: messages in the log
    MaxCalls,       \* bound: control calls of the application
    MaxFaults       \* bound: elections, trims, failed requests

(* Logical offsets, as in rdkafka.h; below TAIL_BASE they count from the end. *)
BEGINNING == -2
END       == -1
INVALID   == -1001
TAIL_BASE == -2000

ASSUME FetchAssumption ==
    /\ None \notin Brokers /\ Brokers # {} /\ IsFiniteSet(Brokers)
    /\ AutoReset \in {BEGINNING, END, INVALID}
    /\ Starts \cup Seeks \subseteq Int
    /\ \A o \in Starts \cup Seeks : o \in {BEGINNING, END} \/ o >= 0 \/ o <= TAIL_BASE
    /\ {QueuedMin, BatchSize, MaxEnd} \subseteq Nat \ {0}
    /\ {MaxCalls, MaxFaults} \subseteq Nat

VARIABLES
    rktp,       \* the partition, with its fetch queue and its OffsetRequests
    ops,        \* rktp_ops: ops for the main thread
    fetching,   \* per broker: its Fetch request in flight, or none
    log,        \* the log's start and end and its leader
    wanted,     \* the offset the application is to get next, ANY or NOTHING
    held,       \* did the application pause the partition?
    astray,     \* has the position been replaced behind the application's back?
    calls, faults

client  == <<rktp, ops, fetching>>
history == <<wanted, held, astray>>
vars    == <<client, log, history, calls, faults>>

(* What the application may get next when that is not one offset. *)
ANY     == -1
NOTHING == -2

NoFetch == [offset |-> INVALID, version |-> 0]

Init ==
    /\ LET b == CHOOSE b \in Brokers : TRUE IN
        /\ rktp = [version |-> 1, opVersion |-> 1, state |-> "NONE", next |-> INVALID,
                   query |-> INVALID, timer |-> FALSE, paused |-> FALSE, app |-> INVALID,
                   lo |-> INVALID, fetch |-> INVALID, lastNext |-> INVALID,
                   fetchVersion |-> 0, fetchq |-> <<>>, queries |-> <<>>,
                   broker |-> b, nextBroker |-> None]
        /\ log = [start |-> 0, end |-> 1, leader |-> b]
    /\ ops = <<>>
    /\ fetching = [b \in Brokers |-> NoFetch]
    /\ wanted = NOTHING /\ held = FALSE /\ astray = FALSE
    /\ calls = 0 /\ faults = 0

-----------------------------------------------------------------------------
(* Finding the offset to fetch from: functions of the main thread *)

IsLogical(o) == o < 0

(* offset_retry(): the query is sent when the timer fires. *)
Retry(t) == [t EXCEPT !.state = "OFFSET_QUERY", !.timer = TRUE]

(* offset_request() *)
Request(t, query, backoff) ==
    IF backoff \/ t.broker = None
    THEN Retry(t)
    ELSE [t EXCEPT !.timer = FALSE, !.state = "OFFSET_WAIT",
                   !.queries = Append(@, [broker |-> t.broker, version |-> t.opVersion,
                                          query |-> IF query <= TAIL_BASE THEN END ELSE query])]

(* next_offset_handle() of an absolute offset *)
Concrete(t, offset) ==
    [t EXCEPT !.state = "ACTIVE",
              !.next = IF t.query <= TAIL_BASE
                       THEN Max({0, offset + (t.query - TAIL_BASE)}) ELSE offset]

Error == [offset |-> INVALID, version |-> 0]

(* offset_reset() *)
Reset(t, offset, err) ==
    LET target == IF offset = INVALID \/ err THEN AutoReset ELSE offset
    IN  CASE target = INVALID -> [t EXCEPT !.state = "NONE", !.fetchq = Append(@, Error)]
          [] target = BEGINNING /\ t.lo >= 0 -> Concrete(t, t.lo)
          [] OTHER -> Request([t EXCEPT !.query = target], target, err)

NextOffset(t, offset) ==
    IF IsLogical(offset) THEN Reset([t EXCEPT !.next = offset], offset, FALSE)
    ELSE Concrete(t, offset)

(* The common part of fetch_start() and seek(). *)
Position(t, offset) ==
    IF IsLogical(offset) THEN NextOffset(t, offset)
    ELSE [t EXCEPT !.next = offset, !.state = "ACTIVE"]

Lookup == {"OFFSET_QUERY", "OFFSET_WAIT"}

(* The query timer is stopped only in the state OFFSET_QUERY. *)
StopTimer(t) == [t EXCEPT !.timer = @ /\ t.state # "OFFSET_QUERY"]

FetchStart(t, op) == Position([t EXCEPT !.opVersion = op.version], op.offset)

(* fetch_stop() without an offset store: fetch_stopped() follows at once. *)
FetchStop(t, op) ==
    [StopTimer(t) EXCEPT !.opVersion = op.version, !.state = "STOPPED", !.app = INVALID]

Seek(t, op) ==
    IF t.state \in Lookup \cup {"ACTIVE"}
    THEN Position([StopTimer(t) EXCEPT !.opVersion = op.version], op.offset)
    ELSE t

(* q_purge_toppar_version(): only the head of the queue is looked at. *)
Purge(q, version) ==
    SubSeq(q, Min({i \in DOMAIN q : q[i].version >= version} \cup {Len(q) + 1}), Len(q))

Pause(t, op) ==
    [t EXCEPT !.opVersion = op.version, !.paused = TRUE,
              !.next = IF t.app # INVALID THEN t.app ELSE @,
              !.fetchq = Purge(@, op.version)]

Resume(t, op) ==
    LET r == [t EXCEPT !.opVersion = op.version, !.paused = FALSE]
    IN  IF r.state \in {"ACTIVE", "OFFSET_WAIT"} /\ r.next = INVALID
        THEN NextOffset(r, r.next) ELSE r

(* handle_Offset(): a reply of a former leader or version starts a retry. *)
HandleOffset(t, op) ==
    IF t.broker # op.broker \/ op.version < t.opVersion
    THEN Retry(t)
    ELSE CASE op.err = "transient" -> Reset(t, t.query, TRUE)
           [] op.err = "permanent" -> LET r == Reset(t, t.query, TRUE)
                                      IN  [r EXCEPT !.fetchq = Append(@, Error)]
           [] OTHER -> NextOffset(t, op.offset)

-----------------------------------------------------------------------------
(* The application *)

Op(type, version, offset) ==
    [type |-> type, version |-> version, offset |-> offset, broker |-> None, err |-> "none"]

(* A call that waits for its op: rd_kafka_consume_stop(), and the pause and *)
(* the resume, which are made with RD_SYNC.                                 *)
Blocked == \E n \in DOMAIN ops : ops[n].type \in {"STOP", "PAUSE", "RESUME"}

(* The first message after a start or a seek to offset. *)
First(offset) ==
    CASE ~IsLogical(offset) -> offset
      [] offset = BEGINNING -> 0
      [] OTHER -> ANY

(* The version barrier is raised at once, the op is left to the main thread; *)
(* held and wanted are those of the time when the call returns.              *)
Call(type, offset) ==
    /\ calls < MaxCalls /\ ~Blocked
    /\ (type = "START") = (wanted = NOTHING)
    /\ type \in {"PAUSE", "RESUME"} => held = (type = "RESUME")
    /\ calls' = calls + 1
    /\ rktp' = [rktp EXCEPT !.version = @ + 1]
    /\ ops' = Append(ops, Op(type, rktp'.version, offset))
    /\ wanted' = CASE type \in {"START", "SEEK"} -> First(offset)
                   [] type = "STOP" -> NOTHING
                   [] OTHER -> wanted
    /\ held' = IF type \in {"PAUSE", "RESUME"} THEN ~held ELSE held
    /\ UNCHANGED <<fetching, log, astray, faults>>

(* Variant: what a late answer brings is not compared with the barrier. *)
Fresh_NoVersion(t) == t.fetchq

(* rd_kafka_consume(): outdated messages are dropped from the head. *)
Fresh(t) ==
    LET Outdated(m) == m.version # 0 /\ m.version < t.version
    IN  SubSeq(t.fetchq, Min({i \in DOMAIN t.fetchq : ~Outdated(t.fetchq[i])}
                             \cup {Len(t.fetchq) + 1}), Len(t.fetchq))

Consume ==
    /\ rktp.fetchq # <<>> /\ ~Blocked
    /\ LET q == Fresh(rktp)
           o == IF q = <<>> THEN INVALID ELSE Head(q).offset
       IN  /\ rktp' = [rktp EXCEPT !.fetchq = IF q = <<>> THEN q ELSE Tail(q),
                                   !.app = IF o = INVALID THEN @ ELSE o + 1]
           /\ wanted' = IF o = INVALID THEN wanted ELSE o + 1
    /\ UNCHANGED <<ops, fetching, log, held, astray, calls, faults>>

-----------------------------------------------------------------------------
(* The main thread *)

Handled(t, op) ==
    CASE op.type = "START"  -> FetchStart(t, op)
      [] op.type = "STOP"   -> FetchStop(t, op)
      [] op.type = "SEEK"   -> Seek(t, op)
      [] op.type = "PAUSE"  -> Pause(t, op)
      [] op.type = "RESUME" -> Resume(t, op)
      [] op.type = "RESET"  -> Reset(t, op.offset, TRUE)
      [] op.type = "OFFSET" -> HandleOffset(t, op)

(* Is the position of the application lost with this op? Because the reply *)
(* of an OffsetRequest comes when no lookup is going on, because the fetch  *)
(* that was out of range is older than the last call, or because the offset *)
(* a pause saves is older than the last seek.                               *)
Strays(t, op) ==
    CASE op.type = "OFFSET" -> t.state \notin Lookup
      [] op.type = "RESET"  -> op.version < t.opVersion
      [] op.type = "PAUSE"  -> t.app \notin {INVALID, wanted}
      [] OTHER -> FALSE

OpServe ==
    /\ ops # <<>>
    /\ ops' = Tail(ops)
    /\ LET op == Head(ops)
       IN  /\ rktp' = Handled(rktp, op)
           /\ astray' = (Strays(rktp, op) \/ (astray /\ op.type \notin {"START", "SEEK"}))
           /\ wanted' = IF op.type # "RESET" \/ Strays(rktp, op) THEN wanted
                        ELSE IF AutoReset # BEGINNING THEN ANY
                        ELSE IF op.offset > log.end THEN 0 ELSE wanted
    /\ UNCHANGED <<fetching, log, held, calls, faults>>

QueryTimer ==
    /\ rktp.timer
    /\ rktp' = Request(rktp, rktp.query, FALSE)
    /\ astray' = (astray \/ rktp.state \notin Lookup)
    /\ UNCHANGED <<ops, fetching, log, wanted, held, calls, faults>>

(* broker_update() to the leader in the metadata, with broker_delegate() and *)
(* broker_migrate(). A partition that is still with its leader is left alone, *)
(* although it may be on the way to another broker.                          *)
LeaderUpdate ==
    /\ rktp.broker # log.leader /\ rktp.nextBroker # log.leader
    /\ LET t == [rktp EXCEPT !.nextBroker = log.leader]
       IN  rktp' = IF rktp.nextBroker = None /\ rktp.state = "OFFSET_WAIT" THEN Retry(t) ELSE t
    /\ UNCHANGED <<ops, fetching, log, history, calls, faults>>

-----------------------------------------------------------------------------
(* The broker threads *)

Leave ==
    /\ rktp.broker # None /\ rktp.nextBroker # None
    /\ rktp' = [rktp EXCEPT !.broker = None]
    /\ UNCHANGED <<ops, fetching, log, history, calls, faults>>

Join ==
    /\ rktp.broker = None
    /\ rktp' = [rktp EXCEPT !.broker = rktp.nextBroker, !.nextBroker = None]
    /\ UNCHANGED <<ops, fetching, log, history, calls, faults>>

(* Variant: a new position without a new version goes unnoticed. *)
Decide_VersionOnly(t) ==
    IF t.opVersion > t.fetchVersion
    THEN [t EXCEPT !.fetch = t.next, !.lastNext = t.next, !.fetchVersion = t.opVersion,
                   !.fetchq = Purge(@, t.opVersion)]
    ELSE t

(* fetch_decide() of an active partition: a new version or position. *)
Decide(t) ==
    IF t.opVersion > t.fetchVersion \/ t.next # t.lastNext \/ t.fetch = INVALID
    THEN [t EXCEPT !.fetch = t.next, !.lastNext = t.next, !.fetchVersion = t.opVersion,
                   !.fetchq = Purge(@, t.opVersion)]
    ELSE t

(* fetch.error.backoff.ms, long enough for the main thread to serve the op  *)
(* that the error queued.                                                   *)
BackedOff == \E n \in DOMAIN ops : ops[n].type = "RESET"

(* Variant: no look at queued.min.messages. *)
ShouldFetch_Unlimited(t) == ~t.paused /\ ~IsLogical(t.next) /\ ~BackedOff

ShouldFetch(t) ==
    ~t.paused /\ ~IsLogical(t.next) /\ Len(t.fetchq) < QueuedMin /\ ~BackedOff

(* A round of consumer_serve(): decide, and fetch if no Fetch is in flight. *)
Serve ==
    /\ rktp.broker # None /\ rktp.state = "ACTIVE"
    /\ rktp' = Decide(rktp)
    /\ fetching' = IF ShouldFetch(rktp') /\ fetching[rktp.broker] = NoFetch
                   THEN [fetching EXCEPT ![rktp.broker] =
                            [offset |-> rktp'.fetch, version |-> rktp'.fetchVersion]]
                   ELSE fetching
    /\ <<rktp', fetching'>> # <<rktp, fetching>>
    /\ UNCHANGED <<ops, log, history, calls, faults>>

(* The answer to a Fetch at offset: the stored batch that holds it.        *)
BatchStart(offset) == offset - (offset % BatchSize)
BatchEnd(offset)   == Min({BatchStart(offset) + BatchSize, log.end})

Messages(from, to, version) ==
    [n \in 1..(to - from) |-> [offset |-> from + n - 1, version |-> version]]

(* Variant: the reader takes the whole batch. *)
Enqueue_NoSkip(t, req) ==
    LET to == BatchEnd(req.offset)
    IN  [t EXCEPT !.fetchq = @ \o Messages(BatchStart(req.offset), to, req.version), !.fetch = to]

(* fetch_reply_handle() of messages: the reader skips the offsets before    *)
(* the fetch offset.                                                        *)
Enqueue(t, req) ==
    LET from == Max({BatchStart(req.offset), t.fetch})
        to   == BatchEnd(req.offset)
    IN  [t EXCEPT !.fetchq = @ \o Messages(from, to, req.version), !.fetch = Max({@, to})]

(* An error that is passed to the application and not only retried; it has  *)
(* the version of its request.                                              *)
Failure(req) == [offset |-> INVALID, version |-> req.version]

FetchReply(b) ==
    /\ fetching[b] # NoFetch
    /\ fetching' = [fetching EXCEPT ![b] = NoFetch]
    /\ LET req  == fetching[b]
           live == rktp.broker = b /\ req.version >= rktp.fetchVersion
       IN  \/ /\ b # log.leader                       \* NOT_LEADER_FOR_PARTITION
              /\ rktp' = [rktp EXCEPT !.lo = INVALID]
              /\ UNCHANGED <<ops, faults>>
           \/ /\ b = log.leader
              /\ req.offset \in log.start..log.end
              /\ LET t == [rktp EXCEPT !.lo = log.start]
                 IN  rktp' = IF live /\ req.offset < log.end THEN Enqueue(t, req) ELSE t
              /\ UNCHANGED <<ops, faults>>
           \/ /\ b = log.leader                       \* OFFSET_OUT_OF_RANGE
              /\ req.offset \notin log.start..log.end
              /\ LET t == [rktp EXCEPT !.lo = INVALID]
                 IN  rktp' = IF live THEN [t EXCEPT !.fetch = INVALID] ELSE t
              /\ ops' = IF live THEN Append(ops, Op("RESET", rktp.fetchVersion, rktp.fetch)) ELSE ops
              /\ UNCHANGED faults
           \/ /\ b = log.leader                       \* another error of the partition
              /\ faults < MaxFaults
              /\ LET t == [rktp EXCEPT !.lo = INVALID]
                 IN  \/ rktp' = t
                     \/ live /\ rktp' = [t EXCEPT !.fetchq = Append(@, Failure(req))]
              /\ faults' = faults + 1
              /\ UNCHANGED ops
           \/ /\ faults < MaxFaults                   \* the connection was lost
              /\ faults' = faults + 1
              /\ UNCHANGED <<rktp, ops>>
    /\ UNCHANGED <<log, history, calls>>

-----------------------------------------------------------------------------
(* The cluster *)

(* The oldest OffsetRequest at a broker is answered, or fails. *)
OffsetAnswer ==
    /\ \E n \in DOMAIN rktp.queries :
        LET q == rktp.queries[n]
            Reply(err, offset) ==
                Append(ops, [Op("OFFSET", q.version, offset) EXCEPT !.broker = q.broker, !.err = err])
        IN  /\ \A i \in 1..(n - 1) : rktp.queries[i].broker # q.broker
            /\ rktp' = [rktp EXCEPT !.queries = SubSeq(@, 1, n - 1) \o SubSeq(@, n + 1, Len(@))]
            /\ \/ /\ q.broker = log.leader
                  /\ ops' = Reply("none", IF q.query = BEGINNING THEN log.start ELSE log.end)
                  /\ UNCHANGED faults
               \/ /\ q.broker # log.leader
                  /\ ops' = Reply("transient", INVALID)
                  /\ UNCHANGED faults
               \/ /\ faults < MaxFaults
                  /\ \E err \in {"transient", "permanent"} : ops' = Reply(err, INVALID)
                  /\ faults' = faults + 1
    /\ UNCHANGED <<fetching, log, history, calls>>

Elect ==
    /\ faults < MaxFaults
    /\ \E b \in Brokers \ {log.leader} : log' = [log EXCEPT !.leader = b]
    /\ faults' = faults + 1
    /\ UNCHANGED <<client, history, calls>>

Trim ==
    /\ faults < MaxFaults
    /\ \E o \in (log.start + 1)..log.end : log' = [log EXCEPT !.start = o]
    /\ faults' = faults + 1
    /\ UNCHANGED <<client, history, calls>>

Extend ==
    /\ log.end < MaxEnd
    /\ log' = [log EXCEPT !.end = @ + 1]
    /\ UNCHANGED <<client, history, calls, faults>>

-----------------------------------------------------------------------------
AppCall ==
    \/ \E o \in Starts : Call("START", o)
    \/ \E o \in Seeks : Call("SEEK", o)
    \/ \E type \in {"STOP", "PAUSE", "RESUME"} : Call(type, INVALID)

Next ==
    \/ AppCall \/ Consume
    \/ OpServe \/ QueryTimer \/ LeaderUpdate
    \/ Leave \/ Join \/ Serve
    \/ \E b \in Brokers : FetchReply(b)
    \/ OffsetAnswer \/ Elect \/ Trim \/ Extend

Spec == Init /\ [][Next]_vars

(* The threads run and the timer fires; a request in flight is answered, or *)
(* fails when its timeout or the connection's end comes; the application    *)
(* keeps calling rd_kafka_consume().                                        *)
Fairness ==
    /\ WF_vars(Consume)
    /\ WF_vars(OpServe) /\ WF_vars(QueryTimer) /\ WF_vars(LeaderUpdate)
    /\ WF_vars(Leave) /\ WF_vars(Join) /\ WF_vars(Serve)
    /\ \A b \in Brokers : WF_vars(FetchReply(b))
    /\ WF_vars(OffsetAnswer)

FairSpec == Spec /\ Fairness

-----------------------------------------------------------------------------
Offsets  == 0..MaxEnd \cup {o \in Starts \cup Seeks : ~IsLogical(o)}
Versions == 0..(MaxCalls + 1)
Entries  == [offset : Offsets \cup {INVALID}, version : Versions]

(* The partition has the types of rd_kafka_toppar_t; the fetch queue never  *)
(* holds more than queued.min.messages allows and an answer per broker, the *)
(* versions are ordered as rdkafka_partition.h says.                        *)
TypeOK ==
    /\ rktp.state \in {"NONE", "STOPPED", "OFFSET_QUERY", "OFFSET_WAIT", "ACTIVE"}
    /\ rktp.next \in Offsets \cup Starts \cup Seeks \cup {INVALID}
    /\ {rktp.app, rktp.fetch, rktp.lo} \subseteq Offsets \cup {INVALID}
    /\ rktp.timer \in BOOLEAN /\ rktp.paused \in BOOLEAN
    /\ rktp.fetchq \in Seq(Entries)
    /\ Cardinality({n \in DOMAIN rktp.fetchq : rktp.fetchq[n] # Error})
            < QueuedMin + BatchSize * Cardinality(Brokers)
    /\ rktp.fetchVersion <= rktp.opVersion /\ rktp.opVersion <= rktp.version
    /\ rktp.broker = None => rktp.nextBroker # None
    /\ fetching \in [Brokers -> Entries]
    /\ wanted \in Offsets \cup {ANY, NOTHING}

(* Is offset o what the application is to get next? Messages between the    *)
(* one it waits for and o may only be missing if the log lost them.         *)
InPlace(o) == wanted = ANY \/ (wanted >= 0 /\ wanted <= o /\ (o = wanted \/ o <= log.start))

Ready == ~Blocked /\ Fresh(rktp) # <<>> /\ Head(Fresh(rktp)).offset # INVALID

(* What rd_kafka_consume() returns next is the message after the last one,  *)
(* or the first one after a start or a seek: no message twice, none skipped *)
(* that the log still has, and none after a stop, whatever the order of ops, *)
(* replies and leader changes, as long as no lookup, reset or pause (see    *)
(* Strays) has replaced the position.                                       *)
NextInPlace == Ready /\ ~astray => InPlace(Head(Fresh(rktp)).offset)

(* The same without the exception.                                          *)
AlwaysInPlace == Ready => InPlace(Head(Fresh(rktp)).offset)

(* After rd_kafka_pause_partitions() returns, rd_kafka_consume() returns no *)
(* message until the resume: the main thread has purged the queue, and what *)
(* the Fetch requests in flight bring after that is outdated.               *)
PauseHolds == held => ~Ready

(* A Fetch request carries an absolute offset (the assertion in             *)
(* rd_kafka_broker_fetch_toppars()), although an answer out of range leaves *)
(* an active partition without one until it is decided anew.                *)
FetchIsAbsolute == \A b \in Brokers : fetching[b] # NoFetch => fetching[b].offset >= 0

AtEnd == /\ rktp.state = "ACTIVE"
         /\ rktp.fetch = log.end /\ rktp.fetchVersion = rktp.version
         /\ ~Ready

(* Every message gets to the application in the end: a partition that is    *)
(* neither stopped nor paused, nor given up by auto.offset.reset=error, is  *)
(* read up to the end of the log after the last election and failure.       *)
CaughtUp == <>[](wanted = NOTHING \/ held \/ rktp.state = "NONE" \/ AtEnd)

=============================================================================
