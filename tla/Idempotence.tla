----------------------------- MODULE Idempotence -----------------------------
(***************************************************************************)
(* The idempotent producer of librdkafka (enable.idempotence=true): the    *)
(* path of the messages of one partition from rd_kafka_produce() to the    *)
(* log of the partition leader and back as delivery reports.               *)
(*                                                                         *)
(* Five parties take steps: the application (Produce), the thread of the   *)
(* leader's broker (Serve, PurgeOutbufs, MsgTimeout, Send, Receive,        *)
(* HandleResult, ...), the thread of a previous leader (OldResult, ...,    *)
(* OldDone), the main thread (PidFsm, PidUpdate, PidFailed), and the       *)
(* leader, which is not part of this code (Answer, WriteStale, Forget).    *)
(*                                                                         *)
(* A broker thread works alone on a partition, and its steps are whole     *)
(* handlers, until the leader changes.  From then on two threads share the *)
(* partition: the previous leader's handles the results of what it sent in *)
(* five steps, one for each time it takes the lock of the partition or of  *)
(* the instance, and they may come between the steps of a round of the new *)
(* leader's thread: it reads the PID (GetPid), takes the messages that     *)
(* wait (Collect), and sends (ServeLate).                                  *)
(*                                                                         *)
(* A message is its msgid.  A message queue is sorted by msgid at every    *)
(* insertion, so it is the set of its msgids.  A ProduceRequest is a       *)
(* record: its messages, the sequence number of the first one and its PID. *)
(* The epoch stands for the PID: 0 is the invalid PID, and the id itself   *)
(* never changes, since only the transactional producer or a fatal error   *)
(* resets it.                                                              *)
(***************************************************************************)
EXTENDS Integers, Sequences, FiniteSetsExt

CONSTANTS
    MaxMsgid,       \* messages the application produces
    BatchNum,       \* batch.num.messages
    MaxRetries,     \* message.send.max.retries
    MaxInflight,    \* RD_KAFKA_IDEMP_MAX_INFLIGHT
    Gapless,        \* enable.gapless.guarantee
    ScanGap,        \* may a message expire in a queue before an older one in flight?
    MaxMoves,       \* bound: changes of the leader
    MaxFaults       \* bound: faults of the network and of the leader

ASSUME IdempotenceAssumption ==
    /\ {MaxMsgid, MaxRetries, MaxMoves, MaxFaults} \subseteq Nat
    /\ {BatchNum, MaxInflight} \subseteq Nat \ {0}
    /\ {Gapless, ScanGap} \subseteq BOOLEAN

Msgs == 1..MaxMsgid

VARIABLES
    msgid,      \* rktp_msgid: messages produced so far
    msgq,       \* rktp_msgq: the partition queue
    xmitq,      \* rktp_xmit_msgq: the queue of the broker thread
    msg,        \* per message: retries, last_msgid and status
    report,     \* per message: the status in its delivery report, or "none"
    tp,         \* rktp_eos: pid, base msgid, next_ack, next_err, acked msgid, wait_drain
    rk,         \* rk_eos and rk_fatal: pid, idemp_state, fatal, queued OP_PURGE
    conn,       \* is the broker UP?
    outbufs,    \* rkb_outbufs: requests not sent yet
    waitresps,  \* rkb_waitresps: requests sent, in order
    resps,      \* responses on their way, to the first requests of waitresps
    results,    \* failed requests the broker thread is handing to handle_Produce
    old,        \* requests and their results at the thread of the previous leader
    ending,     \* the result it is handling
    joined,     \* is the partition delegated to the thread of its leader?
    moves,      \* changes of the leader so far
    round,      \* of the leader's thread: the PID it read, has it taken the messages?
    stale,      \* requests of lost connections that may still reach the leader
    leader,     \* what the leader knows of the PID: epoch, next sequence, batches
    log,        \* the log of the partition
    renumbered, \* messages in doubt when their sequence number was replaced
    issued,     \* the ProduceRequests of the epoch of the partition so far
    faults

queues  == <<msgq, xmitq, msg, report>>
network == <<conn, outbufs, waitresps, resps, results, stale>>
move    == <<old, ending, joined, moves>>
remote  == <<leader, log>>
history == <<renumbered, issued>>
vars    == <<msgid, queues, tp, rk, network, move, round, remote, history, faults>>

(* No round, and no result, is in progress. *)
NoRound  == [pid |-> 0, moved |-> FALSE]
NoResult == [at |-> "none", req |-> [msgs |-> {}, seq |-> 0, pid |-> 0], err |-> "NO_ERROR",
             sent |-> FALSE, last |-> FALSE, left |-> {},
             perr |-> [actions |-> {}, status |-> "NOT_PERSISTED", incr |-> 0, ack |-> FALSE,
                       raise |-> "nothing"]]

Init ==
    /\ msgid = 0
    /\ msgq = {} /\ xmitq = {}
    /\ msg = [m \in Msgs |-> [retries |-> 0, last |-> 0, status |-> "NOT_PERSISTED"]]
    /\ report = [m \in Msgs |-> "none"]
    /\ tp = [pid |-> 0, base |-> 0, ack |-> 0, err |-> 0, acked |-> 0, drain |-> FALSE]
    /\ rk = [pid |-> 0, state |-> "REQ_PID", fatal |-> "NO_ERROR", purge |-> FALSE]
    /\ conn = TRUE
    /\ outbufs = <<>> /\ waitresps = <<>> /\ resps = <<>> /\ results = <<>>
    /\ old = <<>> /\ ending = NoResult /\ joined = TRUE /\ moves = 0 /\ round = NoRound
    /\ stale = {}
    /\ leader = [epoch |-> 0, next |-> 0, seen |-> {}]
    /\ log = <<>>
    /\ renumbered = {} /\ issued = {}
    /\ faults = 0

-----------------------------------------------------------------------------
(* The state of the client instance *)

(* set_fatal_error(): the first one is kept, and purges the queues. *)
Fatal(k, err) ==
    IF k.fatal = "NO_ERROR" THEN [k EXCEPT !.fatal = err, !.purge = TRUE] ELSE k

SetState(k, state) ==
    [k EXCEPT !.state =
        IF k.fatal # "NO_ERROR" /\ state \notin {"DRAIN_RESET", "DRAIN_BUMP"}
        THEN "FATAL_ERROR" ELSE state]

DrainDone_ForgetsBump(k) ==
    IF k.state = "DRAIN_RESET" THEN SetState(k, "REQ_PID") ELSE k

(* The end of a drain: no partition has a request in flight. *)
DrainDone(k) ==
    CASE k.state = "DRAIN_RESET" -> SetState(k, "REQ_PID")
      [] k.state = "DRAIN_BUMP" /\ k.pid # 0 -> SetState([k EXCEPT !.pid = @ + 1], "ASSIGNED")
      [] OTHER -> k

Pid == IF rk.state = "ASSIGNED" THEN rk.pid ELSE 0

(* The requests whose messages rktp_msgs_inflight counts: it drops when    *)
(* the result of one begins to be handled.                                 *)
Requests ==
    LET Req(xs) == [n \in DOMAIN xs |-> xs[n].req]
    IN  outbufs \o waitresps \o Req(results) \o Req(old)

Inflight == Cardinality(UNION {Requests[n].msgs : n \in DOMAIN Requests})

(* check_drain_done(): no partition is counted as in flight, and a result  *)
(* that was the last one counts until it has been handled.                 *)
Drained == Inflight = 0 /\ ~ending.last

PidFsm ==
    /\ rk.fatal = "NO_ERROR"
    /\ rk.state \in {"REQ_PID", "WAIT_TRANSPORT"}
    /\ rk' = SetState(rk, IF conn THEN "WAIT_PID" ELSE "WAIT_TRANSPORT")
    /\ UNCHANGED <<msgid, queues, tp, network, move, round, remote, history, faults>>

PidUpdate ==
    /\ rk.state = "WAIT_PID"
    /\ rk' = SetState([rk EXCEPT !.pid = @ + 1], "ASSIGNED")
    /\ UNCHANGED <<msgid, queues, tp, network, move, round, remote, history, faults>>

PidFailed ==
    /\ rk.state = "WAIT_PID"
    /\ faults < MaxFaults
    /\ rk' \in {SetState(rk, "REQ_PID"), SetState(Fatal(rk, "__UNSUPPORTED_FEATURE"), "FATAL_ERROR")}
    /\ faults' = faults + 1
    /\ UNCHANGED <<msgid, queues, tp, network, move, round, remote, history>>

-----------------------------------------------------------------------------
(* The application and the broker thread on their way out *)

Produce ==
    /\ msgid < MaxMsgid
    /\ rk.fatal = "NO_ERROR"
    /\ msgid' = msgid + 1
    /\ msgq' = msgq \cup {msgid'}
    /\ UNCHANGED <<xmitq, msg, report, tp, rk, network, move, round, remote, history, faults>>

(* pid_change(): the messages that wait are numbered anew from the first. *)
PidChange(eos, pid, queue) ==
    [eos EXCEPT !.pid = pid, !.base = Min(queue), !.ack = 0, !.err = 0]

Batches_NotReconstructed(queue) ==
    {{m \in queue : Cardinality({k \in queue : k <= m}) <= n} : n \in 1..BatchNum}

(* The messages write_msgq() may take from a queue: a batch that was sent  *)
(* before is reconstructed, else as many as the limits allow.              *)
Batches(queue) ==
    LET first   == Min(queue)
        last    == msg[first].last
        Span(n) == {m \in queue : Cardinality({k \in queue : k <= m}) <= n}
    IN  IF last # 0
        THEN {{m \in Span(BatchNum) : m <= last}}
        ELSE {Span(n) : n \in 1..BatchNum}

Sequence_NextAck(m, eos) == eos.ack

(* The sequence number of a message follows from its msgid. *)
Sequence(m, eos) == m - eos.base

ProduceRequest(pid, queue, eos) ==
    \E batch \in Batches(queue) :
        LET last == msg[Min(batch)].last
        IN  IF last \in {0, Max(batch)}
            THEN /\ outbufs' = <<[msgs |-> batch, seq |-> Sequence(Min(batch), eos), pid |-> pid]>>
                 /\ xmitq' = queue \ batch
                 /\ rk' = rk
            ELSE /\ rk' = Fatal(rk, "__INCONSISTENT")
                 /\ xmitq' = queue
                 /\ outbufs' = outbufs

(* The messages in doubt that pid_change() renumbers. *)
InDoubt(queue) == {m \in queue : msg[m].status = "POSSIBLY_PERSISTED"}

AwaitsOldPid_Never(pid) == FALSE

(* With a new PID the requests of the one before are waited for. *)
AwaitsOldPid(pid) == pid # tp.pid /\ Inflight > 0

(* toppar_producer_serve() with the messages it has taken. *)
ServeQueue(pid, queue) ==
    /\ LET eos    == [tp EXCEPT !.drain = FALSE]
           change == pid # tp.pid
       IN  \/ /\ tp.drain /\ Inflight > 0
              /\ xmitq' = queue
              /\ UNCHANGED <<tp, rk, outbufs, history>>
           \/ /\ ~(tp.drain /\ Inflight > 0)
              /\ Inflight >= MaxInflight \/ queue = {} \/ AwaitsOldPid(pid)
              /\ xmitq' = queue
              /\ tp' = eos
              /\ UNCHANGED <<rk, outbufs, history>>
           \/ /\ ~(tp.drain /\ Inflight > 0)
              /\ Inflight < MaxInflight /\ queue # {} /\ ~AwaitsOldPid(pid)
              /\ tp' = IF change THEN PidChange(eos, pid, queue) ELSE eos
              /\ renumbered' = renumbered \cup (IF change THEN InDoubt(queue) ELSE {})
              /\ \/ /\ xmitq' = queue
                    /\ UNCHANGED <<rk, outbufs>>
                 \/ /\ conn
                    /\ ProduceRequest(pid, queue, tp')
              /\ issued' = (IF change THEN {} ELSE issued) \cup {outbufs'[n] : n \in DOMAIN outbufs'}
    /\ round' = NoRound
    /\ UNCHANGED <<msgid, msg, report, conn, waitresps, resps, results, stale, move, remote, faults>>

(* produce_toppars() and toppar_producer_serve() with room for a request   *)
(* in outbufs, when no other thread comes between.                         *)
Serve ==
    /\ results = <<>> /\ joined
    /\ Pid # 0 /\ rk.fatal = "NO_ERROR"
    /\ outbufs = <<>>
    /\ msgq' = {}
    /\ ServeQueue(Pid, xmitq \cup msgq)

(* The same while the thread of the previous leader is at work:            *)
(* produce_toppars() reads the PID once, ...                               *)
GetPid ==
    /\ results = <<>> /\ joined
    /\ old # <<>> \/ ending # NoResult
    /\ Pid # 0
    /\ round.pid # Pid \/ (round.moved /\ msgq # {})
    /\ round' = [pid |-> Pid, moved |-> FALSE]
    /\ UNCHANGED <<msgid, queues, tp, rk, network, move, remote, history, faults>>

(* ... the messages that wait are taken under the lock, ...                *)
Collect ==
    /\ round.pid # 0 /\ ~round.moved
    /\ rk.fatal = "NO_ERROR"
    /\ outbufs = <<>>
    /\ round' = [round EXCEPT !.moved = TRUE]
    /\ xmitq' = xmitq \cup msgq
    /\ msgq' = {}
    /\ UNCHANGED <<msgid, msg, report, tp, rk, network, move, remote, history, faults>>

(* ... and what follows uses both, whatever they are by then.              *)
ServeLate ==
    /\ round.moved
    /\ msgq' = msgq
    /\ ServeQueue(round.pid, xmitq)

Failed_FirstOnly(requests, err, sent) ==
    IF requests = <<>> THEN <<>> ELSE <<[req |-> Head(requests), err |-> err, sent |-> sent]>>

(* bufq_purge(): every request of a queue is handed to its callback. *)
Failed(requests, err, sent) ==
    [n \in DOMAIN requests |-> [req |-> requests[n], err |-> err, sent |-> sent]]

(* The PID at the start of a round: the one that GetPid read, or a new one. *)
RoundPids == {Pid} \cup (IF round.moved \/ round.pid = 0 THEN {} ELSE {round.pid})

(* toppar_producer_serve() with a request still in outbufs. *)
PurgeOutbufs ==
    /\ results = <<>>
    /\ outbufs # <<>>
    /\ \E pid \in RoundPids : pid # 0 /\ (pid # tp.pid \/ tp.drain)
    /\ results' = Failed(outbufs, "__RETRY", FALSE)
    /\ outbufs' = <<>>
    /\ round' = NoRound
    /\ UNCHANGED <<msgid, queues, tp, rk, conn, waitresps, resps, stale, move, remote, history,
                   faults>>

Send ==
    /\ results = <<>>
    /\ conn
    /\ outbufs # <<>>
    /\ Len(waitresps) < MaxInflight
    /\ waitresps' = Append(waitresps, Head(outbufs))
    /\ outbufs' = Tail(outbufs)
    /\ round' = NoRound
    /\ UNCHANGED <<msgid, queues, tp, rk, conn, resps, results, stale, move, remote, history,
                   faults>>

(* The timeout scan of toppar_producer_serve(): messages up to the k-th    *)
(* have waited for message.timeout.ms.                                     *)
MsgTimeout(k) ==
    /\ results = <<>> /\ joined
    /\ ScanGap \/ \A n \in DOMAIN Requests : Min(Requests[n].msgs) > k
    /\ round' = NoRound
    /\ LET expired == {m \in msgq \cup xmitq : m <= k}
           bump    == SetState(rk, "DRAIN_BUMP")
       IN  /\ expired # {}
           /\ report' = [m \in Msgs |-> IF m \in expired THEN msg[m].status ELSE report[m]]
           /\ msgq' = msgq \ expired
           /\ xmitq' = xmitq \ expired
           /\ \E pid \in RoundPids :
                 rk' = CASE pid = 0 -> rk
                         [] pid # 0 /\ Drained -> DrainDone(bump)
                         [] pid # 0 /\ ~Drained -> bump
    /\ UNCHANGED <<msgid, msg, tp, network, move, remote, history, faults>>

(* The OP_PURGE that a fatal error sends to the broker thread. *)
PurgeQueues ==
    /\ results = <<>> /\ joined
    /\ rk.purge
    /\ rk' = [rk EXCEPT !.purge = FALSE]
    /\ results' = Failed(outbufs, "__PURGE_QUEUE", FALSE)
    /\ outbufs' = <<>>
    /\ report' = [m \in Msgs |-> IF m \in msgq \cup xmitq THEN msg[m].status ELSE report[m]]
    /\ msgq' = {} /\ xmitq' = {}
    /\ round' = NoRound
    /\ UNCHANGED <<msgid, msg, tp, conn, waitresps, resps, stale, move, remote, history, faults>>

-----------------------------------------------------------------------------
(* The broker thread on the way back: the result of a ProduceRequest *)

(* The actions for an error: err_action() with the table of                *)
(* handle_Produce_error(), and the persistence status they imply.          *)
Actions(err) ==
    CASE err = "__TRANSPORT" -> {"REFRESH", "MSG_POSSIBLY_PERSISTED"}
      [] err = "NOT_LEADER_FOR_PARTITION" -> {"REFRESH", "MSG_NOT_PERSISTED"}
      [] err \in {"NOT_ENOUGH_REPLICAS", "__TIMED_OUT_QUEUE"} -> {"RETRY", "MSG_NOT_PERSISTED"}
      [] err \in {"NOT_ENOUGH_REPLICAS_AFTER_APPEND", "__TIMED_OUT"} ->
            {"RETRY", "MSG_POSSIBLY_PERSISTED"}
      [] err \in {"OUT_OF_ORDER_SEQUENCE_NUMBER", "DUPLICATE_SEQUENCE_NUMBER",
                  "UNKNOWN_PRODUCER_ID"} -> {"PERMANENT", "MSG_POSSIBLY_PERSISTED"}
      [] err = "__RETRY" -> {"RETRY"}
      [] OTHER -> {"PERMANENT", "MSG_NOT_PERSISTED"}

(* A Produce_err: what to do with the messages, whether the sequence       *)
(* number to acknowledge next steps, and what is raised on the way.  (The  *)
(* next one to fail steps after every error.)                              *)
Perr(actions, status, incr, ack, raise) ==
    [actions |-> actions, status |-> status, incr |-> incr, ack |-> ack, raise |-> raise]

(* handle_idempotent_Produce_error() for the errors it has a case for. *)
IdempotentError(b, err) ==
    LET lost  == Perr({"PERMANENT"}, "POSSIBLY_PERSISTED", 1, FALSE, err)
        again == Perr({"RETRY"}, "NOT_PERSISTED", 0, FALSE, "bump")
    IN  IF b.pid # tp.pid
        THEN Perr({"PERMANENT"}, "POSSIBLY_PERSISTED", 1, FALSE, "nothing")
        ELSE CASE err = "OUT_OF_ORDER_SEQUENCE_NUMBER" ->
                     IF b.seq > tp.ack THEN again ELSE lost
               [] err = "DUPLICATE_SEQUENCE_NUMBER" ->
                     Perr({}, "PERSISTED", 1, TRUE, "nothing")
               [] err = "UNKNOWN_PRODUCER_ID" ->
                     IF msg[Min(b.msgs)].retries = 0 /\ tp.err = b.seq THEN again ELSE lost

IdempotentErrors ==
    {"OUT_OF_ORDER_SEQUENCE_NUMBER", "DUPLICATE_SEQUENCE_NUMBER", "UNKNOWN_PRODUCER_ID"}

(* handle_Produce_error() up to the retry of the messages. *)
ProduceError(b, err, sent) ==
    LET actions  == Actions(err)
        incr     == IF (actions \cap {"REFRESH"} # {} /\ err # "__TRANSPORT") \/ ~sent
                    THEN 0 ELSE 1
        possibly == "MSG_POSSIBLY_PERSISTED" \in actions /\ incr = 1
        status   == IF possibly THEN "POSSIBLY_PERSISTED" ELSE "NOT_PERSISTED"
    IN  IF b.pid # tp.pid \/ err \in IdempotentErrors
        THEN IdempotentError(b, err)
        ELSE IF "PERMANENT" \in actions
        THEN Perr(actions, status, 1, FALSE, "nothing")
        ELSE Perr(actions, status, incr, possibly, "nothing")

NewStatus_Overwrites(was, now) == now

(* A status in doubt is never taken back. *)
NewStatus(was, now) == IF now = "NOT_PERSISTED" THEN was ELSE now

(* toppar_retry_msgq(): the messages of a batch that may be sent again. *)
Retried(b, p) ==
    IF p.actions \cap {"REFRESH", "RETRY"} = {}
    THEN {}
    ELSE {m \in b.msgs : msg[m].retries + p.incr <= MaxRetries}

(* What an error raises, and what a permanent failure does. *)
Raise(k, p) ==
    CASE p.raise = "nothing" -> k
      [] p.raise = "bump" -> SetState(k, "DRAIN_BUMP")
      [] OTHER -> Fatal(k, p.raise)

Permanent(k, p) ==
    IF "PERMANENT" \notin p.actions
    THEN k
    ELSE IF Gapless
    THEN SetState(Fatal(k, "__GAPLESS_GUARANTEE"), "DRAIN_RESET")
    ELSE SetState(k, "DRAIN_BUMP")

(* The instance after an error, and after the end of a drain. *)
AfterError(p, last) ==
    LET failed == Permanent(Raise(rk, p), p)
    IN  IF last THEN DrainDone(failed) ELSE failed

Failure(b, p, last) ==
    LET retried == Retried(b, p)
        next    == b.seq + Cardinality(b.msgs)
    IN  /\ msg' = [m \in Msgs |->
                      [retries |-> IF m \in retried THEN msg[m].retries + p.incr
                                                    ELSE msg[m].retries,
                       last    |-> IF m = Min(b.msgs) THEN Max(b.msgs) ELSE msg[m].last,
                       status  |-> IF m \in b.msgs THEN NewStatus(msg[m].status, p.status)
                                                   ELSE msg[m].status]]
        /\ msgq' = msgq \cup retried
        /\ xmitq' = xmitq
        /\ report' = [m \in Msgs |-> IF m \in b.msgs \ retried THEN msg'[m].status
                                                             ELSE report[m]]
        /\ tp' = [tp EXCEPT !.ack = IF p.ack THEN next ELSE @,
                            !.err = next,
                            !.drain = @ \/ p.actions \cap {"REFRESH", "RETRY"} # {}]
        /\ rk' = AfterError(p, last)

ImplicitAck_Reported(end) == 1..end

(* dr_implicit_ack(): the messages that wait, up to an acknowledged one. *)
ImplicitAck(end) == {m \in msgq \cup xmitq : m <= end}

(* handle_idempotent_Produce_success(): an acknowledgement covers the      *)
(* messages before it.                                                     *)
Success(b, last) ==
    LET first    == Min(b.msgs)
        end      == Max(b.msgs)
        next     == b.seq + Cardinality(b.msgs)
        implicit == tp.acked < first - 1
        acked    == IF implicit THEN ImplicitAck(end) ELSE {}
        wrong    == ~implicit /\ b.seq # tp.ack /\ b.seq = tp.err
        failed   == IF wrong THEN Fatal(rk, "__INCONSISTENT") ELSE rk
    IN  /\ report' = [m \in Msgs |-> IF m \in b.msgs \cup acked THEN "PERSISTED" ELSE report[m]]
        /\ msgq' = msgq \ acked
        /\ xmitq' = xmitq \ acked
        /\ msg' = msg
        /\ tp' = [tp EXCEPT !.err = IF wrong \/ tp.err = tp.ack THEN next ELSE @,
                            !.ack = IF wrong THEN @ ELSE next,
                            !.acked = IF end > @ THEN end ELSE @]
        /\ rk' = IF last THEN DrainDone(failed) ELSE failed

(* msgbatch_handle_Produce_result() *)
ProduceResult(b, err, sent, last) ==
    \/ /\ err = "NO_ERROR"
       /\ Success(b, last)
    \/ /\ err # "NO_ERROR"
       /\ \E p \in {ProduceError(b, err, sent)} : Failure(b, p, last)

(* Is a request the last one in flight? *)
LastInflight == Len(Requests) = 1 /\ ~ending.last

Receive ==
    /\ results = <<>>
    /\ resps # <<>>
    /\ waitresps' = Tail(waitresps)
    /\ resps' = Tail(resps)
    /\ ProduceResult(Head(waitresps), Head(resps), TRUE, LastInflight)
    /\ round' = NoRound
    /\ UNCHANGED <<msgid, conn, outbufs, results, stale, move, remote, history, faults>>

HandleResult ==
    /\ results # <<>>
    /\ results' = Tail(results)
    /\ \E x \in {Head(results)} :
          \E p \in {ProduceError(x.req, x.err, x.sent)} : Failure(x.req, p, LastInflight)
    /\ UNCHANGED <<msgid, conn, outbufs, waitresps, resps, stale, move, round, remote, history,
                   faults>>

-----------------------------------------------------------------------------
(* The thread of the previous leader: msgbatch_handle_Produce_result(), a  *)
(* step for each of the locked sections.                                   *)

elsewhere == <<msgid, network, round, remote, history, faults>>

(* rktp_msgs_inflight drops first. *)
OldResult ==
    /\ joined \/ results = <<>>
    /\ old # <<>> /\ ending = NoResult
    /\ old' = Tail(old)
    /\ \E x \in {Head(old)} :
          ending' = [NoResult EXCEPT !.at = "counted", !.req = x.req, !.err = x.err,
                                     !.sent = x.sent, !.last = LastInflight, !.left = x.req.msgs]
    /\ UNCHANGED <<queues, tp, rk, joined, moves, elsewhere>>

OldSuccess ==
    /\ ending.at = "counted" /\ ending.err = "NO_ERROR"
    /\ Success(ending.req, FALSE)
    /\ ending' = [ending EXCEPT !.at = "handled", !.left = {}]
    /\ UNCHANGED <<old, joined, moves, elsewhere>>

(* What to do about an error is decided from what the partition holds now. *)
OldError ==
    /\ ending.at = "counted" /\ ending.err # "NO_ERROR"
    /\ LET b == ending.req
       IN  \E p \in {ProduceError(b, ending.err, ending.sent)} :
              /\ ending' = [ending EXCEPT !.at = "decided", !.perr = p]
              /\ msg' = [msg EXCEPT ![Min(b.msgs)].last = Max(b.msgs)]
              /\ rk' = Raise(rk, p)
    /\ UNCHANGED <<msgq, xmitq, report, tp, old, joined, moves, elsewhere>>

(* The messages that may be sent again go back to the partition queue. *)
OldRetry ==
    /\ ending.at = "decided"
    /\ LET p       == ending.perr
           retried == Retried(ending.req, p)
       IN  /\ msg' = [m \in Msgs |->
                         IF m \in retried
                         THEN [msg[m] EXCEPT !.retries = @ + p.incr,
                                             !.status = NewStatus(@, p.status)]
                         ELSE msg[m]]
           /\ msgq' = msgq \cup retried
           /\ tp' = [tp EXCEPT !.drain = @ \/ p.actions \cap {"REFRESH", "RETRY"} # {}]
           /\ rk' = Permanent(rk, p)
           /\ ending' = [ending EXCEPT !.at = "retried", !.left = @ \ retried]
    /\ UNCHANGED <<xmitq, report, old, joined, moves, elsewhere>>

(* The others are reported. *)
OldReport ==
    /\ ending.at = "retried"
    /\ LET p    == ending.perr
           next == ending.req.seq + Cardinality(ending.req.msgs)
       IN  /\ tp' = [tp EXCEPT !.ack = IF p.ack THEN next ELSE @, !.err = next]
           /\ msg' = [m \in Msgs |->
                         IF m \in ending.left
                         THEN [msg[m] EXCEPT !.status = NewStatus(@, p.status)]
                         ELSE msg[m]]
           /\ report' = [m \in Msgs |-> IF m \in ending.left THEN msg'[m].status ELSE report[m]]
    /\ ending' = [ending EXCEPT !.at = "handled", !.left = {}]
    /\ UNCHANGED <<msgq, xmitq, rk, old, joined, moves, elsewhere>>

(* The end of a drain, if the last request in flight has been handled. *)
OldDone ==
    /\ ending.at = "handled"
    /\ rk' = IF ending.last /\ Inflight = 0 THEN DrainDone(rk) ELSE rk
    /\ ending' = NoResult
    /\ UNCHANGED <<queues, tp, old, joined, moves, elsewhere>>

OldLeader == OldResult \/ OldSuccess \/ OldError \/ OldRetry \/ OldReport \/ OldDone

-----------------------------------------------------------------------------
(* The connection to the leader, and a change of the leader *)

(* broker_fail(), for a lost connection and for a request that timed out. *)
Fail(err) ==
    /\ results = <<>>
    /\ conn
    /\ faults < MaxFaults
    /\ err = "__TIMED_OUT" => outbufs \o waitresps # <<>>
    /\ results' = Failed(waitresps, err, TRUE)
                     \o Failed(outbufs, IF err = "__TIMED_OUT" THEN "__TIMED_OUT_QUEUE" ELSE err,
                               FALSE)
    /\ stale' = stale \cup {waitresps[n] : n \in Len(resps) + 1 .. Len(waitresps)}
    /\ outbufs' = <<>> /\ waitresps' = <<>> /\ resps' = <<>>
    /\ conn' = FALSE
    /\ faults' = faults + 1
    /\ round' = NoRound
    /\ UNCHANGED <<msgid, queues, tp, rk, move, remote, history>>

Connect ==
    /\ results = <<>>
    /\ ~conn
    /\ conn' = TRUE
    /\ round' = NoRound
    /\ UNCHANGED <<msgid, queues, tp, rk, outbufs, waitresps, resps, results, stale, move, remote,
                   history, faults>>

(* OP_PARTITION_LEAVE: the leader has changed.  What the previous leader   *)
(* has not answered it will refuse, or the connection to it ends, and with *)
(* it the last of its answers may be lost.                                 *)
Leave ==
    /\ moves < MaxMoves
    /\ results = <<>> /\ joined /\ old = <<>> /\ ending = NoResult
    /\ faults < MaxFaults
    /\ results' = Failed(outbufs, "__RETRY", FALSE)
    /\ outbufs' = <<>>
    /\ \E err \in {"NOT_LEADER_FOR_PARTITION", "__TRANSPORT"}, kept \in 0..Len(resps) :
          /\ err = "NOT_LEADER_FOR_PARTITION" => kept = Len(resps)
          /\ old' = [n \in DOMAIN waitresps |->
                        [req |-> waitresps[n], sent |-> TRUE,
                         err |-> IF n <= kept THEN resps[n] ELSE err]]
    /\ waitresps' = <<>> /\ resps' = <<>>
    /\ msgq' = msgq \cup xmitq
    /\ xmitq' = {}
    /\ conn' = FALSE /\ joined' = FALSE
    /\ moves' = moves + 1
    /\ faults' = faults + 1
    /\ round' = NoRound
    /\ UNCHANGED <<msgid, msg, report, tp, rk, ending, stale, remote, history>>

(* OP_PARTITION_JOIN: the thread of the new leader waits for the requests  *)
(* to the previous one.                                                    *)
Join ==
    /\ results = <<>> /\ ~joined
    /\ joined' = TRUE
    /\ tp' = [tp EXCEPT !.drain = TRUE]
    /\ UNCHANGED <<msgid, queues, rk, network, old, ending, moves, round, remote, history, faults>>

-----------------------------------------------------------------------------
(* The partition leader (external): it takes the batches of an epoch in    *)
(* sequence, each of them once.                                            *)

Seen(b) == b.pid = leader.epoch /\ <<b.seq, Cardinality(b.msgs)>> \in leader.seen

Fits(b) ==
    \/ b.pid = leader.epoch /\ b.seq = leader.next
    \/ b.pid > leader.epoch /\ b.seq = 0

(* What the leader answers when nothing goes wrong. *)
Verdicts(b) ==
    CASE Seen(b) -> {"NO_ERROR", "DUPLICATE_SEQUENCE_NUMBER"}
      [] ~Seen(b) /\ Fits(b) -> {"NO_ERROR"}
      [] b.pid < leader.epoch -> {"INVALID_PRODUCER_EPOCH"}
      [] leader.epoch = 0 /\ b.seq # 0 -> {"UNKNOWN_PRODUCER_ID"}
      [] OTHER -> {"OUT_OF_ORDER_SEQUENCE_NUMBER"}

Rejections == {"NOT_ENOUGH_REPLICAS", "NOT_LEADER_FOR_PARTITION", "MSG_SIZE_TOO_LARGE"}

(* The messages of a batch as they follow each other in its message set. *)
InOrder(msgs) ==
    CHOOSE s \in [1..Cardinality(msgs) -> msgs] : \A n, k \in DOMAIN s : n < k => s[n] < s[k]

Written(b) ==
    LET seen == IF b.pid = leader.epoch THEN leader.seen ELSE {}
    IN  IF ~Seen(b) /\ Fits(b)
        THEN /\ log' = log \o InOrder(b.msgs)
             /\ leader' = [epoch |-> b.pid,
                            next |-> b.seq + Cardinality(b.msgs),
                            seen |-> seen \cup {<<b.seq, Cardinality(b.msgs)>>}]
        ELSE UNCHANGED remote

Answer ==
    /\ conn
    /\ Len(resps) < Len(waitresps)
    /\ LET b == waitresps[Len(resps) + 1]
       IN  \/ /\ \E err \in Verdicts(b) : resps' = Append(resps, err)
              /\ Written(b)
              /\ UNCHANGED faults
           \/ /\ faults < MaxFaults
              /\ faults' = faults + 1
              /\ \/ /\ \E err \in Rejections : resps' = Append(resps, err)
                    /\ UNCHANGED remote
                 \/ /\ Seen(b) \/ Fits(b)
                    /\ resps' = Append(resps, "NOT_ENOUGH_REPLICAS_AFTER_APPEND")
                    /\ Written(b)
    /\ UNCHANGED <<msgid, queues, tp, rk, conn, outbufs, waitresps, results, stale, move, round,
                   history>>

WriteStale(b) ==
    /\ stale' = stale \ {b}
    /\ Written(b)
    /\ UNCHANGED <<msgid, queues, tp, rk, conn, outbufs, waitresps, resps, results, move, round,
                   history, faults>>

(* The leader loses track of the PID when the last message of it is        *)
(* deleted: after a time that no message in doubt lives to see.            *)
Forget ==
    /\ faults < MaxFaults
    /\ leader.epoch # 0
    /\ Inflight = 0 /\ ending = NoResult /\ stale = {} /\ InDoubt(msgq \cup xmitq) = {}
    /\ leader' = [epoch |-> 0, next |-> 0, seen |-> {}]
    /\ faults' = faults + 1
    /\ UNCHANGED <<msgid, queues, tp, rk, network, move, round, log, history>>

-----------------------------------------------------------------------------
(* Every message that was produced has been reported. *)
Settled ==
    /\ msgid = MaxMsgid \/ rk.fatal # "NO_ERROR"
    /\ \A m \in 1..msgid : report[m] # "none"
    /\ UNCHANGED vars

BrokerThread ==
    \/ Serve \/ GetPid \/ Collect \/ ServeLate \/ PurgeOutbufs \/ Send \/ PurgeQueues
    \/ \E k \in Msgs : MsgTimeout(k)
    \/ Receive \/ HandleResult
    \/ \E err \in {"__TRANSPORT", "__TIMED_OUT"} : Fail(err)
    \/ Connect \/ Leave \/ Join

Leader == Answer \/ Forget \/ \E b \in stale : WriteStale(b)

Next ==
    \/ Produce
    \/ BrokerThread \/ OldLeader
    \/ PidFsm \/ PidUpdate \/ PidFailed
    \/ Leader
    \/ Settled

Spec == Init /\ [][Next]_vars

(* Threads are scheduled, lingering and backoff end; the leader answers    *)
(* and can be reached again, but for MaxFaults times.                      *)
FairSpec ==
    /\ Spec
    /\ WF_vars(Serve /\ outbufs' # outbufs) /\ WF_vars(Serve)
    /\ WF_vars(PurgeOutbufs) /\ WF_vars(Send) /\ WF_vars(PurgeQueues)
    /\ WF_vars(Receive) /\ WF_vars(HandleResult) /\ WF_vars(OldLeader)
    /\ WF_vars(Connect) /\ WF_vars(Join)
    /\ WF_vars(PidFsm) /\ WF_vars(PidUpdate)
    /\ WF_vars(Answer)

-----------------------------------------------------------------------------
(* Properties. *)

InFlight(m) == {n \in DOMAIN Requests : m \in Requests[n].msgs}

(* A message that was produced is in exactly one place: a queue, one       *)
(* request, or reported.  Moving it between the queues of the threads, a   *)
(* batch and its retry neither loses nor copies it.                        *)
InOnePlace ==
    \A m \in Msgs :
        Cardinality(InFlight(m))
            + Cardinality({q \in {"new", "msgq", "xmitq", "ending", "reported"} :
                              CASE q = "new" -> m > msgid
                                [] q = "msgq" -> m \in msgq
                                [] q = "xmitq" -> m \in xmitq
                                [] q = "ending" -> m \in ending.left
                                [] q = "reported" -> report[m] # "none"}) = 1

(* A delivery report is final: no later response, timeout or purge reports *)
(* the message again or otherwise.                                         *)
ReportFinal ==
    [][\A m \in Msgs : report[m] # "none" => report'[m] = report[m]]_vars

(* The status in a delivery report is true, now and later: PERSISTED is in *)
(* the log, and what is NOT_PERSISTED never gets there, not even through a *)
(* request that a lost connection left behind.                             *)
ReportsTrue ==
    \A m \in Msgs :
        /\ report[m] = "PERSISTED" => m \in Range(log)
        /\ report[m] = "NOT_PERSISTED" => m \notin Range(log)

Copies(m) == Cardinality({n \in DOMAIN log : log[n] = m})

(* A message with no retry left has been given up, though the rest of its  *)
(* batch may be sent again.                                                *)
OutOfRetries ==
    \E m \in Msgs : report[m] \in {"NOT_PERSISTED", "POSSIBLY_PERSISTED"} /\ msg[m].retries = MaxRetries

(* The log holds the messages once each and in the order they were         *)
(* produced, but for second copies of messages whose sequence number was   *)
(* replaced while they were in doubt: retries, reconnects, late requests   *)
(* and leader changes within an epoch neither duplicate nor reorder, as    *)
(* long as no message runs out of retries.                                 *)
OnceInOrder ==
    \/ OutOfRetries
    \/ \A n, k \in DOMAIN log : n < k /\ log[n] >= log[k] => log[k] \in renumbered

(* All requests in flight, those at a previous leader included, have the   *)
(* epoch of the partition: pid_change() starts a new numbering only when   *)
(* the last one has been answered, so no two numberings are ever mixed.    *)
OneEpochInFlight == \A n \in DOMAIN Requests : Requests[n].pid = tp.pid

(* While a partition keeps its leader, the checks for errors in the client *)
(* itself fire only where it has lost track of a batch: a message ran out  *)
(* of retries, or the last message of a batch that is to be sent again was *)
(* reported before its first.  Else a batch that is sent again can be      *)
(* reconstructed, and no response succeeds where a failure is due.         *)
InconsistentIfLost ==
    [][rk'.fatal = "__INCONSISTENT" /\ rk.fatal # "__INCONSISTENT"
          => \/ moves > 0
             \/ OutOfRetries
             \/ \E m \in msgq \cup xmitq : msg[m].last # 0 /\ report[msg[m].last] # "none"]_vars

(* Whatever was produced is reported in the end, or the producer has       *)
(* raised a fatal error: drains and epoch bumps end, retries are sent      *)
(* again.                                                                  *)
ReportedOrFatal ==
    (\E m \in 1..msgid : report[m] = "none")
        ~> (rk.fatal # "NO_ERROR" \/ \A m \in 1..msgid : report[m] # "none")

(* INTRODUCTION.md on the idempotent producer: a message is only written   *)
(* to the log once.                                                        *)
WrittenOnce == \A m \in Msgs : Copies(m) <= 1
=============================================================================
