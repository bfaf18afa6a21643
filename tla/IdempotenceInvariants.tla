----------------------- MODULE IdempotenceInvariants -----------------------
(***************************************************************************)
(* The types of Idempotence, and the invariant about the places messages   *)
(* and requests are at.  IInv adds to the types                            *)
(*   PlaceInv  each message is either not produced yet, in one of the two  *)
(*             queues, in one request, in the result that the thread of a  *)
(*             previous leader is handling, or reported;                   *)
(*   DrainInv  the requests in flight have the epoch of the partition, and *)
(*             while a partition keeps its leader that of the instance.    *)
(* ThreadInv says where a round of the leader's thread and a result of the *)
(* previous leader's thread can be.                                        *)
(***************************************************************************)
EXTENDS Idempotence

(* What a delivery report may say of a message. *)
Statuses == {"NOT_PERSISTED", "POSSIBLY_PERSISTED", "PERSISTED"}

(* The errors a ProduceRequest ends with. *)
Errors ==
    {"NO_ERROR", "DUPLICATE_SEQUENCE_NUMBER", "INVALID_PRODUCER_EPOCH", "UNKNOWN_PRODUCER_ID",
     "OUT_OF_ORDER_SEQUENCE_NUMBER", "NOT_ENOUGH_REPLICAS", "NOT_LEADER_FOR_PARTITION",
     "MSG_SIZE_TOO_LARGE", "NOT_ENOUGH_REPLICAS_AFTER_APPEND", "__TRANSPORT", "__TIMED_OUT",
     "__TIMED_OUT_QUEUE", "__RETRY", "__PURGE_QUEUE"}

(* The errors that end a producer. *)
Fatals ==
    {"NO_ERROR", "__UNSUPPORTED_FEATURE", "__INCONSISTENT", "__GAPLESS_GUARANTEE"}
        \cup IdempotentErrors

(* The states of the instance on the way to a PID. *)
Unassigned == {"REQ_PID", "WAIT_TRANSPORT", "WAIT_PID"}

(* rk_eos and rk_fatal. *)
Instance ==
    [pid : Nat, state : Unassigned \cup {"ASSIGNED", "DRAIN_RESET", "DRAIN_BUMP", "FATAL_ERROR"},
     fatal : Fatals, purge : BOOLEAN]

(* rktp_eos. *)
Eos == [pid : Nat, base : Int, ack : Int, err : Int, acked : Int, drain : BOOLEAN]

(* A ProduceRequest holds at least one message; a Result is one that       *)
(* ended.                                                                  *)
Request == [msgs : (SUBSET Msgs) \ {{}}, seq : Int, pid : Nat]
Result  == [req : Request, err : Errors, sent : BOOLEAN]

(* What a message remembers of its attempts. *)
MsgState == [retries : Nat, last : 0..MaxMsgid, status : Statuses]

(* The places a message can be at: reported, not produced yet, or held by  *)
(* a request.                                                              *)
Reported == {m \in Msgs : report[m] # "none"}
New      == {m \in Msgs : m > msgid}
Held(s)  == UNION {s[n].msgs : n \in 1..Len(s)}

(* Those that are with neither a queue nor a request: reported, or of the  *)
(* result the thread of the previous leader is handling.                   *)
Away == Reported \cup ending.left

(* No message is in two requests. *)
Apart(s) == \A n, k \in 1..Len(s) : n # k => s[n].msgs \cap s[k].msgs = {}

(* The types, a response is for a request that was sent, and a batch to be *)
(* reconstructed ends no earlier than it starts.                           *)
TypeInv ==
    /\ msgid \in 0..MaxMsgid
    /\ msgq \subseteq Msgs /\ xmitq \subseteq Msgs
    /\ msg \in [Msgs -> MsgState]
    /\ \A m \in Msgs : msg[m].last = 0 \/ msg[m].last >= m
    /\ report \in [Msgs -> Statuses \cup {"none"}]
    /\ tp \in Eos /\ rk \in Instance
    /\ outbufs \in Seq(Request) /\ waitresps \in Seq(Request)
    /\ resps \in Seq(Errors) /\ Len(resps) <= Len(waitresps)
    /\ results \in Seq(Result) /\ old \in Seq(Result)

(* The queues, the requests, the result that is being handled, the         *)
(* reported messages and those not produced yet partition the messages.    *)
PlaceInv ==
    /\ Apart(Requests)
    /\ Held(Requests) \cap (msgq \cup xmitq \cup Away \cup New) = {}
    /\ msgq \cap xmitq = {}
    /\ (msgq \cup xmitq) \cap (Away \cup New) = {}
    /\ Away \cap New = {}
    /\ Msgs = Held(Requests) \cup msgq \cup xmitq \cup Away \cup New
    /\ ending.left \cap Reported = {}

(* Every request in flight has the epoch of the partition and of the       *)
(* instance: the instance bumps its PID only when all have been answered.  *)
DrainedBeforeBump ==
    \A n \in DOMAIN Requests : Requests[n].pid = tp.pid /\ tp.pid = rk.pid

(* Requests in flight have one epoch.  While the partition keeps its       *)
(* leader it is that of the instance, and there are none while the         *)
(* instance is without a PID.                                              *)
DrainInv ==
    /\ OneEpochInFlight
    /\ MaxMoves = 0 => DrainedBeforeBump /\ (rk.state \in Unassigned => Requests = <<>>)

(* The inductive invariant about messages and requests. *)
IInv == TypeInv /\ PlaceInv /\ DrainInv

(* What handle_Produce_error() decides. *)
Decision(p) ==
    /\ p.status \in Statuses
    /\ p.incr \in {0, 1}
    /\ p.raise \in {"nothing", "bump"} \cup IdempotentErrors

(* A result the thread of the previous leader handles is of a request; its *)
(* messages are with it until they wait again or are reported.             *)
EndInv ==
    \/ ending = NoResult
    \/ /\ ending = [at |-> ending.at, req |-> ending.req, err |-> ending.err, sent |-> ending.sent,
                    last |-> ending.last, left |-> ending.left, perr |-> ending.perr]
       /\ ending.req \in Request
       /\ ending.at = "counted" => ending.left = ending.req.msgs
       /\ ending.at = "decided" => ending.left = ending.req.msgs /\ Decision(ending.perr)
       /\ ending.at = "retried" => ending.left \subseteq ending.req.msgs /\ Decision(ending.perr)
       /\ ending.at = "handled" => ending.left = {}

(* A round that has taken its messages finds room in outbufs. *)
RoundInv ==
    /\ round \in [pid : Nat, moved : BOOLEAN]
    /\ round.moved => outbufs = <<>>

(* There is one thread while the partition keeps its leader. *)
FixedInv ==
    MaxMoves = 0 => old = <<>> /\ ending = NoResult /\ round = NoRound /\ joined /\ moves = 0

(* Where the threads are. *)
ThreadInv == EndInv /\ RoundInv /\ FixedInv
=============================================================================
