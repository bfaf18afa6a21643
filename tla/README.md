# TLA+ specifications of kafkatools

kafkatools is a small C layer over librdkafka 1.4.2: a producer and a consumer
with a topic cache, a high-level producer state that is made from a properties
file, two programs (`produce`, `consume`), and a few common modules (red-black
tree, configuration reader, string buffer, read-write lock). librdkafka is part
of the repository, so the behaviour of the library that the wrapper depends on
is modelled from its source too.

## Inventory

| part | state | operations | what is hard |
|---|---|---|---|
| producer (`kafkatools_producer.c`, `produce.c`) | `errcode`, mutex, handle; site of the shared state; librdkafka's message count, queues and reply queue | `produce_timedwait`, `get_errstr`, `destroy`; polls and callbacks | several threads share one producer and one site; the queue limit; retries; concurrent polls; what a flush with a limit loses |
| topic handles (both sides) | `rktopic_tree`, application reference counts | `get_topic`, release in `destroy` | find and insert are two steps; the handle returned is not the caller's reference |
| producer state (`state_init`, `props_readconf`, `props_retrieve`, `create`) | configuration position, property buffer, conf object, client, site | two passes over a file; creation with an error exit at every step; `main()` initialises twice | ownership on every error path; error codes used as counts; section name across `rewind` |
| consumer (`kafkatools_consumer.c`) | client, topic-partition list, tree, `errcode` | `create`, `new_topic_conf`, `get_topic`, `destroy` | ownership on every error path, and its hand-over to the consumer object; `topic:min-max` |
| simple consumer (`consume.c`, librdkafka) | position and version of a partition, op queue, fetch queue, requests | start, seek, stop, pause, resume, consume; ops, timer, replies, leader changes | three threads share a partition; late replies; the version barrier |
| idempotent producer (librdkafka) | partition queues, requests, sequence numbers, PID and its state | produce, send, results, timeouts, leader change, epoch bump | retries of what may have been written; drains; two broker threads |
| red-black tree (`red_black_tree.c`) | nodes, colours, size | insert, insert_unique, insert_succ, insert_pred, remove, clean, find, traverse | pointer surgery in rotations and removal; fix-up loops on trees a removal has damaged |
| configuration reader (`readconf.c`) | file position, section | open, pairs, sections, rewind | part of the producer state above |
| string buffer, read-write lock, helpers | none that is shared | text, lock wrapper, operating-system calls | see "Not modelled" |

How the parts interact: a program makes a producer state (from a file) or a
consumer (from arguments), gets topics from it, and then uses librdkafka through
it. `Producer` and `TopicCache` are about threads that share the result,
`StateInit` and `Consumer` about making and destroying it. `Idempotence` and
`Fetch` are the two protocols of the library between the application, the main
thread, the broker threads and the cluster that the programs rest on: producing
with `enable.idempotence`, which a properties file may set, and consuming from a
partition. The red-black tree is what the topic cache stores topics in;
`TopicCache` uses it as a map, and `RBTree` is where that is checked
(`FindsStored`, `Linked`).

The hazards the properties are aimed at are listed, with their source lines, in
`PROJECT.json`.

## Modules

| module | models |
|---|---|
| `Producer` | threads in the message loop of `produce.c`, `kafkatools_produce_timedwait()`, `kafkatools_producer_destroy()`, and below them `rd_kafka_produce()`, `rd_kafka_poll()`, `rd_kafka_flush()`, `rd_kafka_destroy()` |
| `DeliveryContract` | what a client is promised for a message: taken or refused once, reported once, lost only in a shutdown that may lose |
| `ProducerContract` | the refinement mapping from `Producer` to `DeliveryContract` |
| `ProducerProofs` | the theorems about `Producer` and the proof of the refinement |
| `TopicCache`, `TopicCacheProofs` | `get_topic()` of producer and consumer, topic reference counts, the release in `destroy` |
| `StateInit`, `StateInitProofs` | `kafkatools_producer_state_init()` with everything it calls, and the `main()` that calls it twice |
| `Consumer`, `ConsumerProofs` | `kafkatools_consumer_create()`, `new_topic_conf()`, `get_topic()`, `destroy()` |
| `RBTree` | `red_black_tree.c`: insertion, removal, both fix-up loops, search, traversal |
| `Idempotence` | a partition of an idempotent producer, from `rd_kafka_produce()` to the leader's log and back |
| `IdempotenceInvariants`, `IdempotenceProofs` | its types and inductive invariant; the theorems about the client alone |
| `IdempotenceLedger`, `IdempotenceReports` | what the client knows of the leader's log; the theorem that its delivery reports are true |
| `Fetch`, `FetchProofs` | a partition of a simple consumer, from `rd_kafka_consume_start()` to `rd_kafka_consume()` |
| `MC*` | constants for TLC |

**Producer.** A thread is at `idle` between messages; `Call` writes the
partition of the message to the site and enters the retry loop at `try`.
`rd_kafka_produce()` is two steps, because other threads can run between them:
`ProduceNew` counts the message (the test and the increment of the count are
under one lock in `rd_kafka_curr_msgs_add()`), then the partitioner queues it
(`ProduceOk`) or refuses it and gives the count back (`PartitionerError`).
`ProduceFull` and `ProduceError` fail before anything is counted. On a full
queue the thread polls: `PollTake` moves the whole reply queue to the thread,
`Callback` serves one report, `PollTimeout` finds nothing. The producer is
destroyed by `Main`: `DestroyLock` takes the handle, `FlushLoop` and
`FlushCheck` are the two nested loops of the flush, `DestroyFinal` purges what
is left. Nothing in `kafkatools_producer_destroy()` waits for callers: that it
comes after the loops of the threads, as in `produce.c`, is an assumption on the
program (`EndProgram`). The mutex of the producer has no part in the model: only
`destroy` takes it, and no program of the repository does. `Complete` is a
broker's answer or the message timeout. Abstracted: a message is its identity;
queues are sets, since no property depends on the order of reports; all errors
except queue-full are one; `queue.buffering.max.kbytes` is not distinguished
from the limit in messages. Assumed: `delivery.report.only.error` is false and
the delivery callback does not call `rd_kafka_yield()`, the defaults of the
library and the code of the repository. The wrap of a negative `retry_count` or
`flush_wait_ms` after 2^31 rounds is left out.

**TopicCache.** An object of a topic is a number, so that an object that went
and came back is a different one; `rd_kafka_topic_new()` finds the object or
makes one, and its application reference count is what kafkatools controls. The
tree is a map from names to objects, each tree operation one step. The run has
one caller, as the programs do: two threads inside `get_topic()` at once would
race on the memory of the tree, which no action models. What the model says of
several threads, in the proofs, holds if each tree operation is atomic. The role
(producer or consumer) selects what a failed insertion does.

**StateInit.** A properties file is a sequence of headers and pairs, a pair
having the number of bytes it takes in `propsbuf`. Every line read is a step, in
both passes of `kafkatools_props_readconf()`. Allocations are a set of `<<call,
object>>`; releasing an object that is not in it goes to `misused`. A conf
object leaves the set when `rd_kafka_new()` takes it. Each step that can fail
does so nondeterministically. `Uninit` is `state_uninit()` with what
`kafkatools_producer_destroy()` releases. Left out: lines without `=`, and lines
over `READCONF_MAX_LINESIZE`, which end the reading in both passes.

**RBTree.** A node is named after the object it stores. `tree` holds the root
and, for every node, parent, colour and two children; `nodes` are the allocated
ones. The descent of a call and the linking or splicing are one step, since
nothing can come between them in a tree that one thread uses; each iteration of
`rbtree_insert_fixup()` and `rbtree_remove_fixup()` is a step, so that the
properties are checked inside the loops too. The source writes each case for
left and right; the model has the side as a parameter. Following a null pointer
is an evaluation error in TLC, so every run also shows that there is none.
Greater keys are on the left, because the source goes left when `keycmp` is
positive. For `insert_succ` and `insert_pred` the caller keeps the order, as the
comment in the source asks. A freed node is blanked, which no code can observe.

**Consumer.** A topics argument is a sequence of tokens, so that what
`strchr()`, the pointer arithmetic and `atoi()` make of it can be told apart.
`live` is what is allocated, `local` the non-null local pointers of `create`,
`field` those of the consumer object; an object that another one takes over
leaves `live`, and releasing what is not owned goes to `misused`. Every step of
`create` that can fail does so nondeterministically, but for memory exhaustion
before the client exists, where the allocator ends the process. `Error` is the
whole error exit, `kafkatools_consumer_destroy()` included. Threads that call
`get_topic()` at once are in `TopicCache`.

**Idempotence.** A message queue is sorted at each insertion and so is a set of
msgids. A request is its messages, the sequence number of the first and the
epoch it was made under. `outbufs`, `waitresps` and `resps` are the requests
that are unsent, sent, and answered; `results` are failed requests that
`handle_Produce` has yet to see, `old` those of the thread of a previous leader,
`stale` those that a lost connection left behind and that may still be written.
`Serve` and `PurgeOutbufs` are `rd_kafka_toppar_producer_serve()` with and
without room in the output queue, `MsgTimeout` its timeout scan; `Failure` and
`Success` are `rd_kafka_msgbatch_handle_Produce_result()` with everything it
calls. These are whole handlers, since the partition belongs to one broker
thread, until the leader changes (`Leave`, `Join`). From then on two threads
work on it. The one of the previous leader still handles the results of what it
sent, in one step for each section that takes a lock: it takes the request off
`rktp_msgs_inflight` (`OldResult`), handles a success (`OldSuccess`) or decides
about an error (`OldError`), puts messages back and starts a drain (`OldRetry`),
reports the others (`OldReport`) and ends a drain (`OldDone`); `ending` is what
it has in hand. These steps interleave with a round of the new leader's thread:
`GetPid` reads the PID, `Collect` takes the messages, `ServeLate` goes on with
both as they were; `round` is what it has read. The sections of the leader's own
thread that handle results stay one step, and so does what follows a decision in
one thread without a lock. `rd_kafka_dr_implicit_ack()` of the previous leader's
thread reads and changes `rktp_xmit_msgq`, which belongs to the new one's
(`rdkafka_broker.c:2761-2797`); this race on the memory of the list is not
modelled, only the two orders of the accesses. There is one previous leader at a
time. The partition leader is external: it takes batches in sequence, once each,
may refuse one, may append one and still answer with an error, and may forget
the producer when nothing of it is in doubt. `renumbered` (messages in doubt
whose sequence number an epoch bump replaced) and `issued` (the requests of the
epoch so far) are history variables. Left out: other partitions, transactions, a
change of the producer id itself (which only transactions or a fatal error
cause), wrap-around of sequence numbers at 2^31, linger and backoff as times.

**Fetch.** `rktp` is the record `rd_kafka_toppar_t`; the functions of the source
that change it under its lock are operators from record to record (`Retry`,
`Request`, `Reset`, `NextOffset`, `Seek`, `Pause`, `HandleOffset`, ...), and the
actions are the places they are called from: `Call` and `Consume` by the
application, `OpServe`, `QueryTimer` and `LeaderUpdate` by the main thread,
`Leave`, `Join`, `Serve` and `FetchReply` by broker threads. A stored batch
starts at a multiple of `BatchSize`, so that an answer can begin before the
offset asked for. `wanted`, `held` and `astray` are history variables: what the
application should get next, whether it paused, and whether one of three places
in the code (`Strays`) has replaced the position behind its back. A stop, a
pause and a resume wait until the main thread has served them (`Blocked`); a
start and a seek do not. Errors of a partition in a Fetch answer are the three
kinds the code tells apart: NOT_LEADER and the like, OFFSET_OUT_OF_RANGE, and
all others, which are queued for the application (`Failure`). Left out:
stored and committed offsets (and with them the state STOPPING), partition EOF,
fetching from followers, truncation of the log at its end, backoff times. One
backoff matters: after OFFSET_OUT_OF_RANGE a broker thread waits
`fetch.error.backoff.ms` (500 ms) before it fetches again, and the model assumes
that the main thread has served the reset by then (`BackedOff`).

## Runs

| run | checks | result |
|---|---|---|
| `producer` | reports in exactly one place, exact count, truthful return codes, a failure behind every error code that is read, nothing lost by an unlimited flush; calls and destroy end (and by then every message is reported); refinement of `DeliveryContract` | holds |
| `producer_shared` | a message goes to the partition its thread chose | violated: the partition is in the state the threads share |
| `topics` | for one caller: exact reference counts, live handles, no leak, no exit, no deadlock (the calls are bounded, so they all end) | holds |
| `rbtree` | links and size, fix-ups that stay in the tree, order, search, red-black rules until the first removal, termination of the fix-ups | holds |
| `state_init` | temporaries freed on every exit, a producer in the state if and only if it exists, nothing released twice but conf after a failed mutex, all of the section's properties or none, nothing but the first producer left at the end | holds |
| `state_init_swallow` | a successful state is made from its file | violated: a failed read counts as zero properties |
| `consumer` | nothing left or released twice on any exit, client destroyed last, result, properties and partitions as the arguments ask (for ranges from 0) | holds |
| `consumer_ranges` | the partitions the topics argument names | violated: the first id is read from the `:` on and is always 0 |
| `idempotence` | a message in exactly one place, reports final and true, once and in order in the log unless renumbered or out of retries, one epoch in flight, no inconsistency unless a batch lost its end or the leader has changed, reported or fatal in the end | holds |
| `idempotence_once` | a message is written once | violated: an epoch bump renumbers a message that may have been written |
| `fetch` | the next message is the right one unless the position was replaced, a pause holds, the fetch queue is bounded, requests carry absolute offsets, the log is read to its end | holds |
| `fetch_seek` | the next message is always the right one | violated: a late offset reply undoes a seek |

What the violations mean:

- `state_init_swallow`, `consumer_ranges`: a few steps of one thread; the
  findings in `PROJECT.json` give the lines. `consume.c` itself asks for
  `test:0-7`, which is right.
- `producer_shared`: `produce.c` shows how threads use a state, with the
  partition of a message written to `state->site`. Two threads that do so
  overwrite each other's partition between the assignment and
  `rd_kafka_produce()`, or between two tries of it. The library takes the
  message all the same (`AcceptedInOnePlace`), for the wrong partition.
- `idempotence_once`: a batch of two is written but answered
  NOT_ENOUGH_REPLICAS_AFTER_APPEND; the first message times out while it waits
  for its retry; the epoch is bumped; the second message is sent under the new
  epoch, where the leader cannot recognise it. `OnceInOrder` says that the only
  other way to a duplicate or a reordering is a message that runs out of retries.
- `fetch_seek`: a start at the tail has an OffsetRequest under way; a seek to an
  absolute offset is served; the reply, now outdated, does not get ignored but
  starts another lookup, whose answer replaces the seek. `NextInPlace` says that
  messages come in order except after this, an outdated reset, and a pause that
  saves an offset older than the last seek.

Two properties of `Idempotence` have an exception for a message that runs out of
retries, for which so few messages with one retry are too few to show the need.
With a small `retries`, `rd_kafka_retry_msgq()` returns the messages of a failed
batch that have retries left to the queue and its caller reports the others
(`rdkafka_partition.c:862-905`), so the batch that is sent again may be shorter
than the one the leader may have written: its end is missing, and the check of
the reconstructed batch in `rd_kafka_msgset_writer_write_msgq()` raises
ERR__INCONSISTENT (`rdkafka_msgset_writer.c:936-970`), or a batch that starts
elsewhere is written behind it. `OnceInOrder` and `InconsistentIfLost` say that
nothing else leads there. An idempotent producer whose configuration does not
set `retries` has 2147483647 (`rdkafka_conf.c:3543`).

Three properties of the source's comments hold only with restrictions, which are
part of the properties: delivery callbacks are called once per message unless
`destroy` has a limited `flush_wait_ms` and purges the rest
(`InfiniteFlushLosesNothing`; comment at `kafkatools_producer.c:82`); `conf` is
not touched after `rd_kafka_new()` unless `pthread_mutex_init()` fails
(`ReleasedOnce`; comment at `kafkatools_producer.c:473`); the red-black rules
hold until the first removal, since the removal of a black leaf skips the fix-up
(`RedBlack`; `red_black_tree.h:37`). Two more hold for one thread only, since
kafkatools leaves locking to its callers: the line "should never run to this!"
of `get_topic()`, with its `exit(-1)`, is reached when two threads miss the same
topic and both insert it (`NeverExits` with two threads in `MCTopicCache.cfg`
shows it); and the error that `get_errstr()` gives a thread may be that of
another thread's call (`ErrcodeIsError` says that it is an error at all).

What a change of the leader breaks. While a partition keeps its leader, every
request in flight has the epoch of the instance (`DrainedBeforeBump`, proved).
With a change it need not: the new leader's thread reads the PID, the previous
one's ends a drain and with it the epoch, and the new one's goes on to send with
the PID it read. What holds always is that all requests in flight have the epoch
of the partition (`OneEpochInFlight`, proved). After a change the checks for
errors in the client may also fire although no batch is lost, hence the disjunct
`moves > 0` of `InconsistentIfLost`. And beyond the bounds of
the run, with two changes and three faults, `ReportsTrue` fails: the count of
messages in flight drops before the messages are back in the queue
(`rdkafka_request.c:3134` and 2906), so that `rd_kafka_toppar_pid_change()` can
renumber the partition in between.

**Bounds.** Two threads with two messages each and a queue of one or two are
enough for a full queue with both threads waiting, for a poll that serves the
other thread's report, for a partition overwritten between two tries, and for a
retry that fails after one that found the queue full. `producer` has a scope of
one partition, so that the partition of the second message wraps around;
`producer_shared` has two. The retry counts are a negative one, zero, one and
two: never, not at all, once, and again. Five calls over three topics cover
topics found, inserted, and inserted after a failure. Files of up to four lines
over two headers and two pairs of different size contain every order of a wanted
and an unwanted section, pairs before any header, and (with a limit of three)
one property too many. `PARTITIONID_MAX` has its real value. The arguments of
`consumer` are every topic alone and after one named `a`, with single
partitions, ranges in both directions and a name that is too long, and a list of
three (one more than its limit of two), together with every property alone and
after one that is taken. Six objects, two of them with the same key, take every
branch of the removal fix-up, the double rotation included (five already do, but
the double rotation only in a handful of trees).

`idempotence` has two messages in batches of up to two, so that two requests
can be in flight at once or one with two messages, one retry, one change of the
leader and two faults (a change is one): enough for a lost connection after a
doubtful answer, or a leader change with old requests unanswered and a message
that expires meanwhile. Its safety properties also passed with three messages
(2.3 million states), and with two messages and three faults, two retries, or
gapless delivery.
`fetch` has a log of three messages stored in batches of two, two brokers, three
calls of the application and one fault.

**Fairness.** Weak fairness of every thread: the operating system schedules it,
and no step waits for a lock. An error of the library (`LibraryError`) is
exempt: it may happen, but a program that ends only because one must happen
would be wrong, so fairness never forces it. Weak fairness of `Complete`:
librdkafka settles every message, since `message.timeout.ms` is finite unless
configured to 0. `PollTake`, `PollTimeout` and `Callback` are steps of their
thread. In `Idempotence` and `Fetch` each step of a library thread is fair,
because its loop comes back to it (lingering and backoff end); the leader
answers and can be reached again except for the bounded number of faults. A
round of the new leader's thread that the previous one interleaves with
(`GetPid`, `Collect`, `ServeLate`) is never forced: once the other is done, the
whole round (`Serve`) is. Message timeouts, faults, elections and calls of the
application other than `rd_kafka_consume()` are never forced.

Deadlock is checked in every run but `fetch` and `fetch_seek`: a program that
has terminated stutters, while a partition that was stopped, or read to the end
of a log that does not grow, really has nothing to do.

**Mutants.** A definition named `X_Y` is `X` with a plausible mistake `Y`; each
property is shown to fail when the mistake replaces the definition
(`PROJECT.json` lists the pairs).

## Proofs

`ProducerProofs` proves, for any finite set of threads, any number of messages,
any queue limit and any retry counts and flush limits (`ProducerAssumption`),
type correctness, all safety properties of the run `producer` and the refinement
of `DeliveryContract`.

The properties are not inductive alone. `IInv` adds what the code relies on
silently: where the main thread is determines the handle and that the threads
are done (`DestroyInv`); reports are local to a thread only while it serves them
(`LocalInv`); what a thread at each control point knows about its retries
(`RetryInv`), without which a used-up budget could be taken for success; that
the shared error code is an error from the first failed try on (`ErrorInv`); and
that the messages a thread has not reached are untouched and the current one is
in the library exactly if the last try succeeded (`FreshInv`), without which a
message could be accepted twice. `TypeOK` is cut into slices, so that a proof
cites only what it needs; the frame lemma `OwnSteps` says that a thread's step
changes nothing of another thread, which reduces each part to one thread.

`TopicCacheProofs` proves, for any topics, all safety properties of the run
`topics`. For any finite set of threads, as far as each tree operation is
atomic, reference counts are exact, returned handles are alive and `destroy`
releases every reference; with one thread the process never exits. `IInv` adds
that a call holds its reference to the latest object of the name (`HoldsLive`),
that the tree has only such objects and everything returned is in it
(`TreeLive`), and that no call is running when `destroy` begins
(`QuietDestroy`). Every step changes what is held of one topic by at most one,
which is what the lemmas on the cardinality of `Holding` say. `OneCallerInv`
adds that with one caller nothing comes between the lookup and the insertion.

`ConsumerProofs` proves, for any topics and properties arguments and any topic
names, `NothingLeaks`, `ReleasedOnce` and `ClientLast`. The invariant says what
is allocated and which pointers own it at every control point (`Owned`), and
that the application has one reference for each topic of the tree
(`OneRefEach`); `ErrorReleasesAll` then covers all error exits at once.

`StateInitProofs` proves, for files of any length and content, any scopes and
any limit on the properties (`StateInitAssumption`), `TemporariesFreed`,
`StateHasProducer`, `ReleasedOnce` and `OnlyFirstLeft`. `Holds` is what a call
owns at each control point. Whether `propsbuf` is allocated at the exit depends
on how the two passes over the file went, so the invariant needs `Counts` (bytes
to copy if and only if there are pairs) and `Control` (which return codes are
possible where); `Earlier` keeps the first producer of `main()`, which the
second call replaces in the state; `Misuse` bounds what can be released without
being owned to `conf`. What each helper on the set of allocations does is a
lemma.

`FetchProofs` proves, for any finite set of brokers, any offsets to start at and
to seek to, any batch size, queue threshold and log, and every reset policy
(`FetchAssumption`), the type invariant with the bound on the fetch queue,
`PauseHolds` and `FetchIsAbsolute`. None is inductive. `VersionInv` is the
version barrier: a call still to be served is newer than all that is served,
and no request or message is newer than the version its broker thread works
with. `RoomInv` counts the messages queued together with the batches still to
come, because two brokers may both have a Fetch in flight after a leader change.
`PauseInv` follows a pause from the call to the main thread: either its op waits
and no resume follows it, or it is served and all that is queued or requested is
outdated. The handlers map a partition to a partition; `Moved` and `Served` say
what such a step may change, so that each handler is looked at once.

`IdempotenceProofs` proves, for any number of messages, any batch size, any
limits of retries and of requests in flight, and any faults, `InOnePlace`,
`OneEpochInFlight` and the action property `ReportFinal`, also when the leader
changes, any number of times, and two threads work on the partition. Without
such a change (`MaxMoves = 0`) it also proves `DrainedBeforeBump`. The invariant
says that the two queues, the requests, the result in the hands of the previous
leader's thread, the reported messages and those not produced yet partition the
messages (`PlaceInv`), and that the requests in flight have the epoch of the
partition and, while it keeps its leader, of the instance, with none while the
instance is without a PID (`DrainInv`). `ThreadInv` says where the two threads
can be, and what the old one has in hand at each point (`EndInv`). A request
passes through four sequences on its way (`Requests`); a step moves requests
between them, adds one or takes one away (`ShuffleStep`, `RequestStep`,
`RemoveStep`), and lemmas on the messages held by a sequence (`Held`, `Apart`)
say what each does.

`IdempotenceReports` proves `ReportsTrue` for a partition that keeps its leader
(`MaxMoves = 0`), now with the leader's log: a message reported PERSISTED is in
the log, and one reported NOT_PERSISTED is not there and never will be. What
makes it hard is that the client learns of the log only through responses, some
of which are lost, while a request of a lost connection may still be written.
The argument is in `IdempotenceLedger`, where requests are a set, since their
place does not matter to the log. `LedgerInv` says:
- the sequence numbers of an epoch count from one message, no later than any
  message without a report (`Numbered`), and what waits comes after what is in
  flight unless the partition drains (`Queued`);
- a request skips no message without a report (`Whole`), and one that may reach
  the leader late is sent again as it was (`Resent`), so that the leader cannot
  take different messages for a batch it has seen;
- a batch the leader has seen in this epoch is in the log together with all
  messages up to its end (`SeenLogged`), and so is every message without a
  report before the leader's next sequence number (`Front`): therefore a success
  or a "duplicate" is true of everything up to the end of the batch, the
  messages that are acknowledged implicitly included (`Confirmed`);
- a message in the log, or in a request that may get there, is neither reported
  NOT_PERSISTED nor about to be: its status says that it is in doubt, or a
  result on its way will (`Doubted`); and `Persisted` is the other half of
  `ReportsTrue`.

`LedgerInv` is inductive relative to `View`, what this part takes from `IInv`
and `ThreadInv`: one thread works on the partition (`OneThread`), and a message
is in one place. `IdempotenceReports` shows that they imply `View` and joins the
two (`LedgerKept`, `ReportsAreTrue`). With a change of the leader `ReportsTrue`
is only model-checked, and fails beyond the bounds of the run (see above).

Only model-checked:
- the liveness properties: fairness is outside the proof system's reach;
- `TypeOK` of `StateInit` and `ArgumentsDecide` of `Consumer`:
  they sum or fold over a whole file or argument, and what a fold computes
  needs an induction over data (the type invariants of `Producer`, `TopicCache`
  and `Fetch` are proved);
- `SectionConfigured` of `StateInit`, which says what a whole file amounts to;
- `RBTree`, whose properties are about recursive walks of the tree;
- `NextInPlace` of `Fetch`, which depends on the reset policy of the run: with
  another one a failed lookup or a reset goes where the policy says while older
  messages still wait. Its exception (`Strays`) is complete within the bounds of
  the run and has not been examined beyond them;
- `OnceInOrder` and `InconsistentIfLost` of `Idempotence`: they also need that
  the batches of an epoch are cut the same way whenever they are sent again,
  which the invariants above say only of those that may reach the leader late.

## Not modelled

- `ConfReadValue...()`, section lists, typed values of `readconf.c`: no caller
  in the program; conversions of text.
- `cstrbuf.h`: sequential text formatting, used for the path of the properties
  file, of which `StateInit` keeps which file is meant.
- `thread_rwlock.h`: a wrapper of `pthread_rwlock` that `red_black_tree.h`
  includes and nothing calls.
- `misc.h`: operating-system calls and calendar arithmetic for printing.
- `memapi.h`, `unitypes.h`, `mscrtdbg.h`: allocation wrappers that end the
  process, type names, a debug heap; no state.
- `kafkatools_consumer_start_subscribe()` calls nothing of the library and only
  words an error text; `rd_kafka_committed()` and the printing in `consume.c`
  change nothing.
- librdkafka beyond what the programs reach through kafkatools: consumer groups,
  transactions, the admin API, protocol encoding, compression, security, the
  mock cluster. With the headers and sources vendored below `src/` this is by
  far the largest part of the repository, and nothing in kafkatools depends on
  its control flow.
