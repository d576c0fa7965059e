# TLA+ models of big-plan

big-plan is a collection of Java services on a shared base: a distributed job
platform, UID generation, a blog, an auth center, SMS, a relay to machines
behind a firewall and several CRUD services. This directory models the parts
whose correctness depends on how several threads, processes or messages
interleave, checks the models with TLC and proves their central invariants with
TLAPS.

Contents:

1. The system and its components
2. Modules, and how they correspond to the code
3. Runs
4. Fairness
5. Proofs
6. Where the code differs from what it says
7. What is not modelled
8. What could come next

Paths below are relative to `src/`. `PROJECT.json` maps each definition to the
lines it models.

## 1. The system and its components

### Job platform (`job/`)

A *job server* schedules jobs, an *executor* (any service that uses `job-sdk`)
runs them. There may be several of each; the job servers share a database,
Redis, Nacos and, by default, a Vert.x cluster.

| Part | State | Operations | Talks to |
|---|---|---|---|
| Trigger (`TriggerJob`, `QuartzManager`) | Redis counter `version` of each job; Redisson lock of each job; Quartz triggers in memory of each server | `execute` / `lockToDo` once per firing *on every server*; `addJob`, `modifyJobTime`, `removeJob` | Redis, the message sender |
| Dispatch (`ZeusServerMessageSender`, `SaveJobLogHandler`, `ZeusTaskFailCallbackCacheHandler`, `ZeusTaskResultCallbackCacheHandler`) | log of each dispatch in Redis; two async maps of callbacks | choose an executor, save the log, store the fail and the result callback, send the request, save the trigger result | executors over HTTP, Redis, the Vert.x cluster |
| Result (`JobServerClientImpl`, `TaskResultCallback`, `ZeusTaskFailCallback`) | the same log and maps; callbacks under way | `send` (REGISTRY, RESULT), look the callback up, retry or settle, publish the final event | executors, the event bus |
| Executor (`ExecutorClientImpl`, `TaskPuller`, `TaskWorker`, `TaskExecutor`) | a queue and a worker thread per job | take a request by the job's blocking strategy, run, send a RESULT | job servers |
| Scheduling and configuration (`JobScheduler`, `JobServiceImpl`, `JobGroupServiceImpl`, `ExecutorDiscovery`, `AbstractListeningConfigChangeService`) | job and group tables, Nacos configuration, Quartz triggers | start, change the status or cron of a job, scan an executor, discover executors | database, Nacos, Quartz |

What is hard: every server sees every firing and only one is to dispatch it;
servers crash between two Redis commands; the RESULT may reach another server
than the one that dispatched, before the answer to the request; retries meet
newer dispatches in the executor's queue; requests, answers and RESULTs get lost.

What makes it correct: a firing is dispatched, and once; the callbacks of a task
are stored when its RESULT arrives; a task is in the executor's hands once at a
time, is retried as often as configured and gets one final result; a task that
waits is run; every server has the same jobs in its scheduler.

### UID generation (`base/uid-generator`)

| Part | State | Operations |
|---|---|---|
| Cached (`RingBuffer`, `BufferPaddingExecutor`, `CachedUidGenerator`) | tail, cursor, slots, a flag per slot; the running flag and the pool of the padding threads; the last second borrowed | `take` by any thread without a lock, `put` under a monitor, `paddingBuffer`, a schedule |
| Per request (`DefaultUidGenerator`, `BitsAllocator`) | last second, sequence | synchronized `nextId`, `parseUID` |
| Configuration (`UidGeneratorAutoConfiguration`) | worker id | read from Nacos, 0 by default |

What is hard: takers, the padding thread and the schedule touch the ring without
a common lock; clocks are set back; the generator restarts without memory; the
timestamp bits run out. What makes it correct: no UID is returned twice, none is
overwritten before it is taken, UIDs grow, the ring is refilled.

### Redis support (`base/support-redis`)

`DistributedLock` wraps a Redisson lock (owner, lease). `tryLock` and `unlock`
are modelled where `TriggerJob` uses them. The Lua executor and the templates
hold no state of their own.

### Vert.x support (`base/support-vertx-core`, `-web`, `-redis`)

`VertxManager` owns up to two Vert.x instances, a default one and a clustered or
standalone one; who gets which decides whether the callback maps are shared.
`SimpleRedisRepository` stores entities as hashes. `ZeusClientProxy` turns an
interface into HTTP requests. These are modelled as far as dispatching a task
uses them.

### Commons (`base/commons`)

`commons/lock` rewrites AbstractQueuedSynchronizer: a queue of waiting threads,
conditions, cancellation (hard: signals against interrupts). Nothing outside its
package uses it. `commons/algorithm` holds sequential data structures and
exercises. The rest is stateless utilities.

### Blog (`blog/`)

A blog, its category, its tags and its views are several Redis keys that four
Lua scripts (`createBlog`, `updateBlog`, `deleteBlog`, `incrementViews`) keep
together; Elasticsearch is updated after the script by another call, and views
are counted on a thread of their own. Correct: the category and tag indexes say
what the blogs say, the search index follows, a deleted blog leaves nothing.

### Auth center (`ac/`)

Codes, access and refresh tokens in Redis with expiry, and the check of a token
and its scopes at a resource server. Correct: a code is redeemed once, a revoked
or expired token is refused. Roles, resources and companies are CRUD.

### SMS (`sms/`)

`sendSms.lua` keeps an interval between two messages of the same signature and
template to a phone and stores a verification code, then a provider is called.
Correct: the interval holds under concurrent requests and is recorded for what
was sent.

### ngrok (`ngrok/`)

A server relays requests of many connections to one client behind a firewall
and its answers back. Correct: an answer reaches the connection that asked.

### Other services

`user/`, `money-management/`, `health/`, `tools/`, `gateway/`: CRUD on a
database, small web tools and configuration. `base/support-*` other than the
above: Spring configuration of third-party clients. `cloud/`, `*-demo/`,
`vertx-web-test/`, `sentinel-cluster-server-alone/`: examples. `docker/`,
`k8s/`: deployment scripts.

## 2. Modules, and how they correspond to the code

| Module | Models | Checked by | Proved by |
|---|---|---|---|
| `TriggerJob` | `TriggerJob.lockToDo` on several job servers | `MCTriggerJob` | `TriggerJob_proofs` |
| `JobFiring` | the promise: each firing is dispatched, and once unless a node goes down on it or comes to it late | as `Promise` in `TriggerJob` (`KeepsPromise`) | `SpacedImplementsPromise` |
| `UidRing` | `RingBuffer`, `BufferPaddingExecutor`, `CachedUidGenerator` | `MCUidRing` | `UidRing_proofs` |
| `UidPool` | the promise: a UID that was put is taken once, none is lost, `Size` of them wait at most; as a queue, the oldest first | as `Pool` in `UidRing` (`IsAQueue`) | `IsAPoolHolds`, `IsAQueueHolds` |
| `NextId` | `DefaultUidGenerator`, `BitsAllocator` | `MCNextId` | `NextId_proofs` |
| `TaskQueue` | the queue and worker thread of a job on an executor | through `TaskDispatch` | |
| `TaskDispatch` | a job server dispatching tasks, and their results | `MCTaskDispatch` | `TaskDispatch_proofs`, `TaskResult_proofs`, `TaskLife_proofs` |
| `TaskLife` | the promise: a task runs again only after it failed, within `retryTimes`, and not after its final result, which is settled once | as `Life` in `TaskDispatch` (`KeepsLife`) | `KeepsLifeHolds` |
| `JobSync` | which jobs every job server schedules: `ExecutorDiscovery`, `JobGroupServiceImpl`, `JobServiceImpl`, `QuartzManager`, `JobScheduler` | `MCJobSync` | `JobSync_proofs` |
| `BlogStore` | the blogs in Redis and in the search index: the Lua scripts, `BlogApiServiceImpl`, the counting of views | `MCBlogStore` | `BlogStore_proofs` |

`TaskDispatch` EXTENDS `TaskQueue`: its handlers submit to the queue and its
executor steps take from it. `TriggerJob` is composed with `JobFiring` by a
refinement mapping (`Promise`), `TaskDispatch` with `TaskLife` by another (`Life`: attempts
are `runs`, and what is being run is `running`), and `UidRing` with `UidPool` (`Pool`: what
waits are the UIDs in the slots of the sequences that were put and not returned). What connects `TriggerJob` to `TaskDispatch` is
the step `Send`: one `Send` of `TriggerJob` is one `Dispatch` of `TaskDispatch`; what
connects `JobSync` to `TriggerJob` is that a server takes part in the firings of a job
while its `trigger` of the job is not `Null`.

### TriggerJob

An *execution* is a pair of a node and a firing. `pc` follows it through
`lockToDo`: `idle` (before the GET of the version), `tryLock`, `locked`, `send`
(in the consumer), `finally` (before the INCR), `unlock`, `done`. The other ends
are `dead` (its node went down), `uncounted` (the INCR threw, so that `unlock` was
not reached) and `unreleased` (`unlock` threw). One action per Redis command, since
the commands of two nodes interleave freely: `ReadVersion`, `Acquire`,
`TryLockFails`, `CompareVersion`, `Send`, `Increment`, `Unlock`, and for each command
one case of `RedisFails`, in which it may have taken effect all the same.

Redisson's lock belongs to a JVM and a thread, and is re-entrant: `owner` is a thread of
a Quartz pool (`PoolThreads`), `hold` counts what it has to give back (`GiveBack`), and
`thread` says which execution it runs. A thread that never gave the lock back therefore
enters it again in a later firing. A crash leaves the lock held until its lease runs out
(`LeaseExpires`, `NotRenewed`; the same if Redisson lost the reply to a tryLock or has
stopped renewing before an unlock that failed); while the node lives, Redisson's watchdog renews it, so
it does not run out earlier. The scheduler's triggers live in memory, so a node that is
down misses a firing for good (`FiringDue`), and `Restart` takes part in the later ones
only.

`late` is history: the executions that read the version after another one had dispatched
the same firing and incremented the version (`TooLate`). For them the comparison of
`lockToDo` finds two equal values if nobody increments the version once more.

The environment comes in two strengths, since `lockToDo` promises different
things in each:

- `Spec`: everything may happen, at any time.
- `SpacedSpec`: a firing is over before the next one is due, nobody waits 60 seconds for
  the lock, and Redis answers. Within a firing the nodes are as far apart as they like, and
  crashes and restarts may happen at any time.

### UidRing

Every read or write of a variable that threads share is a step: `take` is
`ReadCursor`, `Advance` (`updateAndGet`), `CheckThreshold` (with the test for an
empty ring), `CheckTake`, `ReadSlot`, `Release`; `put` is `CheckRoom`,
`CheckFlag`, `Fill`, `Mark`, `Publish` inside the loop of `paddingBuffer`
(`Provide`, `StopPadding`). `put` is synchronized and only the padding thread
that passed the compareAndSet calls it, so there is one producer.
`bufferSize` is a power of two in the code, where the slot is `sequence &
indexMask`; `Index` is the remainder, which is the same. UIDs are numbered
consecutively over the seconds, since only their order matters.

### NextId

`nextId` is synchronized, so a call is one step, or two if it has to spin for the
next second (`SequenceWraps`, then `NextSecondComes` or `SpinThrows`) while the
clock goes on. A call that throws before it changed anything is no step. The
environment ticks the clock, sets it back while the program runs (`SetBack`), or
restarts the program (`Restart`). A clock that is set back over a restart may repeat UIDs,
and the class comment leaves it to the administrator that this does not happen
(`DefaultUidGenerator.java:43`): `Restart` and `SetBack` keep the clock at or above the
last second used before. A restart *within* that second is possible and does repeat its
UIDs. `repeats` remembers whose last second started at sequence 0 a second time, after such a
restart or because the spin has thrown, and the two properties except it.
`BitsAllocator` shifts and ORs fields of
fixed width; `allocate` is the same number as a polynomial, and `ParsesBack` is
the property that the fields do not run into each other.

### TaskDispatch and TaskQueue

`stage` follows the dispatch of a task through the chain of handlers, one step
per completed future. A callback of a RESULT, or of a resend that failed, is a
record whose `at` names its next step: `lookup` in the result cache, `find` the
log, `save` the log with one retry more, `take` the fail callback out of its
cache, `putBack`, `send` again, or `finish`. A callback stays on the server that
received the RESULT, which need not be the one that dispatched (`home`).

`Map(s)` is the async map that server `s` sees: one for all in a cluster, one per
server otherwise. An entry of the fail cache carries the name under which it
holds the number of retries, since the code writes it under two names and reads
it under one. `FoundRetryTimes` is 0 whatever was saved, because
`SimpleRedisRepository.setValue` has no case for a field of type `int`.

With `Faults`, a request may fail before or after it reached the executor, a
RESULT may get lost, handlers may stop, and servers and the executor may go
down and come back. `up` are the servers that run: `ServerStops` loses what the server was
doing, and with it its map, or the shared one if no other server is up; a task whose entry
of the result cache went that way is `forgotten`. `ServerStarts` brings the server back at any
later time. `runs`, `failures` and `finals` count what happened to a task
and are read by no action but to tell two RESULTs apart.

The handler of the executor runs on one event loop, so that `isEmpty`/`clear` and
`push` of two requests do not overlap; the worker thread may take an element in
between, with the same outcome as if it had taken it before. Hence `Submit` is
one step.

### JobSync

The job servers share two tables (`group`: is there a row for the executor; `rows` of
`tb_job`), the naming service (`deployed`, `subscribed`, `event`) and one configuration
item (`config`, `heard`). Each has a Quartz scheduler in memory (`trigger`) that fires a
job by a cron. The executor declares in its metadata a status and a cron for each of its
jobs; a `Deploy` brings another declaration, or none (`NoInstance`), and sends every
subscribed server an event that carries it.

`ExecutorDiscovery.scan` is three steps under the lock `SCAN_EXECUTOR`: `Scan` selects the
instances, `CheckAndSave` reads the tables, `SaveScan` writes. `Listen` and `SaveListen` are
`JobGroupServiceImpl.listening` on a thread of the naming client, under no lock, for the
instances of one of the events under way, in any order. Both save what they were told,
which may have been superseded by then. `SaveJobs` is `saveJobs`: delete the rows of jobs that are gone, update the cron
of the others, insert the new ones, and tell the server's own Quartz of the first and the
last (before the commit, which may still fail: `Committable`, `GroupStands`).

An operator's request is published in the configuration item (`Push`, which is
`changeStatus` and `changeCron`) and `execute` runs on every server that listens: `Hear`
reads the row, `Apply` tells Quartz and saves. `execute` carries `@Transactional` but is
called by the listener that the object itself registers (`AbstractListeningConfigChangeService`),
past the proxy, so that reading and saving are transactions of their own; saving a row
that has gone inserts it anew. What is saved is the row with `copyIgnoreProperties` of the
request: the helper ignores the properties that are *not* null, so that a property the
request sets is left as it was and one it leaves out is set to null, on which the save
throws, the columns being `NOT NULL`.

A `Crash` forgets the scheduler and what was under way; a `Restart` sets the configuration
item back to `[]` for everybody and listens; `JobScheduler.start` reads the rows (`Start`)
and schedules one after the other (`StartJob`, `Started`), with everything else in between.

Five histories say what has happened: `raced` are the rows that were inserted while another
transaction had read the table and not ended, or anew by `execute`; `rolledBack` the servers
of which a transaction failed after Quartz had been told; `stopped` the rows the operator has
stopped; `stoppedAt` and `scheduledAt` which server has stopped or scheduled which row
itself. Three properties speak only of jobs without a raced row, and name these causes.

### BlogStore

A Lua script is one step on the keys it touches: `data` and `content` of each blog, `ids`,
the counters `categories` and `tags` (functions whose domain is the zset's members) and
`views`. A post is a category and, for each tag, how often it names the tag, since the
scripts count each mention. `Create`, `Update` and `Delete` leave a call of the search
index `pending`; `CallIndex` makes it, and may fail, which the code logs and passes over.

`Sync` gives the work to a pool of one thread with a queue, or runs it itself when the
queue is full (`CallerRunsPolicy`): `SyncDelete`, and for each blog `SyncData`,
`SyncContent`, `SyncIndex`, with requests in between. The counting of views is a pool of
the same kind. A crash loses both queues and every pending call.

`disturbed` is history: blogs on which two units of work overlapped, or whose call failed,
and which no sync has indexed anew since with nobody else at work on them.

## 3. Runs

Every passing run explores its state space to the end.

| Run | Bounds | What it shows |
|---|---|---|
| `TriggerJob_any` | 2 nodes of 1 thread, 2 firings, all faults | two dispatches share a version only if the increment after one of them failed or its node went down before it; a thread keeps the lock only for executions that are inside or that a Redis error kept from giving it back |
| `TriggerJob_spaced` | 2 nodes of 1 thread, 2 firings, crashes | with firings that do not overlap: `lockToDo` implements `JobFiring`, twice only after a crash or a late read, a finished firing was dispatched, a due firing gets dispatched unless every node went down on it, and the lock is given back |
| `UidRing_many` | 2 takers, 4 slots, 2 UIDs per second, 5 seconds, schedule on | cursor and tail keep their distance, no unclaimed UID is overwritten, the first assertion of `take` never fires |
| `UidRing_one` | 1 taker, 4 slots, 7 seconds | the ring is a queue (so UIDs grow), an empty ring is refilled |
| `UidRing_dup` | 2 takers | violation: a UID is returned twice |
| `NextId_machines` | 2 machines, 2 sequences, 4 seconds of which the timestamp bits hold 3 | no UID is returned twice and UIDs of a machine grow, but for a second that starts again after a restart or a spin that threw; `parseUID` finds the machine and the UID stays positive |
| `TaskDispatch_faults` | 2 tasks, 2 servers in a cluster, retryTimes 2, DISCARD, all faults | callbacks are found unless the whole map was lost, one attempt at a time, one final result, no waiting task is driven out, and `TaskLife` is implemented: bounded retries, each after a failure |
| `TaskDispatch_live` | 2 tasks, 2 servers, SERIAL, no faults | every dispatch ends, and a task that did not fail keeps its trigger result |
| `TaskDispatch_retries` | 1 task, 1 server | violation: the second retry never happens |
| `JobSync_servers` | 2 servers, 2 jobs, 3 releases, 3 requests, 3 rows, 4 events (releases, scans, requests, crashes) | the group is inserted once, a row keeps its first status, two rows of a job only by a raced insert, a stop holds on the server that heard it, a server goes on with what it scheduled |
| `JobSync_stop` | the same with 2 rows | violation: a stopped job is scheduled again after a restart |
| `BlogStore_requests` | 2 blogs, 2 admins, 2 posts, 2 contents, queues of 1, 5 calls (requests, failures, crashes) | counters and ids agree with the blogs, the index follows unless work overlapped or failed |

Why the bounds are enough to be interesting:

- Two nodes and two firings are the least with which executions of one firing
  race, executions of different firings meet, a crashed dispatcher is followed by
  another node, a restarted node joins, a node reads the version late, and a thread
  re-enters the lock that the firing before left to it. One thread per node runs the firings
  of that node one after the other; with two, the executions of two firings meet on one
  node as well, which is too large for TLC with all faults. The theorems have any number
  of threads.
- Four slots and UIDs for five seconds of two each let the tail lap the ring more
  than twice while two takers are stopped anywhere in `take`; the ring is full,
  empty, and refilled from both states. `MaxPending` caps the count of submitted
  padding tasks: one more task than the pool has to start changes nothing but the
  count, since each of them finds `running` set or sets it.
- Two sequence numbers per second are the least with which a second has a first
  and a last UID; three readable seconds let a clock be set back over a second that was
  used, with or without a restart in between.
- Two tasks of one job are the least with which a retry meets a newer dispatch in
  the queue. retryTimes is 2 because that is the first value with which the
  number of retries that happen (one) differs from the number configured.
- Two servers and two jobs are the least with which one server saves what
  another has read, and a release drops one job and brings another; with a third row a
  job that was dropped comes back, or is inserted twice. Three events let a
  request or a crash fall between two releases, and a server crash after a stop; the fourth is
  the scan that everything begins with. The executor starts with any of the releases.
- One post names a tag twice and shares it with the other post; with two blogs a counter
  reaches 3 and comes back to 0. Five calls are enough to have a sync run, a sync wait and
  a third one run by its caller while a blog is written.
- Nodes, takers, tasks, servers, blogs and admins are symmetric and no `CHOOSE` picks among them.
  Symmetry is used in runs without liveness properties.

`CHECK_DEADLOCK FALSE` stands in every configuration because each of these models
comes to rest when its bounds are used up (no more firings, seconds or tasks).

Each property of a passing run has a *mutant*: an operator next to the one that
models the code, changed as a plausible mistake would change the code (a guard
dropped, a reset missed, a wrong name). With it in place TLC finds the property
violated under the same configuration.

## 4. Fairness

- `SpacedSpec`: weak fairness of each execution's steps. Quartz runs
  each firing on a thread of its pool, and such a thread runs. `Acquire` is
  enabled again and again while others hold and release the lock; weak fairness
  is enough because with the firings spaced each execution takes the lock once,
  so that the lock stays free for the last one that waits. Weak fairness of
  `LeaseExpires`: Redis expires keys. Nothing forces a node to crash, to restart
  or a firing to come due.
- `FairSpec` of `UidRing`: weak fairness of starting a submitted padding task, of
  the padding thread and of each taker. The last says that callers keep asking
  for UIDs. Without it a ring that ran empty and whose padding request was
  dropped because another one was just stopping would stay empty, rightly: the
  next `take` submits a new request.
- `FairSpec` of `TaskDispatch`: weak fairness of the handlers of each task, of the
  worker thread and of the receipt of RESULTs: event loops run their handlers.
  It is used only with `Faults = FALSE`; with a lost RESULT a dispatch does not
  end, and the code has no timeout for it.

## 5. Proofs

The theorems hold for every value of the constants that meets the named
assumptions of the modules, in particular for any number of nodes, firings,
threads, slots and seconds.

**TriggerJob_proofs.** `TypeCorrect`, `OneSendPerVersionHolds` and `HoldsExplainedHolds` for
`Spec`. The first property is not inductive: that nobody dispatches under a version that
was used before depends on the lock. The inductive invariant `IndInv` adds

- `SeenBounded`: what was read is at most the counter;
- `ThreadsApart`: a running execution has a thread to itself;
- `OwnerInside`: the thread of an execution between `tryLock` and the finally block owns
  the lock;
- `SentAccounted`: an execution that dispatched has bumped the version, or its thread still
  owns the lock, or its INCR threw, or it went down;
- `FreshVersion`: whoever is about to dispatch read a newer version than every
  dispatch whose increment counted.

`ThreadsApart` and `OwnerInside` make a re-entrant lock exclusive among the executions
that run. `SentAccounted` is the heart of it, and has to let go of an execution whose INCR
threw: its thread keeps the lock, enters it again in a later firing, and dispatches under
the version that did not move. `NotCounted` in the property names exactly that and the
crash. `HoldsExplainedHolds` adds a count: `hold` is at most the number of executions of the
owner that are inside or were kept by a Redis error from giving the lock back (`Holders`).

`TwiceOnlyByCrashOrLateReadHolds` and `FinishedMeansDispatchedHolds` for `SpacedSpec` add
`OneFiringAtATime`, `VersionStands` (from the dispatch to the increment of the same execution
the version is the one it read), `LaterMeansLate` (whoever read a newer version than an
execution that dispatched the same firing was late, or that one went down) and
`MovedMeansDispatched` (an execution whose version moved on belongs to a firing that
was dispatched). `SpacedImplementsPromise` shows that each step of `SpacedSpec` is a step
or a stutter of `JobFiring`, where `times` is the number of nodes that dispatched a firing
and `hurt` the firings a node went down on or was late for. Its liveness part, and `DueIsDispatched` and `LockIsReleased`, are only model-checked.

**UidRing_proofs.** `TypeCorrect`, `CursorBehindTailHolds`, `UnclaimedIncreaseHolds`,
`CursorNeverBackHolds`. `IndInv` adds `Room`: a put that has passed the test for
equality has room, because the cursor it read can only have moved on since; this
is where the stale read of `put` is shown to be harmless. `Older` relates the
slots between cursor and tail to the UID that is about to be put.
`DifferentSlots`, a lemma about the remainder, says that sequences less than a
lap apart have different slots.

`ClaimedCanBeTakenHolds`, `UidsIncreaseHolds` and `OneTakerNoDuplicate` assume a single
taker (`Takers = {t}`) and any ring, bounds and padding. `OneTaker` adds that nobody else
moves the cursor (`CursorIsMine`) and that the slots from the first sequence not returned
up to the tail can be taken, stand in order and hold nothing that was returned
(`KeptInOrder`, and `NextIsNewer` for the UID that is being put). The last of the three
theorems is the counterpart of the run `UidRing_dup`: that failure needs a second taker.

For any number of takers there is one cause of that failure. `LateClaim(t)` is the step of
`take` in which the update of the cursor finds the ring empty although `t` had read a lower
cursor before. `DuplicatesNeedLateClaim` and `AssertionNeedsLateClaim` say that in a behaviour
without such a step no UID is returned twice and a claimed slot can be taken. Claims
then run apart (`ClaimsApart`), but they are returned in any order, and a slow taker may
hold a claim while others lap the ring. `ManyTakers` is therefore about the set
`Unreturned` of the sequences between cursor and tail and those that are claimed: they are
less than a lap behind the tail, can be taken, stand in order and were not returned
(`UnreturnedKept`), and the slot that is filled next is none of theirs (`NextIsFresh`): the
flag of the slow taker's slot holds up the producer, and not the distance it computes.

From the same invariant: the ring implements `UidPool`, for any number of takers without
late claims (`IsAPoolHolds`), and its queue with a single one (`IsAQueueHolds`; `CursorIsMine` makes
what is claimed the oldest). `Publish` is the put and `Release` the take; `PadWaits` and
`TakeKeepsUnreturned` show that no other step changes what waits, although `Fill` writes a
slot and a claim moves the cursor. `WaitingFits` counts: a put that is about to be
published leaves `Size - 1` sequences for what waits.
`EmptyIsRefilled` is liveness and only model-checked.

**NextId_proofs.** `TypeCorrect`, `NoUidTwiceHolds`, `UidsGrowHolds`, `ParsesBackHolds`. `Limit` is a number
below which everything a machine has returned lies and from which everything it
may still return starts; `IndInv` says so, and that the clock stays ahead of what
was used before a restart. UIDs of two machines differ by the lemma
`WorkersDiffer`. `ParsesBackHolds` is arithmetic: division and remainder by the widths give
the fields of `allocate` back.

**TaskDispatch_proofs.** `TypeCorrect`, `OneAttemptAtATimeHolds`, `RetriesBoundedHolds`
and `WaitingKeptHolds`, for any tasks, servers, strategy and `retryTimes`, with or
without a cluster and faults. That a task is sent again only when the executor is
done with it follows from nothing local: a resend happens long after the failure
it answers, on another server. The argument follows the one thing that permits
a resend, the entry of the fail cache under `retryTime`:

- `NotSentYet`: before its request is sent, a task is not on the executor and there
  is no result of it, so the entry is put when nothing else can happen to it;
- `EntryAtHome`: that entry is only in the map of the server that dispatches;
- `EntryMeansFirstRun`: while it is there the task was run at most once, and when
  there is a result of it the task is not on the executor;
- `OneHolder`: one callback at a time has taken the entry and not sent the task yet,
  and meanwhile the task is not on the executor;
- `RetriedHasFailed`, `RunsLeft`: who retries has seen a failure of a job with
  retries, and a task that waits may be run once more;
- `OnePlace`: the queue holds a task once, and not the one that is run.

`LosingStep` and `MovingStep` say once for the many steps that only lose something, or
only move a callback on, that they keep the invariant. `WaitingKeptHolds` needs type
correctness only and follows the queue through `Submit` and `Take`.

**TaskResult_proofs** extends it. `FinalOnceHolds`: the callbacks of a task run next to each
other, and whether one retries or finishes depends on what it was told, not on what the
others do. `Outcome` calls *settling* a message or callback that will finish the task (a
success, or any result if there are no retries) and says that there is one thing at most
that settles a task, the final result included (`OneDecision`); that a task that is still
on the executor, or held by a callback that retries it, has failed in all its runs
(`TriedHasFailed`); and that once something settles it, it is neither
(`DecidedIsDone`). The decisive step is `TakeFailCallback`: who finds the entry knows that
the task was run once (`EntryMeansFirstRun`) and has failed, so that nothing settles it.
`AtHome` says that entries stay in the map where they were put, so that `FinishTask` removes
them all without a cluster, too. `ResultFindsCallbackHolds` assumes that all servers see the
same map (`OneMap`: a cluster, or one server), since servers without a cluster do not find
each other's entries, and excepts the tasks that are `forgotten`: a server that goes down
while no other member of its cluster is up takes the map with it.
`TriggerResultKeptHolds` assumes no faults, because an answer that is lost is saved as a failure.

**TaskLife_proofs** extends that. `KeepsLifeHolds`: every step of `TaskDispatch` is a step or a
stutter of `TaskLife`, for any tasks, servers, strategy and `retryTimes`, with all faults.
`TakeTask` is `Begin`, since a task that waits has failed in all its runs
(`TriedHasFailed`) and has retries left (`RunsLeft`); `FinishTask` is `Settle`, since the
callback that finishes is the one thing that settles the task. It contains
`RetriesBounded`, which is part of the invariant.

`AtMostOneRetryHolds` says what the name under which the callback is put back comes to: for
every `retryTimes`, and whatever is lost or restarted, a task is run twice at most
(`WaitsOnce`: one that waits was run once at most), and one that failed twice never gets a
final result.

Two theorems describe the end of a dispatch where nothing fails (`NothingFails`: no faults,
SERIAL, one map), for any tasks, servers and `retryTimes`. `SettledHasEndedHolds`: a task that
is with neither the executor nor a server has its final result or has failed twice, never
both. This is the safety half of `EveryDispatchEnds`: no step drops a task, loses it
or leaves it waiting for something that nobody does. The invariant `Smooth` says that a task
has one message or callback at most, and none while the executor has it (`OneAnswer`); that
a failure being dealt with is that of the last run (`AnswerCounts`); that
the entry for the retry is there until it is taken for the second run (`EntryUsed`); and
that a task that was sent is with the executor or being answered until it has ended
(`Pursued`). `RetriedAsConfiguredHolds`: with `retryTimes` 0 or 1 a task that
always fails is run as often as configured. The run that violates the property has
`retryTimes` 2, so the theorem says exactly where it begins to fail.

What is left of `EveryDispatchEnds` is that the steps are taken, which is liveness
and only model-checked.

**JobSync_proofs.** `CopyKeeps`: whatever `execute` saves is exactly the row it has read.
From it `FirstStatusCountsHolds`: no step changes the status of a row, because ids are
used once (`IdsUsed`) and what a transaction has read has the status the row still has
(`SameStatus`). `GroupStillMissingHolds` follows from the lock: whoever is between reading
and inserting holds it. `TwoRowsOnlyByOverlapHolds`, `StopHoldsHolds` and
`SchedulesWhatItFoundHolds` share the invariant `Follows`, which has no exception for what
overlaps: a transaction under way has read every row that is there and was not raced
(`Seen`), so that it inserts no second one of the name unless another transaction is under
way that has not seen the first, which makes the new one raced; and of a name there is one
row that was not raced (`OneUnraced`). What a transaction was told by the naming service
plays no part, so old events do no harm to the two scheduler properties.

**BlogStore_proofs.** All five properties of the run. `Base` (type correctness, `IdsRight`,
`SyncsRight`: what a sync has read belongs to the blog it is at, `OneAtATime`: a thread that
has still to call the index runs no sync) is inductive alone. `CategoriesRightHolds` and
`TagsRightHolds` add `CountsRight`: scores are positive, so that a member is there exactly
if it counts something, and each is the cardinality of what it counts. The lemmas on
`Counted` and `Uncounted` say what they do to a score; `OneBlogMore` and `PlacesChange`
what one script does to the sets. To count down by `k` needs that the score is at least
`k`, which is the point of the invariant: the scripts test for `'0'` only.
`IndexFollowsHolds` adds `Follows` for each blog that is not `disturbed`: one thread at most
is at work on it, the call that is pending will make the index follow, and a sync holds
what Redis still holds, or has deleted the document. Two lemmas carry the steps that do not
concern a blog: `GoesOn` for requests and `RunGoesOn` for syncs.

Only model-checked are the liveness properties, since liveness under fairness and `ENABLED`
are out of the prover's reach: `DueIsDispatched`, `LockIsReleased`, the liveness part of
`KeepsPromise`, `EmptyIsRefilled` and `EveryDispatchEnds`. Every safety property that a
passing run checks is a theorem, some of them under the hypotheses named above.

## 6. Where the code differs from what it says

With a run that shows it:

- `UidRing_dup`: a `take` that reads the cursor, and claims after another taker
  has moved it to the tail, takes the claim for a new one (`RingBuffer.java:179`).
- `TaskDispatch_retries`: `TaskResultCallback` reads `retryTime`,
  `ZeusTaskFailCallback` writes `retryTimes`, so that there is one retry at most
  (`TaskResultCallback.java:62`). `AtMostOneRetryHolds` proves this for every `retryTimes`.
- `JobSync_stop`: `execute` copies the request into the row with a helper that leaves out
  what the request sets (`BeanCopyUtils.java:20`, `JobServiceImpl.java:152`). A stopped
  job keeps the status RUNNING in the database and runs again on the next server that
  starts.

Seen while modelling, and visible in the models:

- The version compared under the lock was read *before* asking for it. A node whose
  Quartz thread is late by a few Redis commands reads the version after the first node is
  done with the firing and dispatches again, with no crash and no failure, although the
  comparison is there to find out "whether another node has executed this one already"
  (the comment at `TriggerJob.java:57`). Nothing in `lockToDo` rules this out;
  `TwiceOnlyByCrashOrLateRead` says that, crashes and overlapping firings aside, it is the
  only cause of a second dispatch.
- When the INCR throws, `unlock` is not reached (`TriggerJob.java:68`) and the pool thread
  keeps the lock, which the watchdog renews as long as its JVM runs. Other threads wait in
  vain for 60 seconds in every later firing of the job. If a later firing runs on that very
  thread, it enters again, and if no increment has counted since it finds the version it has
  just read and dispatches under the version of the earlier dispatch. `hold` is 2 then, and
  one `unlock` does not give the lock back: `HoldsExplained` shows this to be the only kind
  of leak.
- A start request after a stop does nothing on any server: the row still says RUNNING, so
  neither branch of "stop or start the task" (the comment at `JobServiceImpl.java:123`)
  is taken, and the job stays out of the schedulers until they restart. `StopHolds` does not
  ask for this; it speaks of a stop only until the operator asks for a start.
- The same helper keeps every other request out of the database: a job registered as
  STOP can be started on the servers that hear the request, but not for good; a changed
  cron goes back to the registered one at a restart; a request that leaves a field out
  makes the save throw after Quartz was told.
- Only the server that inserts a job schedules it; the others start with it at their next
  restart (`JobGroupServiceImpl.java:122`). A request that the others hear before finds
  nothing to stop or retime there. In the same way only the server that deletes the row of a
  job that has gone unschedules it (line 91): others that had scheduled it go on firing it.
- Quartz is told before the transaction commits. Where the commit fails, a job may have been
  unscheduled whose row stands, or scheduled without a row: `SchedulesWhatItFound` excepts
  the servers to which this happened (`rolledBack`).
- Events carry the instances they were sent for, and `listening` saves them whenever it
  runs: an older one that is handled after a newer one brings back the crons and the jobs of
  the older release, until the next event.
- `listening` runs under no lock, so two servers can insert the same job twice; from then
  on `toMap` throws on every save of that executor (`JobGroupServiceImpl.java:83`).
- `sync("ALL")` deletes the document of the id "ALL" and never clears the index, since the
  test that leads to `deleteAll` asks for a blank id, which no request can send
  (`BlogApiServiceImpl.java:198`); the document of a deleted blog whose deletion failed in
  the index stays for good.
- A view that is counted after its blog was deleted adds the views of the id again
  (`incrementViews.lua:8`); the ranking by views then reads a blog that is not there and
  throws (`BlogServiceImpl.java:198`). `IdsRight` says only that a blog has its views.
- `findAll` counts the ids, reads a page and then the blogs in separate commands and takes
  every blog for granted (`BlogApiServiceImpl.java:160`).
- Every execution increments the version, also one that did not dispatch or does
  not hold the lock. If two firings overlap, this can make every execution of one
  of them return at line 60, so that nobody dispatches it
  (`TriggerJob.java:68`). `FinishedMeansDispatched` therefore holds under
  `SpacedSpec` only.
- For the same reason `version + 1` counts executions and not dispatches, as the
  trigger log calls it (`ZeusServerMessageSender.java:137`).
- The assertion that a claimed slot can be taken (`RingBuffer.java:185`) fails
  with two takers in the interleaving of `UidRing_dup`. The proofs show that a `LateClaim` is
  the only way to either.
- When the timestamp bits are exhausted in the spin for the next second, the
  sequence has been reset but `lastSecond` has not moved; if the clock is then set
  back to it, the second's UIDs are returned again
  (`DefaultUidGenerator.java:136`). This is the first exception that `NoUidTwice` and
  `UidsGrow` make.
- A restart within a second that was used starts that second at sequence 0 again
  (`DefaultUidGenerator.java:144`), with a clock nobody has touched. The class comment speaks
  of clocks that are set back over a restart only (line 43). This is the second exception.
- A cached generator that restarts borrows from the current second again, although it had
  borrowed seconds ahead of the clock; with a fixed worker id their UIDs come twice
  (`BufferPaddingExecutor.java:84`). `UidRing` models one life of the generator.
- The final event is sent on the Vert.x instance of `VertxManager.getVertx()` and
  consumed on the default one (`TaskResultCallback.java:81`,
  `EventConsumerVerticle.java:26`), so nobody receives it.
- A task that fails before the answer to its request is handled gets its log
  saved as it was found, without the trigger result
  (`TaskResultCallback.java:52`). `TriggerResultKept` speaks of tasks that did not
  fail.
- With COVER a retry of an earlier dispatch clears the queue like a new one and
  drives out a later dispatch (`ExecutorClientImpl.java:58`). `WaitingKept` excludes
  COVER.
- A dispatch whose RESULT is lost, or which is discarded or covered, never ends:
  its entries stay in the caches.
- The callback maps live in the memory of the job servers. When the last one that is up
  goes down, every entry is lost, and a RESULT that comes after a restart is dropped with a
  warning (`JobServerClientImpl.java:91`): its dispatch is neither retried nor settled.
  `ResultFindsCallback` excepts these tasks (`forgotten`).

## 7. What is not modelled

- Inside the modelled parts: REGISTRY requests and the mails of `WarnerUtils`; the
  choice among executors (Ribbon) and sharding, which send the same request to
  other executors; a job name nobody registered; a provider of UIDs that throws inside the padding
  loop; several lives of the cached generator.
- A job that throws an `Error` ends its worker thread (`TaskWorker.java:48`). To everything
  else that is a run that never ends, a behaviour of `TaskDispatch`'s `Spec`; the fairness
  of `FairSpec` excludes it, so that `EveryDispatchEnds` is about jobs that return.
- Weak memory: the ring's slots are plain array elements whose reads and writes
  are ordered by the atomic flags and the tail around them, so each step of
  `UidRing` sees what the steps before it wrote.
- Redis, Redisson, Quartz, Vert.x and Nacos are taken to do what their
  documentation says, as the code uses them; a Redis failover that loses a lock or
  an increment is not modelled.
- Of the blog server: the queries of the search index, paging, the about page, the
  conversion of markdown, and posts without a category or tags, which the admin's forms
  refuse. Of job scheduling: several executors at a time, which share nothing but the
  tables, and the fields of a job other than its status and cron, which are copied alike.
- The components listed in section 1 without a module: `sms-server`, `ngrok`, the auth
  center and `commons/lock` have state worth a module each and have none yet. The CRUD
  services, the controllers, the demos and the deployment scripts have no state of their
  own that steps of several actors could bring out of order, and are not planned.
- The JavaScript in the repository is third-party user interface code (layui, jQuery,
  formSelects, eleTree) kept under `static/` directories of the auth center. The program
  is Java and Lua; none of its logic is in those files, so no definition maps to them.

## 8. What could come next

Among the proofs: the safety halves of `LockIsReleased` (whoever holds the lock has still to
release it, or went down) and of `EmptyIsRefilled` (the flag of the padding is set only while
a thread pads), as `SettledHasEnded` is that of `EveryDispatchEnds`; and an abstract
generator of UIDs that `NextId` implements.

Among the modules, in order of importance:

1. `CachedSeconds`: the seconds `CachedUidGenerator` borrows over several lives of the
   program, composed with `UidRing`.
2. `TaskQueue` on its own: several job names, abstracted by a queue that runs every task
   it accepts.
3. `SmsLimit`, `NgrokRelay`, `Tokens`: one module each; `QueuedSync` for the rewritten
   synchronizer, refining a mutual exclusion lock with a condition.
