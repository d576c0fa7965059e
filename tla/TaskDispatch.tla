---------------------------- MODULE TaskDispatch ----------------------------
(***************************************************************************)
(* What a job server does with a task it dispatches (sendTaskInfo and its    *)
(* chain of handlers) and with the RESULT the executor sends back            *)
(* (JobServerClientImpl, TaskResultCallback, ZeusTaskFailCallback).          *)
(*                                                                         *)
(* Every completion of a Vert.x future is a step of its own: the steps of    *)
(* all tasks and servers interleave.  The two callback caches are async      *)
(* maps, one for all servers in a Vert.x cluster and one per server without. *)
(***************************************************************************)
EXTENDS TaskQueue, FiniteSets

CONSTANTS
    Servers,    \* the job servers
    Retries,    \* retryTimes of the job
    Clustered,  \* com.gapache.vertx.settings.cluster, true by default
    Faults      \* may requests fail and processes go down?

ASSUME DispatchAssumption ==
    /\ Servers # {}
    /\ Retries \in Nat
    /\ Clustered \in BOOLEAN
    /\ Faults \in BOOLEAN

VARIABLES
    up,           \* the servers that are up
    stage,        \* how far the dispatch of each task has come
    home,         \* the server that dispatches it
    reply,        \* the executor's answer to the first request
    log,          \* the fields of the JobLog in Redis that matter here
    failCache,    \* entries of ZEUS_TASK_FAIL_CALLBACK_CACHE
    resultCache,  \* entries of ZEUS_TASK_RESULT_CALLBACK_CACHE
    results,      \* RESULT messages on their way to a server
    callbacks,    \* the TaskResultCallbacks that are under way
    runs,         \* how often each task was run
    failures,     \* and how often it failed
    finals,       \* how often its final result was settled
    forgotten     \* the tasks whose entry was lost with the whole map

executor == <<queue, running>>
dispatch == <<up, stage, home, reply>>
caches == <<failCache, resultCache>>
ghosts == <<runs, failures, finals, forgotten>>
vars == <<executor, dispatch, log, caches, results, callbacks, ghosts>>

Stages == {"new", "save", "putFail", "putResult", "send", "sent", "stopped"}

\* An async map of VertxManager.getVertx(), as server s sees it.
Map(s) == IF Clustered THEN "cluster" ELSE s

\* A callback of server s for a RESULT, or for a resend that failed.
Callback ==
    [task : Tasks, server : Servers, failed : BOOLEAN, origin : {"result", "resend"},
     at : {"lookup", "find", "save", "take", "putBack", "send", "finish"},
     trigger : BOOLEAN]

TypeOK ==
    /\ QueueTypeOK
    /\ up \subseteq Servers
    /\ stage \in [Tasks -> Stages]
    /\ home \in [Tasks -> Servers]
    /\ reply \in [Tasks -> {"none", "ok", "error"}]
    /\ log \in [Tasks -> [trigger : BOOLEAN, retryTimes : Nat]]
    /\ failCache \subseteq {Map(s) : s \in Servers} \X Tasks \X {"retryTime", "retryTimes"}
    /\ resultCache \subseteq {Map(s) : s \in Servers} \X Tasks
    /\ results \subseteq [task : Tasks, failed : BOOLEAN, run : Nat]
    /\ callbacks \subseteq Callback
    /\ runs \in [Tasks -> Nat]
    /\ failures \in [Tasks -> Nat]
    /\ finals \in [Tasks -> Nat]
    /\ forgotten \subseteq Tasks

Init ==
    /\ QueueInit
    /\ up = Servers
    /\ stage = [t \in Tasks |-> "new"]
    /\ home \in [Tasks -> Servers]
    /\ reply = [t \in Tasks |-> "none"]
    /\ log = [t \in Tasks |-> [trigger |-> FALSE, retryTimes |-> 0]]
    /\ failCache = {}
    /\ resultCache = {}
    /\ results = {}
    /\ callbacks = {}
    /\ runs = [t \in Tasks |-> 0]
    /\ failures = [t \in Tasks |-> 0]
    /\ finals = [t \in Tasks |-> 0]
    /\ forgotten = {}

-----------------------------------------------------------------------------
(* Dispatching a task: each step is the handler of the one before it        *)

Goto(t, next) == stage' = [stage EXCEPT ![t] = next]

\* sendMessageToDestination or, for one of its executors, broadcastMessage.
Dispatch(t) ==
    /\ stage[t] = "new" /\ home[t] \in up
    /\ Goto(t, "save")
    /\ UNCHANGED <<executor, up, home, reply, log, caches, results, callbacks, ghosts>>

\* SaveJobLogHandler: a fail callback is kept only for a job with retries.
LogSaved(t) ==
    /\ stage[t] = "save"
    /\ Goto(t, IF Retries > 0 THEN "putFail" ELSE "putResult")
    /\ UNCHANGED <<executor, up, home, reply, log, caches, results, callbacks, ghosts>>

\* Mutant of FailCallbackPut: the request is sent at once.
FailCallbackOnly(t) ==
    /\ stage[t] = "putFail"
    /\ failCache' = failCache \cup {<<Map(home[t]), t, "retryTime">>}
    /\ Goto(t, "send")
    /\ UNCHANGED <<executor, up, home, reply, log, resultCache, results, callbacks, ghosts>>

FailCallbackPut(t) ==
    /\ stage[t] = "putFail"
    /\ failCache' = failCache \cup {<<Map(home[t]), t, "retryTime">>}
    /\ Goto(t, "putResult")
    /\ UNCHANGED <<executor, up, home, reply, log, resultCache, results, callbacks, ghosts>>

ResultCallbackPut(t) ==
    /\ stage[t] = "putResult"
    /\ resultCache' = resultCache \cup {<<Map(home[t]), t>>}
    /\ Goto(t, "send")
    /\ UNCHANGED <<executor, up, home, reply, log, failCache, results, callbacks, ghosts>>

\* The executor has no server that Ribbon can choose, the log cannot be saved or
\* a map fails: the dispatch ends here and nobody tries again.
DispatchStops(t) ==
    /\ Faults
    /\ stage[t] \in {"save", "putFail", "putResult"}
    /\ Goto(t, "stopped")
    /\ UNCHANGED <<executor, up, home, reply, log, caches, results, callbacks, ghosts>>

\* The request reaches the executor, which answers SUCCESS in every case.
Arrive(t) ==
    /\ stage[t] = "send"
    /\ Submit(t)
    /\ Goto(t, "sent")
    /\ \E answer \in IF Faults THEN {"ok", "error"} ELSE {"ok"} :
          reply' = [reply EXCEPT ![t] = answer]
    /\ UNCHANGED <<up, home, log, caches, results, callbacks, ghosts>>

RequestFails(t) ==
    /\ Faults
    /\ stage[t] = "send"
    /\ Goto(t, "sent")
    /\ reply' = [reply EXCEPT ![t] = "error"]
    /\ UNCHANGED <<executor, up, home, log, caches, results, callbacks, ghosts>>

\* The new JobLogEntity holds the id, the trigger result, and the retryTimes of
\* an int field: 0.
SaveTriggerResult(t) ==
    /\ reply[t] # "none"
    /\ log' = [log EXCEPT ![t] = [trigger |-> reply[t] = "ok", retryTimes |-> 0]]
    /\ reply' = [reply EXCEPT ![t] = "none"]
    /\ UNCHANGED <<executor, up, stage, home, caches, results, callbacks, ghosts>>

-----------------------------------------------------------------------------
(* The executor                                                            *)

TakeTask ==
    /\ Take
    /\ runs' = [runs EXCEPT ![running'] = @ + 1]
    /\ UNCHANGED <<dispatch, log, caches, results, callbacks, failures, finals, forgotten>>

\* TaskExecutor.run: the RESULT goes to any of the servers, or is lost.
RunTask ==
    \E failed \in BOOLEAN, arrives \in IF Faults THEN BOOLEAN ELSE {TRUE} :
        /\ Finish
        /\ failures' = [failures EXCEPT ![running] = IF failed THEN @ + 1 ELSE @]
        /\ results' = IF arrives
                      THEN results \cup {[task |-> running, failed |-> failed, run |-> runs[running]]}
                      ELSE results
        /\ UNCHANGED <<dispatch, log, caches, callbacks, runs, finals, forgotten>>

ExecutorRestarts ==
    /\ Faults
    /\ Forget
    /\ UNCHANGED <<dispatch, log, caches, results, callbacks, ghosts>>

-----------------------------------------------------------------------------
(* The RESULT at a server                                                  *)

Move(c, place) == callbacks' = (callbacks \ {c}) \cup {[c EXCEPT !.at = place]}
Drop(c) == callbacks' = callbacks \ {c}

\* The RESULT event is published on, and consumed from, the default Vert.x of
\* the server that got the request.
ReceiveResult(s) ==
    \E m \in results :
        /\ s \in up
        /\ results' = results \ {m}
        /\ callbacks' = callbacks \cup
              {[task |-> m.task, server |-> s, failed |-> m.failed, origin |-> "result",
                at |-> "lookup", trigger |-> FALSE]}
        /\ UNCHANGED <<executor, dispatch, log, caches, ghosts>>

\* Without an entry of the result cache the RESULT is logged and dropped.
Lookup(c) ==
    /\ c.at = "lookup"
    /\ IF <<Map(c.server), c.task>> \in resultCache THEN Move(c, "find") ELSE Drop(c)
    /\ UNCHANGED <<executor, dispatch, log, caches, results, ghosts>>

\* SimpleRedisRepository.setValue skips fields of type int: whatever is stored,
\* a JobLogEntity that was found has retryTimes 0.
FoundRetryTimes(t) == 0

\* Mutant of FindLog: a log is saved again for every result, also a success.
FindLogAnyResult(c) ==
    /\ c.at = "find"
    /\ callbacks' = (callbacks \ {c}) \cup
          {[c EXCEPT !.trigger = log[c.task].trigger,
                     !.at = IF FoundRetryTimes(c.task) < Retries THEN "save" ELSE "finish"]}
    /\ UNCHANGED <<executor, dispatch, log, caches, results, ghosts>>

\* TaskResultCallback: a failure with retries left, or the final result.
FindLog(c) ==
    /\ c.at = "find"
    /\ callbacks' = (callbacks \ {c}) \cup
          {[c EXCEPT !.trigger = log[c.task].trigger,
                     !.at = IF c.failed /\ FoundRetryTimes(c.task) < Retries
                            THEN "save" ELSE "finish"]}
    /\ UNCHANGED <<executor, dispatch, log, caches, results, ghosts>>

\* The log is saved as it was found, with one retry more.
SaveRetry(c) ==
    /\ c.at = "save"
    /\ log' = [log EXCEPT ![c.task] =
                  [trigger |-> c.trigger, retryTimes |-> FoundRetryTimes(c.task) + 1]]
    /\ Move(c, "take")
    /\ UNCHANGED <<executor, dispatch, caches, results, ghosts>>

\* Mutant of TakeFailCallback: it reads the number under the other name.
TakeOtherName(c) ==
    /\ c.at = "take"
    /\ failCache' = {e \in failCache : e[1] # Map(c.server) \/ e[2] # c.task}
    /\ IF <<Map(c.server), c.task, "retryTimes">> \in failCache
       THEN Move(c, "putBack") ELSE Drop(c)
    /\ UNCHANGED <<executor, dispatch, log, resultCache, results, ghosts>>

\* The fail callback is removed.  If there is none, or its number is not found
\* under "retryTime", the handler throws and the callback ends here.
TakeFailCallback(c) ==
    /\ c.at = "take"
    /\ failCache' = {e \in failCache : e[1] # Map(c.server) \/ e[2] # c.task}
    /\ IF <<Map(c.server), c.task, "retryTime">> \in failCache
       THEN Move(c, "putBack") ELSE Drop(c)
    /\ UNCHANGED <<executor, dispatch, log, resultCache, results, ghosts>>

\* Mutants of PutBackFailCallback: under a third name; under the name that is
\* read, which alone would let a task be retried for ever.
PutBackThirdName(c) ==
    /\ c.at = "putBack"
    /\ failCache' = failCache \cup {<<Map(c.server), c.task, "retries">>}
    /\ Move(c, "send")
    /\ UNCHANGED <<executor, dispatch, log, resultCache, results, ghosts>>

PutBackSameName(c) ==
    /\ c.at = "putBack"
    /\ failCache' = failCache \cup {<<Map(c.server), c.task, "retryTime">>}
    /\ Move(c, "send")
    /\ UNCHANGED <<executor, dispatch, log, resultCache, results, ghosts>>

\* ZeusTaskFailCallback puts itself back, under "retryTimes".
PutBackFailCallback(c) ==
    /\ c.at = "putBack"
    /\ failCache' = {e \in failCache : e[1] # Map(c.server) \/ e[2] # c.task}
                      \cup {<<Map(c.server), c.task, "retryTimes">>}
    /\ Move(c, "send")
    /\ UNCHANGED <<executor, dispatch, log, resultCache, results, ghosts>>

\* The same message again; an error starts the callback over.
Resend(c) ==
    /\ c.at = "send"
    /\ \E arrives, answered \in IF Faults THEN BOOLEAN ELSE {TRUE} :
          /\ answered => arrives
          /\ IF arrives THEN Submit(c.task) ELSE UNCHANGED executor
          /\ IF answered
             THEN Drop(c)
             ELSE callbacks' = (callbacks \ {c}) \cup
                                  {[c EXCEPT !.at = "find", !.origin = "resend"]}
    /\ UNCHANGED <<dispatch, log, caches, results, ghosts>>

\* Mutant of FinishTask: the result callback is not removed.
FinishHalf(c) ==
    /\ c.at = "finish"
    /\ failCache' = {e \in failCache : e[1] # Map(c.server) \/ e[2] # c.task}
    /\ finals' = [finals EXCEPT ![c.task] = @ + 1]
    /\ Drop(c)
    /\ UNCHANGED <<executor, dispatch, log, resultCache, results, runs, failures, forgotten>>

\* The final result: both cache entries go.  The event of the final result is
\* sent on the Vert.x that VertxManager created and changes nothing:
\* EventConsumerVerticle listens on the default one.
FinishTask(c) ==
    /\ c.at = "finish"
    /\ failCache' = {e \in failCache : e[1] # Map(c.server) \/ e[2] # c.task}
    /\ resultCache' = resultCache \ {<<Map(c.server), c.task>>}
    /\ finals' = [finals EXCEPT ![c.task] = @ + 1]
    /\ Drop(c)
    /\ UNCHANGED <<executor, dispatch, log, results, runs, failures, forgotten>>

CallbackStep(c) ==
    \/ Lookup(c)
    \/ FindLog(c)
    \/ SaveRetry(c)
    \/ TakeFailCallback(c)
    \/ PutBackFailCallback(c)
    \/ Resend(c)
    \/ FinishTask(c)

\* A server goes down: its handlers are gone, and its entries of the caches unless
\* another member of the cluster is up and has them.  What it had not sent is never sent.
ServerStops(s) ==
    LET lost == IF Clustered /\ up # {s} THEN {} ELSE {Map(s)} IN
    /\ Faults
    /\ s \in up
    /\ up' = up \ {s}
    /\ stage' = [t \in Tasks |->
                    IF home[t] = s /\ stage[t] \in {"save", "putFail", "putResult", "send"}
                    THEN "stopped" ELSE stage[t]]
    /\ reply' = [t \in Tasks |-> IF home[t] = s THEN "none" ELSE reply[t]]
    /\ failCache' = {e \in failCache : e[1] \notin lost}
    /\ resultCache' = {e \in resultCache : e[1] \notin lost}
    /\ forgotten' = forgotten \cup {t \in Tasks : \E m \in lost : <<m, t>> \in resultCache}
    /\ callbacks' = {c \in callbacks : c.server # s}
    /\ UNCHANGED <<executor, home, log, results, runs, failures, finals>>

ServerStarts(s) ==
    /\ s \notin up
    /\ up' = up \cup {s}
    /\ UNCHANGED <<executor, stage, home, reply, log, caches, results, callbacks, ghosts>>

DispatchStep(t) ==
    \/ LogSaved(t)
    \/ FailCallbackPut(t)
    \/ ResultCallbackPut(t)
    \/ Arrive(t)
    \/ SaveTriggerResult(t)

Next ==
    \/ \E t \in Tasks :
          \/ Dispatch(t)
          \/ DispatchStep(t)
          \/ DispatchStops(t)
          \/ RequestFails(t)
    \/ TakeTask
    \/ RunTask
    \/ ExecutorRestarts
    \/ \E s \in Servers : ReceiveResult(s) \/ ServerStops(s) \/ ServerStarts(s)
    \/ \E c \in callbacks : CallbackStep(c)

Spec == Init /\ [][Next]_vars

\* Event loops run their handlers and the worker thread its tasks.
FairSpec ==
    /\ Spec
    /\ \A t \in Tasks : WF_vars(DispatchStep(t))
    /\ WF_vars(TakeTask)
    /\ WF_vars(RunTask)
    /\ WF_vars(\E s \in Servers : ReceiveResult(s))
    /\ \A t \in Tasks : WF_vars(\E c \in callbacks : c.task = t /\ CallbackStep(c))

-----------------------------------------------------------------------------
(* Properties                                                              *)

Waiting(t) == Cardinality({i \in 1 .. Len(queue) : queue[i] = t})
OnExecutor(t) == Waiting(t) + (IF running = t THEN 1 ELSE 0)

\* Nothing more will happen to a task by itself.
Settled(t) ==
    /\ stage[t] \in {"sent", "stopped"}
    /\ reply[t] = "none"
    /\ OnExecutor(t) = 0
    /\ \A m \in results : m.task # t
    /\ \A c \in callbacks : c.task # t

\* The callbacks are stored before the request is sent: a RESULT of a task that
\* is not final yet finds its entry, on whichever server of the cluster and whatever
\* servers went down, unless all were down at once and the map went with the last.
ResultFindsCallback ==
    \A c \in callbacks :
        c.at = "lookup" /\ finals[c.task] = 0 /\ c.task \notin forgotten =>
            <<Map(c.server), c.task>> \in resultCache

\* A task is never in the executor's hands twice at the same time: its message is
\* sent again only after it failed.
OneAttemptAtATime == \A t \in Tasks : OnExecutor(t) <= 1

\* Every step is one of TaskLife or none: a task is run again only after all earlier
\* runs failed, within retryTimes and never after its final result, although the number
\* of retries in the log is never read back: what stops them is the callback that throws.
Life == INSTANCE TaskLife WITH attempts <- runs, busy <- running
KeepsLife == Life!Spec

\* A task gets one final result, and no callback is left in the cluster's caches.
FinalOnce ==
    \A t \in Tasks :
        /\ finals[t] <= 1
        /\ finals[t] = 1 =>
              /\ \A s \in Servers : <<Map(s), t>> \notin resultCache
              /\ \A e \in failCache : e[2] # t

\* "Discard the later dispatches": as long as the executor is up, what waits is
\* run, whatever arrives, retries of earlier tasks included.
WaitingKept ==
    [][Strategy # "COVER" =>
          \A t \in Tasks : Waiting(t) > 0 => OnExecutor(t)' > 0 \/ ExecutorRestarts]_vars

\* While nothing fails, a dispatched task gets its final result or fails twice.
EveryDispatchEnds ==
    \A t \in Tasks : (stage[t] = "save") ~> (finals[t] = 1 \/ failures[t] = 2)

\* "The dispatch succeeded, save its result": the log of a task that did not fail
\* keeps it, whichever of the answer and the RESULT is handled first.
TriggerResultKept ==
    \A t \in Tasks : Settled(t) /\ runs[t] > 0 /\ failures[t] = 0 => log[t].trigger

\* "A failed task is retried as many times as configured"
RetriedAsConfigured ==
    \A t \in Tasks :
        stage[t] = "sent" /\ Settled(t) /\ failures[t] = runs[t] => runs[t] = 1 + Retries
=============================================================================
