--------------------------- MODULE TaskLife_proofs ---------------------------
(***************************************************************************)
(* Proofs that TaskDispatch keeps TaskLife, how often it runs a task, and    *)
(* how the life of a task ends where nothing fails.                          *)
(***************************************************************************)
EXTENDS TaskResult_proofs

-----------------------------------------------------------------------------
(* Each step is a step of TaskLife, or none                                 *)

\* The worker thread takes a task all of whose runs have failed, that has retries left
\* and no final result.
LEMMA TakeTaskBegins ==
    ASSUME ResultInv, TakeTask
    PROVE  Life!Begin(running')
<1> USE DEF ResultInv, IndInv, Safety, Outcome
<1>1. /\ running = NoTask /\ queue # <<>> /\ running' = Head(queue)
      /\ runs' = [runs EXCEPT ![running'] = @ + 1]
      /\ UNCHANGED <<failures, finals>>
  BY DEF TakeTask, Take
<1>2. running' \in Tasks /\ running' = queue[1] /\ 1 \in 1 .. Len(queue)
  BY <1>1 DEF TypeOK, QueueTypeOK
<1> DEFINE t == queue[1]
<1>3. t \in Tasks /\ InQueue(t) /\ OnIt(t) /\ Busy(t) = 0
  BY <1>1, <1>2, NoTaskAssumption DEF InQueue, OnIt, Busy
<1> HIDE DEF t
<1>4. runs[t] = failures[t] /\ runs[t] <= Retries
  BY <1>3, ResultTypes DEF TriedHasFailed, RunsLeft
<1>5. finals[t] = 0
  BY <1>3, ResultTypes DEF DecidedIsDone, Decided
<1> QED
  BY <1>1, <1>2, <1>4, <1>5 DEF Life!Begin, t

\* The callback that finishes a task settles it: a run did not fail, or there is none left.
LEMMA FinishTaskSettles ==
    ASSUME ResultInv, NEW c \in callbacks, FinishTask(c)
    PROVE  c.task \in Tasks /\ Life!Settle(c.task)
<1> USE DEF ResultInv, IndInv, Safety, Outcome
<1>1. /\ c.at = "finish" /\ UNCHANGED <<runs, failures, running>>
      /\ finals' = [finals EXCEPT ![c.task] = @ + 1]
  BY DEF FinishTask, executor
<1>2. c.task \in Tasks
  BY ResultTypes
<1>3. Settles(c) /\ finals[c.task] = 0 /\ Decided(c.task)
  BY <1>1 DEF FinishSettles, OneDecision, Decided
<1>4. /\ running # c.task /\ runs[c.task] > 0
      /\ Retries > 0 => runs[c.task] = failures[c.task] + 1
  BY <1>2, <1>3 DEF DecidedIsDone, OnIt
<1>5. Retries = 0 => runs[c.task] = 1
  BY <1>2, <1>4, ResultTypes DEF RetriesBounded
<1> QED
  BY <1>1, <1>2, <1>3, <1>4, <1>5, ResultTypes DEF Life!Settle

\* Every step of the dispatch, of a callback or of the executor.
LEMMA LifeStep ==
    ASSUME ResultInv, [Next]_vars
    PROVE  [Life!Next]_(Life!vars)
<1> USE DEF executor, dispatch, caches, ghosts
<1>1. ASSUME UNCHANGED <<running, runs, failures, finals>> PROVE UNCHANGED Life!vars
  BY <1>1 DEF Life!vars
<1>2. CASE TakeTask
  <2>1. running' \in Tasks
    BY <1>2, TypeStep DEF TakeTask, Take, ResultInv, IndInv, TypeOK, QueueTypeOK
  <2> QED
    BY <1>2, <2>1, TakeTaskBegins DEF Life!Next
<1>3. CASE RunTask
  <2>1. running \in Tasks
    BY <1>3 DEF RunTask, Finish, ResultInv, IndInv, TypeOK, QueueTypeOK
  <2>2. Life!Fail(running) \/ Life!End(running)
    BY <1>3, <2>1 DEF RunTask, Finish, ResultInv, IndInv, TypeOK, Life!Fail, Life!End
  <2> QED
    BY <2>1, <2>2 DEF Life!Next
<1>4. CASE ExecutorRestarts
  <2>1. running' = NoTask /\ UNCHANGED <<runs, failures, finals>>
    BY <1>4 DEF ExecutorRestarts, Forget
  <2>2. running = NoTask => UNCHANGED Life!vars
    BY <1>1, <2>1
  <2>3. running # NoTask => running \in Tasks /\ Life!End(running)
    BY <2>1 DEF ResultInv, IndInv, TypeOK, QueueTypeOK, Life!End
  <2> QED
    BY <2>2, <2>3 DEF Life!Next
<1>5. ASSUME NEW c \in callbacks, CallbackStep(c) PROVE [Life!Next]_(Life!vars)
  <2>1. CASE FinishTask(c)
    BY <2>1, FinishTaskSettles DEF Life!Next
  <2>2. CASE ~FinishTask(c)
    BY <1>1, <1>5, <2>2
    DEF CallbackStep, Lookup, FindLog, SaveRetry, TakeFailCallback, PutBackFailCallback,
        Resend, Submit
  <2> QED
    BY <2>1, <2>2
<1>6. ASSUME NEW t \in Tasks,
             Dispatch(t) \/ DispatchStep(t) \/ DispatchStops(t) \/ RequestFails(t)
      PROVE  UNCHANGED Life!vars
  BY <1>1, <1>6
  DEF Dispatch, DispatchStep, LogSaved, FailCallbackPut, ResultCallbackPut, Arrive,
      SaveTriggerResult, DispatchStops, RequestFails, Submit
<1>7. ASSUME NEW s \in Servers, ReceiveResult(s) \/ ServerStops(s) \/ ServerStarts(s)
      PROVE  UNCHANGED Life!vars
  BY <1>1, <1>7 DEF ReceiveResult, ServerStops, ServerStarts
<1>8. CASE UNCHANGED vars
  BY <1>1, <1>8 DEF vars
<1> QED
  BY <1>2, <1>3, <1>4, <1>5, <1>6, <1>7, <1>8 DEF Next

\* The job servers and the executor together implement TaskLife, for every number of
\* tasks and servers, every strategy and retryTimes, with lost requests and RESULTs and
\* restarts: a run begins only after all earlier ones failed, within retryTimes, and never
\* after the final result.
THEOREM KeepsLifeHolds == Spec => KeepsLife
<1>1. Init => Life!Init
  BY DEF Init, QueueInit, Life!Init
<1>2. ResultInv /\ [Next]_vars => [Life!Next]_(Life!vars)
  BY LifeStep
<1> QED
  BY <1>1, <1>2, ResultInvInit, ResultInvStep, PTL DEF Spec, KeepsLife, Life!Spec

-----------------------------------------------------------------------------
(* A task is retried once at most                                           *)

\* A task that waits was run once at most.
WaitsOnce == \A t \in Tasks : InQueue(t) => runs[t] <= 1

\* Whatever retryTimes says there are two runs at most, and a task that failed twice
\* never gets a final result.
AtMostOneRetry == \A t \in Tasks : runs[t] <= 2 /\ (failures[t] = 2 => finals[t] = 0)

\* A task is put in the queue before its first run, or by a callback that holds its entry.
LEMMA WaitsOnceStep ==
    ASSUME IndInv, IndInv', WaitsOnce, [Next]_vars
    PROVE  WaitsOnce'
<1> USE DEF IndInv, Safety, executor, dispatch, caches, ghosts
<1>1. CASE TakeTask
  <2>1. /\ running' = Head(queue) /\ queue' = Tail(queue) /\ queue # <<>>
        /\ runs' = [runs EXCEPT ![running'] = @ + 1]
    BY <1>1 DEF TakeTask, Take
  <2>2. ~InQueue(running)'
    BY DEF OnePlace
  <2>3. \A u : InQueue(u)' => InQueue(u)
    <3>1. \A i \in 1 .. Len(queue') : i + 1 \in 1 .. Len(queue) /\ queue'[i] = queue[i + 1]
      BY <2>1 DEF TypeOK, QueueTypeOK
    <3> QED
      BY <3>1 DEF InQueue
  <2>4. \A u \in Tasks : InQueue(u)' => u # running'
    BY <2>2 DEF InQueue
  <2> QED
    BY <2>1, <2>3, <2>4 DEF WaitsOnce, TypeOK
<1>2. ASSUME NEW t \in Tasks, Submit(t), runs' = runs, ~OnIt(t), runs[t] <= 1
      PROVE  WaitsOnce'
  BY <1>2, SubmitPlaces DEF WaitsOnce
<1>3. ASSUME NEW t \in Tasks, Arrive(t) PROVE WaitsOnce'
  <2>1. Submit(t) /\ runs' = runs /\ stage[t] = "send"
    BY <1>3 DEF Arrive
  <2>2. ~OnIt(t) /\ runs[t] <= 1
    BY <2>1 DEF NotSentYet
  <2> QED
    BY <1>2, <2>1, <2>2
<1>4. ASSUME UNCHANGED <<queue, runs>> PROVE WaitsOnce'
  BY <1>4 DEF WaitsOnce, InQueue
<1>5. ASSUME NEW c \in callbacks, Resend(c) PROVE WaitsOnce'
  <2>1. c.task \in Tasks /\ c.at = "send" /\ runs' = runs /\ (Submit(c.task) \/ UNCHANGED executor)
    BY <1>5, ResultTypes DEF Resend
  <2>2. ~OnIt(c.task) /\ runs[c.task] <= 1
    BY <2>1 DEF OneHolder, Holding
  <2> QED
    BY <1>2, <1>4, <2>1, <2>2
<1>6. CASE ExecutorRestarts
  BY <1>6 DEF ExecutorRestarts, Forget, WaitsOnce, InQueue
<1>7. CASE RunTask \/ UNCHANGED vars
  BY <1>4, <1>7 DEF RunTask, Finish, vars
<1>8. ASSUME NEW t \in Tasks, ~Arrive(t),
             Dispatch(t) \/ DispatchStep(t) \/ DispatchStops(t) \/ RequestFails(t)
      PROVE  WaitsOnce'
  BY <1>4, <1>8
  DEF Dispatch, DispatchStep, LogSaved, FailCallbackPut, ResultCallbackPut,
      SaveTriggerResult, DispatchStops, RequestFails
<1>9. ASSUME NEW s \in Servers, ReceiveResult(s) \/ ServerStops(s) \/ ServerStarts(s)
      PROVE  WaitsOnce'
  BY <1>4, <1>9 DEF ReceiveResult, ServerStops, ServerStarts
<1>10. ASSUME NEW c \in callbacks, CallbackStep(c), ~Resend(c) PROVE WaitsOnce'
  BY <1>4, <1>10
  DEF CallbackStep, Lookup, FindLog, SaveRetry, TakeFailCallback, PutBackFailCallback, FinishTask
<1> QED
  BY <1>1, <1>3, <1>5, <1>6, <1>7, <1>8, <1>9, <1>10 DEF Next

\* What is taken has waited, so there are two runs at most.
RunTwice == WaitsOnce /\ \A t \in Tasks : runs[t] <= 2

LEMMA RunTwiceStep == IndInv /\ IndInv' /\ RunTwice /\ [Next]_vars => RunTwice'
<1> SUFFICES ASSUME IndInv, IndInv', RunTwice, [Next]_vars PROVE \A t \in Tasks : runs'[t] <= 2
  BY WaitsOnceStep DEF RunTwice
<1>1. CASE TakeTask
  <2>1. /\ running' = queue[1] /\ 1 \in 1 .. Len(queue)
        /\ runs' = [runs EXCEPT ![running'] = @ + 1]
    BY <1>1 DEF TakeTask, Take, IndInv, TypeOK, QueueTypeOK
  <2>2. InQueue(running') /\ running' \in Tasks
    BY <2>1 DEF InQueue, IndInv, TypeOK, QueueTypeOK
  <2>3. runs[running'] <= 1
    BY <2>2 DEF RunTwice, WaitsOnce
  <2> QED
    BY <2>1, <2>2, <2>3 DEF RunTwice, IndInv, TypeOK
<1>2. CASE ~TakeTask
  <2>1. runs' = runs
    BY <1>2
    DEF Next, RunTask, ExecutorRestarts, ReceiveResult, ServerStops, ServerStarts, vars, ghosts,
        CallbackStep, Lookup, FindLog, SaveRetry, TakeFailCallback, PutBackFailCallback, Resend, FinishTask,
        Dispatch, DispatchStep, LogSaved, FailCallbackPut, ResultCallbackPut, Arrive,
        SaveTriggerResult, DispatchStops, RequestFails
  <2> QED
    BY <2>1 DEF RunTwice
<1> QED
  BY <1>1, <1>2

LEMMA RunTwiceInit == Init => RunTwice
<1> SUFFICES ASSUME Init PROVE RunTwice
  OBVIOUS
<1>1. \A t \in Tasks : runs[t] = 0
  BY DEF Init
<1> QED
  BY <1>1 DEF RunTwice, WaitsOnce

\* Where there are two runs at most, two failures are no final result.
LEMMA TwiceFailed ==
    ASSUME ResultInv, RunTwice
    PROVE  AtMostOneRetry
<1> SUFFICES ASSUME NEW t \in Tasks, failures[t] = 2 PROVE finals[t] = 0
  BY DEF AtMostOneRetry, RunTwice
<1>1. runs[t] \in Nat /\ runs[t] <= 2 /\ finals[t] \in Nat
  BY ResultTypes DEF ResultInv, IndInv, RunTwice
<1>2. runs[t] >= failures[t]
  BY ResultTypes DEF ResultInv, IndInv, Outcome, FailuresAreRuns, Busy
<1>3. Retries > 0
  BY <1>1, <1>2, ResultTypes DEF ResultInv, IndInv, Safety, RetriesBounded
<1>4. ~Decided(t)
  BY <1>1, <1>3 DEF ResultInv, Outcome, DecidedIsDone
<1> QED
  BY <1>1, <1>4 DEF Decided

\* The callback that is put back under another name (ZeusTaskFailCallback) is never read
\* again: for every retryTimes, and whatever is lost or restarted, a task is run twice at
\* most, and one that failed twice is left without a final result.
THEOREM AtMostOneRetryHolds == Spec => []AtMostOneRetry
<1>1. ResultInv => IndInv
  BY DEF ResultInv
<1>2. ResultInv /\ RunTwice => AtMostOneRetry
  BY TwiceFailed
<1> QED
  BY <1>1, <1>2, RunTwiceInit, RunTwiceStep, ResultInvInit, ResultInvStep, PTL DEF Spec

-----------------------------------------------------------------------------
(* How a task ends where nothing fails                                      *)

\* The messages and callbacks of a task: one at most, and none while the executor has it.
OneAnswer ==
    /\ \A t \in Tasks : OnIt(t) => ~Answered(t)
    /\ \A m \in results : /\ \A n \in results : n.task = m.task => n = m
                          /\ \A c \in callbacks : c.task # m.task
    /\ \A c, d \in callbacks : c.task = d.task => c = d

\* A failure that is being dealt with is one of as many as there were runs.
AnswerCounts ==
    /\ \A m \in results : m.failed => runs[m.task] = failures[m.task]
    /\ \A c \in callbacks : c.failed => runs[c.task] = failures[c.task]

\* The entry of a job with retries is put before the request is sent; once it is gone,
\* the task has its final result, or its second run is about to begin or has begun.
EntryUsed ==
    \A t \in Tasks : Retries >= 1 =>
        /\ stage[t] \in {"putResult", "send"} => Entry(t)
        /\ stage[t] = "sent" /\ finals[t] = 0 /\ ~Entry(t) =>
              Held(t) \/ (InQueue(t) /\ runs[t] = 1) \/ runs[t] = 2

\* A task that was sent is on the executor or being answered until it has ended.
Ended(t) == finals[t] = 1 \/ failures[t] = 2
Pursued ==
    \A t \in Tasks :
        /\ stage[t] # "stopped"
        /\ stage[t] = "sent" => OnIt(t) \/ Answered(t) \/ Ended(t)

Smooth == OneAnswer /\ AnswerCounts /\ EntryUsed /\ Pursued

\* What nothing fails means, and the strategy that drops no task.
NothingFails == ~Faults /\ Strategy = "STAND_ALONE_SERIAL" /\ OneMap

\* The invariant of all that is proved above.
LifeInv == ResultInv /\ RunTwice

\* A task that is submitted waits behind those that wait.
LEMMA SubmitAppends ==
    ASSUME NothingFails, TypeOK, NEW t \in Tasks, Submit(t)
    PROVE  running' = running /\ \A u : InQueue(u)' <=> InQueue(u) \/ u = t
<1>1. queue' = Append(queue, t) /\ running' = running /\ queue \in Seq(Tasks)
  BY DEF Submit, Enqueued, NothingFails, TypeOK, QueueTypeOK
<1>2. /\ Len(queue') = Len(queue) + 1 /\ queue'[Len(queue) + 1] = t /\ Len(queue) \in Nat
      /\ \A i \in 1 .. Len(queue) : queue'[i] = queue[i]
  BY <1>1
<1>3. \A i : i \in 1 .. Len(queue') <=> i \in 1 .. Len(queue) \/ i = Len(queue) + 1
  <2> DEFINE n == Len(queue)
  <2>1. n \in Nat
    BY <1>2
  <2> HIDE DEF n
  <2>2. \A i : i \in 1 .. n + 1 <=> i \in 1 .. n \/ i = n + 1
    BY <2>1
  <2> QED
    BY <1>2, <2>2 DEF n
<1>4. \A i \in 1 .. Len(queue') : i \in 1 .. Len(queue) \/ i = Len(queue) + 1
  BY <1>3
<1>5. \A i \in 1 .. Len(queue) : i \in 1 .. Len(queue')
  BY <1>3
<1>6. Len(queue) + 1 \in 1 .. Len(queue')
  BY <1>3
<1> QED
  BY <1>1, <1>2, <1>4, <1>5, <1>6 DEF InQueue

\* A task with a message or a callback was sent.
LEMMA AnsweredWasSent ==
    ASSUME IndInv, NEW t \in Tasks, Answered(t) \/ OnIt(t)
    PROVE  stage[t] = "sent"
  BY DEF IndInv, Safety, NotSentYet

\* The steps of the dispatch up to the request.
LEMMA DispatchSmooth ==
    ASSUME NothingFails, LifeInv, Smooth, NEW t \in Tasks,
           Dispatch(t) \/ LogSaved(t) \/ FailCallbackPut(t) \/ ResultCallbackPut(t) \/ SaveTriggerResult(t)
    PROVE  Smooth'
<1> USE DEF Smooth, executor, dispatch, caches, ghosts
<1>1. UNCHANGED <<queue, running, home, results, callbacks, runs, failures, finals>>
  BY DEF Dispatch, LogSaved, FailCallbackPut, ResultCallbackPut, SaveTriggerResult
<1>2. /\ failCache \subseteq failCache'
      /\ \A u \in Tasks : u # t => stage'[u] = stage[u]
      /\ stage'[t] = "sent" => stage[t] = "sent"
      /\ stage'[t] = "stopped" => stage[t] = "stopped"
  BY DEF Dispatch, LogSaved, FailCallbackPut, ResultCallbackPut, SaveTriggerResult, Goto,
         LifeInv, ResultInv, IndInv, TypeOK
<1>3. /\ \A u : (OnIt(u)' <=> OnIt(u)) /\ (InQueue(u)' <=> InQueue(u))
      /\ \A u : (Answered(u)' <=> Answered(u)) /\ (Held(u)' <=> Held(u))
      /\ \A u : (Entry(u) => Entry(u)') /\ (Ended(u)' <=> Ended(u))
  BY <1>1, <1>2 DEF OnIt, InQueue, Answered, Held, Entry, Ended, Map
<1>4. Retries >= 1 /\ stage'[t] \in {"putResult", "send"} => Entry(t)'
  <2>1. CASE FailCallbackPut(t)
    BY <2>1 DEF FailCallbackPut, Entry, Map
  <2>2. CASE LogSaved(t)
    BY <2>2, DispatchAssumption DEF LogSaved, Goto, LifeInv, ResultInv, IndInv, TypeOK
  <2>3. CASE ~FailCallbackPut(t) /\ ~LogSaved(t)
    <3>1. stage'[t] \in {"putResult", "send"} => stage[t] \in {"putResult", "send"}
      BY <2>3 DEF Dispatch, ResultCallbackPut, SaveTriggerResult, Goto,
                  LifeInv, ResultInv, IndInv, TypeOK
    <3> QED
      BY <1>3, <3>1 DEF EntryUsed
  <2> QED
    BY <2>1, <2>2, <2>3
<1>5. OneAnswer' /\ AnswerCounts'
  BY <1>1, <1>3 DEF OneAnswer, AnswerCounts
<1>6. EntryUsed'
  BY <1>1, <1>2, <1>3, <1>4 DEF EntryUsed
<1>7. Pursued'
  BY <1>2, <1>3 DEF Pursued
<1> QED
  BY <1>5, <1>6, <1>7

\* The request reaches the executor.
LEMMA ArriveSmooth ==
    ASSUME NothingFails, LifeInv, Smooth, NEW t \in Tasks, Arrive(t)
    PROVE  Smooth'
<1> USE DEF Smooth, LifeInv, ResultInv, IndInv, Safety, caches, ghosts
<1>1. /\ UNCHANGED <<home, failCache, results, callbacks, runs, failures, finals>>
      /\ Submit(t) /\ stage[t] = "send" /\ stage' = [stage EXCEPT ![t] = "sent"]
  BY DEF Arrive, Goto
<1>2. running' = running /\ \A u : InQueue(u)' <=> InQueue(u) \/ u = t
  BY <1>1, SubmitAppends
<1>3. /\ \A u : (Answered(u)' <=> Answered(u)) /\ (Held(u)' <=> Held(u))
      /\ \A u : (Entry(u)' <=> Entry(u)) /\ (Ended(u)' <=> Ended(u))
      /\ \A u : OnIt(u)' <=> OnIt(u) \/ u = t
  BY <1>1, <1>2 DEF Answered, Held, Entry, Ended, OnIt, Map
<1>4. ~Answered(t)
  BY <1>1 DEF NotSentYet
<1>5. OneAnswer' /\ AnswerCounts'
  BY <1>1, <1>3, <1>4 DEF OneAnswer, AnswerCounts
<1>6. /\ \A u \in Tasks : u # t => stage'[u] = stage[u]
      /\ stage'[t] = "sent"
  BY <1>1 DEF TypeOK
<1>7. Retries >= 1 => Entry(t)
  BY <1>1 DEF EntryUsed
<1>8. EntryUsed'
  BY <1>1, <1>2, <1>3, <1>6, <1>7 DEF EntryUsed
<1>9. Pursued'
  BY <1>3, <1>6 DEF Pursued
<1> QED
  BY <1>5, <1>8, <1>9

\* A run begins.
LEMMA TakeTaskSmooth ==
    ASSUME LifeInv, Smooth, TakeTask
    PROVE  Smooth'
<1> USE DEF Smooth, LifeInv, ResultInv, IndInv, Safety, dispatch, caches, ghosts
<1>1. /\ UNCHANGED <<stage, home, failCache, results, callbacks, failures, finals>>
      /\ running = NoTask /\ queue # <<>>
      /\ running' = Head(queue) /\ queue' = Tail(queue)
      /\ runs' = [runs EXCEPT ![running'] = @ + 1]
  BY DEF TakeTask, Take
<1>2. PICK t \in Tasks : t = queue[1] /\ t = running'
  BY <1>1 DEF TypeOK, QueueTypeOK
<1>3. InQueue(t) /\ OnIt(t)
  BY <1>1, <1>2 DEF InQueue, OnIt, TypeOK, QueueTypeOK
<1>4. \A u \in Tasks : InQueue(u)' <=> InQueue(u) /\ u # t
  <2>0. queue \in Seq(Tasks) /\ queue # <<>> /\ queue' = Tail(queue)
    BY <1>1 DEF TypeOK, QueueTypeOK
  <2>1. /\ \A i \in 1 .. Len(queue') : i + 1 \in 1 .. Len(queue) /\ queue'[i] = queue[i + 1]
        /\ \A i \in 1 .. Len(queue) : i # 1 => i - 1 \in 1 .. Len(queue') /\ queue'[i - 1] = queue[i]
        /\ 1 \in 1 .. Len(queue) /\ \A i \in 1 .. Len(queue') : i + 1 # 1
    <3>1. \A i \in 1 .. Len(queue') : i + 1 \in 1 .. Len(queue) /\ queue'[i] = queue[i + 1] /\ i + 1 # 1
      BY <2>0
    <3>2. ASSUME NEW i \in 1 .. Len(queue), i # 1
          PROVE  i - 1 \in 1 .. Len(queue') /\ queue'[i - 1] = queue[i]
      <4>1. i - 1 \in 1 .. Len(queue')
        BY <2>0, <3>2
      <4>2. queue'[i - 1] = queue[i - 1 + 1] /\ i - 1 + 1 = i
        BY <3>1, <3>2, <4>1
      <4> QED
        BY <4>1, <4>2
    <3>3. 1 \in 1 .. Len(queue)
      BY <2>0
    <3> QED
      BY <3>1, <3>2, <3>3
  <2>2. ASSUME NEW u \in Tasks, InQueue(u)' PROVE InQueue(u) /\ u # t
    <3>1. PICK i \in 1 .. Len(queue') : queue'[i] = u
      BY <2>2 DEF InQueue
    <3>2. i + 1 \in 1 .. Len(queue) /\ queue[i + 1] = u /\ i + 1 # 1 /\ 1 \in 1 .. Len(queue)
      BY <2>1, <3>1
    <3>3. u # queue[1]
      BY <3>2 DEF OnePlace
    <3> QED
      BY <1>2, <3>2, <3>3 DEF InQueue
  <2>3. ASSUME NEW u \in Tasks, InQueue(u), u # t PROVE InQueue(u)'
    BY <1>2, <2>1, <2>3 DEF InQueue
  <2> QED
    BY <2>2, <2>3
<1>5. /\ \A u \in Tasks : OnIt(u)' <=> OnIt(u)
      /\ \A u : (Answered(u)' <=> Answered(u)) /\ (Held(u)' <=> Held(u))
      /\ \A u : (Entry(u)' <=> Entry(u)) /\ (Ended(u)' <=> Ended(u))
  BY <1>1, <1>2, <1>3, <1>4, NoTaskAssumption DEF OnIt, Answered, Held, Entry, Ended, Map
<1>6. \A u \in Tasks : runs'[u] = IF u = t THEN runs[t] + 1 ELSE runs[u]
  BY <1>1, <1>2 DEF TypeOK
<1>7. OneAnswer'
  BY <1>1, <1>5 DEF OneAnswer
<1>8. AnswerCounts'
  <2>1. ~Answered(t)
    BY <1>3 DEF OneAnswer
  <2>2. /\ \A m \in results : m.task \in Tasks /\ m.task # t
        /\ \A c \in callbacks : c.task \in Tasks /\ c.task # t
    BY <2>1, ResultTypes DEF Answered
  <2> QED
    BY <1>1, <1>6, <2>2 DEF AnswerCounts
<1>9. EntryUsed'
  <2>1. runs[t] <= 1 /\ runs[t] \in Nat /\ ~Held(t) /\ stage[t] = "sent"
    BY <1>3, ResultTypes DEF RunTwice, WaitsOnce, Held, OneHolder, NotSentYet
  <2>2. ASSUME Retries >= 1, finals[t] = 0, ~Entry(t) PROVE runs'[t] = 2
    BY <1>6, <2>1, <2>2 DEF EntryUsed
  <2> QED
    BY <1>1, <1>4, <1>5, <1>6, <2>1, <2>2 DEF EntryUsed
<1>10. Pursued'
  BY <1>1, <1>5 DEF Pursued
<1> QED
  BY <1>7, <1>8, <1>9, <1>10

\* A run ends, and its RESULT is the only answer of the task.
LEMMA RunTaskSmooth ==
    ASSUME NothingFails, LifeInv, Smooth, RunTask
    PROVE  Smooth'
<1> USE DEF Smooth, LifeInv, ResultInv, IndInv, Safety, Outcome, dispatch, caches, ghosts
<1>1. PICK failed \in BOOLEAN :
        /\ UNCHANGED <<queue, stage, home, failCache, callbacks, runs, finals>>
        /\ running # NoTask /\ running' = NoTask
        /\ failures' = [failures EXCEPT ![running] = IF failed THEN @ + 1 ELSE @]
        /\ results' = results \cup {[task |-> running, failed |-> failed, run |-> runs[running]]}
  BY DEF RunTask, Finish, NothingFails
<1>2. PICK t \in Tasks : t = running
  BY <1>1 DEF TypeOK, QueueTypeOK
<1>3. PICK n \in [task : Tasks, failed : BOOLEAN, run : Nat] :
        n.task = t /\ n.failed = failed /\ results' = results \cup {n}
  <2> DEFINE r == [task |-> t, failed |-> failed, run |-> runs[t]]
  <2>1. r.task = t /\ r.failed = failed /\ r \in [task : Tasks, failed : BOOLEAN, run : Nat]
    BY DEF TypeOK
  <2> QED
    BY <1>1, <1>2, <2>1
<1>4. OnIt(t) /\ ~InQueue(t) /\ Busy(t) = 1 /\ ~Answered(t) /\ stage[t] = "sent"
  BY <1>2 DEF OnIt, OnePlace, Busy, OneAnswer, NotSentYet
<1>5. runs[t] = failures[t] + 1 /\ runs[t] <= 2 /\ runs[t] \in Nat /\ failures[t] \in Nat
  BY <1>4, ResultTypes DEF TriedHasFailed, RunTwice
<1>6. failures'[t] = (IF failed THEN failures[t] + 1 ELSE failures[t])
      /\ \A u \in Tasks : u # t => failures'[u] = failures[u]
  BY <1>1, <1>2 DEF TypeOK
<1>7. /\ \A u \in Tasks : OnIt(u)' <=> OnIt(u) /\ u # t
      /\ \A u : (Answered(u)' <=> Answered(u) \/ u = t) /\ (Held(u)' <=> Held(u))
      /\ \A u : (Entry(u)' <=> Entry(u)) /\ (InQueue(u)' <=> InQueue(u))
  BY <1>1, <1>2, <1>3, <1>4, NoTaskAssumption DEF OnIt, InQueue, Answered, Held, Entry, Map
<1>8. (\A m \in results : m.task # t) /\ (\A c \in callbacks : c.task # t)
  BY <1>4 DEF Answered
<1>9. OneAnswer'
  <2>1. \A u \in Tasks : OnIt(u)' => ~Answered(u)'
    BY <1>7 DEF OneAnswer
  <2>2. \A m \in results' : /\ \A k \in results' : k.task = m.task => k = m
                            /\ \A c \in callbacks : c.task # m.task
    BY <1>3, <1>8 DEF OneAnswer
  <2> QED
    BY <1>1, <2>1, <2>2 DEF OneAnswer
<1>10. AnswerCounts'
  <2>1. n.failed => runs[n.task] = failures'[n.task]
    BY <1>3, <1>5, <1>6
  <2>2. \A m \in results : m.failed => runs[m.task] = failures'[m.task]
    BY <1>6, <1>8, ResultTypes DEF AnswerCounts
  <2>3. \A c \in callbacks : c.failed => runs[c.task] = failures'[c.task]
    BY <1>6, <1>8, ResultTypes DEF AnswerCounts
  <2> QED
    BY <1>1, <1>3, <2>1, <2>2, <2>3 DEF AnswerCounts
<1>11. EntryUsed'
  BY <1>1, <1>7 DEF EntryUsed
<1>12. Pursued'
  BY <1>1, <1>6, <1>7 DEF Pursued, Ended
<1> QED
  BY <1>9, <1>10, <1>11, <1>12

\* A RESULT becomes a callback.
LEMMA ReceiveResultSmooth ==
    ASSUME LifeInv, Smooth, NEW s \in Servers, ReceiveResult(s)
    PROVE  Smooth'
<1> USE DEF Smooth, executor, dispatch, caches, ghosts
<1>1. UNCHANGED <<queue, running, stage, home, failCache, runs, failures, finals>>
  BY DEF ReceiveResult
<1>2. PICK m \in results :
        /\ results' = results \ {m}
        /\ callbacks' = callbacks \cup
              {[task |-> m.task, server |-> s, failed |-> m.failed, origin |-> "result",
                at |-> "lookup", trigger |-> FALSE]}
  BY DEF ReceiveResult
<1>3. PICK d \in Callback :
        d.task = m.task /\ d.failed = m.failed /\ d.at = "lookup" /\ callbacks' = callbacks \cup {d}
  <2> DEFINE r == [task |-> m.task, server |-> s, failed |-> m.failed, origin |-> "result",
                   at |-> "lookup", trigger |-> FALSE]
  <2>1. r \in Callback /\ r.task = m.task /\ r.failed = m.failed /\ r.at = "lookup"
    BY ResultTypes DEF Callback, LifeInv, ResultInv, IndInv
  <2> QED
    BY <1>2, <2>1
<1>4. /\ \A k \in results : k.task = m.task => k = m
      /\ \A c \in callbacks : c.task # m.task
  BY DEF OneAnswer
<1>5. /\ \A u : (Answered(u)' <=> Answered(u)) /\ (Held(u)' <=> Held(u))
      /\ \A u : (OnIt(u)' <=> OnIt(u)) /\ (InQueue(u)' <=> InQueue(u))
      /\ \A u : (Entry(u)' <=> Entry(u)) /\ (Ended(u)' <=> Ended(u))
  <2>1. \A u : Answered(u)' <=> Answered(u)
    BY <1>2, <1>3, <1>4 DEF Answered
  <2>2. \A u : Held(u)' <=> Held(u)
    BY <1>3 DEF Held, Holding
  <2> QED
    BY <1>1, <2>1, <2>2 DEF OnIt, InQueue, Entry, Ended, Map
<1>6. OneAnswer'
  <2>1. \A u \in Tasks : OnIt(u)' => ~Answered(u)'
    BY <1>5 DEF OneAnswer
  <2>2. \A k \in results' : /\ \A j \in results' : j.task = k.task => j = k
                            /\ \A c \in callbacks' : c.task # k.task
    BY <1>2, <1>3, <1>4 DEF OneAnswer
  <2>3. \A b, c \in callbacks' : b.task = c.task => b = c
    BY <1>3, <1>4 DEF OneAnswer
  <2> QED
    BY <2>1, <2>2, <2>3 DEF OneAnswer
<1>7. AnswerCounts'
  BY <1>1, <1>2, <1>3 DEF AnswerCounts
<1>8. EntryUsed' /\ Pursued'
  BY <1>1, <1>5 DEF EntryUsed, Pursued
<1> QED
  BY <1>6, <1>7, <1>8

\* A callback moves on.
LEMMA MoveSmooth ==
    ASSUME LifeInv, Smooth, NEW c \in callbacks, NEW d \in Callback,
           callbacks' = (callbacks \ {c}) \cup {d}, d.task = c.task, d.failed = c.failed,
           UNCHANGED <<queue, running, stage, home, results, runs, failures, finals>>,
           d.at \in Holding \/ (c.at \notin Holding /\ (Entry(c.task) => Entry(c.task)')),
           \A u \in Tasks : u # c.task /\ Entry(u) => Entry(u)'
    PROVE  Smooth'
<1> USE DEF Smooth
<1>0. \A b \in callbacks : b.task = c.task => b = c
  BY DEF OneAnswer
<1>1. /\ \A u : Answered(u)' <=> Answered(u)
      /\ \A u : u # c.task => (Held(u)' <=> Held(u))
      /\ \A u : (OnIt(u)' <=> OnIt(u)) /\ (InQueue(u)' <=> InQueue(u)) /\ (Ended(u)' <=> Ended(u))
  <2>1. \A u : Answered(u)' <=> Answered(u)
    BY DEF Answered
  <2>2. \A u : u # c.task => (Held(u)' <=> Held(u))
    BY DEF Held
  <2> QED
    BY <2>1, <2>2 DEF OnIt, InQueue, Ended
<1>2. OneAnswer'
  <2>1. \A u \in Tasks : OnIt(u)' => ~Answered(u)'
    BY <1>1 DEF OneAnswer
  <2>2. /\ \A m \in results : \A b \in callbacks' : b.task # m.task
        /\ \A a, b \in callbacks' : a.task = b.task => a = b
    BY <1>0 DEF OneAnswer
  <2> QED
    BY <2>1, <2>2 DEF OneAnswer
<1>3. AnswerCounts'
  BY DEF AnswerCounts
<1>4. Pursued'
  BY <1>1 DEF Pursued
<1>5. EntryUsed'
  <2>1. c.task \in Tasks /\ stage[c.task] = "sent"
    BY ResultTypes, AnsweredWasSent DEF LifeInv, ResultInv, IndInv, Answered
  <2>2. d.at \in Holding => Held(c.task)'
    BY DEF Held
  <2>3. c.at \notin Holding => ~Held(c.task)
    BY <1>0 DEF Held
  <2> QED
    BY <1>1, <2>1, <2>2, <2>3 DEF EntryUsed
<1> QED
  BY <1>2, <1>3, <1>4, <1>5

\* A callback ends, with the task on the executor again or at its end.
LEMMA DropSmooth ==
    ASSUME LifeInv, Smooth, NEW c \in callbacks,
           callbacks' = callbacks \ {c},
           UNCHANGED <<running, stage, home, results, runs, failures>>,
           OnIt(c.task)' \/ Ended(c.task)',
           Retries >= 1 /\ finals'[c.task] = 0 /\ ~Entry(c.task)' =>
              (InQueue(c.task)' /\ runs[c.task] = 1) \/ runs[c.task] = 2,
           \A u \in Tasks : u # c.task => /\ finals'[u] = finals[u]
                                          /\ Entry(u) => Entry(u)'
                                          /\ InQueue(u)' <=> InQueue(u)
    PROVE  Smooth'
<1> USE DEF Smooth
<1>0. /\ \A b \in callbacks : b.task = c.task => b = c
      /\ \A m \in results : m.task # c.task
  BY DEF OneAnswer
<1>1. /\ \A u : u # c.task => (Answered(u)' <=> Answered(u)) /\ (Held(u)' <=> Held(u))
      /\ ~Answered(c.task)'
      /\ \A u \in Tasks : u # c.task => (OnIt(u)' <=> OnIt(u)) /\ (Ended(u)' <=> Ended(u))
  <2>1. \A u : u # c.task => (Answered(u)' <=> Answered(u)) /\ (Held(u)' <=> Held(u))
    BY DEF Answered, Held
  <2>2. ~Answered(c.task)'
    BY <1>0 DEF Answered
  <2> QED
    BY <2>1, <2>2 DEF OnIt, Ended
<1>2. OneAnswer'
  BY <1>1 DEF OneAnswer
<1>3. AnswerCounts'
  BY DEF AnswerCounts
<1>4. c.task \in Tasks /\ stage[c.task] = "sent"
  BY ResultTypes, AnsweredWasSent DEF LifeInv, ResultInv, IndInv, Answered
<1>5. EntryUsed'
  BY <1>1, <1>4 DEF EntryUsed
<1>6. Pursued'
  BY <1>1, <1>4 DEF Pursued
<1> QED
  BY <1>2, <1>3, <1>5, <1>6

\* The callback of a failure takes the entry for the first one and ends at the second.
LEMMA TakeFailCallbackSmooth ==
    ASSUME NothingFails, LifeInv, Smooth, NEW c \in callbacks, TakeFailCallback(c)
    PROVE  Smooth'
<1> USE DEF LifeInv, ResultInv, IndInv, Safety, executor, dispatch, ghosts
<1>1. /\ UNCHANGED <<queue, running, stage, home, results, runs, failures, finals>>
      /\ c.at = "take"
      /\ failCache' = {e \in failCache : e[1] # Map(c.server) \/ e[2] # c.task}
  BY DEF TakeFailCallback
<1>2. c \in Callback /\ c.task \in Tasks /\ c.server \in Servers /\ home[c.task] \in Servers
  BY ResultTypes DEF TypeOK, Callback
<1>3. Map(c.server) = Map(home[c.task])
  BY <1>2 DEF NothingFails, OneMap
<1>4. \A u \in Tasks : u # c.task /\ Entry(u) => Entry(u)'
  BY <1>1 DEF Entry, Map
<1>5. c.failed /\ Retries >= 1
  BY <1>1 DEF RetriedHasFailed, Holding
<1>6. CASE Entry(c.task)
  <2> DEFINE d == [c EXCEPT !.at = "putBack"]
  <2>1. d \in Callback /\ d.task = c.task /\ d.failed = c.failed /\ d.at \in Holding
    BY <1>2 DEF Callback, Holding
  <2>2. callbacks' = (callbacks \ {c}) \cup {d}
    BY <1>3, <1>6 DEF TakeFailCallback, Move, Entry
  <2> HIDE DEF d
  <2> QED
    BY <1>1, <1>4, <2>1, <2>2, MoveSmooth
<1>7. CASE ~Entry(c.task)
  <2>1. callbacks' = callbacks \ {c}
    BY <1>3, <1>7 DEF TakeFailCallback, Drop, Entry
  <2>2. Answered(c.task) /\ ~OnIt(c.task) /\ ~Held(c.task) /\ stage[c.task] = "sent"
    BY <1>1, <1>2 DEF Answered, Smooth, OneAnswer, Held, Holding, NotSentYet
  <2>3. finals[c.task] = 0 => runs[c.task] = 2
    BY <1>2, <1>5, <1>7, <2>2 DEF Smooth, EntryUsed, OnIt
  <2>4. runs[c.task] = failures[c.task]
    BY <1>5 DEF Smooth, AnswerCounts
  <2>5. Ended(c.task) /\ (finals[c.task] = 0 => runs[c.task] = 2)
    BY <1>2, <2>3, <2>4, ResultTypes DEF Ended, Outcome, OneDecision
  <2>6. Ended(c.task)' /\ \A u : InQueue(u)' <=> InQueue(u)
    BY <1>1, <2>5 DEF Ended, InQueue
  <2> QED
    BY <1>1, <1>4, <2>1, <2>5, <2>6, DropSmooth
<1> QED
  BY <1>6, <1>7

\* The task is sent again.
LEMMA ResendSmooth ==
    ASSUME NothingFails, LifeInv, Smooth, NEW c \in callbacks, Resend(c)
    PROVE  Smooth'
<1> USE DEF LifeInv, ResultInv, IndInv, Safety, dispatch, caches, ghosts
<1>1. /\ UNCHANGED <<stage, home, results, runs, failures, finals, failCache>>
      /\ c.at = "send" /\ Submit(c.task) /\ callbacks' = callbacks \ {c}
  BY DEF Resend, Drop, NothingFails
<1>2. c.task \in Tasks
  BY ResultTypes
<1>3. running' = running /\ \A u : InQueue(u)' <=> InQueue(u) \/ u = c.task
  BY <1>1, <1>2, SubmitAppends
<1>4. runs[c.task] = 1
  <2>1. runs[c.task] <= 1 /\ c.failed
    BY <1>1 DEF OneHolder, RetriedHasFailed, Holding
  <2>2. failures[c.task] >= 1
    BY <2>1 DEF RetriedHasFailed
  <2>3. runs[c.task] = failures[c.task]
    BY <2>1 DEF Smooth, AnswerCounts
  <2> QED
    BY <1>2, <2>1, <2>2, <2>3, ResultTypes
<1>5. OnIt(c.task)'
  BY <1>3 DEF OnIt
<1>6. \A u \in Tasks : Entry(u) => Entry(u)'
  BY <1>1 DEF Entry, Map
<1> QED
  BY <1>1, <1>3, <1>4, <1>5, <1>6, DropSmooth

\* The steps of a callback.
LEMMA CallbackSmooth ==
    ASSUME NothingFails, LifeInv, EntryKept, forgotten = {}, Smooth,
           NEW c \in callbacks, CallbackStep(c)
    PROVE  Smooth'
<1> USE DEF LifeInv, ResultInv, IndInv, executor, dispatch, caches, ghosts
<1>0. c \in Callback /\ c.task \in Tasks
  BY ResultTypes
<1>1. ASSUME UNCHANGED <<queue, home, failCache>>
      PROVE  /\ \A u : (InQueue(u)' <=> InQueue(u)) /\ (Entry(u)' <=> Entry(u))
  BY <1>1 DEF InQueue, Entry, Map
<1>2. CASE Lookup(c)
  <2>1. /\ UNCHANGED <<queue, running, stage, home, failCache, results, runs, failures, finals>>
        /\ c.at = "lookup"
    BY <1>2 DEF Lookup
  <2>2. CASE finals[c.task] = 0
    <3> DEFINE d == [c EXCEPT !.at = "find"]
    <3>1. d \in Callback /\ d.task = c.task /\ d.failed = c.failed
      BY <1>0 DEF Callback
    <3>2. <<Map(c.server), c.task>> \in resultCache
      BY <2>1, <2>2, EntryIsFound DEF NothingFails, ResultFindsCallback
    <3>3. callbacks' = (callbacks \ {c}) \cup {d}
      BY <1>2, <3>2 DEF Lookup, Move
    <3> HIDE DEF d
    <3> QED
      BY <1>1, <2>1, <3>1, <3>3, MoveSmooth DEF Holding
  <2>3. CASE finals[c.task] # 0
    <3>1. finals[c.task] = 1
      BY <1>0, <2>3, ResultTypes DEF Outcome, OneDecision
    <3>2. \A e \in resultCache : e[2] # c.task
      BY <1>0, <3>1 DEF NothingLeft
    <3>3. <<Map(c.server), c.task>> \notin resultCache
      BY <3>2
    <3>4. callbacks' = callbacks \ {c}
      BY <1>2, <3>3 DEF Lookup, Drop
    <3>5. Ended(c.task)' /\ finals'[c.task] # 0
      BY <2>1, <3>1 DEF Ended
    <3> QED
      BY <1>1, <2>1, <3>4, <3>5, DropSmooth
  <2> QED
    BY <2>2, <2>3
<1>3. CASE FindLog(c)
  <2> DEFINE d == [c EXCEPT !.trigger = log[c.task].trigger,
                            !.at = IF c.failed /\ FoundRetryTimes(c.task) < Retries
                                   THEN "save" ELSE "finish"]
  <2>1. log[c.task].trigger \in BOOLEAN
    BY <1>0 DEF TypeOK
  <2>2. d \in Callback /\ d.task = c.task /\ d.failed = c.failed
    BY <1>0, <2>1 DEF Callback, FoundRetryTimes
  <2>3. /\ UNCHANGED <<queue, running, stage, home, failCache, results, runs, failures, finals>>
        /\ c.at = "find" /\ callbacks' = (callbacks \ {c}) \cup {d}
    BY <1>3 DEF FindLog
  <2> HIDE DEF d
  <2> QED
    BY <1>1, <2>2, <2>3, MoveSmooth DEF Holding
<1>4. CASE SaveRetry(c)
  <2> DEFINE d == [c EXCEPT !.at = "take"]
  <2>1. d \in Callback /\ d.task = c.task /\ d.failed = c.failed
    BY <1>0 DEF Callback
  <2>2. /\ UNCHANGED <<queue, running, stage, home, failCache, results, runs, failures, finals>>
        /\ c.at = "save" /\ callbacks' = (callbacks \ {c}) \cup {d}
    BY <1>4 DEF SaveRetry, Move
  <2> HIDE DEF d
  <2> QED
    BY <1>1, <2>1, <2>2, MoveSmooth DEF Holding
<1>5. CASE TakeFailCallback(c)
  BY <1>5, TakeFailCallbackSmooth
<1>6. CASE PutBackFailCallback(c)
  <2> DEFINE d == [c EXCEPT !.at = "send"]
  <2>1. d \in Callback /\ d.task = c.task /\ d.failed = c.failed /\ d.at \in Holding
    BY <1>0 DEF Callback, Holding
  <2>2. /\ UNCHANGED <<queue, running, stage, home, results, runs, failures, finals>>
        /\ callbacks' = (callbacks \ {c}) \cup {d}
        /\ \A u \in Tasks : u # c.task /\ Entry(u) => Entry(u)'
    BY <1>6 DEF PutBackFailCallback, Move, Entry, Map
  <2> HIDE DEF d
  <2> QED
    BY <2>1, <2>2, MoveSmooth
<1>7. CASE Resend(c)
  BY <1>7, ResendSmooth
<1>8. CASE FinishTask(c)
  <2>1. /\ UNCHANGED <<queue, running, stage, home, results, runs, failures>>
        /\ callbacks' = callbacks \ {c}
        /\ finals' = [finals EXCEPT ![c.task] = @ + 1]
        /\ failCache' = {e \in failCache : e[1] # Map(c.server) \/ e[2] # c.task}
    BY <1>8 DEF FinishTask, Drop
  <2>2. finals[c.task] = 0
    BY <1>8, FinishTaskSettles DEF Life!Settle
  <2>3. Ended(c.task)' /\ finals'[c.task] # 0 /\ \A u \in Tasks : u # c.task => finals'[u] = finals[u]
    BY <1>0, <2>1, <2>2 DEF Ended, TypeOK
  <2>4. \A u \in Tasks : u # c.task => (Entry(u) => Entry(u)') /\ (InQueue(u)' <=> InQueue(u))
    BY <2>1 DEF Entry, InQueue, Map
  <2> QED
    BY <2>1, <2>3, <2>4, DropSmooth
<1> QED
  BY <1>2, <1>3, <1>4, <1>5, <1>6, <1>7, <1>8 DEF CallbackStep

LEMMA SmoothInit == Init => Smooth
<1> SUFFICES ASSUME Init PROVE Smooth
  OBVIOUS
<1>1. /\ results = {} /\ callbacks = {} /\ queue = <<>> /\ running = NoTask
      /\ \A t \in Tasks : stage[t] = "new"
  BY DEF Init, QueueInit
<1>2. Len(queue) = 0
  BY <1>1
<1>3. \A t \in Tasks : ~InQueue(t)
  BY <1>2 DEF InQueue
<1>4. \A t \in Tasks : ~OnIt(t)
  BY <1>1, <1>3, NoTaskAssumption DEF OnIt
<1> QED
  BY <1>1, <1>4 DEF Smooth, OneAnswer, AnswerCounts, EntryUsed, Pursued

LEMMA SmoothStep ==
    ASSUME NothingFails, LifeInv, EntryKept, forgotten = {}, Smooth, [Next]_vars
    PROVE  Smooth'
<1>1. CASE UNCHANGED vars \/ \E s \in Servers : ServerStarts(s)
  <2>1. UNCHANGED <<queue, running, stage, home, failCache, results, callbacks, runs, failures, finals>>
    BY <1>1 DEF vars, ServerStarts, executor, dispatch, caches, ghosts
  <2>2. /\ \A u : (Answered(u)' <=> Answered(u)) /\ (Held(u)' <=> Held(u))
        /\ \A u : (OnIt(u)' <=> OnIt(u)) /\ (InQueue(u)' <=> InQueue(u))
        /\ \A u : (Entry(u)' <=> Entry(u)) /\ (Ended(u)' <=> Ended(u))
    BY <2>1 DEF Answered, Held, OnIt, InQueue, Entry, Ended, Map
  <2> QED
    BY <2>1, <2>2 DEF Smooth, OneAnswer, AnswerCounts, EntryUsed, Pursued
<1>2. /\ \A t \in Tasks : ~DispatchStops(t) /\ ~RequestFails(t)
      /\ \A s \in Servers : ~ServerStops(s)
      /\ ~ExecutorRestarts
  BY DEF NothingFails, DispatchStops, RequestFails, ServerStops, ExecutorRestarts
<1> QED
  BY <1>1, <1>2, DispatchSmooth, ArriveSmooth, TakeTaskSmooth, RunTaskSmooth,
     ReceiveResultSmooth, CallbackSmooth DEF Next, DispatchStep

\* A task that is nowhere any more has its final result or has failed twice.
SettledHasEnded ==
    \A t \in Tasks : Settled(t) => (finals[t] = 1 <=> failures[t] # 2)

\* What the two theorems need of a state.
LEMMA SettledEnds ==
    ASSUME LifeInv, Smooth, NEW t \in Tasks, Settled(t)
    PROVE  stage[t] = "sent" /\ ~OnIt(t) /\ Ended(t)
<1> USE DEF LifeInv, ResultInv, IndInv
<1>1. stage[t] = "sent" /\ ~Answered(t) /\ OnExecutor(t) = 0
  BY DEF Smooth, Pursued, Settled, Answered
<1>2. ~OnIt(t)
  <2> DEFINE P == {i \in 1 .. Len(queue) : queue[i] = t}
  <2>1. Waiting(t) = Cardinality(P) /\ Cardinality(P) \in Nat /\ (Cardinality(P) > 0 <=> P # {})
    BY CountPlaces DEF Waiting, TypeOK, QueueTypeOK
  <2>2. InQueue(t) <=> P # {}
    BY DEF InQueue
  <2> HIDE DEF P
  <2>3. ~InQueue(t) /\ running # t
    BY <1>1, <2>1, <2>2 DEF OnExecutor
  <2> QED
    BY <2>3 DEF OnIt
<1> QED
  BY <1>1, <1>2 DEF Smooth, Pursued

\* The invariant of a dispatch where nothing fails.
SmoothInv == LifeInv /\ EntryKept /\ forgotten = {} /\ Smooth

LEMMA SmoothInvInit == Init => SmoothInv
<1>1. Init => EntryKept /\ forgotten = {}
  BY DEF Init, EntryKept
<1> QED
  BY <1>1, RunTwiceInit, ResultInvInit, SmoothInit DEF SmoothInv, LifeInv

LEMMA SmoothInvStep ==
    ASSUME NothingFails
    PROVE  SmoothInv /\ [Next]_vars => SmoothInv'
<1> SUFFICES ASSUME SmoothInv, [Next]_vars PROVE SmoothInv'
  OBVIOUS
<1> USE DEF SmoothInv
<1>1. ResultInv' /\ RunTwice'
  BY ResultInvStep, RunTwiceStep DEF LifeInv, ResultInv
<1>2. EntryKept'
  BY EntryKeptStep DEF NothingFails, LifeInv, ResultInv, IndInv
<1>3. Smooth'
  BY SmoothStep
<1>4. forgotten' = {}
  <2>1. \A s \in Servers : ~ServerStops(s)
    BY DEF NothingFails, ServerStops
  <2> QED
    BY <2>1 DEF Next, DispatchStep, CallbackStep, vars, ghosts, Dispatch, LogSaved, FailCallbackPut,
       ResultCallbackPut, DispatchStops, Arrive, RequestFails, SaveTriggerResult, TakeTask, RunTask,
       ExecutorRestarts, ReceiveResult, ServerStarts, Lookup, FindLog, SaveRetry,
       TakeFailCallback, PutBackFailCallback, Resend, FinishTask
<1> QED
  BY <1>1, <1>2, <1>3, <1>4 DEF LifeInv

\* Where nothing fails and no strategy drops tasks, nothing of a task gets stuck: once
\* it is with neither the executor nor a server, its final result is settled, or it has
\* failed twice, never both.  It is the safety half of EveryDispatchEnds.
THEOREM SettledHasEndedHolds ==
    ASSUME NothingFails
    PROVE  Spec => []SettledHasEnded
<1>1. SmoothInv => SettledHasEnded
  <2> SUFFICES ASSUME SmoothInv, NEW t \in Tasks, Settled(t)
               PROVE  finals[t] = 1 <=> failures[t] # 2
    BY DEF SettledHasEnded
  <2>1. finals[t] = 1 \/ failures[t] = 2
    BY SettledEnds DEF SmoothInv, Ended
  <2>2. failures[t] = 2 => finals[t] = 0
    BY TwiceFailed DEF SmoothInv, LifeInv, AtMostOneRetry
  <2> QED
    BY <2>1, <2>2
<1> QED
  BY <1>1, SmoothInvInit, SmoothInvStep, PTL DEF Spec

\* "A failed task is retried as many times as configured" holds where nothing fails
\* and retryTimes is 0 or 1; the run that violates it has retryTimes 2.
THEOREM RetriedAsConfiguredHolds ==
    ASSUME NothingFails, Retries <= 1
    PROVE  Spec => []RetriedAsConfigured
<1>1. SmoothInv => RetriedAsConfigured
  <2> SUFFICES ASSUME SmoothInv, NEW t \in Tasks, Settled(t), failures[t] = runs[t]
               PROVE  runs[t] = 1 + Retries
    BY DEF RetriedAsConfigured
  <2> USE DEF SmoothInv, LifeInv, ResultInv, IndInv
  <2>1. Ended(t) /\ runs[t] <= 1 + Retries /\ runs[t] \in Nat
    BY SettledEnds, ResultTypes DEF Safety, RetriesBounded
  <2>2. CASE failures[t] = 2
    BY <2>1, <2>2, ResultTypes
  <2>3. CASE finals[t] = 1
    <3>1. runs[t] > 0 /\ (Retries > 0 => runs[t] = failures[t] + 1)
      BY <2>3 DEF Outcome, DecidedIsDone, Decided
    <3> QED
      BY <2>1, <3>1, ResultTypes
  <2> QED
    BY <2>1, <2>2, <2>3 DEF Ended
<1> QED
  BY <1>1, SmoothInvInit, SmoothInvStep, PTL DEF Spec
=============================================================================
