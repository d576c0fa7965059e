------------------------- MODULE TaskDispatch_proofs -------------------------
(***************************************************************************)
(* Proofs about TaskDispatch for any tasks, servers, blocking strategy and   *)
(* number of retries.                                                      *)
(***************************************************************************)
EXTENDS TaskDispatch, FiniteSetTheorems, TLAPS

-----------------------------------------------------------------------------
(* Type correctness                                                        *)

\* What a request does to the queue keeps its type.
LEMMA SubmitType ==
    ASSUME QueueTypeOK, NEW t \in Tasks, Submit(t)
    PROVE  QueueTypeOK'
<1>1. Enqueued(t) \in Seq(Tasks)
  BY DEF Enqueued, QueueTypeOK
<1> QED
  BY <1>1 DEF Submit, QueueTypeOK

\* A callback that moves on is a callback.
LEMMA MoveType ==
    ASSUME TypeOK, NEW c \in callbacks,
           NEW place \in {"lookup", "find", "save", "take", "putBack", "send", "finish"}
    PROVE  /\ Move(c, place) => callbacks' \subseteq Callback
           /\ Drop(c) => callbacks' \subseteq Callback
<1>1. c \in Callback
  BY DEF TypeOK
<1>2. [c EXCEPT !.at = place] \in Callback
  BY <1>1 DEF Callback
<1> QED
  BY <1>2 DEF Move, Drop, TypeOK

\* The initial state has the types of TypeOK.
LEMMA TypeInit == Init => TypeOK
  BY DEF Init, TypeOK, QueueInit, QueueTypeOK, Stages

\* The steps of the dispatch of a task keep the types.
LEMMA DispatchType ==
    ASSUME TypeOK, NEW t \in Tasks,
           Dispatch(t) \/ DispatchStep(t) \/ DispatchStops(t) \/ RequestFails(t)
    PROVE  TypeOK'
<1> USE DEF executor, dispatch, caches, ghosts
<1>1. CASE Dispatch(t)
  BY <1>1 DEF Dispatch, Goto, TypeOK, Stages, QueueTypeOK
<1>2. CASE LogSaved(t)
  BY <1>2 DEF LogSaved, Goto, TypeOK, Stages, QueueTypeOK
<1>3. CASE FailCallbackPut(t)
  <2>1. home[t] \in Servers
    BY DEF TypeOK
  <2>2. failCache' \subseteq {Map(s) : s \in Servers} \X Tasks \X {"retryTime", "retryTimes"}
    BY <1>3, <2>1 DEF FailCallbackPut, TypeOK
  <2> QED
    BY <1>3, <2>2 DEF FailCallbackPut, Goto, TypeOK, Stages, QueueTypeOK
<1>4. CASE ResultCallbackPut(t)
  <2>1. home[t] \in Servers
    BY DEF TypeOK
  <2>2. resultCache' \subseteq {Map(s) : s \in Servers} \X Tasks
    BY <1>4, <2>1 DEF ResultCallbackPut, TypeOK
  <2> QED
    BY <1>4, <2>2 DEF ResultCallbackPut, Goto, TypeOK, Stages, QueueTypeOK
<1>5. CASE Arrive(t)
  <2>1. QueueTypeOK'
    BY <1>5, SubmitType DEF Arrive, TypeOK
  <2>2. reply' \in [Tasks -> {"none", "ok", "error"}]
    BY <1>5 DEF Arrive, TypeOK
  <2> QED
    BY <1>5, <2>1, <2>2 DEF Arrive, Goto, TypeOK, Stages
<1>6. CASE SaveTriggerResult(t)
  BY <1>6 DEF SaveTriggerResult, TypeOK, QueueTypeOK
<1>7. CASE DispatchStops(t)
  BY <1>7 DEF DispatchStops, Goto, TypeOK, Stages, QueueTypeOK
<1>8. CASE RequestFails(t)
  BY <1>8 DEF RequestFails, Goto, TypeOK, Stages, QueueTypeOK
<1> QED
  BY <1>1, <1>2, <1>3, <1>4, <1>5, <1>6, <1>7, <1>8 DEF DispatchStep

\* The steps of the executor keep the types.
LEMMA ExecutorType ==
    ASSUME TypeOK, TakeTask \/ RunTask \/ ExecutorRestarts
    PROVE  TypeOK'
<1> USE DEF executor, dispatch, caches, ghosts
<1>1. CASE TakeTask
  <2>1. queue' \in Seq(Tasks) /\ running' \in Tasks
    BY <1>1 DEF TakeTask, Take, TypeOK, QueueTypeOK
  <2>2. runs' \in [Tasks -> Nat]
    BY <1>1, <2>1 DEF TakeTask, TypeOK
  <2> QED
    BY <1>1, <2>1, <2>2 DEF TakeTask, TypeOK, QueueTypeOK
<1>2. CASE RunTask
  <2>1. running \in Tasks /\ QueueTypeOK'
    BY <1>2 DEF RunTask, Finish, TypeOK, QueueTypeOK
  <2>2. failures' \in [Tasks -> Nat]
    BY <1>2, <2>1 DEF RunTask, TypeOK
  <2>3. results' \subseteq [task : Tasks, failed : BOOLEAN, run : Nat]
    <3>1. runs[running] \in Nat
      BY <2>1 DEF TypeOK
    <3> QED
      BY <1>2, <2>1, <3>1 DEF RunTask, TypeOK
  <2> QED
    BY <1>2, <2>1, <2>2, <2>3 DEF RunTask, TypeOK
<1>3. CASE ExecutorRestarts
  BY <1>3 DEF ExecutorRestarts, Forget, TypeOK, QueueTypeOK
<1> QED
  BY <1>1, <1>2, <1>3

\* The steps of a callback keep the types.
LEMMA CallbackType ==
    ASSUME TypeOK, NEW c \in callbacks, CallbackStep(c)
    PROVE  TypeOK'
<1> USE DEF executor, dispatch, caches, ghosts
<1>1. c \in Callback /\ c.task \in Tasks /\ c.server \in Servers
  BY DEF TypeOK, Callback
<1>2. CASE Lookup(c)
  BY <1>2, MoveType DEF Lookup, TypeOK, QueueTypeOK
<1>3. CASE FindLog(c)
  <2>1. callbacks' \subseteq Callback
    <3>1. log[c.task].trigger \in BOOLEAN
      BY <1>1 DEF TypeOK
    <3>2. \A place \in {"save", "finish"} :
            [c EXCEPT !.trigger = log[c.task].trigger, !.at = place] \in Callback
      BY <1>1, <3>1 DEF Callback
    <3> QED
      BY <1>3, <3>2 DEF FindLog, TypeOK
  <2> QED
    BY <1>3, <2>1 DEF FindLog, TypeOK, QueueTypeOK
<1>4. CASE SaveRetry(c)
  <2>1. callbacks' \subseteq Callback
    BY <1>4, MoveType DEF SaveRetry
  <2>2. [trigger |-> c.trigger, retryTimes |-> FoundRetryTimes(c.task) + 1]
          \in [trigger : BOOLEAN, retryTimes : Nat]
    BY <1>1 DEF Callback, FoundRetryTimes
  <2> QED
    BY <1>4, <2>1, <2>2 DEF SaveRetry, TypeOK, QueueTypeOK
<1>5. CASE TakeFailCallback(c)
  <2>1. callbacks' \subseteq Callback
    BY <1>5, MoveType DEF TakeFailCallback
  <2> QED
    BY <1>5, <2>1 DEF TakeFailCallback, TypeOK, QueueTypeOK
<1>6. CASE PutBackFailCallback(c)
  <2>1. callbacks' \subseteq Callback
    BY <1>6, MoveType DEF PutBackFailCallback
  <2>2. <<Map(c.server), c.task, "retryTimes">>
          \in {Map(s) : s \in Servers} \X Tasks \X {"retryTime", "retryTimes"}
    BY <1>1
  <2> QED
    BY <1>6, <2>1, <2>2 DEF PutBackFailCallback, TypeOK, QueueTypeOK
<1>7. CASE Resend(c)
  <2>1. QueueTypeOK'
    BY <1>1, <1>7, SubmitType DEF Resend, TypeOK, QueueTypeOK
  <2>2. callbacks' \subseteq Callback
    <3>1. [c EXCEPT !.at = "find", !.origin = "resend"] \in Callback
      BY <1>1 DEF Callback
    <3> QED
      BY <1>7, <3>1 DEF Resend, Drop, TypeOK
  <2> QED
    BY <1>7, <2>1, <2>2 DEF Resend, TypeOK
<1>8. CASE FinishTask(c)
  <2>1. callbacks' \subseteq Callback
    BY <1>8, MoveType DEF FinishTask
  <2>2. finals' \in [Tasks -> Nat]
    BY <1>1, <1>8 DEF FinishTask, TypeOK
  <2> QED
    BY <1>8, <2>1, <2>2 DEF FinishTask, TypeOK, QueueTypeOK
<1> QED
  BY <1>2, <1>3, <1>4, <1>5, <1>6, <1>7, <1>8 DEF CallbackStep

\* Every step keeps the types.
LEMMA TypeStep == TypeOK /\ [Next]_vars => TypeOK'
<1> SUFFICES ASSUME TypeOK, [Next]_vars PROVE TypeOK'
  OBVIOUS
<1> USE DEF executor, dispatch, caches, ghosts
<1>1. ASSUME NEW s \in Servers, ReceiveResult(s) PROVE TypeOK'
  <2>1. PICK m \in results :
          callbacks' = callbacks \cup
              {[task |-> m.task, server |-> s, failed |-> m.failed, origin |-> "result",
                at |-> "lookup", trigger |-> FALSE]}
    BY <1>1 DEF ReceiveResult
  <2>2. m.task \in Tasks /\ m.failed \in BOOLEAN
    BY DEF TypeOK
  <2>3. [task |-> m.task, server |-> s, failed |-> m.failed, origin |-> "result",
         at |-> "lookup", trigger |-> FALSE] \in Callback
    BY <2>2 DEF Callback
  <2>4. callbacks' \subseteq Callback
    BY <2>1, <2>3 DEF TypeOK
  <2> QED
    BY <1>1, <2>4 DEF ReceiveResult, TypeOK, QueueTypeOK
<1>2. ASSUME NEW s \in Servers, ServerStops(s) \/ ServerStarts(s) PROVE TypeOK'
  BY <1>2 DEF ServerStops, ServerStarts, TypeOK, QueueTypeOK, Stages
<1>3. CASE UNCHANGED vars
  BY <1>3 DEF vars, TypeOK, QueueTypeOK
<1> QED
  BY <1>1, <1>2, <1>3, DispatchType, ExecutorType, CallbackType DEF Next

\* Every variable keeps a value of its type.
THEOREM TypeCorrect == Spec => []TypeOK
  BY TypeInit, TypeStep, PTL DEF Spec

-----------------------------------------------------------------------------
(* The inductive invariant                                                 *)

\* Is a task in the queue of its job, and is it there or being run?
InQueue(t) == \E i \in 1 .. Len(queue) : queue[i] = t
OnIt(t) == running = t \/ InQueue(t)

\* The entry that lets a task be retried once more.
Entry(t) == <<Map(home[t]), t, "retryTime">> \in failCache

\* Places of a callback that has taken the entry and not sent the task yet.
Holding == {"putBack", "send"}

\* A result of the task is on its way to a server or being dealt with there.
Answered(t) ==
    \/ \E m \in results : m.task = t
    \/ \E c \in callbacks : c.task = t

\* A task is at one place of the executor at most.
OnePlace ==
    /\ \A i, j \in 1 .. Len(queue) : queue[i] = queue[j] => i = j
    /\ ~InQueue(running)

\* A task whose request was not sent has not left the server.
NotSentYet ==
    \A t \in Tasks : stage[t] # "sent" => ~OnIt(t) /\ runs[t] = 0 /\ ~Answered(t)

\* Only the server that dispatches a task puts its entry under "retryTime".
EntryAtHome ==
    \A s \in Servers, t \in Tasks :
        <<Map(s), t, "retryTime">> \in failCache => Map(s) = Map(home[t])

\* While a task has its entry it was run once at most, and once there is a
\* result of it the executor is done with it.
EntryMeansFirstRun ==
    \A t \in Tasks : Entry(t) =>
        /\ runs[t] <= 1
        /\ InQueue(t) => runs[t] = 0
        /\ Answered(t) => ~OnIt(t)

\* One callback at a time holds the entry of a task, and the executor is idle
\* with respect to the task until it is sent again.
OneHolder ==
    \A c \in callbacks : c.at \in Holding =>
        /\ ~Entry(c.task)
        /\ ~OnIt(c.task)
        /\ runs[c.task] <= 1
        /\ \A d \in callbacks : d.task = c.task /\ d.at \in Holding => d = c

\* What is retried has failed, and its job has retries.
RetriedHasFailed ==
    /\ \A m \in results : m.failed => failures[m.task] >= 1
    /\ \A c \in callbacks :
          /\ c.failed => failures[c.task] >= 1
          /\ c.at \in {"save", "take"} \cup Holding => c.failed /\ Retries >= 1

\* A task that waits may be run once more.
RunsLeft ==
    \A t \in Tasks : InQueue(t) => runs[t] <= failures[t] /\ runs[t] <= Retries

\* Retries follow failures and stay within retryTimes, although the number in
\* the log is never read back: what stops them is the callback that throws.
RetriesBounded ==
    \A t \in Tasks : runs[t] <= 1 + failures[t] /\ runs[t] <= 1 + Retries

Safety ==
    /\ OnePlace
    /\ NotSentYet
    /\ EntryAtHome
    /\ EntryMeansFirstRun
    /\ OneHolder
    /\ RetriedHasFailed
    /\ RunsLeft
    /\ RetriesBounded

IndInv == TypeOK /\ Safety

-----------------------------------------------------------------------------
(* What the steps do to the executor                                       *)

\* Every step but those of the executor and the two that submit a task.
SameExecutor == UNCHANGED <<queue, running, runs, failures>>

\* The entry of a task that is put back is not the one under "retryTime".
NoNewEntry ==
    /\ home' = home
    /\ \A s \in Servers, t \in Tasks :
          <<Map(s), t, "retryTime">> \in failCache' => <<Map(s), t, "retryTime">> \in failCache

\* Without new entries the entries of tasks stay where they were or go.
LEMMA EntriesKept ==
    ASSUME TypeOK, EntryAtHome, NoNewEntry
    PROVE  EntryAtHome' /\ \A t \in Tasks : Entry(t)' => Entry(t)
<1>1. \A t \in Tasks : home[t] \in Servers
  BY DEF TypeOK
<1> QED
  BY <1>1 DEF EntryAtHome, NoNewEntry, Entry, Map

\* An unchanged executor has the same tasks.
LEMMA ExecutorKept ==
    ASSUME SameExecutor
    PROVE  /\ OnePlace' <=> OnePlace
           /\ \A t : (InQueue(t)' <=> InQueue(t)) /\ (OnIt(t)' <=> OnIt(t))
  BY DEF SameExecutor, OnePlace, InQueue, OnIt

\* Where messages, callbacks and entries only go, and no dispatch is taken back,
\* the invariant is kept.
LEMMA LosingStep ==
    ASSUME TypeOK, Safety, SameExecutor, NoNewEntry,
           results' \subseteq results, callbacks' \subseteq callbacks,
           \A t \in Tasks : stage[t] = "sent" => stage'[t] = "sent"
    PROVE  Safety'
<1> USE DEF Safety
<1>1. OnePlace' /\ EntryAtHome'
  BY ExecutorKept, EntriesKept
<1>2. \A t : Answered(t)' => Answered(t)
  BY DEF Answered
<1>3. NotSentYet'
  BY <1>2, ExecutorKept DEF NotSentYet, SameExecutor
<1>4. EntryMeansFirstRun'
  BY <1>2, ExecutorKept, EntriesKept DEF EntryMeansFirstRun, SameExecutor
<1>5. OneHolder'
  <2>1. \A c \in callbacks' : c.task \in Tasks
    BY DEF TypeOK, Callback
  <2> QED
    BY <2>1, ExecutorKept, EntriesKept DEF OneHolder, SameExecutor
<1>6. RetriedHasFailed'
  BY DEF RetriedHasFailed, SameExecutor, Holding
<1>7. RunsLeft' /\ RetriesBounded'
  BY ExecutorKept DEF RunsLeft, RetriesBounded, SameExecutor
<1> QED
  BY <1>1, <1>3, <1>4, <1>5, <1>6, <1>7

\* So is it where a callback moves on, unless it begins to hold an entry.
LEMMA MovingStep ==
    ASSUME TypeOK, Safety, SameExecutor, NoNewEntry, UNCHANGED <<results, stage>>,
           NEW c \in callbacks, NEW d \in Callback,
           callbacks' = (callbacks \ {c}) \cup {d},
           d.task = c.task, d.failed = c.failed,
           d.at \in Holding => c.at \in Holding,
           d.at \in {"save", "take"} => c.failed /\ Retries >= 1
    PROVE  Safety'
<1> USE DEF Safety
<1>1. OnePlace' /\ EntryAtHome'
  BY ExecutorKept, EntriesKept
<1>2. \A t : Answered(t)' => Answered(t)
  BY DEF Answered
<1>3. NotSentYet'
  BY <1>2, ExecutorKept DEF NotSentYet, SameExecutor
<1>4. EntryMeansFirstRun'
  BY <1>2, ExecutorKept, EntriesKept DEF EntryMeansFirstRun, SameExecutor
<1>5. OneHolder'
  <2>1. \A e \in callbacks' : e.task \in Tasks
    BY DEF TypeOK, Callback
  <2>2. ASSUME NEW e \in callbacks', e.at \in Holding
        PROVE  \E b \in callbacks :
                  /\ b.at \in Holding /\ b.task = e.task
                  /\ b = e \/ (b = c /\ e = d)
    <3>1. CASE e = d
      BY <2>2, <3>1
    <3>2. CASE e \in callbacks
      BY <2>2, <3>2
    <3> QED
      BY <3>1, <3>2
  <2>3. ASSUME NEW e \in callbacks', e.at \in Holding
        PROVE  ~Entry(e.task)' /\ ~OnIt(e.task)' /\ runs'[e.task] <= 1
    BY <2>1, <2>2, <2>3, ExecutorKept, EntriesKept DEF OneHolder, SameExecutor
  <2>4. ASSUME NEW e \in callbacks', e.at \in Holding,
               NEW f \in callbacks', f.task = e.task, f.at \in Holding
        PROVE  f = e
    BY <2>2, <2>4 DEF OneHolder
  <2> QED
    BY <2>3, <2>4 DEF OneHolder
<1>6. RetriedHasFailed'
  BY DEF RetriedHasFailed, SameExecutor, Holding
<1>7. RunsLeft' /\ RetriesBounded'
  BY ExecutorKept DEF RunsLeft, RetriesBounded, SameExecutor
<1> QED
  BY <1>1, <1>3, <1>4, <1>5, <1>6, <1>7

\* A task that is not on the executor can be submitted.
LEMMA SubmitPlaces ==
    ASSUME TypeOK, OnePlace, NEW t \in Tasks, Submit(t), ~OnIt(t)
    PROVE  /\ OnePlace'
           /\ \A u \in Tasks : InQueue(u)' => InQueue(u) \/ u = t
           /\ \A u \in Tasks : OnIt(u)' => OnIt(u) \/ u = t
<1> USE DEF TypeOK, QueueTypeOK
<1>1. queue' = queue \/ queue' = <<t>> \/ queue' = Append(queue, t)
  BY DEF Submit, Enqueued
<1>2. running' = running /\ running # t /\ \A i \in 1 .. Len(queue) : queue[i] # t
  BY DEF Submit, OnIt, InQueue
<1>3. CASE queue' = queue
  BY <1>2, <1>3 DEF OnePlace, InQueue, OnIt
<1>4. CASE queue' = <<t>>
  BY <1>2, <1>4 DEF OnePlace, InQueue, OnIt
<1>5. CASE queue' = Append(queue, t)
  <2>1. /\ Len(queue') = Len(queue) + 1 /\ queue'[Len(queue) + 1] = t
        /\ \A i \in 1 .. Len(queue) : queue'[i] = queue[i]
        /\ Len(queue) \in Nat
    BY <1>5
  <2>2. \A i \in 1 .. Len(queue') : i \in 1 .. Len(queue) \/ i = Len(queue) + 1
    <3> DEFINE n == Len(queue)
    <3>1. n \in Nat
      BY <2>1
    <3> HIDE DEF n
    <3>2. \A i \in 1 .. n + 1 : i \in 1 .. n \/ i = n + 1
      BY <3>1
    <3> QED
      BY <2>1, <3>2 DEF n
  <2>3. \A i \in 1 .. Len(queue) : i # Len(queue) + 1
    BY <2>1
  <2>4. \A i, j \in 1 .. Len(queue') : queue'[i] = queue'[j] => i = j
    BY <1>2, <2>1, <2>2, <2>3 DEF OnePlace
  <2>5. \A u : InQueue(u)' => InQueue(u) \/ u = t
    BY <2>1, <2>2 DEF InQueue
  <2> QED
    BY <1>2, <2>4, <2>5 DEF OnePlace, OnIt
<1> QED
  BY <1>1, <1>3, <1>4, <1>5

-----------------------------------------------------------------------------
(* The steps that add something                                            *)

\* The entry of a task is put before the task is sent.
LEMMA FailCallbackPutStep ==
    ASSUME IndInv, NEW t \in Tasks, FailCallbackPut(t)
    PROVE  Safety'
<1> USE DEF IndInv, Safety
<1>1. /\ SameExecutor /\ UNCHANGED <<home, results, callbacks>>
      /\ failCache' = failCache \cup {<<Map(home[t]), t, "retryTime">>}
      /\ stage[t] = "putFail" /\ stage' = [stage EXCEPT ![t] = "putResult"]
  BY DEF FailCallbackPut, Goto, SameExecutor, executor, ghosts
<1>2. ~OnIt(t) /\ ~InQueue(t) /\ runs[t] = 0 /\ ~Answered(t)
  BY <1>1 DEF NotSentYet, OnIt
<1>3. \A u : Answered(u)' <=> Answered(u)
  BY <1>1 DEF Answered
<1>4. \A u \in Tasks : Entry(u)' => Entry(u) \/ u = t
  BY <1>1 DEF Entry, Map
<1>5. OnePlace' /\ EntryAtHome'
  BY <1>1, ExecutorKept DEF EntryAtHome, Map
<1>6. NotSentYet'
  <2>1. \A u \in Tasks : stage'[u] # "sent" => stage[u] # "sent"
    BY <1>1 DEF TypeOK
  <2> QED
    BY <1>1, <1>3, <2>1, ExecutorKept DEF NotSentYet, SameExecutor
<1>7. EntryMeansFirstRun'
  BY <1>1, <1>2, <1>3, <1>4, ExecutorKept DEF EntryMeansFirstRun, SameExecutor
<1>8. OneHolder'
  <2>1. \A c \in callbacks : c.task \in Tasks /\ c.task # t
    BY <1>2 DEF TypeOK, Callback, Answered
  <2> QED
    BY <1>1, <1>4, <2>1, ExecutorKept DEF OneHolder, SameExecutor
<1>9. RetriedHasFailed' /\ RunsLeft' /\ RetriesBounded'
  BY <1>1, ExecutorKept DEF RetriedHasFailed, RunsLeft, RetriesBounded, SameExecutor
<1> QED
  BY <1>5, <1>6, <1>7, <1>8, <1>9

\* The first request.
LEMMA ArriveStep ==
    ASSUME IndInv, NEW t \in Tasks, Arrive(t)
    PROVE  Safety'
<1> USE DEF IndInv, Safety
<1>1. /\ UNCHANGED <<runs, failures, home, results, callbacks, failCache>>
      /\ Submit(t)
      /\ stage[t] = "send" /\ stage' = [stage EXCEPT ![t] = "sent"]
  BY DEF Arrive, Goto, caches, ghosts
<1>2. ~OnIt(t) /\ runs[t] = 0 /\ ~Answered(t)
  BY <1>1 DEF NotSentYet
<1>3. \A u : Answered(u)' <=> Answered(u)
  BY <1>1 DEF Answered
<1>4. NoNewEntry
  BY <1>1 DEF NoNewEntry
<1>5. OnePlace' /\ EntryAtHome'
  BY <1>1, <1>2, <1>4, SubmitPlaces, EntriesKept
<1>6. NotSentYet'
  <2>1. \A u \in Tasks : stage'[u] # "sent" => stage[u] # "sent" /\ u # t
    BY <1>1 DEF TypeOK
  <2> QED
    BY <1>1, <1>2, <1>3, <2>1, SubmitPlaces DEF NotSentYet
<1>7. EntryMeansFirstRun'
  BY <1>1, <1>2, <1>3, <1>4, SubmitPlaces, EntriesKept DEF EntryMeansFirstRun
<1>8. OneHolder'
  <2>1. \A c \in callbacks : c.task \in Tasks /\ c.task # t
    BY <1>2 DEF TypeOK, Callback, Answered
  <2> QED
    BY <1>1, <1>2, <1>4, <2>1, SubmitPlaces, EntriesKept DEF OneHolder
<1>9. RetriedHasFailed' /\ RetriesBounded'
  BY <1>1 DEF RetriedHasFailed, RetriesBounded
<1>10. RunsLeft'
  BY <1>1, <1>2, SubmitPlaces, DispatchAssumption DEF RunsLeft, TypeOK
<1> QED
  BY <1>5, <1>6, <1>7, <1>8, <1>9, <1>10

\* The worker thread takes a task that has a run left.
LEMMA TakeTaskStep ==
    ASSUME IndInv, TakeTask
    PROVE  Safety'
<1> USE DEF IndInv, Safety
<1>1. /\ UNCHANGED <<stage, home, failures, results, callbacks, failCache>>
      /\ running = NoTask /\ queue # <<>>
      /\ running' = Head(queue) /\ queue' = Tail(queue)
      /\ runs' = [runs EXCEPT ![running'] = @ + 1]
  BY DEF TakeTask, Take, dispatch, caches
<1>2. /\ queue \in Seq(Tasks) /\ Len(queue) \in Nat /\ Len(queue) >= 1
      /\ running' = queue[1] /\ running' \in Tasks
      /\ Len(queue') = Len(queue) - 1
      /\ \A i \in 1 .. Len(queue') : i + 1 \in 1 .. Len(queue) /\ queue'[i] = queue[i + 1]
  BY <1>1 DEF TypeOK, QueueTypeOK
<1>3. InQueue(running')
  BY <1>2 DEF InQueue
<1>4. /\ \A u : InQueue(u)' => InQueue(u)
      /\ ~InQueue(running)'
  <2>1. \A i \in 1 .. Len(queue') : i + 1 # 1
    BY <1>2
  <2>2. 1 \in 1 .. Len(queue)
    BY <1>2
  <2>3. \A i \in 1 .. Len(queue') : queue'[i] # queue[1]
    BY <1>2, <2>1, <2>2 DEF OnePlace
  <2> QED
    BY <1>2, <2>3 DEF InQueue
<1>5. \A u : OnIt(u)' => OnIt(u)
  BY <1>3, <1>4 DEF OnIt
<1>6. \A u \in Tasks : runs'[u] = IF u = running' THEN runs[u] + 1 ELSE runs[u]
  BY <1>1, <1>2 DEF TypeOK
<1>7. /\ \A u : Answered(u)' <=> Answered(u)
      /\ \A u : Entry(u)' <=> Entry(u)
  BY <1>1 DEF Answered, Entry, Map
<1>8. OnePlace' /\ EntryAtHome'
  <2>1. \A i, j \in 1 .. Len(queue') : queue'[i] = queue'[j] => i = j
    <3> SUFFICES ASSUME NEW i \in 1 .. Len(queue'), NEW j \in 1 .. Len(queue'),
                        queue'[i] = queue'[j]
                 PROVE  i = j
      OBVIOUS
    <3>1. i + 1 = j + 1
      BY <1>2 DEF OnePlace
    <3> QED
      BY <1>2, <3>1
  <2> QED
    BY <1>1, <1>4, <2>1 DEF OnePlace, EntryAtHome, Map
<1>9. NotSentYet'
  BY <1>1, <1>2, <1>3, <1>5, <1>6, <1>7 DEF NotSentYet, OnIt
<1>10. EntryMeansFirstRun'
  BY <1>2, <1>3, <1>4, <1>5, <1>6, <1>7 DEF EntryMeansFirstRun
<1>11. OneHolder'
  <2>1. \A c \in callbacks : c.task \in Tasks
    BY DEF TypeOK, Callback
  <2>2. \A c \in callbacks : c.at \in Holding => runs'[c.task] = runs[c.task]
    BY <1>3, <1>6, <2>1 DEF OneHolder, OnIt
  <2> QED
    BY <1>1, <1>5, <1>7, <2>1, <2>2 DEF OneHolder
<1>12. RetriedHasFailed'
  BY <1>1 DEF RetriedHasFailed
<1>13. RunsLeft'
  BY <1>1, <1>2, <1>4, <1>6 DEF RunsLeft
<1>14. RetriesBounded'
  BY <1>1, <1>3, <1>6, DispatchAssumption DEF RunsLeft, RetriesBounded, TypeOK
<1> QED
  BY <1>8, <1>9, <1>10, <1>11, <1>12, <1>13, <1>14

\* The task that was run leaves the executor and may leave a result.
LEMMA RunTaskStep ==
    ASSUME IndInv, RunTask
    PROVE  Safety'
<1> USE DEF IndInv, Safety
<1>1. PICK failed \in BOOLEAN :
        /\ UNCHANGED <<stage, home, runs, queue, callbacks, failCache>>
        /\ running # NoTask /\ running' = NoTask
        /\ failures' = [failures EXCEPT ![running] = IF failed THEN @ + 1 ELSE @]
        /\ results' \subseteq results \cup
              {[task |-> running, failed |-> failed, run |-> runs[running]]}
  BY DEF RunTask, Finish, dispatch, caches
<1>2. running \in Tasks
  BY <1>1 DEF TypeOK, QueueTypeOK
<1>3. \A u \in Tasks : failures'[u] \in Nat /\ failures'[u] >= failures[u]
  BY <1>1, <1>2 DEF TypeOK
<1>4. /\ \A u : InQueue(u)' <=> InQueue(u)
      /\ \A u \in Tasks : OnIt(u)' => OnIt(u) /\ u # running
      /\ \A u : Answered(u)' => Answered(u) \/ u = running
      /\ \A u : Entry(u)' <=> Entry(u)
  <2>1. \A u : InQueue(u)' <=> InQueue(u)
    BY <1>1 DEF InQueue
  <2>2. \A u \in Tasks : OnIt(u)' => OnIt(u) /\ u # running
    BY <1>1, <2>1, NoTaskAssumption DEF OnIt, OnePlace
  <2>3. \A u : Answered(u)' => Answered(u) \/ u = running
    BY <1>1 DEF Answered
  <2>4. \A u : Entry(u)' <=> Entry(u)
    BY <1>1 DEF Entry, Map
  <2> QED
    BY <2>1, <2>2, <2>3, <2>4
<1>5. OnePlace' /\ EntryAtHome'
  <2>1. \A i \in 1 .. Len(queue) : queue[i] \in Tasks
    BY DEF TypeOK, QueueTypeOK
  <2>2. ~InQueue(NoTask)
    BY <2>1, NoTaskAssumption DEF InQueue
  <2> QED
    BY <1>1, <1>4, <2>2 DEF OnePlace, EntryAtHome, Map
<1>6. NotSentYet'
  BY <1>1, <1>2, <1>4 DEF NotSentYet, OnIt
<1>7. EntryMeansFirstRun'
  BY <1>1, <1>4 DEF EntryMeansFirstRun
<1>8. OneHolder'
  <2>1. \A c \in callbacks : c.task \in Tasks
    BY DEF TypeOK, Callback
  <2> QED
    BY <1>1, <1>4, <2>1 DEF OneHolder
<1>9. RetriedHasFailed'
  <2>1. /\ \A m \in results : m.task \in Tasks
        /\ \A c \in callbacks : c.task \in Tasks
    BY DEF TypeOK, Callback
  <2>2. failed => failures'[running] >= 1
    BY <1>1, <1>2 DEF TypeOK
  <2>3. \A u \in Tasks : failures[u] >= 1 => failures'[u] >= 1
    BY <1>3 DEF TypeOK
  <2> QED
    BY <1>1, <2>1, <2>2, <2>3 DEF RetriedHasFailed
<1>10. RunsLeft' /\ RetriesBounded'
  <2>1. \A u \in Tasks : runs[u] \in Nat /\ failures[u] \in Nat
    BY DEF TypeOK
  <2> QED
    BY <1>1, <1>3, <1>4, <2>1 DEF RunsLeft, RetriesBounded
<1> QED
  BY <1>5, <1>6, <1>7, <1>8, <1>9, <1>10

\* An executor that restarts has no tasks.
LEMMA ExecutorRestartsStep ==
    ASSUME IndInv, ExecutorRestarts
    PROVE  Safety'
<1> USE DEF IndInv, Safety
<1>1. /\ UNCHANGED <<stage, home, runs, failures, results, callbacks, failCache>>
      /\ queue' = <<>> /\ running' = NoTask
  BY DEF ExecutorRestarts, Forget, dispatch, caches, ghosts
<1>2. /\ \A u : ~InQueue(u)'
      /\ \A u \in Tasks : ~OnIt(u)'
      /\ \A u : Answered(u)' <=> Answered(u)
      /\ \A u : Entry(u)' <=> Entry(u)
  BY <1>1, NoTaskAssumption DEF InQueue, OnIt, Answered, Entry, Map
<1>3. OnePlace' /\ EntryAtHome'
  BY <1>1, <1>2 DEF OnePlace, EntryAtHome, Map
<1>4. NotSentYet' /\ EntryMeansFirstRun'
  BY <1>1, <1>2 DEF NotSentYet, EntryMeansFirstRun
<1>5. OneHolder'
  <2>1. \A c \in callbacks : c.task \in Tasks
    BY DEF TypeOK, Callback
  <2> QED
    BY <1>1, <1>2, <2>1 DEF OneHolder
<1>6. RetriedHasFailed' /\ RunsLeft' /\ RetriesBounded'
  BY <1>1, <1>2 DEF RetriedHasFailed, RunsLeft, RetriesBounded
<1> QED
  BY <1>3, <1>4, <1>5, <1>6

\* A RESULT becomes a callback.
LEMMA ReceiveResultStep ==
    ASSUME IndInv, NEW s \in Servers, ReceiveResult(s)
    PROVE  Safety'
<1> USE DEF IndInv, Safety
<1>1. PICK m \in results, d \in Callback :
        /\ SameExecutor /\ NoNewEntry /\ stage' = stage
        /\ results' = results \ {m}
        /\ callbacks' = callbacks \cup {d}
        /\ d.task = m.task /\ d.failed = m.failed /\ d.at = "lookup"
  <2>1. PICK m \in results :
          /\ results' = results \ {m}
          /\ callbacks' = callbacks \cup
                {[task |-> m.task, server |-> s, failed |-> m.failed, origin |-> "result",
                  at |-> "lookup", trigger |-> FALSE]}
    BY DEF ReceiveResult
  <2>2. m.task \in Tasks /\ m.failed \in BOOLEAN
    BY DEF TypeOK
  <2>3. [task |-> m.task, server |-> s, failed |-> m.failed, origin |-> "result",
         at |-> "lookup", trigger |-> FALSE] \in Callback
    BY <2>2 DEF Callback
  <2>4. SameExecutor /\ NoNewEntry /\ stage' = stage
    BY DEF ReceiveResult, SameExecutor, NoNewEntry, executor, ghosts, dispatch, caches
  <2> QED
    BY <2>1, <2>3, <2>4
<1>2. \A u : Answered(u)' => Answered(u)
  BY <1>1 DEF Answered
<1>3. d.at \notin Holding \cup {"save", "take"}
  BY <1>1 DEF Holding
<1>4. OnePlace' /\ EntryAtHome'
  BY <1>1, ExecutorKept, EntriesKept
<1>5. NotSentYet'
  BY <1>1, <1>2, ExecutorKept DEF NotSentYet, SameExecutor
<1>6. EntryMeansFirstRun'
  BY <1>1, <1>2, ExecutorKept, EntriesKept DEF EntryMeansFirstRun, SameExecutor
<1>7. OneHolder'
  <2>1. \A c \in callbacks' : c.at \in Holding => c \in callbacks /\ c.task \in Tasks
    BY <1>1, <1>3 DEF TypeOK, Callback
  <2> QED
    BY <1>1, <2>1, ExecutorKept, EntriesKept DEF OneHolder, SameExecutor
<1>8. RetriedHasFailed'
  BY <1>1, <1>3 DEF RetriedHasFailed, SameExecutor
<1>9. RunsLeft' /\ RetriesBounded'
  BY <1>1, ExecutorKept DEF RunsLeft, RetriesBounded, SameExecutor
<1> QED
  BY <1>4, <1>5, <1>6, <1>7, <1>8, <1>9

\* A callback that takes the entry of its task is its only holder.
LEMMA TakeFailCallbackStep ==
    ASSUME IndInv, NEW c \in callbacks, TakeFailCallback(c)
    PROVE  Safety'
<1> USE DEF IndInv, Safety
<1>1. /\ SameExecutor /\ NoNewEntry /\ UNCHANGED <<stage, results>>
      /\ c.at = "take"
      /\ failCache' = {e \in failCache : e[1] # Map(c.server) \/ e[2] # c.task}
  BY DEF TakeFailCallback, SameExecutor, NoNewEntry, executor, ghosts, dispatch
<1>2. c \in Callback /\ c.task \in Tasks /\ c.server \in Servers
  BY DEF TypeOK, Callback
<1>3. CASE <<Map(c.server), c.task, "retryTime">> \notin failCache
  <2>1. callbacks' \subseteq callbacks
    BY <1>3 DEF TakeFailCallback, Drop
  <2> QED
    BY <1>1, <2>1, LosingStep
<1>4. CASE <<Map(c.server), c.task, "retryTime">> \in failCache
  <2> DEFINE d == [c EXCEPT !.at = "putBack"]
  <2>1. callbacks' = (callbacks \ {c}) \cup {d}
    BY <1>4 DEF TakeFailCallback, Move
  <2>2. d \in Callback /\ d.task = c.task /\ d.failed = c.failed /\ d.at = "putBack"
    BY <1>2 DEF Callback
  <2> HIDE DEF d
  <2>3. Entry(c.task) /\ ~Entry(c.task)'
    <3>1. Map(c.server) = Map(home[c.task])
      BY <1>2, <1>4 DEF EntryAtHome
    <3>2. home' = home
      BY <1>1 DEF NoNewEntry
    <3> QED
      BY <1>1, <1>4, <3>1, <3>2 DEF Entry, Map
  <2>4. Answered(c.task) /\ \A u : Answered(u)' => Answered(u)
    BY <1>1, <2>1, <2>2 DEF Answered
  <2>5. ~OnIt(c.task) /\ runs[c.task] <= 1
    BY <1>2, <2>3, <2>4 DEF EntryMeansFirstRun
  <2>6. \A e \in callbacks : e.task = c.task => e.at \notin Holding
    BY <2>3 DEF OneHolder
  <2>7. OnePlace' /\ EntryAtHome'
    BY <1>1, ExecutorKept, EntriesKept
  <2>8. NotSentYet'
    BY <1>1, <2>4, ExecutorKept DEF NotSentYet, SameExecutor
  <2>9. EntryMeansFirstRun'
    BY <1>1, <2>4, ExecutorKept, EntriesKept DEF EntryMeansFirstRun, SameExecutor
  <2>10. OneHolder'
    <3>1. \A e \in callbacks : e.task \in Tasks
      BY DEF TypeOK, Callback
    <3>2. ASSUME NEW e \in callbacks', e.at \in Holding
          PROVE  ~Entry(e.task)' /\ ~OnIt(e.task)' /\ runs'[e.task] <= 1
      <4>1. CASE e = d
        BY <1>1, <2>2, <2>3, <2>5, <4>1, ExecutorKept DEF SameExecutor
      <4>2. CASE e \in callbacks
        BY <1>1, <3>1, <3>2, <4>2, ExecutorKept, EntriesKept DEF OneHolder, SameExecutor
      <4> QED
        BY <2>1, <4>1, <4>2
    <3>3. ASSUME NEW e \in callbacks', e.at \in Holding,
                 NEW f \in callbacks', f.task = e.task, f.at \in Holding
          PROVE  f = e
      BY <2>1, <2>2, <2>6, <3>3 DEF OneHolder
    <3> QED
      BY <3>2, <3>3 DEF OneHolder
  <2>11. RetriedHasFailed'
    BY <1>1, <2>1, <2>2 DEF RetriedHasFailed, SameExecutor
  <2>12. RunsLeft' /\ RetriesBounded'
    BY <1>1, ExecutorKept DEF RunsLeft, RetriesBounded, SameExecutor
  <2> QED
    BY <2>7, <2>8, <2>9, <2>10, <2>11, <2>12
<1> QED
  BY <1>3, <1>4

\* The task is sent again by the only callback that may do so.
LEMMA ResendStep ==
    ASSUME IndInv, NEW c \in callbacks, Resend(c)
    PROVE  Safety'
<1> USE DEF IndInv, Safety
<1> DEFINE d == [c EXCEPT !.at = "find", !.origin = "resend"]
<1>1. /\ NoNewEntry /\ UNCHANGED <<stage, results, runs, failures>>
      /\ c.at = "send"
      /\ Submit(c.task) \/ UNCHANGED executor
      /\ callbacks' = callbacks \ {c} \/ callbacks' = (callbacks \ {c}) \cup {d}
  BY DEF Resend, NoNewEntry, Drop, dispatch, caches, ghosts
<1>2. c \in Callback /\ c.task \in Tasks
  BY DEF TypeOK, Callback
<1>3. d \in Callback /\ d.task = c.task /\ d.failed = c.failed /\ d.at = "find"
  BY <1>2 DEF Callback
<1> HIDE DEF d
<1>4. CASE UNCHANGED executor
  <2>1. SameExecutor
    BY <1>1, <1>4 DEF SameExecutor, executor
  <2>2. CASE callbacks' = callbacks \ {c}
    BY <1>1, <2>1, <2>2, LosingStep
  <2>3. CASE callbacks' = (callbacks \ {c}) \cup {d}
    BY <1>1, <1>3, <2>1, <2>3, MovingStep DEF Holding
  <2> QED
    BY <1>1, <2>2, <2>3
<1>5. CASE Submit(c.task)
  <2>1. c.at \in Holding /\ Answered(c.task)
    BY <1>1 DEF Holding, Answered
  <2>2. ~Entry(c.task) /\ ~OnIt(c.task) /\ runs[c.task] <= 1
    BY <2>1 DEF OneHolder
  <2>3. failures[c.task] >= 1 /\ Retries >= 1
    BY <2>1 DEF RetriedHasFailed
  <2>4. /\ OnePlace'
        /\ \A u \in Tasks : InQueue(u)' => InQueue(u) \/ u = c.task
        /\ \A u \in Tasks : OnIt(u)' => OnIt(u) \/ u = c.task
    BY <1>2, <1>5, <2>2, SubmitPlaces
  <2>5. \A u : Answered(u)' => Answered(u)
    BY <1>1, <1>3 DEF Answered
  <2>6. EntryAtHome' /\ \A u \in Tasks : Entry(u)' => Entry(u) /\ u # c.task
    BY <1>1, <2>2, EntriesKept
  <2>7. NotSentYet'
    BY <1>1, <2>1, <2>4, <2>5 DEF NotSentYet
  <2>8. EntryMeansFirstRun'
    BY <1>1, <2>4, <2>5, <2>6 DEF EntryMeansFirstRun
  <2>9. OneHolder'
    <3>1. \A e \in callbacks' : e.at \in Holding =>
            e \in callbacks /\ e.task \in Tasks /\ e.task # c.task
      BY <1>1, <1>3, <2>1 DEF OneHolder, TypeOK, Callback, Holding
    <3> QED
      BY <1>1, <2>4, <2>6, <3>1 DEF OneHolder
  <2>10. RetriedHasFailed'
    BY <1>1, <1>3 DEF RetriedHasFailed, Holding
  <2>11. RunsLeft'
    <3>1. runs[c.task] <= failures[c.task] /\ runs[c.task] <= Retries
      BY <1>2, <2>2, <2>3, DispatchAssumption DEF TypeOK
    <3> QED
      BY <1>1, <2>4, <3>1 DEF RunsLeft
  <2>12. RetriesBounded'
    BY <1>1 DEF RetriesBounded
  <2> QED
    BY <2>4, <2>6, <2>7, <2>8, <2>9, <2>10, <2>11, <2>12
<1> QED
  BY <1>1, <1>4, <1>5

\* The steps of a callback.
LEMMA CallbackSafety ==
    ASSUME IndInv, NEW c \in callbacks, CallbackStep(c)
    PROVE  Safety'
<1> USE DEF IndInv, executor, dispatch, caches, ghosts, SameExecutor, NoNewEntry
<1>1. c \in Callback /\ c.task \in Tasks /\ c.server \in Servers
  BY DEF TypeOK, Callback
<1>2. CASE Lookup(c)
  <2> DEFINE d == [c EXCEPT !.at = "find"]
  <2>1. d \in Callback /\ d.task = c.task /\ d.failed = c.failed /\ d.at = "find"
    BY <1>1 DEF Callback
  <2>2. callbacks' \subseteq callbacks \/ callbacks' = (callbacks \ {c}) \cup {d}
    BY <1>2 DEF Lookup, Move, Drop
  <2> HIDE DEF d
  <2>3. SameExecutor /\ NoNewEntry /\ UNCHANGED <<results, stage>>
    BY <1>2 DEF Lookup
  <2>4. CASE callbacks' \subseteq callbacks
    BY <2>3, <2>4, LosingStep
  <2>5. CASE callbacks' = (callbacks \ {c}) \cup {d}
    BY <2>1, <2>3, <2>5, MovingStep DEF Holding
  <2> QED
    BY <2>2, <2>4, <2>5
<1>3. CASE FindLog(c)
  <2>1. PICK d \in Callback :
          /\ callbacks' = (callbacks \ {c}) \cup {d}
          /\ d.task = c.task /\ d.failed = c.failed
          /\ d.at = "finish" \/ (d.at = "save" /\ c.failed /\ 0 < Retries)
    <3> DEFINE d == [c EXCEPT !.trigger = log[c.task].trigger,
                              !.at = IF c.failed /\ FoundRetryTimes(c.task) < Retries
                                     THEN "save" ELSE "finish"]
    <3>1. log[c.task].trigger \in BOOLEAN
      BY <1>1 DEF TypeOK
    <3>2. /\ d \in Callback /\ d.task = c.task /\ d.failed = c.failed
          /\ d.at = "finish" \/ (d.at = "save" /\ c.failed /\ 0 < Retries)
      BY <1>1, <3>1 DEF Callback, FoundRetryTimes
    <3>3. callbacks' = (callbacks \ {c}) \cup {d}
      BY <1>3 DEF FindLog
    <3> QED
      BY <3>2, <3>3
  <2>2. SameExecutor /\ NoNewEntry /\ UNCHANGED <<results, stage>>
    BY <1>3 DEF FindLog
  <2>3. 0 < Retries => Retries >= 1
    BY DispatchAssumption
  <2> QED
    BY <2>1, <2>2, <2>3, MovingStep DEF Holding
<1>4. CASE SaveRetry(c)
  <2> DEFINE d == [c EXCEPT !.at = "take"]
  <2>1. d \in Callback /\ d.task = c.task /\ d.failed = c.failed /\ d.at = "take"
    BY <1>1 DEF Callback
  <2>2. callbacks' = (callbacks \ {c}) \cup {d}
    BY <1>4 DEF SaveRetry, Move
  <2> HIDE DEF d
  <2>3. SameExecutor /\ NoNewEntry /\ UNCHANGED <<results, stage>> /\ c.at = "save"
    BY <1>4 DEF SaveRetry
  <2>4. c.failed /\ Retries >= 1
    BY <2>3 DEF Safety, RetriedHasFailed
  <2> QED
    BY <2>1, <2>2, <2>3, <2>4, MovingStep DEF Holding
<1>5. CASE TakeFailCallback(c)
  BY <1>5, TakeFailCallbackStep
<1>6. CASE PutBackFailCallback(c)
  <2> DEFINE d == [c EXCEPT !.at = "send"]
  <2>1. d \in Callback /\ d.task = c.task /\ d.failed = c.failed /\ d.at = "send"
    BY <1>1 DEF Callback
  <2>2. callbacks' = (callbacks \ {c}) \cup {d}
    BY <1>6 DEF PutBackFailCallback, Move
  <2> HIDE DEF d
  <2>3. SameExecutor /\ NoNewEntry /\ UNCHANGED <<results, stage>> /\ c.at = "putBack"
    BY <1>6 DEF PutBackFailCallback
  <2> QED
    BY <2>1, <2>2, <2>3, MovingStep DEF Holding
<1>7. CASE Resend(c)
  BY <1>7, ResendStep
<1>8. CASE FinishTask(c)
  <2>1. /\ SameExecutor /\ NoNewEntry /\ UNCHANGED <<results, stage>>
        /\ callbacks' \subseteq callbacks
    BY <1>8 DEF FinishTask, Drop
  <2> QED
    BY <2>1, LosingStep
<1> QED
  BY <1>2, <1>3, <1>4, <1>5, <1>6, <1>7, <1>8 DEF CallbackStep

\* The steps of the dispatch of a task.
LEMMA DispatchSafety ==
    ASSUME IndInv, NEW t \in Tasks,
           Dispatch(t) \/ DispatchStep(t) \/ DispatchStops(t) \/ RequestFails(t)
    PROVE  Safety'
<1> USE DEF IndInv, executor, dispatch, caches, ghosts, SameExecutor, NoNewEntry
<1>1. CASE FailCallbackPut(t)
  BY <1>1, FailCallbackPutStep
<1>2. CASE Arrive(t)
  BY <1>2, ArriveStep
<1>3. CASE \/ Dispatch(t) \/ LogSaved(t) \/ ResultCallbackPut(t)
           \/ SaveTriggerResult(t) \/ DispatchStops(t) \/ RequestFails(t)
  <2>1. SameExecutor /\ NoNewEntry /\ results' = results /\ callbacks' = callbacks
    BY <1>3 DEF Dispatch, LogSaved, ResultCallbackPut, SaveTriggerResult, DispatchStops,
                RequestFails
  <2>2. \A u \in Tasks : stage[u] = "sent" => stage'[u] = "sent"
    BY <1>3 DEF Dispatch, LogSaved, ResultCallbackPut, SaveTriggerResult, DispatchStops,
                RequestFails, Goto, TypeOK
  <2> QED
    BY <2>1, <2>2, LosingStep
<1> QED
  BY <1>1, <1>2, <1>3 DEF DispatchStep

-----------------------------------------------------------------------------
(* The theorems                                                            *)

\* The initial state satisfies the inductive invariant.
LEMMA InitIndInv == Init => IndInv
<1> SUFFICES ASSUME Init PROVE Safety
  BY TypeInit DEF IndInv
<1>1. \A t \in Tasks : ~InQueue(t) /\ ~OnIt(t) /\ ~Answered(t) /\ runs[t] = 0
  <2>1. queue = <<>> /\ running = NoTask /\ results = {} /\ callbacks = {}
    BY DEF Init, QueueInit
  <2>2. \A t : ~InQueue(t)
    BY <2>1 DEF InQueue
  <2>3. \A t \in Tasks : ~OnIt(t) /\ ~Answered(t)
    BY <2>1, <2>2, NoTaskAssumption DEF OnIt, Answered
  <2>4. \A t \in Tasks : runs[t] = 0
    BY DEF Init
  <2> QED
    BY <2>2, <2>3, <2>4
<1> QED
  BY <1>1, DispatchAssumption
  DEF Init, QueueInit, Safety, OnePlace, InQueue, NotSentYet, EntryAtHome, EntryMeansFirstRun,
      Entry, OneHolder, RetriedHasFailed, RunsLeft, RetriesBounded

\* Every step keeps the inductive invariant.
LEMMA IndInvStep == IndInv /\ [Next]_vars => IndInv'
<1> SUFFICES ASSUME IndInv, [Next]_vars PROVE Safety'
  BY TypeStep DEF IndInv
<1>1. ASSUME NEW s \in Servers, ServerStops(s) \/ ServerStarts(s) PROVE Safety'
  <2>1. /\ SameExecutor /\ NoNewEntry
        /\ results' \subseteq results /\ callbacks' \subseteq callbacks
    BY <1>1 DEF ServerStops, ServerStarts, SameExecutor, NoNewEntry, executor, caches, ghosts
  <2>2. \A u \in Tasks : stage[u] = "sent" => stage'[u] = "sent"
    BY <1>1 DEF ServerStops, ServerStarts
  <2> QED
    BY <2>1, <2>2, LosingStep DEF IndInv
<1>2. CASE UNCHANGED vars
  BY <1>2, LosingStep
  DEF IndInv, vars, SameExecutor, NoNewEntry, executor, dispatch, caches, ghosts
<1> QED
  BY <1>1, <1>2, DispatchSafety, TakeTaskStep, RunTaskStep, ExecutorRestartsStep,
     ReceiveResultStep, CallbackSafety DEF Next

\* Retries follow failures and stay within retryTimes.
THEOREM RetriesBoundedHolds == Spec => []RetriesBounded
<1>1. IndInv => RetriesBounded
  BY DEF IndInv, Safety
<1> QED
  BY <1>1, InitIndInv, IndInvStep, PTL DEF Spec

\* A task is never in the executor's hands twice at the same time.
THEOREM OneAttemptAtATimeHolds == Spec => []OneAttemptAtATime
<1>1. ASSUME IndInv, NEW t \in Tasks PROVE OnExecutor(t) <= 1
  <2> DEFINE P == {i \in 1 .. Len(queue) : queue[i] = t}
  <2>1. \A i, j \in P : i = j
    BY <1>1 DEF IndInv, Safety, OnePlace
  <2>2. P = {} \/ \E i \in P : P = {i}
    BY <2>1
  <2>3. Waiting(t) = Cardinality(P)
    BY DEF Waiting
  <2>4. P # {} => running # t
    BY <1>1 DEF IndInv, Safety, OnePlace, InQueue
  <2> HIDE DEF P
  <2>5. CASE P = {}
    BY <2>3, <2>5, FS_EmptySet DEF OnExecutor
  <2>6. CASE \E i \in P : P = {i}
    <3>1. Cardinality(P) = 1
      BY <2>6, FS_Singleton
    <3> QED
      BY <2>3, <2>4, <2>6, <3>1 DEF OnExecutor
  <2> QED
    BY <2>2, <2>5, <2>6
<1>2. IndInv => OneAttemptAtATime
  BY <1>1 DEF OneAttemptAtATime
<1> QED
  BY <1>2, InitIndInv, IndInvStep, PTL DEF Spec

\* The places of a task in a queue are counted by a natural number, which is
\* positive if there are any.
LEMMA CountPlaces ==
    ASSUME NEW q \in Seq(Tasks), NEW t
    PROVE  LET P == {i \in 1 .. Len(q) : q[i] = t}
           IN  Cardinality(P) \in Nat /\ (Cardinality(P) > 0 <=> P # {})
<1> DEFINE P == {i \in 1 .. Len(q) : q[i] = t}
<1>1. Len(q) \in Nat
  OBVIOUS
<1>2. IsFiniteSet(1 .. Len(q))
  BY <1>1, FS_Interval
<1>3. IsFiniteSet(P)
  BY <1>2, FS_Subset
<1> HIDE DEF P
<1>4. Cardinality(P) \in Nat /\ (Cardinality(P) = 0 <=> P = {})
  BY <1>3, FS_CardinalityType, FS_EmptySet
<1>5. Cardinality(P) > 0 <=> P # {}
  BY <1>4
<1> QED
  BY <1>4, <1>5 DEF P

\* Unless the strategy is COVER, a submitted task leaves the others in the queue.
LEMMA SubmitKeeps ==
    ASSUME TypeOK, Strategy # "COVER", NEW t \in Tasks, Submit(t), NEW u, InQueue(u)
    PROVE  InQueue(u)'
<1>1. queue \in Seq(Tasks) /\ queue # <<>>
  BY DEF TypeOK, QueueTypeOK, InQueue
<1>2. queue' = queue \/ queue' = Append(queue, t)
  BY <1>1 DEF Submit, Enqueued
<1>3. CASE queue' = queue
  BY <1>3 DEF InQueue
<1>4. CASE queue' = Append(queue, t)
  <2>1. PICK i \in 1 .. Len(queue) : queue[i] = u
    BY DEF InQueue
  <2>2. i \in 1 .. Len(queue') /\ queue'[i] = u
    BY <1>1, <1>4, <2>1
  <2> QED
    BY <2>2 DEF InQueue
<1> QED
  BY <1>2, <1>3, <1>4

\* The task at the head of the queue is run next, the others stay in the queue.
LEMMA TakeKeeps ==
    ASSUME TypeOK, Take, NEW u, InQueue(u)
    PROVE  OnIt(u)'
<1>1. /\ queue \in Seq(Tasks) /\ queue # <<>>
      /\ running' = Head(queue) /\ queue' = Tail(queue)
  BY DEF TypeOK, QueueTypeOK, Take
<1>2. PICK i \in 1 .. Len(queue) : queue[i] = u
  BY DEF InQueue
<1>3. CASE i = 1
  BY <1>1, <1>2, <1>3 DEF OnIt
<1>4. CASE i # 1
  <2>1. i - 1 \in 1 .. Len(queue') /\ queue'[i - 1] = u
    BY <1>1, <1>2, <1>4
  <2> QED
    BY <2>1 DEF OnIt, InQueue
<1> QED
  BY <1>3, <1>4

\* Unless the strategy is COVER, nothing but a restart of the executor drives a
\* task out of the queue.
THEOREM WaitingKeptHolds == Spec => WaitingKept
<1>1. ASSUME TypeOK, TypeOK', [Next]_vars, Strategy # "COVER", NEW t \in Tasks, Waiting(t) > 0
      PROVE  OnExecutor(t)' > 0 \/ ExecutorRestarts
  <2>1. InQueue(t)
    <3> DEFINE P == {i \in 1 .. Len(queue) : queue[i] = t}
    <3>1. queue \in Seq(Tasks)
      BY <1>1 DEF TypeOK, QueueTypeOK
    <3>2. Cardinality(P) > 0 <=> P # {}
      BY <3>1, CountPlaces
    <3>3. Cardinality(P) > 0
      BY <1>1 DEF Waiting
    <3>4. P # {} => InQueue(t)
      BY DEF InQueue
    <3> HIDE DEF P
    <3> QED
      BY <3>2, <3>3, <3>4
  <2>2. ASSUME OnIt(t)' PROVE OnExecutor(t)' > 0
    <3> DEFINE P == {i \in 1 .. Len(queue') : queue'[i] = t}
    <3>0. queue' \in Seq(Tasks)
      BY <1>1 DEF TypeOK, QueueTypeOK
    <3>1. Cardinality(P) \in Nat /\ (Cardinality(P) > 0 <=> P # {})
      BY <3>0, CountPlaces
    <3>2. running' = t \/ P # {}
      BY <2>2 DEF OnIt, InQueue
    <3>3. OnExecutor(t)' = Cardinality(P) + (IF running' = t THEN 1 ELSE 0)
      BY DEF OnExecutor, Waiting
    <3> HIDE DEF P
    <3> QED
      BY <3>1, <3>2, <3>3
  <2>3. queue' = queue => OnIt(t)'
    BY <2>1 DEF OnIt, InQueue
  <2>4. ASSUME NEW u \in Tasks, Submit(u) PROVE OnIt(t)'
    BY <1>1, <2>1, <2>4, SubmitKeeps DEF OnIt
  <2>5. Take => OnIt(t)'
    BY <1>1, <2>1, TakeKeeps
  <2>6. \/ queue' = queue \/ Take \/ ExecutorRestarts
        \/ \E u \in Tasks : Submit(u)
    <3>1. \A c \in callbacks : c.task \in Tasks
      BY <1>1 DEF TypeOK, Callback
    <3>2. ASSUME NEW c \in callbacks, CallbackStep(c)
          PROVE  queue' = queue \/ Submit(c.task)
      BY <3>2 DEF CallbackStep, Lookup, FindLog, SaveRetry, TakeFailCallback,
                  PutBackFailCallback, Resend, FinishTask, executor
    <3>3. ASSUME NEW u \in Tasks,
                 Dispatch(u) \/ DispatchStep(u) \/ DispatchStops(u) \/ RequestFails(u)
          PROVE  queue' = queue \/ Submit(u)
      BY <3>3 DEF Dispatch, DispatchStep, LogSaved, FailCallbackPut, ResultCallbackPut,
                  Arrive, SaveTriggerResult, DispatchStops, RequestFails, executor
    <3>4. ASSUME NEW s \in Servers, ReceiveResult(s) \/ ServerStops(s) \/ ServerStarts(s)
          PROVE  queue' = queue
      BY <3>4 DEF ReceiveResult, ServerStops, ServerStarts, executor
    <3>5. (RunTask => queue' = queue) /\ (TakeTask => Take)
      BY DEF RunTask, Finish, TakeTask
    <3>6. UNCHANGED vars => queue' = queue
      BY DEF vars, executor
    <3> QED
      BY <1>1, <3>1, <3>2, <3>3, <3>4, <3>5, <3>6 DEF Next
  <2> QED
    BY <2>2, <2>3, <2>4, <2>5, <2>6
<1>2. TypeOK /\ TypeOK' /\ [Next]_vars =>
        [Strategy # "COVER" =>
            \A t \in Tasks : Waiting(t) > 0 => OnExecutor(t)' > 0 \/ ExecutorRestarts]_vars
  BY <1>1
<1> QED
  BY <1>2, TypeInit, TypeStep, PTL DEF Spec, WaitingKept
=============================================================================
