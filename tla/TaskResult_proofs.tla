------------------------- MODULE TaskResult_proofs -------------------------
(***************************************************************************)
(* Proofs about the results of TaskDispatch: every task gets one final       *)
(* result, a RESULT finds its callback, and the trigger result is kept.      *)
(***************************************************************************)
EXTENDS TaskDispatch_proofs

-----------------------------------------------------------------------------
(* One final result                                                        *)

\* Is the worker thread at the task, and has a callback taken its entry?
Busy(t) == IF running = t THEN 1 ELSE 0
Held(t) == \E c \in callbacks : c.task = t /\ c.at \in Holding

\* Does a result, or a callback, end the task?
Settles(x) == ~x.failed \/ Retries = 0

\* The final result of a task is there or on its way.
Decided(t) ==
    \/ finals[t] > 0
    \/ \E m \in results : m.task = t /\ Settles(m)
    \/ \E c \in callbacks : c.task = t /\ Settles(c)

\* Only what was run fails, and what is run has not failed yet.
FailuresAreRuns == \A t \in Tasks : failures[t] + Busy(t) <= runs[t]

\* As long as a task is tried, every run of it so far has failed.
TriedHasFailed ==
    \A t \in Tasks : OnIt(t) \/ Held(t) => runs[t] = failures[t] + Busy(t)

\* A task that is decided is not tried again, and one run has not failed, if
\* its failures are not final.
DecidedIsDone ==
    \A t \in Tasks : Decided(t) =>
        /\ ~OnIt(t) /\ ~Held(t)
        /\ runs[t] > 0
        /\ Retries > 0 => runs[t] = failures[t] + 1

\* Of what settles a task there is one: a message, a callback or the final result.
OneDecision ==
    /\ \A t \in Tasks : finals[t] <= 1
    /\ \A m \in results : Settles(m) =>
          /\ finals[m.task] = 0
          /\ \A n \in results : n.task = m.task /\ Settles(n) => n = m
          /\ \A c \in callbacks : c.task = m.task => ~Settles(c)
    /\ \A c \in callbacks : Settles(c) =>
          /\ finals[c.task] = 0
          /\ \A d \in callbacks : d.task = c.task /\ Settles(d) => d = c

FinishSettles == \A c \in callbacks : c.at = "finish" => Settles(c)

Outcome ==
    /\ FailuresAreRuns
    /\ TriedHasFailed
    /\ DecidedIsDone
    /\ OneDecision
    /\ FinishSettles

\* A callback that has found its entry, and every entry, is at home: in the one
\* map of the cluster, or in that of the server that dispatches the task.
AtHome ==
    /\ \A c \in callbacks : c.at # "lookup" => Map(c.server) = Map(home[c.task])
    /\ \A e \in failCache : e[1] = Map(home[e[2]])
    /\ \A e \in resultCache : e[1] = Map(home[e[2]])

\* A task with a final result has no entry any more.
NothingLeft ==
    \A t \in Tasks : finals[t] > 0 =>
        /\ \A e \in failCache : e[2] # t
        /\ \A e \in resultCache : e[2] # t

ResultInv == IndInv /\ Outcome /\ AtHome /\ NothingLeft

\* The types the steps below need.
LEMMA ResultTypes ==
    ASSUME TypeOK
    PROVE  /\ \A t \in Tasks : runs[t] \in Nat /\ failures[t] \in Nat /\ finals[t] \in Nat
           /\ \A m \in results : m.task \in Tasks /\ m.failed \in BOOLEAN
           /\ \A c \in callbacks : c \in Callback /\ c.task \in Tasks /\ c.failed \in BOOLEAN
           /\ \A e \in failCache : e[2] \in Tasks
           /\ \A e \in resultCache : e[2] \in Tasks
           /\ Retries \in Nat
  BY DispatchAssumption DEF TypeOK, Callback

\* Before its request is sent a task has no final result.
LEMMA NotSentNotDecided ==
    ASSUME IndInv, Outcome, NEW t \in Tasks, stage[t] # "sent"
    PROVE  finals[t] = 0
<1>1. runs[t] = 0 /\ finals[t] \in Nat
  BY ResultTypes DEF IndInv, Safety, NotSentYet
<1> QED
  BY <1>1 DEF Outcome, DecidedIsDone, Decided

\* Where messages and callbacks only go, the outcome is as safe as before.
LEMMA OutcomeLosing ==
    ASSUME TypeOK, Outcome, SameExecutor, finals' = finals,
           results' \subseteq results, callbacks' \subseteq callbacks
    PROVE  Outcome'
<1> USE DEF Outcome
<1>1. \A t \in Tasks : Decided(t)' => Decided(t)
  BY DEF Decided, Settles
<1>2. \A t \in Tasks : (Held(t)' => Held(t)) /\ (OnIt(t)' <=> OnIt(t)) /\ Busy(t)' = Busy(t)
  BY ExecutorKept DEF Held, Busy, SameExecutor
<1>3. FailuresAreRuns' /\ TriedHasFailed'
  BY <1>2 DEF FailuresAreRuns, TriedHasFailed, SameExecutor
<1>4. DecidedIsDone'
  BY <1>1, <1>2 DEF DecidedIsDone, SameExecutor
<1>5. OneDecision' /\ FinishSettles'
  BY DEF OneDecision, FinishSettles, Settles
<1> QED
  BY <1>3, <1>4, <1>5

\* So it is where a callback moves on, unless it begins to hold an entry.
LEMMA OutcomeMoving ==
    ASSUME TypeOK, Outcome, SameExecutor, UNCHANGED <<finals, results>>,
           NEW c \in callbacks, NEW d \in Callback,
           callbacks' = (callbacks \ {c}) \cup {d},
           d.task = c.task, d.failed = c.failed,
           d.at \in Holding => c.at \in Holding,
           d.at = "finish" => Settles(d)
    PROVE  Outcome'
<1> USE DEF Outcome
<1>0. Settles(d) <=> Settles(c)
  BY DEF Settles
<1>1. \A t \in Tasks : Decided(t)' => Decided(t)
  BY <1>0 DEF Decided, Settles
<1>2. \A t \in Tasks : (Held(t)' => Held(t)) /\ (OnIt(t)' <=> OnIt(t)) /\ Busy(t)' = Busy(t)
  BY ExecutorKept DEF Held, Busy, SameExecutor
<1>3. FailuresAreRuns' /\ TriedHasFailed'
  BY <1>2 DEF FailuresAreRuns, TriedHasFailed, SameExecutor
<1>4. DecidedIsDone'
  BY <1>1, <1>2 DEF DecidedIsDone, SameExecutor
<1>5. OneDecision'
  <2>1. \A m \in results : Settles(m)' <=> Settles(m)
    BY DEF Settles
  <2>2. \A b \in callbacks' : (Settles(b)' <=> Settles(b))
                              /\ (b = d \/ (b \in callbacks /\ b # c))
    BY DEF Settles
  <2>3. \A m \in results : Settles(m) => \A b \in callbacks' : b.task = m.task => ~Settles(b)
    BY <1>0, <2>2 DEF OneDecision
  <2>4. \A b \in callbacks' : Settles(b) =>
          /\ finals[b.task] = 0
          /\ \A e \in callbacks' : e.task = b.task /\ Settles(e) => e = b
    BY <1>0, <2>2 DEF OneDecision
  <2> QED
    BY <2>1, <2>2, <2>3, <2>4 DEF OneDecision
<1>6. FinishSettles'
  BY DEF FinishSettles, Settles
<1> QED
  BY <1>3, <1>4, <1>5, <1>6

\* The first request: nothing of the task was run yet.
LEMMA ArriveOutcome ==
    ASSUME IndInv, Outcome, NEW t \in Tasks, Arrive(t)
    PROVE  Outcome'
<1> USE DEF IndInv, Safety, Outcome
<1>1. /\ UNCHANGED <<runs, failures, finals, results, callbacks, running>>
      /\ Submit(t) /\ stage[t] = "send"
  BY DEF Arrive, caches, ghosts, Submit
<1>2. ~OnIt(t) /\ runs[t] = 0 /\ ~Answered(t) /\ finals[t] = 0
  BY <1>1, NotSentNotDecided DEF NotSentYet
<1>3. \A u \in Tasks : OnIt(u)' => OnIt(u) \/ u = t
  BY <1>1, <1>2, SubmitPlaces
<1>4. /\ \A u : Decided(u)' <=> Decided(u)
      /\ \A u : (Held(u)' <=> Held(u)) /\ Busy(u)' = Busy(u)
  BY <1>1 DEF Decided, Settles, Held, Busy
<1>5. FailuresAreRuns'
  BY <1>1, <1>4 DEF FailuresAreRuns
<1>6. failures[t] = 0 /\ Busy(t) = 0
  BY <1>2, ResultTypes DEF FailuresAreRuns, Busy
<1>7. TriedHasFailed'
  BY <1>1, <1>2, <1>3, <1>4, <1>6 DEF TriedHasFailed
<1>8. ~Decided(t)
  BY <1>2 DEF DecidedIsDone
<1>9. DecidedIsDone'
  BY <1>1, <1>3, <1>4, <1>8 DEF DecidedIsDone
<1>10. OneDecision' /\ FinishSettles'
  BY <1>1 DEF OneDecision, FinishSettles, Settles
<1> QED
  BY <1>5, <1>7, <1>9, <1>10

\* The worker thread takes a task all of whose runs have failed.
LEMMA TakeTaskOutcome ==
    ASSUME IndInv, Outcome, TakeTask
    PROVE  Outcome'
<1> USE DEF IndInv, Safety, Outcome
<1>1. /\ UNCHANGED <<failures, finals, results, callbacks>>
      /\ running = NoTask /\ queue # <<>>
      /\ running' = Head(queue) /\ queue' = Tail(queue)
      /\ runs' = [runs EXCEPT ![running'] = @ + 1]
  BY DEF TakeTask, Take, dispatch, caches
<1>2. /\ running' = queue[1] /\ running' \in Tasks /\ 1 \in 1 .. Len(queue)
      /\ \A i \in 1 .. Len(queue') : i + 1 \in 1 .. Len(queue) /\ queue'[i] = queue[i + 1]
  BY <1>1 DEF TypeOK, QueueTypeOK
<1>3. InQueue(running') /\ \A u : InQueue(u)' => InQueue(u)
  BY <1>2 DEF InQueue
<1>4. \A u \in Tasks : OnIt(u)' => OnIt(u)
  BY <1>3 DEF OnIt
<1>5. /\ \A u : Decided(u)' <=> Decided(u)
      /\ \A u : Held(u)' <=> Held(u)
  BY <1>1 DEF Decided, Settles, Held
<1>6. \A u \in Tasks : /\ Busy(u) = 0
                       /\ Busy(u)' = IF u = running' THEN 1 ELSE 0
                       /\ runs'[u] = runs[u] + Busy(u)'
  BY <1>1, <1>2, ResultTypes, NoTaskAssumption DEF Busy, TypeOK
<1>7. ~Decided(running')
  BY <1>2, <1>3 DEF DecidedIsDone, OnIt
<1>8. FailuresAreRuns'
  BY <1>1, <1>6, ResultTypes DEF FailuresAreRuns
<1>9. TriedHasFailed'
  BY <1>1, <1>4, <1>5, <1>6, ResultTypes DEF TriedHasFailed
<1>10. DecidedIsDone'
  <2> SUFFICES ASSUME NEW u \in Tasks, Decided(u)
               PROVE  /\ ~OnIt(u)' /\ ~Held(u)'
                      /\ runs'[u] > 0
                      /\ Retries > 0 => runs'[u] = failures'[u] + 1
    BY <1>5 DEF DecidedIsDone
  <2>1. u # running' /\ runs'[u] = runs[u]
    BY <1>1, <1>2, <1>7 DEF TypeOK
  <2> QED
    BY <1>1, <1>4, <1>5, <2>1 DEF DecidedIsDone
<1>11. OneDecision' /\ FinishSettles'
  BY <1>1 DEF OneDecision, FinishSettles, Settles
<1> QED
  BY <1>8, <1>9, <1>10, <1>11

\* A run ends: it fails like all before it, or it settles the task.
LEMMA RunTaskOutcome ==
    ASSUME IndInv, Outcome, RunTask
    PROVE  Outcome'
<1> USE DEF IndInv, Safety, Outcome
<1>1. PICK failed \in BOOLEAN, t \in Tasks, n \in [task : Tasks, failed : BOOLEAN, run : Nat] :
        /\ UNCHANGED <<runs, queue, callbacks, finals>>
        /\ running = t /\ running' = NoTask
        /\ failures' = [failures EXCEPT ![t] = IF failed THEN @ + 1 ELSE @]
        /\ results' \subseteq results \cup {n}
        /\ n.task = t /\ n.failed = failed
  <2>1. running \in Tasks /\ runs[running] \in Nat
    BY DEF RunTask, Finish, TypeOK, QueueTypeOK
  <2>2. PICK failed \in BOOLEAN, arrives \in BOOLEAN :
          /\ Finish
          /\ failures' = [failures EXCEPT ![running] = IF failed THEN @ + 1 ELSE @]
          /\ results' = IF arrives
                        THEN results \cup
                              {[task |-> running, failed |-> failed, run |-> runs[running]]}
                        ELSE results
          /\ UNCHANGED <<dispatch, log, caches, callbacks, runs, finals, forgotten>>
    BY DEF RunTask
  <2> DEFINE n == [task |-> running, failed |-> failed, run |-> runs[running]]
  <2>3. /\ n.task = running /\ n.failed = failed
        /\ n \in [task : Tasks, failed : BOOLEAN, run : Nat]
        /\ results' \subseteq results \cup {n}
    BY <2>1, <2>2
  <2> QED
    BY <2>1, <2>2, <2>3 DEF Finish
<1>2. t \in Tasks
  OBVIOUS
<1>4. OnIt(t) /\ Busy(t) = 1 /\ ~Decided(t)
  BY <1>1, <1>2 DEF OnIt, Busy, DecidedIsDone
<1>5. runs[t] = failures[t] + 1 /\ ~Held(t) /\ runs[t] \in Nat /\ failures[t] \in Nat
  <2>1. ~Held(t)
    BY <1>4 DEF Held, OneHolder
  <2> QED
    BY <1>2, <1>4, <2>1, ResultTypes DEF TriedHasFailed
<1>6. /\ \A u \in Tasks : OnIt(u)' => OnIt(u) /\ u # t
      /\ \A u \in Tasks : Held(u)' <=> Held(u)
      /\ \A u \in Tasks : Busy(u)' = 0
      /\ \A u \in Tasks : u # t => Busy(u) = 0 /\ failures'[u] = failures[u]
  <2>1. \A u : InQueue(u)' <=> InQueue(u)
    BY <1>1 DEF InQueue
  <2>2. \A u \in Tasks : OnIt(u)' => OnIt(u) /\ u # t
    BY <1>1, <2>1, NoTaskAssumption DEF OnIt, OnePlace
  <2> QED
    BY <1>1, <1>2, <2>2, NoTaskAssumption DEF Held, Busy, TypeOK
<1>7. failures'[t] = IF failed THEN failures[t] + 1 ELSE failures[t]
  BY <1>1, <1>2 DEF TypeOK
<1>8. FailuresAreRuns'
  BY <1>1, <1>5, <1>6, <1>7, ResultTypes DEF FailuresAreRuns
<1>9. TriedHasFailed'
  BY <1>1, <1>5, <1>6 DEF TriedHasFailed
<1>10. /\ \A u \in Tasks : Decided(u)' => Decided(u) \/ u = t
       /\ Decided(t)' => ~failed \/ Retries = 0
  BY <1>1, <1>2, <1>4 DEF Decided, Settles
<1>11. DecidedIsDone'
  <2>1. ASSUME NEW u \in Tasks, Decided(u)', u # t
        PROVE  /\ ~OnIt(u)' /\ ~Held(u)'
               /\ runs'[u] > 0
               /\ Retries > 0 => runs'[u] = failures'[u] + 1
    BY <1>1, <1>6, <1>10, <2>1 DEF DecidedIsDone
  <2>2. ASSUME Decided(t)'
        PROVE  /\ ~OnIt(t)' /\ ~Held(t)'
               /\ runs'[t] > 0
               /\ Retries > 0 => runs'[t] = failures'[t] + 1
    BY <1>1, <1>2, <1>5, <1>6, <1>7, <1>10, <2>2
  <2> QED
    BY <2>1, <2>2 DEF DecidedIsDone
<1>12. OneDecision'
  <2>1. /\ finals[t] = 0
        /\ \A m \in results : m.task = t => ~Settles(m)
        /\ \A c \in callbacks : c.task = t => ~Settles(c)
    BY <1>2, <1>4, ResultTypes DEF Decided
  <2> QED
    BY <1>1, <1>2, <2>1 DEF OneDecision, Settles
<1>13. FinishSettles'
  BY <1>1 DEF FinishSettles, Settles
<1> QED
  BY <1>8, <1>9, <1>11, <1>12, <1>13

\* An executor that restarts gives up what it had; what settled a task is elsewhere.
LEMMA ExecutorRestartsOutcome ==
    ASSUME IndInv, Outcome, ExecutorRestarts
    PROVE  Outcome'
<1> USE DEF IndInv, Safety, Outcome
<1>1. /\ UNCHANGED <<runs, failures, finals, results, callbacks>>
      /\ queue' = <<>> /\ running' = NoTask
  BY DEF ExecutorRestarts, Forget, dispatch, caches, ghosts
<1>2. /\ \A u \in Tasks : ~OnIt(u)' /\ Busy(u)' = 0
      /\ \A u : Decided(u)' <=> Decided(u)
      /\ \A u : Held(u)' <=> Held(u)
  BY <1>1, NoTaskAssumption DEF InQueue, OnIt, Busy, Decided, Settles, Held
<1>3. FailuresAreRuns'
  BY <1>1, <1>2, ResultTypes DEF FailuresAreRuns, Busy
<1>4. TriedHasFailed'
  <2>1. \A u \in Tasks : Held(u) => Busy(u) = 0
    BY DEF Held, OneHolder, OnIt, Busy
  <2> QED
    BY <1>1, <1>2, <2>1 DEF TriedHasFailed
<1>5. DecidedIsDone'
  BY <1>1, <1>2 DEF DecidedIsDone
<1>6. OneDecision' /\ FinishSettles'
  BY <1>1 DEF OneDecision, FinishSettles, Settles
<1> QED
  BY <1>3, <1>4, <1>5, <1>6

\* A RESULT becomes a callback, which settles the task if the message did.
LEMMA ReceiveResultOutcome ==
    ASSUME IndInv, Outcome, NEW s \in Servers, ReceiveResult(s)
    PROVE  Outcome'
<1> USE DEF IndInv, Safety, Outcome
<1>1. PICK m \in results, d \in Callback :
        /\ SameExecutor /\ finals' = finals
        /\ results' = results \ {m}
        /\ callbacks' = callbacks \cup {d}
        /\ d.task = m.task /\ d.failed = m.failed /\ d.at = "lookup"
  <2>1. PICK m \in results :
          /\ results' = results \ {m}
          /\ callbacks' = callbacks \cup
                {[task |-> m.task, server |-> s, failed |-> m.failed, origin |-> "result",
                  at |-> "lookup", trigger |-> FALSE]}
          /\ UNCHANGED <<executor, ghosts>>
    BY DEF ReceiveResult
  <2> DEFINE d == [task |-> m.task, server |-> s, failed |-> m.failed, origin |-> "result",
                   at |-> "lookup", trigger |-> FALSE]
  <2>2. d \in Callback /\ d.task = m.task /\ d.failed = m.failed /\ d.at = "lookup"
    BY ResultTypes DEF Callback
  <2>3. SameExecutor /\ finals' = finals
    BY <2>1 DEF SameExecutor, executor, ghosts
  <2> QED
    BY <2>1, <2>2, <2>3
<1>2. Settles(d) <=> Settles(m)
  BY <1>1 DEF Settles
<1>3. /\ \A u : Decided(u)' => Decided(u)
      /\ \A u : Held(u)' => Held(u)
      /\ \A u : OnIt(u)' <=> OnIt(u)
      /\ \A u : Busy(u)' = Busy(u)
  BY <1>1, <1>2, ExecutorKept DEF Decided, Settles, Held, Holding, Busy, SameExecutor
<1>4. FailuresAreRuns' /\ TriedHasFailed'
  BY <1>1, <1>3 DEF FailuresAreRuns, TriedHasFailed, SameExecutor
<1>5. DecidedIsDone'
  BY <1>1, <1>3 DEF DecidedIsDone, SameExecutor
<1>6. OneDecision'
  <2>1. \A n \in results' : n \in results /\ n # m
    BY <1>1
  <2>2. \A c \in callbacks' : c \in callbacks \/ c = d
    BY <1>1
  <2>3. \A n \in results' : Settles(n) =>
          /\ finals[n.task] = 0
          /\ \A o \in results' : o.task = n.task /\ Settles(o) => o = n
          /\ \A c \in callbacks' : c.task = n.task => ~Settles(c)
    BY <1>1, <1>2, <2>1, <2>2 DEF OneDecision
  <2>4. \A c \in callbacks' : Settles(c) =>
          /\ finals[c.task] = 0
          /\ \A e \in callbacks' : e.task = c.task /\ Settles(e) => e = c
    BY <1>1, <1>2, <2>2 DEF OneDecision
  <2> QED
    BY <1>1, <2>3, <2>4 DEF OneDecision, Settles
<1>7. FinishSettles'
  BY <1>1 DEF FinishSettles, Settles
<1> QED
  BY <1>4, <1>5, <1>6, <1>7

\* Who takes the entry of a task has the one result there is, a failure with
\* retries left, so that nothing settles the task.
LEMMA TakeFailCallbackOutcome ==
    ASSUME IndInv, Outcome, NEW c \in callbacks, TakeFailCallback(c)
    PROVE  Outcome'
<1> USE DEF IndInv, Safety, Outcome
<1>1. /\ SameExecutor /\ UNCHANGED <<finals, results>> /\ c.at = "take"
  BY DEF TakeFailCallback, SameExecutor, executor, ghosts
<1>2. c \in Callback /\ c.task \in Tasks /\ c.server \in Servers
  BY DEF TypeOK, Callback
<1>3. CASE <<Map(c.server), c.task, "retryTime">> \notin failCache
  <2>1. callbacks' \subseteq callbacks
    BY <1>3 DEF TakeFailCallback, Drop
  <2> QED
    BY <1>1, <2>1, OutcomeLosing
<1>4. CASE <<Map(c.server), c.task, "retryTime">> \in failCache
  <2> DEFINE d == [c EXCEPT !.at = "putBack"]
  <2>1. d \in Callback /\ d.task = c.task /\ d.failed = c.failed /\ d.at = "putBack"
    BY <1>2 DEF Callback
  <2>2. callbacks' = (callbacks \ {c}) \cup {d}
    BY <1>4 DEF TakeFailCallback, Move
  <2> HIDE DEF d
  <2>3. Entry(c.task) /\ Answered(c.task)
    BY <1>2, <1>4 DEF EntryAtHome, Entry, Answered
  <2>4. runs[c.task] <= 1 /\ ~OnIt(c.task) /\ failures[c.task] >= 1 /\ c.failed /\ Retries >= 1
    BY <1>1, <1>2, <2>3 DEF EntryMeansFirstRun, RetriedHasFailed
  <2>5. runs[c.task] = failures[c.task] + Busy(c.task) /\ ~Decided(c.task)
    <3>1. Busy(c.task) = 0
      BY <2>4 DEF OnIt, Busy
    <3>2. /\ runs[c.task] = failures[c.task] + Busy(c.task)
          /\ runs[c.task] # failures[c.task] + 1
      BY <1>2, <2>4, <3>1, ResultTypes DEF FailuresAreRuns
    <3>3. Retries > 0
      BY <2>4, ResultTypes
    <3> QED
      BY <1>2, <3>1, <3>2, <3>3 DEF DecidedIsDone
  <2>6. ~Settles(d)
    BY <2>1, <2>4, ResultTypes DEF Settles
  <2>7. /\ \A u \in Tasks : Decided(u)' => Decided(u)
        /\ \A u \in Tasks : Held(u)' => Held(u) \/ u = c.task
        /\ \A u : OnIt(u)' <=> OnIt(u)
        /\ \A u : Busy(u)' = Busy(u)
    BY <1>1, <2>1, <2>2, <2>6, ExecutorKept DEF Decided, Settles, Held, Busy, SameExecutor
  <2>8. FailuresAreRuns' /\ TriedHasFailed'
    BY <1>1, <2>5, <2>7 DEF FailuresAreRuns, TriedHasFailed, SameExecutor
  <2>9. DecidedIsDone'
    BY <1>1, <1>2, <2>5, <2>7 DEF DecidedIsDone, SameExecutor
  <2>10. OneDecision' /\ FinishSettles'
    BY <1>1, <2>1, <2>2, <2>6 DEF OneDecision, FinishSettles, Settles
  <2> QED
    BY <2>8, <2>9, <2>10
<1> QED
  BY <1>3, <1>4

\* A task is sent again by the one that holds its entry; all its runs have failed.
LEMMA ResendOutcome ==
    ASSUME IndInv, Outcome, NEW c \in callbacks, Resend(c)
    PROVE  Outcome'
<1> USE DEF IndInv, Safety, Outcome
<1> DEFINE d == [c EXCEPT !.at = "find", !.origin = "resend"]
<1>1. /\ UNCHANGED <<finals, results, runs, failures, running>>
      /\ c.at = "send"
      /\ Submit(c.task) \/ UNCHANGED executor
      /\ callbacks' = callbacks \ {c} \/ callbacks' = (callbacks \ {c}) \cup {d}
  BY DEF Resend, Drop, ghosts, Submit, executor
<1>2. c \in Callback /\ c.task \in Tasks
  BY DEF TypeOK, Callback
<1>3. d \in Callback /\ d.task = c.task /\ d.failed = c.failed /\ d.at = "find"
  BY <1>2 DEF Callback
<1> HIDE DEF d
<1>4. CASE UNCHANGED executor
  <2>1. SameExecutor
    BY <1>1, <1>4 DEF SameExecutor, executor
  <2>2. CASE callbacks' = callbacks \ {c}
    BY <1>1, <2>1, <2>2, OutcomeLosing
  <2>3. CASE callbacks' = (callbacks \ {c}) \cup {d}
    BY <1>1, <1>3, <2>1, <2>3, OutcomeMoving DEF Holding
  <2> QED
    BY <1>1, <2>2, <2>3
<1>5. CASE Submit(c.task)
  <2>1. Held(c.task) /\ ~OnIt(c.task) /\ c.failed /\ Retries >= 1
    BY <1>1 DEF Held, OneHolder, RetriedHasFailed, Holding
  <2>2. ~Settles(c) /\ ~Settles(d)
    BY <1>3, <2>1, ResultTypes DEF Settles
  <2>3. ~Decided(c.task) /\ runs[c.task] = failures[c.task] + Busy(c.task)
    BY <1>2, <2>1 DEF DecidedIsDone, TriedHasFailed
  <2>4. /\ \A u \in Tasks : Decided(u)' => Decided(u)
        /\ \A u \in Tasks : Held(u)' => Held(u)
        /\ \A u : Busy(u)' = Busy(u)
        /\ \A u \in Tasks : OnIt(u)' => OnIt(u) \/ u = c.task
    <3>1. \A u \in Tasks : OnIt(u)' => OnIt(u) \/ u = c.task
      BY <1>2, <1>5, <2>1, SubmitPlaces
    <3> QED
      BY <1>1, <1>3, <2>2, <3>1 DEF Decided, Settles, Held, Holding, Busy
  <2>5. FailuresAreRuns' /\ TriedHasFailed'
    BY <1>1, <2>3, <2>4 DEF FailuresAreRuns, TriedHasFailed
  <2>6. DecidedIsDone'
    BY <1>1, <2>3, <2>4 DEF DecidedIsDone
  <2>7. OneDecision' /\ FinishSettles'
    BY <1>1, <1>3, <2>2 DEF OneDecision, FinishSettles, Settles
  <2> QED
    BY <2>5, <2>6, <2>7
<1> QED
  BY <1>1, <1>4, <1>5

\* The callback that finishes a task is what settles it, and is gone.
LEMMA FinishTaskOutcome ==
    ASSUME IndInv, Outcome, NEW c \in callbacks, FinishTask(c)
    PROVE  Outcome'
<1> USE DEF IndInv, Safety, Outcome
<1>1. /\ SameExecutor /\ results' = results /\ c.at = "finish"
      /\ callbacks' = callbacks \ {c}
      /\ finals' = [finals EXCEPT ![c.task] = @ + 1]
  BY DEF FinishTask, Drop, SameExecutor, executor
<1>2. c.task \in Tasks
  BY ResultTypes
<1>3. Settles(c) /\ finals[c.task] = 0 /\ Decided(c.task)
  BY <1>1 DEF FinishSettles, OneDecision, Decided
<1>4. \A u \in Tasks : finals'[u] = IF u = c.task THEN 1 ELSE finals[u]
  BY <1>1, <1>2, <1>3 DEF TypeOK
<1>5. /\ \A u \in Tasks : Decided(u)' => Decided(u)
      /\ \A u : Held(u)' => Held(u)
      /\ \A u : OnIt(u)' <=> OnIt(u)
      /\ \A u : Busy(u)' = Busy(u)
  BY <1>1, <1>3, <1>4, ExecutorKept DEF Decided, Settles, Held, Busy, SameExecutor
<1>6. FailuresAreRuns' /\ TriedHasFailed'
  BY <1>1, <1>5 DEF FailuresAreRuns, TriedHasFailed, SameExecutor
<1>7. DecidedIsDone'
  BY <1>1, <1>5 DEF DecidedIsDone, SameExecutor
<1>8. OneDecision'
  <2>1. \A t \in Tasks : finals'[t] <= 1
    BY <1>4 DEF OneDecision
  <2>2. ASSUME NEW m \in results, Settles(m)
        PROVE  /\ finals'[m.task] = 0
               /\ \A n \in results : n.task = m.task /\ Settles(n) => n = m
               /\ \A e \in callbacks' : e.task = m.task => ~Settles(e)
    <3>1. m.task # c.task /\ m.task \in Tasks
      BY <1>3, <2>2, ResultTypes DEF OneDecision
    <3> QED
      BY <1>1, <1>4, <2>2, <3>1 DEF OneDecision
  <2>3. ASSUME NEW b \in callbacks', Settles(b)
        PROVE  /\ finals'[b.task] = 0
               /\ \A e \in callbacks' : e.task = b.task /\ Settles(e) => e = b
    <3>1. b \in callbacks /\ b # c
      BY <1>1
    <3>2. b.task # c.task /\ b.task \in Tasks
      BY <1>3, <2>3, <3>1, ResultTypes DEF OneDecision
    <3> QED
      BY <1>1, <1>4, <2>3, <3>1, <3>2 DEF OneDecision
  <2> QED
    BY <1>1, <2>1, <2>2, <2>3 DEF OneDecision, Settles
<1>9. FinishSettles'
  BY <1>1 DEF FinishSettles, Settles
<1> QED
  BY <1>6, <1>7, <1>8, <1>9

\* The steps of a callback.
LEMMA CallbackOutcome ==
    ASSUME IndInv, Outcome, NEW c \in callbacks, CallbackStep(c)
    PROVE  Outcome'
<1> USE DEF executor, ghosts, SameExecutor
<1>1. c \in Callback /\ TypeOK
  BY DEF IndInv, TypeOK
<1>2. ASSUME NEW d \in Callback, callbacks' = (callbacks \ {c}) \cup {d}, SameExecutor,
             UNCHANGED <<finals, results>>, d.task = c.task, d.failed = c.failed,
             d.at \in Holding => c.at \in Holding, d.at = "finish" => Settles(d)
      PROVE  Outcome'
  BY <1>1, <1>2, OutcomeMoving
<1>3. CASE Lookup(c)
  <2> DEFINE d == [c EXCEPT !.at = "find"]
  <2>1. d \in Callback /\ d.task = c.task /\ d.failed = c.failed /\ d.at = "find"
    BY <1>1 DEF Callback
  <2>2. callbacks' \subseteq callbacks \/ callbacks' = (callbacks \ {c}) \cup {d}
    BY <1>3 DEF Lookup, Move, Drop
  <2> HIDE DEF d
  <2>3. SameExecutor /\ UNCHANGED <<finals, results>>
    BY <1>3 DEF Lookup
  <2>4. CASE callbacks' \subseteq callbacks
    BY <1>1, <2>3, <2>4, OutcomeLosing
  <2>5. CASE callbacks' = (callbacks \ {c}) \cup {d}
    BY <1>2, <2>1, <2>3, <2>5 DEF Holding
  <2> QED
    BY <2>2, <2>4, <2>5
<1>4. CASE FindLog(c)
  <2> DEFINE d == [c EXCEPT !.trigger = log[c.task].trigger,
                            !.at = IF c.failed /\ FoundRetryTimes(c.task) < Retries
                                   THEN "save" ELSE "finish"]
  <2>1. log[c.task].trigger \in BOOLEAN
    BY <1>1 DEF TypeOK, Callback
  <2>2. /\ d \in Callback /\ d.task = c.task /\ d.failed = c.failed
        /\ d.at = "save" \/ (d.at = "finish" /\ (~c.failed \/ ~(0 < Retries)))
    BY <1>1, <2>1 DEF Callback, FoundRetryTimes
  <2>3. callbacks' = (callbacks \ {c}) \cup {d} /\ SameExecutor /\ UNCHANGED <<finals, results>>
    BY <1>4 DEF FindLog
  <2> HIDE DEF d
  <2>4. d.at = "finish" => Settles(d)
    BY <2>2, DispatchAssumption DEF Settles
  <2> QED
    BY <1>2, <2>2, <2>3, <2>4 DEF Holding
<1>5. CASE SaveRetry(c)
  <2> DEFINE d == [c EXCEPT !.at = "take"]
  <2>1. d \in Callback /\ d.task = c.task /\ d.failed = c.failed /\ d.at = "take"
    BY <1>1 DEF Callback
  <2>2. callbacks' = (callbacks \ {c}) \cup {d} /\ SameExecutor /\ UNCHANGED <<finals, results>>
    BY <1>5 DEF SaveRetry, Move
  <2> HIDE DEF d
  <2> QED
    BY <1>2, <2>1, <2>2 DEF Holding
<1>6. CASE TakeFailCallback(c)
  BY <1>6, TakeFailCallbackOutcome
<1>7. CASE PutBackFailCallback(c)
  <2> DEFINE d == [c EXCEPT !.at = "send"]
  <2>1. d \in Callback /\ d.task = c.task /\ d.failed = c.failed /\ d.at = "send"
    BY <1>1 DEF Callback
  <2>2. /\ callbacks' = (callbacks \ {c}) \cup {d} /\ c.at = "putBack"
        /\ SameExecutor /\ UNCHANGED <<finals, results>>
    BY <1>7 DEF PutBackFailCallback, Move
  <2> HIDE DEF d
  <2> QED
    BY <1>2, <2>1, <2>2 DEF Holding
<1>8. CASE Resend(c)
  BY <1>8, ResendOutcome
<1>9. CASE FinishTask(c)
  BY <1>9, FinishTaskOutcome
<1> QED
  BY <1>3, <1>4, <1>5, <1>6, <1>7, <1>8, <1>9 DEF CallbackStep

\* The initial state, and every step.
LEMMA OutcomeInit == Init => Outcome
<1> SUFFICES ASSUME Init PROVE Outcome
  OBVIOUS
<1>1. results = {} /\ callbacks = {} /\ \A t \in Tasks : finals[t] = 0
  BY DEF Init
<1>2. \A t \in Tasks : runs[t] = 0 /\ failures[t] = 0
  BY DEF Init
<1>3. queue = <<>> /\ running = NoTask
  BY DEF Init, QueueInit
<1>4. \A t \in Tasks : ~Decided(t) /\ ~OnIt(t) /\ ~Held(t) /\ Busy(t) = 0
  <2>1. ASSUME NEW t \in Tasks PROVE ~Decided(t)
    <3>1. ~(finals[t] > 0)
      BY <1>1
    <3>2. /\ ~\E m \in results : m.task = t /\ Settles(m)
          /\ ~\E c \in callbacks : c.task = t /\ Settles(c)
      BY <1>1
    <3> QED
      BY <3>1, <3>2 DEF Decided
  <2>2. \A t : ~InQueue(t)
    BY <1>3 DEF InQueue
  <2>3. \A t \in Tasks : ~OnIt(t) /\ Busy(t) = 0
    BY <1>3, <2>2, NoTaskAssumption DEF OnIt, Busy
  <2> QED
    BY <1>1, <2>1, <2>3 DEF Held
<1> QED
  BY <1>1, <1>2, <1>4
  DEF Outcome, FailuresAreRuns, TriedHasFailed, DecidedIsDone, OneDecision, FinishSettles

LEMMA OutcomeStep == IndInv /\ Outcome /\ [Next]_vars => Outcome'
<1> SUFFICES ASSUME IndInv, Outcome, [Next]_vars PROVE Outcome'
  OBVIOUS
<1> USE DEF executor, dispatch, caches, ghosts, SameExecutor
<1>1. ASSUME NEW t \in Tasks,
             Dispatch(t) \/ DispatchStep(t) \/ DispatchStops(t) \/ RequestFails(t)
      PROVE  Outcome'
  <2>1. CASE Arrive(t)
    BY <2>1, ArriveOutcome
  <2>2. CASE ~Arrive(t)
    <3>1. SameExecutor /\ UNCHANGED <<finals, results, callbacks>>
      BY <1>1, <2>2
      DEF Dispatch, DispatchStep, LogSaved, FailCallbackPut, ResultCallbackPut,
          SaveTriggerResult, DispatchStops, RequestFails
    <3> QED
      BY <3>1, OutcomeLosing DEF IndInv
  <2> QED
    BY <2>1, <2>2
<1>2. ASSUME NEW s \in Servers, ServerStops(s) \/ ServerStarts(s) PROVE Outcome'
  <2>1. /\ SameExecutor /\ UNCHANGED <<finals, results>> /\ callbacks' \subseteq callbacks
    BY <1>2 DEF ServerStops, ServerStarts
  <2> QED
    BY <2>1, OutcomeLosing DEF IndInv
<1>3. CASE UNCHANGED vars
  BY <1>3, OutcomeLosing DEF vars, IndInv
<1> QED
  BY <1>1, <1>2, <1>3, TakeTaskOutcome, RunTaskOutcome, ExecutorRestartsOutcome,
     ReceiveResultOutcome, CallbackOutcome DEF Next

-----------------------------------------------------------------------------
(* Nothing is left of a task                                               *)

\* Where entries and callbacks only go, and no task gets its final result.
LEMMA CachesLosing ==
    ASSUME AtHome, NothingLeft, UNCHANGED <<home, finals>>,
           failCache' \subseteq failCache, resultCache' \subseteq resultCache,
           \A d \in callbacks' : d.at # "lookup" =>
              \E c \in callbacks : c.at # "lookup" /\ c.task = d.task /\ c.server = d.server
    PROVE  AtHome' /\ NothingLeft'
  BY DEF AtHome, NothingLeft, Map

\* The entries of a task are put where it is dispatched, and before it is sent.
LEMMA DispatchCaches ==
    ASSUME IndInv, Outcome, AtHome, NothingLeft, NEW t \in Tasks,
           Dispatch(t) \/ DispatchStep(t) \/ DispatchStops(t) \/ RequestFails(t)
    PROVE  AtHome' /\ NothingLeft'
<1> USE DEF executor, dispatch, caches, ghosts
<1>1. CASE FailCallbackPut(t)
  <2>1. /\ UNCHANGED <<home, finals, callbacks, resultCache>>
        /\ failCache' = failCache \cup {<<Map(home[t]), t, "retryTime">>}
        /\ finals[t] = 0
    BY <1>1, NotSentNotDecided DEF FailCallbackPut
  <2> QED
    BY <2>1 DEF AtHome, NothingLeft, Map
<1>2. CASE ResultCallbackPut(t)
  <2>1. /\ UNCHANGED <<home, finals, callbacks, failCache>>
        /\ resultCache' = resultCache \cup {<<Map(home[t]), t>>}
        /\ finals[t] = 0
    BY <1>2, NotSentNotDecided DEF ResultCallbackPut
  <2> QED
    BY <2>1 DEF AtHome, NothingLeft, Map
<1>3. CASE ~FailCallbackPut(t) /\ ~ResultCallbackPut(t)
  <2>1. UNCHANGED <<home, finals, callbacks, failCache, resultCache>>
    BY <1>3
    DEF Dispatch, DispatchStep, LogSaved, Arrive, SaveTriggerResult, DispatchStops, RequestFails
  <2> QED
    BY <2>1, CachesLosing
<1> QED
  BY <1>1, <1>2, <1>3

\* A callback puts the entry back where it found one, and removes what its task
\* has there, which is all there is.
LEMMA CallbackCaches ==
    ASSUME IndInv, Outcome, AtHome, NothingLeft, NEW c \in callbacks, CallbackStep(c)
    PROVE  AtHome' /\ NothingLeft'
<1> USE DEF executor, dispatch, caches, ghosts
<1>1. c \in Callback /\ c.task \in Tasks
  BY DEF IndInv, TypeOK, Callback
<1>2. /\ home' = home
      /\ \A d \in callbacks' : d \in callbacks \/ (d.task = c.task /\ d.server = c.server)
  <2>1. ASSUME NEW place, Move(c, place) \/ Drop(c)
        PROVE  \A d \in callbacks' : d \in callbacks \/ (d.task = c.task /\ d.server = c.server)
    <3> DEFINE d == [c EXCEPT !.at = place]
    <3>1. d.task = c.task /\ d.server = c.server
      BY <1>1 DEF Callback
    <3>2. callbacks' \subseteq callbacks \cup {d}
      BY <2>1 DEF Move, Drop
    <3> HIDE DEF d
    <3> QED
      BY <3>1, <3>2
  <2>2. LET d == [c EXCEPT !.at = "find", !.origin = "resend"]
        IN  d.task = c.task /\ d.server = c.server
    BY <1>1 DEF Callback
  <2>3. CASE FindLog(c)
    <3> DEFINE d == [c EXCEPT !.trigger = log[c.task].trigger,
                              !.at = IF c.failed /\ FoundRetryTimes(c.task) < Retries
                                     THEN "save" ELSE "finish"]
    <3>1. d.task = c.task /\ d.server = c.server
      BY <1>1 DEF Callback
    <3>2. callbacks' = (callbacks \ {c}) \cup {d} /\ home' = home
      BY <2>3 DEF FindLog
    <3> HIDE DEF d
    <3> QED
      BY <3>1, <3>2
  <2>4. CASE Resend(c)
    BY <2>2, <2>4 DEF Resend, Drop
  <2>5. CASE ~FindLog(c) /\ ~Resend(c)
    <3>1. home' = home /\ \E place : Move(c, place) \/ Drop(c)
      BY <2>5
      DEF CallbackStep, Lookup, SaveRetry, TakeFailCallback, PutBackFailCallback, FinishTask
    <3> QED
      BY <2>1, <3>1
  <2> QED
    BY <2>3, <2>4, <2>5
<1>3. CASE Lookup(c)
  <2>1. UNCHANGED <<finals, failCache, resultCache>>
    BY <1>3 DEF Lookup
  <2>2. CASE <<Map(c.server), c.task>> \in resultCache
    <3>1. Map(c.server) = Map(home[c.task])
      BY <2>2 DEF AtHome
    <3> QED
      BY <1>2, <2>1, <3>1 DEF AtHome, NothingLeft, Map
  <2>3. CASE <<Map(c.server), c.task>> \notin resultCache
    <3>1. callbacks' \subseteq callbacks
      BY <1>3, <2>3 DEF Lookup, Drop
    <3> QED
      BY <1>2, <2>1, <3>1, CachesLosing
  <2> QED
    BY <2>2, <2>3
<1>4. CASE FindLog(c) \/ SaveRetry(c) \/ TakeFailCallback(c) \/ Resend(c)
  <2>1. /\ finals' = finals /\ c.at # "lookup"
        /\ failCache' \subseteq failCache /\ resultCache' = resultCache
    BY <1>4 DEF FindLog, SaveRetry, TakeFailCallback, Resend
  <2> QED
    BY <1>2, <2>1, CachesLosing
<1>5. CASE PutBackFailCallback(c)
  <2>1. /\ finals' = finals /\ c.at = "putBack" /\ resultCache' = resultCache
        /\ failCache' \subseteq failCache \cup {<<Map(c.server), c.task, "retryTimes">>}
    BY <1>5 DEF PutBackFailCallback
  <2>2. Map(c.server) = Map(home[c.task])
    BY <2>1 DEF AtHome
  <2>3. finals[c.task] = 0
    BY <1>1, <2>1, ResultTypes DEF IndInv, Outcome, DecidedIsDone, Decided, Held, Holding
  <2> QED
    BY <1>2, <2>1, <2>2, <2>3 DEF AtHome, NothingLeft, Map
<1>6. CASE FinishTask(c)
  <2>1. /\ c.at = "finish" /\ callbacks' \subseteq callbacks
        /\ finals' = [finals EXCEPT ![c.task] = @ + 1]
        /\ failCache' = {e \in failCache : e[1] # Map(c.server) \/ e[2] # c.task}
        /\ resultCache' = resultCache \ {<<Map(c.server), c.task>>}
    BY <1>6 DEF FinishTask, Drop
  <2>2. Map(c.server) = Map(home[c.task])
    BY <2>1 DEF AtHome
  <2>3. AtHome'
    BY <1>2, <2>1 DEF AtHome, Map
  <2>4. \A u \in Tasks : u # c.task => finals'[u] = finals[u]
    BY <2>1 DEF IndInv, TypeOK
  <2>5. \A e \in failCache' : e[2] # c.task
    BY <2>1, <2>2 DEF AtHome
  <2>6. \A e \in resultCache : e = <<e[1], e[2]>>
    BY DEF IndInv, TypeOK
  <2>7. \A e \in resultCache' : e[2] # c.task
    BY <2>1, <2>2, <2>6 DEF AtHome
  <2>8. NothingLeft'
    BY <2>1, <2>4, <2>5, <2>7 DEF NothingLeft
  <2> QED
    BY <2>3, <2>8
<1> QED
  BY <1>3, <1>4, <1>5, <1>6 DEF CallbackStep

-----------------------------------------------------------------------------
(* The theorems                                                            *)

LEMMA ResultInvInit == Init => ResultInv
<1> SUFFICES ASSUME Init PROVE AtHome /\ NothingLeft
  BY InitIndInv, OutcomeInit DEF ResultInv
<1>1. callbacks = {} /\ failCache = {} /\ resultCache = {}
  BY DEF Init
<1> QED
  BY <1>1 DEF AtHome, NothingLeft

LEMMA ResultInvStep == ResultInv /\ [Next]_vars => ResultInv'
<1> SUFFICES ASSUME ResultInv, [Next]_vars PROVE AtHome' /\ NothingLeft'
  BY IndInvStep, OutcomeStep DEF ResultInv
<1> USE DEF ResultInv, executor, dispatch, caches, ghosts
<1>1. CASE TakeTask \/ RunTask \/ ExecutorRestarts \/ UNCHANGED vars
  <2>1. UNCHANGED <<home, finals, callbacks, failCache, resultCache>>
    BY <1>1 DEF TakeTask, RunTask, ExecutorRestarts, vars
  <2> QED
    BY <2>1, CachesLosing
<1>2. ASSUME NEW s \in Servers, ReceiveResult(s) PROVE AtHome' /\ NothingLeft'
  <2>1. /\ UNCHANGED <<home, finals, failCache, resultCache>>
        /\ \A d \in callbacks' : d.at # "lookup" => d \in callbacks
    BY <1>2 DEF ReceiveResult
  <2> QED
    BY <2>1, CachesLosing
<1>3. ASSUME NEW s \in Servers, ServerStops(s) \/ ServerStarts(s) PROVE AtHome' /\ NothingLeft'
  <2>1. /\ UNCHANGED <<home, finals>> /\ callbacks' \subseteq callbacks
        /\ failCache' \subseteq failCache /\ resultCache' \subseteq resultCache
    BY <1>3 DEF ServerStops, ServerStarts
  <2> QED
    BY <2>1, CachesLosing
<1> QED
  BY <1>1, <1>2, <1>3, DispatchCaches, CallbackCaches DEF Next

\* A task gets one final result (FinishTask), whatever is retried, lost or restarted,
\* and its callbacks are gone from the caches then.
THEOREM FinalOnceHolds == Spec => []FinalOnce
<1>1. ResultInv => FinalOnce
  <2> SUFFICES ASSUME ResultInv, NEW t \in Tasks
               PROVE  /\ finals[t] <= 1
                      /\ finals[t] = 1 => /\ \A s \in Servers : <<Map(s), t>> \notin resultCache
                                          /\ \A e \in failCache : e[2] # t
    BY DEF FinalOnce
  <2>1. finals[t] <= 1
    BY DEF ResultInv, Outcome, OneDecision
  <2>2. ASSUME finals[t] = 1
        PROVE  (\A e \in failCache : e[2] # t) /\ (\A e \in resultCache : e[2] # t)
    BY <2>2 DEF ResultInv, NothingLeft
  <2> QED
    BY <2>1, <2>2
<1> QED
  BY <1>1, ResultInvInit, ResultInvStep, PTL DEF Spec

\* All servers see the same maps: they form a cluster, or there is one server only.
OneMap == \A s, u \in Servers : Map(s) = Map(u)

\* What such a map keeps: the entry of a task that was sent, until its final result or
\* until the map is lost with the last server.
EntryKept ==
    \A t \in Tasks :
        stage[t] \in {"send", "sent"} /\ finals[t] = 0 /\ t \notin forgotten =>
            <<Map(home[t]), t>> \in resultCache

LEMMA EntryKeptStep ==
    ASSUME OneMap, TypeOK, EntryKept, [Next]_vars
    PROVE  EntryKept'
<1> USE DEF executor, dispatch, caches, ghosts
<1> SUFFICES ASSUME NEW t \in Tasks, stage'[t] \in {"send", "sent"}, finals'[t] = 0,
                    t \notin forgotten'
             PROVE  <<Map(home[t]), t>> \in resultCache' /\ home' = home
  BY DEF EntryKept, Map
<1>1. ASSUME NEW u \in Tasks,
             Dispatch(u) \/ DispatchStep(u) \/ DispatchStops(u) \/ RequestFails(u)
      PROVE  <<Map(home[t]), t>> \in resultCache' /\ home' = home
  <2>1. CASE ResultCallbackPut(u)
    BY <2>1 DEF ResultCallbackPut, Goto, EntryKept, TypeOK
  <2>2. CASE ~ResultCallbackPut(u)
    <3>1. UNCHANGED <<home, resultCache, finals, forgotten>>
      BY <1>1, <2>2
      DEF Dispatch, DispatchStep, LogSaved, FailCallbackPut, Arrive, SaveTriggerResult,
          DispatchStops, RequestFails
    <3>2. stage[t] \in {"send", "sent"}
      BY <1>1, <2>2
      DEF Dispatch, DispatchStep, LogSaved, FailCallbackPut, Arrive, SaveTriggerResult,
          DispatchStops, RequestFails, Goto, TypeOK
    <3> QED
      BY <3>1, <3>2 DEF EntryKept
  <2> QED
    BY <2>1, <2>2
<1>2. ASSUME NEW c \in callbacks, FinishTask(c)
      PROVE  <<Map(home[t]), t>> \in resultCache' /\ home' = home
  <2>1. c.task \in Tasks /\ finals[c.task] \in Nat
    BY ResultTypes
  <2>2. /\ finals' = [finals EXCEPT ![c.task] = @ + 1] /\ stage' = stage /\ home' = home
        /\ resultCache' = resultCache \ {<<Map(c.server), c.task>>} /\ forgotten' = forgotten
    BY <1>2 DEF FinishTask
  <2>3. t # c.task /\ finals[t] = 0
    BY <2>1, <2>2 DEF TypeOK
  <2> QED
    BY <2>2, <2>3 DEF EntryKept
<1>3. ASSUME NEW s \in Servers, ServerStops(s)
      PROVE  <<Map(home[t]), t>> \in resultCache' /\ home' = home
  <2> DEFINE lost == IF Clustered /\ up # {s} THEN {} ELSE {Map(s)}
  <2>1. /\ resultCache' = {e \in resultCache : e[1] \notin lost}
        /\ forgotten' = forgotten \cup {u \in Tasks : \E m \in lost : <<m, u>> \in resultCache}
        /\ UNCHANGED <<home, finals>>
    BY <1>3 DEF ServerStops
  <2>2. stage[t] \in {"send", "sent"}
    BY <1>3 DEF ServerStops
  <2>3. <<Map(home[t]), t>> \in resultCache
    BY <2>1, <2>2 DEF EntryKept
  <2> HIDE DEF lost
  <2> QED
    BY <2>1, <2>3
<1>4. CASE \/ TakeTask \/ RunTask \/ ExecutorRestarts \/ UNCHANGED vars
           \/ \E s \in Servers : ReceiveResult(s) \/ ServerStarts(s)
           \/ \E c \in callbacks : CallbackStep(c) /\ ~FinishTask(c)
  <2>1. UNCHANGED <<stage, home, finals, resultCache, forgotten>>
    BY <1>4
    DEF TakeTask, RunTask, ExecutorRestarts, vars, ReceiveResult, ServerStarts, CallbackStep, Lookup,
        FindLog, SaveRetry, TakeFailCallback, PutBackFailCallback, Resend
  <2> QED
    BY <2>1 DEF EntryKept
<1> QED
  BY <1>1, <1>2, <1>3, <1>4 DEF Next

\* Before the final result the callback of a RESULT finds its entry, on any server.
LEMMA EntryIsFound ==
    ASSUME OneMap, IndInv, EntryKept
    PROVE  ResultFindsCallback
<1> SUFFICES ASSUME NEW c \in callbacks, finals[c.task] = 0, c.task \notin forgotten
             PROVE  <<Map(c.server), c.task>> \in resultCache
  BY DEF ResultFindsCallback
<1>1. c.task \in Tasks /\ Answered(c.task) /\ c.server \in Servers /\ home[c.task] \in Servers
  BY DEF IndInv, TypeOK, Callback, Answered
<1>2. stage[c.task] = "sent"
  BY <1>1 DEF IndInv, Safety, NotSentYet
<1>3. Map(c.server) = Map(home[c.task])
  BY <1>1 DEF OneMap
<1> QED
  BY <1>1, <1>2, <1>3 DEF EntryKept

\* Where all servers see one map, the callback of a RESULT that comes before the final
\* result finds its entry, on whichever server it is handled and whichever went down,
\* unless all of them were down at once after the entry was put.
THEOREM ResultFindsCallbackHolds ==
    ASSUME OneMap
    PROVE  Spec => []ResultFindsCallback
<1>1. Init => EntryKept
  BY DEF Init, EntryKept
<1>2. IndInv /\ EntryKept /\ [Next]_vars => EntryKept'
  BY EntryKeptStep DEF IndInv
<1>3. IndInv /\ EntryKept => ResultFindsCallback
  BY EntryIsFound
<1> QED
  BY <1>1, <1>2, <1>3, InitIndInv, IndInvStep, PTL DEF Spec

\* The answer to the request is there to be saved, or saved, unless a run failed.
AnswerKept ==
    \A t \in Tasks :
        /\ reply[t] # "error"
        /\ stage[t] = "sent" /\ failures[t] = 0 => reply[t] = "ok" \/ log[t].trigger

\* Where nothing fails, the log of a task that did not fail keeps the trigger result,
\* whichever of the answer and the RESULT is handled first.
THEOREM TriggerResultKeptHolds ==
    ASSUME ~Faults
    PROVE  Spec => []TriggerResultKept
<1> USE DEF executor, dispatch, caches, ghosts
<1>1. Init => AnswerKept
  BY DEF Init, AnswerKept
<1>2. IndInv /\ AnswerKept /\ [Next]_vars => AnswerKept'
  <2> DEFINE Kept(t) ==
        /\ reply[t] # "error"
        /\ stage[t] = "sent" /\ failures[t] = 0 => reply[t] = "ok" \/ log[t].trigger
  <2> SUFFICES ASSUME IndInv, AnswerKept, [Next]_vars, NEW t \in Tasks PROVE Kept(t)'
    BY DEF AnswerKept
  <2> USE DEF IndInv, TypeOK
  <2>1. Kept(t)
    BY DEF AnswerKept
  <2>2. ASSUME NEW u \in Tasks, Arrive(u) PROVE Kept(t)'
    <3>1. u # t => /\ stage'[t] = stage[t] /\ reply'[t] = reply[t]
                   /\ failures' = failures /\ log' = log
      BY <2>2 DEF Arrive, Goto
    <3>2. u = t => reply'[t] = "ok"
      BY <2>2 DEF Arrive
    <3> QED
      BY <2>1, <3>1, <3>2
  <2>3. ASSUME NEW u \in Tasks, SaveTriggerResult(u) PROVE Kept(t)'
    <3>1. u # t => /\ stage' = stage /\ reply'[t] = reply[t]
                   /\ failures' = failures /\ log'[t] = log[t]
      BY <2>3 DEF SaveTriggerResult
    <3>2. u = t => reply[t] = "ok"
      BY <2>1, <2>3 DEF SaveTriggerResult
    <3>3. u = t => reply'[t] = "none" /\ log'[t].trigger
      BY <2>3, <3>2 DEF SaveTriggerResult
    <3> QED
      BY <2>1, <3>1, <3>3
  <2>4. ASSUME NEW u \in Tasks,
               Dispatch(u) \/ LogSaved(u) \/ FailCallbackPut(u) \/ ResultCallbackPut(u)
        PROVE  Kept(t)'
    <3>1. UNCHANGED <<failures, reply, log>> /\ (stage'[t] = "sent" => stage[t] = "sent")
      BY <2>4 DEF Dispatch, LogSaved, FailCallbackPut, ResultCallbackPut, Goto
    <3> QED
      BY <2>1, <3>1
  <2>5. ASSUME NEW c \in callbacks, SaveRetry(c) PROVE Kept(t)'
    <3>1. /\ UNCHANGED <<stage, reply, failures>> /\ c.task \in Tasks /\ c.at = "save"
          /\ c.task # t => log'[t] = log[t]
      BY <2>5 DEF SaveRetry, Callback
    <3>2. failures[c.task] >= 1 /\ failures[c.task] # 0
      BY <3>1 DEF Safety, RetriedHasFailed
    <3> QED
      BY <2>1, <3>1, <3>2
  <2>6. ASSUME RunTask PROVE Kept(t)'
    <3>1. UNCHANGED <<stage, reply, log>>
      BY <2>6 DEF RunTask
    <3>2. running \in Tasks
      BY <2>6 DEF RunTask, Finish, QueueTypeOK
    <3>3. failures'[t] = 0 => failures[t] = 0
      BY <2>6, <3>2 DEF RunTask
    <3> QED
      BY <2>1, <3>1, <3>3
  <2>7. CASE \/ TakeTask \/ UNCHANGED vars
             \/ \E s \in Servers : ReceiveResult(s) \/ ServerStarts(s)
             \/ \E c \in callbacks : CallbackStep(c) /\ ~SaveRetry(c)
    <3>1. UNCHANGED <<stage, failures, reply, log>>
      BY <2>7
      DEF TakeTask, vars, ReceiveResult, ServerStarts, CallbackStep, Lookup, FindLog,
          TakeFailCallback, PutBackFailCallback, Resend, FinishTask
    <3> QED
      BY <2>1, <3>1
  <2>8. /\ \A u \in Tasks : ~DispatchStops(u) /\ ~RequestFails(u)
        /\ \A s \in Servers : ~ServerStops(s)
        /\ ~ExecutorRestarts
    BY DEF DispatchStops, RequestFails, ServerStops, ExecutorRestarts
  <2> HIDE DEF Kept
  <2> QED
    BY <2>2, <2>3, <2>4, <2>5, <2>6, <2>7, <2>8 DEF Next, DispatchStep
<1>3. IndInv /\ AnswerKept => TriggerResultKept
  <2> SUFFICES ASSUME IndInv, AnswerKept, NEW t \in Tasks,
                      Settled(t), runs[t] > 0, failures[t] = 0
               PROVE  log[t].trigger
    BY DEF TriggerResultKept
  <2>1. stage[t] = "sent" /\ reply[t] = "none"
    BY DEF IndInv, Safety, NotSentYet, Settled
  <2> QED
    BY <2>1 DEF AnswerKept
<1> QED
  BY <1>1, <1>2, <1>3, InitIndInv, IndInvStep, PTL DEF Spec
=============================================================================
