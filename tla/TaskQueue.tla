----------------------------- MODULE TaskQueue -----------------------------
(***************************************************************************)
(* The queue of one job on one executor (TaskPuller): ExecutorClientImpl     *)
(* puts what the job servers send into it as the blocking strategy of the    *)
(* job says, and the worker thread of the job runs one task after another.   *)
(***************************************************************************)
EXTENDS Naturals, Sequences

CONSTANTS
    Tasks,     \* the messages the job servers send
    Strategy,  \* the BlockingStrategy of the job
    NoTask     \* the worker thread waits in TaskPuller.take

ASSUME StrategyAssumption == Strategy \in {"STAND_ALONE_SERIAL", "DISCARD", "COVER"}
ASSUME NoTaskAssumption == NoTask \notin Tasks

VARIABLES
    queue,    \* the tasks that wait
    running   \* the task of the worker thread

QueueTypeOK ==
    /\ queue \in Seq(Tasks)
    /\ running \in Tasks \cup {NoTask}

QueueInit ==
    /\ queue = <<>>
    /\ running = NoTask

\* Mutant of Enqueued: DISCARD drops the waiting task and not the new one.
EnqueuedMixedUp(t) ==
    CASE Strategy = "COVER" -> IF queue = <<>> THEN <<t>> ELSE queue
      [] Strategy = "DISCARD" -> <<t>>
      [] OTHER -> Append(queue, t)

\* The handler runs on the one event loop of the server: two of them do not
\* overlap.  A discarded task is answered like one that is put in the queue.
Enqueued(t) ==
    CASE Strategy = "DISCARD" -> IF queue = <<>> THEN <<t>> ELSE queue
      [] Strategy = "COVER" -> <<t>>
      [] OTHER -> Append(queue, t)

Submit(t) ==
    /\ queue' = Enqueued(t)
    /\ UNCHANGED running

Take ==
    /\ running = NoTask
    /\ queue # <<>>
    /\ running' = Head(queue)
    /\ queue' = Tail(queue)

Finish ==
    /\ running # NoTask
    /\ running' = NoTask
    /\ UNCHANGED queue

\* The executor goes down and comes back without what it had in memory.
Forget ==
    /\ queue' = <<>>
    /\ running' = NoTask
=============================================================================
