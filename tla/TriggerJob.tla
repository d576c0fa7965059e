----------------------------- MODULE TriggerJob -----------------------------
(***************************************************************************)
(* How the nodes of the job server agree on who dispatches a firing of one  *)
(* job (TriggerJob.lockToDo).  Every node runs its own Quartz scheduler, so *)
(* each firing starts one execution of lockToDo per live node.  They share  *)
(* a Redisson lock and a Redis counter, the "version" of the job: an        *)
(* execution reads the version, waits for the lock, and dispatches only if  *)
(* the version is still the one it read.                                    *)
(***************************************************************************)
EXTENDS Integers, FiniteSets

CONSTANTS
    Nodes,        \* the job servers
    Threads,      \* the threads of a node's Quartz pool
    MaxFirings,   \* bound: how many times the cron expression comes due
    Nobody,       \* the owner of a free lock; the thread of an execution not begun
    NotRenewed,   \* the owner of a lock whose lease no JVM renews any more
    RedisFaults   \* may Redis commands throw?

\* Redisson identifies the owner of a lock by JVM and thread.
PoolThreads == Nodes \X Threads

ASSUME NodesAssumption == Nodes # {} /\ IsFiniteSet(Nodes)
ASSUME FiringsAssumption == MaxFirings \in Nat
ASSUME OwnersAssumption == {Nobody, NotRenewed} \cap PoolThreads = {} /\ Nobody # NotRenewed
ASSUME FaultsAssumption == RedisFaults \in BOOLEAN

Firings == 1 .. MaxFirings

\* An execution of TriggerJob.execute: a firing as one node sees it.
Executions == Nodes \X Firings
NodeOf(p) == p[1]
FiringOf(p) == p[2]

VARIABLES
    due,      \* the last firing that came due
    alive,    \* the nodes that are up
    pc,       \* where each execution stands
    thread,   \* the pool thread that runs or ran each execution
    seen,     \* the version each execution read before it asked for the lock
    version,  \* the Redis counter (an absent key is 0)
    owner,    \* the thread that holds the Redisson lock
    hold,     \* how often it has locked it and not unlocked it: RLock is re-entrant
    sent,     \* the executions that ran the consumer, i.e. dispatched the job
    late      \* history: the executions that read the version too late (see TooLate)

lock == <<owner, hold>>
vars == <<due, alive, pc, thread, seen, version, owner, hold, sent, late>>

\* How an execution ends: "done", or its node went down ("dead"), or INCR threw
\* and unlock() was not reached ("uncounted"), or unlock() threw ("unreleased").
Ended == {"done", "dead", "uncounted", "unreleased"}
Stages == {"idle", "tryLock", "locked", "send", "finally", "unlock"} \cup Ended

TypeOK ==
    /\ due \in 0 .. MaxFirings
    /\ alive \subseteq Nodes
    /\ pc \in [Executions -> Stages]
    /\ thread \in [Executions -> PoolThreads \cup {Nobody}]
    /\ seen \in [Executions -> Nat]
    /\ version \in Nat
    /\ owner \in PoolThreads \cup {Nobody, NotRenewed}
    /\ hold \in Nat
    /\ hold > 0 <=> owner \in PoolThreads
    /\ sent \subseteq Executions
    /\ late \subseteq Executions

Init ==
    /\ due = 0
    /\ alive = Nodes
    /\ pc = [p \in Executions |-> "idle"]
    /\ thread = [p \in Executions |-> Nobody]
    /\ seen = [p \in Executions |-> 0]
    /\ version = 0
    /\ owner = Nobody
    /\ hold = 0
    /\ sent = {}
    /\ late = {}

Goto(p, stage) == pc' = [pc EXCEPT ![p] = stage]

-----------------------------------------------------------------------------
(* The schedulers and the nodes                                            *)

\* The cron expression comes due; a node that is down misses the firing for
\* good, since the scheduler keeps its triggers in memory.
FiringDue ==
    /\ due < MaxFirings
    /\ due' = due + 1
    /\ pc' = [p \in Executions |->
                IF FiringOf(p) = due + 1 /\ NodeOf(p) \notin alive THEN "dead" ELSE pc[p]]
    /\ UNCHANGED <<alive, thread, seen, version, lock, sent, late>>

\* A node goes down with everything it was running; one other node stays up.
Crash(n) ==
    /\ n \in alive
    /\ alive # {n}
    /\ alive' = alive \ {n}
    /\ pc' = [p \in Executions |->
                IF NodeOf(p) = n /\ FiringOf(p) <= due /\ pc[p] \notin Ended
                THEN "dead" ELSE pc[p]]
    /\ IF owner \in {n} \X Threads THEN owner' = NotRenewed /\ hold' = 0
                                  ELSE UNCHANGED lock
    /\ UNCHANGED <<due, thread, seen, version, sent, late>>

\* JobScheduler.start schedules the running jobs again: the node takes part in
\* the firings that come due from now on.
Restart(n) ==
    /\ n \notin alive
    /\ alive' = alive \cup {n}
    /\ UNCHANGED <<due, pc, thread, seen, version, lock, sent, late>>

\* Redisson's watchdog renews the lease as long as the owner's JVM runs and does
\* not believe the lock given back.
LeaseExpires ==
    /\ owner = NotRenewed
    /\ owner' = Nobody
    /\ UNCHANGED <<due, alive, pc, thread, seen, version, hold, sent, late>>

-----------------------------------------------------------------------------
(* lockToDo, step by step                                                  *)

\* A Quartz thread runs one execution at a time.
FreeThreads(n) ==
    {t \in {n} \X Threads : \A p \in Executions : thread[p] = t => pc[p] \in Ended}

\* Somebody has dispatched the firing and incremented the version already.
TooLate(p) ==
    \E q \in sent : FiringOf(q) = FiringOf(p) /\ pc[q] \in {"unlock", "unreleased", "done"}

ReadVersion(p) ==
    /\ pc[p] = "idle"
    /\ FiringOf(p) <= due
    /\ \E t \in FreeThreads(NodeOf(p)) : thread' = [thread EXCEPT ![p] = t]
    /\ seen' = [seen EXCEPT ![p] = version]
    /\ late' = IF TooLate(p) THEN late \cup {p} ELSE late
    /\ Goto(p, "tryLock")
    /\ UNCHANGED <<due, alive, version, lock, sent>>

\* tryLock enters a free lock, and a lock this very thread never gave back.
Acquire(p) ==
    /\ pc[p] = "tryLock"
    /\ owner \in {Nobody, thread[p]}
    /\ owner' = thread[p]
    /\ hold' = hold + 1
    /\ Goto(p, "locked")
    /\ UNCHANGED <<due, alive, thread, seen, version, sent, late>>

\* tryLock gives up after 60 seconds or is interrupted while it waits: the
\* finally block runs all the same.
TryLockFails(p) ==
    /\ pc[p] = "tryLock"
    /\ owner # thread[p]
    /\ Goto(p, "finally")
    /\ UNCHANGED <<due, alive, thread, seen, version, lock, sent, late>>

\* Mutants of CompareVersion: the version is not compared; the condition is
\* inverted; the early return misses the finally block.
CompareNothing(p) ==
    /\ pc[p] = "locked"
    /\ Goto(p, "send")
    /\ UNCHANGED <<due, alive, thread, seen, version, lock, sent, late>>

CompareInverted(p) ==
    /\ pc[p] = "locked"
    /\ Goto(p, IF version = seen[p] THEN "finally" ELSE "send")
    /\ UNCHANGED <<due, alive, thread, seen, version, lock, sent, late>>

CompareReturns(p) ==
    /\ pc[p] = "locked"
    /\ Goto(p, IF version = seen[p] THEN "send" ELSE "done")
    /\ UNCHANGED <<due, alive, thread, seen, version, lock, sent, late>>

\* Under the lock: has the version moved since ReadVersion?
CompareVersion(p) ==
    /\ pc[p] = "locked"
    /\ Goto(p, IF version = seen[p] THEN "send" ELSE "finally")
    /\ UNCHANGED <<due, alive, thread, seen, version, lock, sent, late>>

\* The consumer dispatches the job; what it throws is caught and logged.
Send(p) ==
    /\ pc[p] = "send"
    /\ sent' = sent \cup {p}
    /\ Goto(p, "finally")
    /\ UNCHANGED <<due, alive, thread, seen, version, lock, late>>

\* Mutants of Increment: the counter is decremented; it is not touched.
IncrementDown(p) ==
    /\ pc[p] = "finally"
    /\ version' = version - 1
    /\ Goto(p, "unlock")
    /\ UNCHANGED <<due, alive, thread, seen, lock, sent, late>>

IncrementNothing(p) ==
    /\ pc[p] = "finally"
    /\ Goto(p, "unlock")
    /\ UNCHANGED <<due, alive, thread, seen, version, lock, sent, late>>

Increment(p) ==
    /\ pc[p] = "finally"
    /\ version' = version + 1
    /\ Goto(p, "unlock")
    /\ UNCHANGED <<due, alive, thread, seen, lock, sent, late>>

\* unlock() undoes one tryLock of its thread; called by a thread that does not
\* hold the lock it throws IllegalMonitorStateException and changes nothing.
GiveBack(p) ==
    IF owner = thread[p]
    THEN hold' = hold - 1 /\ owner' = IF hold = 1 THEN Nobody ELSE owner
    ELSE UNCHANGED lock

Unlock(p) ==
    /\ pc[p] = "unlock"
    /\ GiveBack(p)
    /\ Goto(p, "done")
    /\ UNCHANGED <<due, alive, thread, seen, version, sent, late>>

-----------------------------------------------------------------------------
(* A Redis command throws.  It may have taken effect: only its reply is     *)
(* lost.                                                                    *)

\* The GET before the try block: the execution ends.
FirstGetFails(p) == pc[p] = "idle" /\ FiringOf(p) <= due /\ Goto(p, "done") /\ UNCHANGED <<version, lock>>

\* tryLock throws into the finally block; nobody renews a lock it took.
TryLockThrows(p) ==
    /\ pc[p] = "tryLock"
    /\ \/ UNCHANGED lock
       \/ owner = Nobody /\ owner' = NotRenewed /\ UNCHANGED hold
       \/ owner = thread[p] /\ hold' = hold + 1 /\ UNCHANGED owner
    /\ Goto(p, "finally")
    /\ UNCHANGED version

\* The GET under the lock throws into the finally block.
SecondGetFails(p) == pc[p] = "locked" /\ Goto(p, "finally") /\ UNCHANGED <<version, lock>>

\* INCR throws out of the finally block, before lock.unlock().
IncrementFails(p) ==
    /\ pc[p] = "finally"
    /\ version' \in {version, version + 1}
    /\ Goto(p, "uncounted")
    /\ UNCHANGED lock

\* unlock() throws: the lock is given back, or kept, or left to its lease.
UnlockFails(p) ==
    /\ pc[p] = "unlock"
    /\ \/ GiveBack(p)
       \/ UNCHANGED lock
       \/ owner = thread[p] /\ owner' = NotRenewed /\ hold' = 0
    /\ Goto(p, "unreleased")
    /\ UNCHANGED version

RedisFails(p) ==
    /\ RedisFaults
    /\ \/ FirstGetFails(p)
       \/ TryLockThrows(p)
       \/ SecondGetFails(p)
       \/ IncrementFails(p)
       \/ UnlockFails(p)
    /\ UNCHANGED <<due, alive, thread, seen, sent, late>>

-----------------------------------------------------------------------------

\* The part of lockToDo that is not delayed or broken by the environment.
Proceed(p) ==
    \/ ReadVersion(p)
    \/ Acquire(p)
    \/ CompareVersion(p)
    \/ Send(p)
    \/ Increment(p)
    \/ Unlock(p)

Step(p) ==
    \/ Proceed(p)
    \/ TryLockFails(p)
    \/ RedisFails(p)

Next ==
    \/ FiringDue
    \/ \E n \in Nodes : Crash(n) \/ Restart(n)
    \/ LeaseExpires
    \/ \E p \in Executions : Step(p)

Spec == Init /\ [][Next]_vars

-----------------------------------------------------------------------------
(* Firings that are far enough apart: one is over before the next is due,   *)
(* nobody waits 60 seconds for the lock, and Redis answers.  Within a       *)
(* firing the nodes are as far apart as they like.                           *)

Over(f) == \A n \in Nodes : pc[<<n, f>>] \in Ended

SpacedNext ==
    \/ (\A f \in 1 .. due : Over(f)) /\ FiringDue
    \/ \E n \in Nodes : Crash(n) \/ Restart(n)
    \/ LeaseExpires
    \/ \E p \in Executions : Proceed(p)

\* Threads of the Quartz pool run, and Redis expires leases that nobody renews.
SpacedSpec ==
    /\ Init
    /\ [][SpacedNext]_vars
    /\ \A p \in Executions : WF_vars(Proceed(p))
    /\ WF_vars(LeaseExpires)

-----------------------------------------------------------------------------
(* Properties                                                              *)

Dispatched(f) == \E n \in Nodes : <<n, f>> \in sent

\* The increment of the finally block was not reached, or may not have counted.
NotCounted(p) == pc[p] \in {"dead", "uncounted"}

\* What the lock and the version buy under every schedule, timeout and failure:
\* a version is used for two dispatches only if, after one of the two, the
\* increment of the finally block failed or the node went down before it.
OneSendPerVersion ==
    \A p, q \in sent :
        p # q /\ seen[p] = seen[q] => NotCounted(p) \/ NotCounted(q)

\* The executions of a thread that are between tryLock and unlock(), or whose
\* INCR or unlock() threw.
Holders(t) ==
    {p \in Executions : thread[p] = t
        /\ pc[p] \in {"locked", "send", "finally", "unlock", "uncounted", "unreleased"}}

\* A thread keeps the lock only on behalf of executions that are inside, or that
\* a Redis error kept from giving it back: the finally block leaks no other.
HoldsExplained ==
    owner \in PoolThreads => hold <= Cardinality(Holders(owner))

\* Two nodes dispatch a firing only if one of them went down, or one read the
\* version after the other had dispatched the firing and incremented it: the
\* comparison of lockToDo does not notice that one.
TwiceOnlyByCrashOrLateRead ==
    \A p, q \in sent :
        p # q /\ FiringOf(p) = FiringOf(q) =>
            pc[p] = "dead" \/ pc[q] = "dead" \/ p \in late \/ q \in late

\* A node that runs lockToDo to the end for a firing leaves it dispatched, by
\* itself or by another node ("as long as one JobServer is alive, jobs are
\* still dispatched").
FinishedMeansDispatched ==
    \A p \in Executions : pc[p] = "done" => Dispatched(FiringOf(p))

\* Whoever holds the lock, the finally block gives it back or the lease runs out.
LockIsReleased == owner # Nobody ~> owner = Nobody

\* With spaced firings lockToDo keeps the platform's promise: each firing is
\* dispatched, and dispatched once unless a node goes down on it or is late for it.
Promise == INSTANCE JobFiring WITH
    times <- [f \in Firings |-> Cardinality({n \in Nodes : <<n, f>> \in sent})],
    hurt <- {f \in Firings : \E n \in Nodes : pc[<<n, f>>] = "dead" \/ <<n, f>> \in late}

KeepsPromise == Promise!Spec

\* A firing that came due is dispatched unless every node went down on it.
DueIsDispatched ==
    \A f \in Firings :
        (due >= f) ~> (Dispatched(f) \/ \A n \in Nodes : pc[<<n, f>>] = "dead")
=============================================================================
