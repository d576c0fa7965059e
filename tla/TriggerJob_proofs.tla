-------------------------- MODULE TriggerJob_proofs --------------------------
(***************************************************************************)
(* Proofs about TriggerJob for any set of nodes, any pool of threads and     *)
(* any number of firings: type correctness, that two dispatches share a      *)
(* version only when a dispatching node went down or its INCR threw, that    *)
(* the lock is held only on somebody's account, and the promise JobFiring     *)
(* states for spaced firings.                                                *)
(***************************************************************************)
EXTENDS TriggerJob, FiniteSetTheorems, TLAPS

Running(p) == pc[p] \notin Ended \cup {"idle"}

\* Nobody runs a firing that is not due.
Started == \A p \in Executions : due < FiringOf(p) => pc[p] = "idle"

\* A running execution has a thread of its node to itself.
ThreadsApart ==
    /\ \A p \in Executions : Running(p) => thread[p] \in {NodeOf(p)} \X Threads
    /\ \A p, q \in Executions : Running(p) /\ Running(q) /\ thread[p] = thread[q] => p = q

\* Between tryLock and the finally block the execution's thread owns the lock.
OwnerInside ==
    \A p \in Executions : pc[p] \in {"locked", "send"} => owner = thread[p]

\* An execution that dispatched still owns the lock, or has bumped the version,
\* or its node went down or its INCR threw.
SentAccounted ==
    \A p \in sent :
        /\ pc[p] \in {"finally", "unlock"} \cup Ended
        /\ pc[p] = "finally" => owner = thread[p]
        /\ pc[p] \in {"unlock", "unreleased", "done"} => seen[p] < version

\* Whoever is about to dispatch read a newer version than every dispatch before.
FreshVersion ==
    \A q \in Executions : pc[q] = "send" =>
        \A p \in sent : NotCounted(p) \/ seen[p] < seen[q]

\* The version only grows.
SeenBounded == \A p \in Executions : seen[p] <= version

Safety == /\ Started /\ ThreadsApart /\ SeenBounded /\ OwnerInside
          /\ SentAccounted /\ FreshVersion /\ OneSendPerVersion

IndInv == TypeOK /\ Safety

\* An execution is a pair of a node and a firing.
LEMMA ExecutionPair ==
    /\ \A p \in Executions : NodeOf(p) \in Nodes /\ FiringOf(p) \in Firings /\ p = <<NodeOf(p), FiringOf(p)>>
    /\ \A n \in Nodes, f \in Firings : <<n, f>> \in Executions /\ NodeOf(<<n, f>>) = n /\ FiringOf(<<n, f>>) = f
    /\ \A f \in Firings : f \in Nat /\ f >= 1
  BY FiringsAssumption DEF Executions, NodeOf, FiringOf, Firings

\* The initial state satisfies the inductive invariant.
LEMMA InitIndInv == Init => IndInv
<1> SUFFICES ASSUME Init PROVE IndInv
  OBVIOUS
<1>1. TypeOK
  BY FiringsAssumption, OwnersAssumption DEF Init, TypeOK, Stages
<1>2. Safety
  BY DEF Init, Safety, Started, ThreadsApart, Running, OwnerInside, SentAccounted, FreshVersion,
         OneSendPerVersion, NotCounted, SeenBounded
<1> QED
  BY <1>1, <1>2 DEF IndInv

\* What one execution's step of the program counter leaves alone.
LEMMA OthersStay ==
    ASSUME TypeOK, NEW p \in Executions, NEW stage \in Stages, Goto(p, stage)
    PROVE  /\ pc' \in [Executions -> Stages]
           /\ pc'[p] = stage
           /\ \A q \in Executions : q # p => pc'[q] = pc[q]
  BY DEF TypeOK, Goto

\* A running execution has a thread of the pool.
LEMMA RunningThread ==
    ASSUME IndInv, NEW p \in Executions, Running(p)
    PROVE  thread[p] \in PoolThreads /\ thread[p] \notin {Nobody, NotRenewed}
  BY ExecutionPair, OwnersAssumption DEF IndInv, Safety, ThreadsApart, PoolThreads

\* unlock() keeps the types of the lock.
LEMMA GiveBackType ==
    ASSUME IndInv, NEW p \in Executions, Running(p), GiveBack(p)
    PROVE  /\ owner' \in PoolThreads \cup {Nobody, NotRenewed}
           /\ hold' \in Nat
           /\ hold' > 0 <=> owner' \in PoolThreads
<1>1. thread[p] \in PoolThreads
  BY RunningThread
<1>2. CASE owner = thread[p]
  BY <1>1, <1>2, OwnersAssumption DEF IndInv, TypeOK, GiveBack
<1>3. CASE owner # thread[p]
  BY <1>3 DEF IndInv, TypeOK, GiveBack, lock
<1> QED
  BY <1>2, <1>3

\* Every step keeps the types.
LEMMA TypeStep == IndInv /\ [Next]_vars => TypeOK'
<1> SUFFICES ASSUME IndInv, [Next]_vars PROVE TypeOK'
  OBVIOUS
<1>0. TypeOK
  BY DEF IndInv
<1> USE DEF TypeOK, lock
<1>1. CASE FiringDue
  BY <1>0, <1>1, FiringsAssumption DEF FiringDue, Stages, Ended
<1>2. ASSUME NEW n \in Nodes, Crash(n) PROVE TypeOK'
  <2>1. pc' \in [Executions -> Stages]
    BY <1>0, <1>2 DEF Crash, Stages, Ended
  <2> QED
    BY <1>0, <1>2, <2>1, OwnersAssumption DEF Crash
<1>3. ASSUME NEW n \in Nodes, Restart(n) PROVE TypeOK'
  BY <1>0, <1>3 DEF Restart
<1>4. CASE LeaseExpires
  BY <1>0, <1>4, OwnersAssumption DEF LeaseExpires
<1>5. ASSUME NEW p \in Executions, Step(p) PROVE TypeOK'
  <2>1. CASE ReadVersion(p)
    <3>1. PICK t \in FreeThreads(NodeOf(p)) : thread' = [thread EXCEPT ![p] = t]
      BY <2>1 DEF ReadVersion
    <3>2. t \in PoolThreads
      BY ExecutionPair DEF FreeThreads, PoolThreads
    <3> QED
      BY <1>0, <2>1, <3>1, <3>2 DEF ReadVersion, Goto, Stages
  <2>2. CASE Acquire(p)
    <3>1. thread[p] \in PoolThreads
      BY <2>2, RunningThread DEF Acquire, Running, Ended
    <3> QED
      BY <1>0, <2>2, <3>1, OwnersAssumption DEF Acquire, Goto, Stages
  <2>3. CASE CompareVersion(p)
    BY <1>0, <2>3 DEF CompareVersion, Goto, Stages
  <2>4. CASE Send(p)
    BY <1>0, <2>4 DEF Send, Goto, Stages
  <2>5. CASE Increment(p)
    BY <1>0, <2>5 DEF Increment, Goto, Stages
  <2>6. CASE Unlock(p)
    <3>1. GiveBack(p) /\ Running(p)
      BY <2>6 DEF Unlock, Running, Ended
    <3> QED
      BY <1>0, <2>6, <3>1, GiveBackType DEF Unlock, Goto, Stages, Ended
  <2>7. CASE TryLockFails(p)
    BY <1>0, <2>7 DEF TryLockFails, Goto, Stages
  <2>8. CASE RedisFails(p)
    <3>1. UNCHANGED <<due, alive, thread, seen, sent, late>>
      BY <2>8 DEF RedisFails
    <3>2. pc' \in [Executions -> Stages] /\ version' \in Nat
      BY <1>0, <2>8 DEF RedisFails, FirstGetFails, TryLockThrows, SecondGetFails, IncrementFails,
                        UnlockFails, Goto, Stages, Ended
    <3>3. /\ owner' \in PoolThreads \cup {Nobody, NotRenewed}
          /\ hold' \in Nat
          /\ hold' > 0 <=> owner' \in PoolThreads
      <4>1. CASE TryLockThrows(p)
        <5>1. thread[p] \in PoolThreads
          BY <4>1, RunningThread DEF TryLockThrows, Running, Ended
        <5> QED
          BY <1>0, <4>1, <5>1, OwnersAssumption DEF TryLockThrows
      <4>2. CASE UnlockFails(p)
        <5>1. Running(p)
          BY <4>2 DEF UnlockFails, Running, Ended
        <5>2. CASE GiveBack(p)
          BY <5>1, <5>2, GiveBackType
        <5>3. CASE UNCHANGED lock \/ (owner' = NotRenewed /\ hold' = 0)
          BY <1>0, <5>3, OwnersAssumption
        <5> QED
          BY <4>2, <5>2, <5>3 DEF UnlockFails
      <4> QED
        BY <1>0, <2>8, <4>1, <4>2 DEF RedisFails, FirstGetFails, SecondGetFails, IncrementFails
    <3> QED
      BY <1>0, <3>1, <3>2, <3>3
  <2> QED
    BY <1>5, <2>1, <2>2, <2>3, <2>4, <2>5, <2>6, <2>7, <2>8 DEF Step, Proceed
<1>6. CASE UNCHANGED vars
  BY <1>0, <1>6 DEF vars
<1> QED
  BY <1>1, <1>2, <1>3, <1>4, <1>5, <1>6 DEF Next

-----------------------------------------------------------------------------
(* The safety argument, action by action                                   *)

\* A node's scheduler, its crashes and its restarts only ever move executions to
\* "dead"; a crash takes the lock from nobody who stays up.
LEMMA EnvironmentStep ==
    ASSUME IndInv, FiringDue \/ (\E n \in Nodes : Crash(n) \/ Restart(n)) \/ LeaseExpires
    PROVE  Safety'
<1>0. TypeOK /\ sent \subseteq Executions
  BY DEF IndInv, TypeOK
<1>1. /\ \A p \in Executions : pc'[p] = pc[p] \/ pc'[p] = "dead"
      /\ UNCHANGED <<thread, seen, version, sent>>
  BY <1>0 DEF TypeOK, FiringDue, Crash, Restart, LeaseExpires
<1>2. Started'
  <2>1. due \in Int /\ \A p \in Executions : FiringOf(p) \in Int
    BY <1>0, ExecutionPair, FiringsAssumption DEF TypeOK
  <2> QED
    BY <1>0, <2>1 DEF IndInv, Safety, Started, TypeOK, FiringDue, Crash, Restart, LeaseExpires
<1>3. ThreadsApart'
  BY <1>1 DEF IndInv, Safety, ThreadsApart, Running, Ended
<1>4. OwnerInside'
  <2> SUFFICES ASSUME NEW p \in Executions, pc'[p] \in {"locked", "send"}
               PROVE  owner' = thread'[p]
    BY DEF OwnerInside
  <2>1. pc[p] = pc'[p] /\ owner = thread[p] /\ Running(p)
    BY <1>1 DEF IndInv, Safety, OwnerInside, Running, Ended
  <2>2. thread[p] \in {NodeOf(p)} \X Threads /\ thread[p] \notin {Nobody, NotRenewed}
    BY <2>1, RunningThread DEF IndInv, Safety, ThreadsApart
  <2>3. FiringOf(p) <= due
    BY <1>0, <2>1, ExecutionPair, FiringsAssumption
       DEF IndInv, Safety, Started, TypeOK, Running
  <2>4. ASSUME NEW n \in Nodes, Crash(n), owner \in {n} \X Threads PROVE FALSE
    <3>1. NodeOf(p) = n
      BY <2>1, <2>2, <2>4
    <3> QED
      BY <1>0, <2>1, <2>3, <2>4, <3>1 DEF Crash, Running, TypeOK, Ended
  <2>5. owner' = owner
    BY <2>1, <2>2, <2>4 DEF FiringDue, Crash, Restart, LeaseExpires, lock
  <2> QED
    BY <1>1, <2>1, <2>5
<1>5. SentAccounted'
  <2> SUFFICES ASSUME NEW p \in sent, pc'[p] = "finally" PROVE owner' = thread'[p]
    BY <1>0, <1>1 DEF IndInv, Safety, SentAccounted, Ended
  <2>1. p \in Executions /\ pc[p] = pc'[p] /\ owner = thread[p] /\ Running(p)
    BY <1>0, <1>1 DEF IndInv, Safety, SentAccounted, Running, Ended
  <2>2. thread[p] \in {NodeOf(p)} \X Threads /\ thread[p] \notin {Nobody, NotRenewed}
    BY <2>1, RunningThread DEF IndInv, Safety, ThreadsApart
  <2>3. FiringOf(p) <= due
    BY <1>0, <2>1, ExecutionPair, FiringsAssumption
       DEF IndInv, Safety, Started, TypeOK, Running
  <2>4. ASSUME NEW n \in Nodes, Crash(n), owner \in {n} \X Threads PROVE FALSE
    <3>1. NodeOf(p) = n
      BY <2>1, <2>2, <2>4
    <3> QED
      BY <1>0, <2>1, <2>3, <2>4, <3>1 DEF Crash, Running, TypeOK, Ended
  <2>5. owner' = owner
    BY <2>1, <2>2, <2>4 DEF FiringDue, Crash, Restart, LeaseExpires, lock
  <2> QED
    BY <1>1, <2>1, <2>5
<1>6. FreshVersion' /\ OneSendPerVersion' /\ SeenBounded'
  BY <1>0, <1>1 DEF IndInv, Safety, FreshVersion, OneSendPerVersion, NotCounted, SeenBounded
<1> QED
  BY <1>2, <1>3, <1>4, <1>5, <1>6 DEF Safety

\* No two running executions own the lock.
LEMMA OneInside ==
    ASSUME IndInv, NEW p \in Executions, NEW q \in Executions,
           Running(p), Running(q), owner = thread[p], owner = thread[q]
    PROVE  p = q
  BY DEF IndInv, Safety, ThreadsApart

\* Once an execution runs on, it is for a firing that is due and on a thread of
\* its own: what keeps Started and ThreadsApart when only its stage changes.
LEMMA ThreadsStay ==
    ASSUME IndInv, NEW p \in Executions, Running(p), NEW stage \in Stages \ {"idle"}, Goto(p, stage),
           UNCHANGED <<due, thread>>
    PROVE  Started' /\ ThreadsApart'
<1>1. /\ pc'[p] = stage
      /\ \A q \in Executions : q # p => pc'[q] = pc[q]
  BY OthersStay DEF IndInv
<1>2. Started'
  BY <1>1 DEF IndInv, Safety, Started, Running
<1>3. ThreadsApart'
  BY <1>1 DEF IndInv, Safety, ThreadsApart, Running
<1> QED
  BY <1>2, <1>3

\* A step of lockToDo keeps the safety argument.
LEMMA ProceedStep ==
    ASSUME IndInv, NEW q \in Executions, Proceed(q)
    PROVE  Safety'
<1> USE DEF IndInv, Safety
<1>0. TypeOK /\ sent \subseteq Executions /\ version \in Nat /\ seen \in [Executions -> Nat]
      /\ thread \in [Executions -> PoolThreads \cup {Nobody}]
  BY DEF TypeOK
<1>1. CASE ReadVersion(q)
  <2>1. q \notin sent /\ pc[q] = "idle" /\ FiringOf(q) <= due
    BY <1>1 DEF ReadVersion, SentAccounted, Ended
  <2>2. /\ Goto(q, "tryLock")
        /\ seen' = [seen EXCEPT ![q] = version]
        /\ UNCHANGED <<due, version, owner, hold, sent>>
    BY <1>1 DEF ReadVersion, lock
  <2>3. PICK t \in FreeThreads(NodeOf(q)) : thread' = [thread EXCEPT ![q] = t]
    BY <1>1 DEF ReadVersion
  <2>4. /\ pc'[q] = "tryLock"
        /\ \A p \in Executions : p # q => pc'[p] = pc[p]
    BY <1>0, <2>2, OthersStay DEF Stages
  <2>5. t \in {NodeOf(q)} \X Threads /\ \A p \in Executions : thread[p] = t => pc[p] \in Ended
    BY <2>3 DEF FreeThreads
  <2>6. thread'[q] = t /\ \A p \in Executions : p # q => thread'[p] = thread[p]
    BY <1>0, <2>3
  <2>7. seen'[q] = version /\ \A p \in Executions : p # q => seen'[p] = seen[p]
    BY <1>0, <2>2
  <2>8. Started'
    <3>1. due \in Int /\ FiringOf(q) \in Int
      BY <1>0, ExecutionPair, FiringsAssumption DEF TypeOK
    <3> QED
      BY <2>1, <2>2, <2>4, <3>1 DEF Started
  <2>9. ThreadsApart'
    BY <2>4, <2>5, <2>6 DEF ThreadsApart, Running
  <2>10. SeenBounded' /\ OwnerInside'
    BY <1>0, <2>2, <2>4, <2>6, <2>7 DEF SeenBounded, OwnerInside
  <2>11. SentAccounted' /\ FreshVersion' /\ OneSendPerVersion'
    BY <1>0, <2>1, <2>2, <2>4, <2>6, <2>7 DEF SentAccounted, FreshVersion, OneSendPerVersion, NotCounted
  <2> QED
    BY <2>8, <2>9, <2>10, <2>11
<1>2. CASE Acquire(q)
  <2>1. q \notin sent /\ Running(q) /\ owner \in {Nobody, thread[q]}
    BY <1>2 DEF Acquire, SentAccounted, Running, Ended
  <2>2. /\ Goto(q, "locked") /\ owner' = thread[q]
        /\ UNCHANGED <<due, thread, seen, version, sent>>
    BY <1>2 DEF Acquire
  <2>3. /\ pc'[q] = "locked"
        /\ \A p \in Executions : p # q => pc'[p] = pc[p]
    BY <1>0, <2>2, OthersStay DEF Stages
  <2>4. Started' /\ ThreadsApart'
    BY <2>1, <2>2, ThreadsStay DEF Stages
  <2>5. ASSUME NEW p \in Executions, p # q, Running(p) PROVE owner # thread[p]
    BY <2>1, <2>5, OneInside, RunningThread
  <2>6. SeenBounded' /\ OwnerInside'
    BY <2>2, <2>3, <2>5 DEF SeenBounded, OwnerInside, Running, Ended
  <2>7. SentAccounted' /\ FreshVersion' /\ OneSendPerVersion'
    BY <1>0, <2>1, <2>2, <2>3, <2>5 DEF SentAccounted, FreshVersion, OneSendPerVersion, NotCounted, Running, Ended
  <2> QED
    BY <2>4, <2>6, <2>7
<1>3. CASE CompareVersion(q)
  <2>1. q \notin sent /\ owner = thread[q] /\ Running(q)
    BY <1>3 DEF CompareVersion, SentAccounted, OwnerInside, Running, Ended
  <2> DEFINE stage == IF version = seen[q] THEN "send" ELSE "finally"
  <2>2. Goto(q, stage) /\ UNCHANGED <<due, thread, seen, version, owner, sent>>
    BY <1>3 DEF CompareVersion, lock
  <2>3. /\ pc'[q] = stage
        /\ \A p \in Executions : p # q => pc'[p] = pc[p]
    BY <1>0, <2>2, OthersStay DEF Stages
  <2>4. Started' /\ ThreadsApart'
    BY <2>1, <2>2, ThreadsStay DEF Stages
  <2>5. \A p \in sent : NotCounted(p) \/ seen[p] < version
    <3> SUFFICES ASSUME NEW p \in sent, pc[p] = "finally" PROVE FALSE
      BY DEF SentAccounted, Ended, NotCounted
    <3>1. owner = thread[p] /\ Running(p) /\ p \in Executions
      BY <1>0 DEF SentAccounted, Running, Ended
    <3> QED
      BY <2>1, <3>1, OneInside
  <2>6. SeenBounded' /\ OwnerInside'
    BY <2>1, <2>2, <2>3 DEF SeenBounded, OwnerInside
  <2>7. SentAccounted' /\ OneSendPerVersion'
    BY <1>0, <2>1, <2>2, <2>3 DEF SentAccounted, OneSendPerVersion, NotCounted
  <2>8. FreshVersion'
    BY <1>0, <2>1, <2>2, <2>3, <2>5 DEF FreshVersion, NotCounted
  <2> QED
    BY <2>4, <2>6, <2>7, <2>8
<1>4. CASE Send(q)
  <2>1. q \notin sent /\ owner = thread[q] /\ Running(q)
    BY <1>4 DEF Send, SentAccounted, OwnerInside, Running, Ended
  <2>2. Goto(q, "finally") /\ sent' = sent \cup {q} /\ UNCHANGED <<due, thread, seen, version, owner>>
    BY <1>4 DEF Send, lock
  <2>3. /\ pc'[q] = "finally"
        /\ \A p \in Executions : p # q => pc'[p] = pc[p]
    BY <1>0, <2>2, OthersStay DEF Stages
  <2>4. Started' /\ ThreadsApart'
    BY <2>1, <2>2, ThreadsStay DEF Stages
  <2>5. \A p \in sent : NotCounted(p) \/ seen[p] < seen[q]
    BY <1>4 DEF Send, FreshVersion, NotCounted
  <2>6. OneSendPerVersion'
    <3>1. \A p \in sent : p # q /\ (NotCounted(p)' \/ seen[p] # seen[q])
      BY <1>0, <2>1, <2>3, <2>5 DEF NotCounted
    <3> QED
      BY <1>0, <2>1, <2>2, <2>3, <3>1 DEF OneSendPerVersion, NotCounted
  <2>7. FreshVersion'
    <3>1. \A p \in Executions : pc[p] = "send" => p = q
      BY <2>1, OneInside DEF OwnerInside, Running, Ended
    <3> QED
      BY <1>0, <2>2, <2>3, <3>1 DEF FreshVersion, NotCounted
  <2>8. SeenBounded' /\ OwnerInside' /\ SentAccounted'
    BY <1>0, <2>1, <2>2, <2>3 DEF SeenBounded, OwnerInside, SentAccounted
  <2> QED
    BY <2>4, <2>6, <2>7, <2>8
<1>5. CASE Increment(q)
  <2>1. Running(q) /\ pc[q] = "finally"
    BY <1>5 DEF Increment, Running, Ended
  <2>2. Goto(q, "unlock") /\ version' = version + 1 /\ UNCHANGED <<due, thread, seen, owner, sent>>
    BY <1>5 DEF Increment, lock
  <2>3. /\ pc'[q] = "unlock"
        /\ \A p \in Executions : p # q => pc'[p] = pc[p]
    BY <1>0, <2>2, OthersStay DEF Stages
  <2>4. Started' /\ ThreadsApart'
    BY <2>1, <2>2, ThreadsStay DEF Stages
  <2>5. SeenBounded' /\ OwnerInside' /\ FreshVersion' /\ OneSendPerVersion'
    BY <1>0, <2>1, <2>2, <2>3 DEF SeenBounded, OwnerInside, FreshVersion, OneSendPerVersion, NotCounted
  <2>6. SentAccounted'
    BY <1>0, <2>1, <2>2, <2>3 DEF SeenBounded, SentAccounted
  <2> QED
    BY <2>4, <2>5, <2>6
<1>6. CASE Unlock(q)
  <2>1. Running(q) /\ pc[q] = "unlock" /\ GiveBack(q)
    BY <1>6 DEF Unlock, Running, Ended
  <2>2. Goto(q, "done") /\ UNCHANGED <<due, thread, seen, version, sent>>
    BY <1>6 DEF Unlock
  <2>3. /\ pc'[q] = "done"
        /\ \A p \in Executions : p # q => pc'[p] = pc[p]
    BY <1>0, <2>2, OthersStay DEF Stages, Ended
  <2>4. Started' /\ ThreadsApart'
    BY <2>1, <2>2, ThreadsStay DEF Stages, Ended
  <2>5. ASSUME NEW p \in Executions, p # q, Running(p), owner = thread[p] PROVE owner' = thread[p]
    BY <2>1, <2>5, OneInside DEF GiveBack, lock
  <2>6. SeenBounded' /\ OwnerInside'
    BY <2>2, <2>3, <2>5 DEF SeenBounded, OwnerInside, Running, Ended
  <2>7. SentAccounted' /\ FreshVersion' /\ OneSendPerVersion'
    BY <1>0, <2>1, <2>2, <2>3, <2>5 DEF SentAccounted, FreshVersion, OneSendPerVersion, NotCounted, Running, Ended
  <2> QED
    BY <2>4, <2>6, <2>7
<1> QED
  BY <1>1, <1>2, <1>3, <1>4, <1>5, <1>6 DEF Proceed

\* A tryLock that fails, and a Redis command that throws, keep the argument: an
\* execution whose INCR or second GET throws dispatches nothing any more.
LEMMA FailureStep ==
    ASSUME IndInv, NEW q \in Executions, TryLockFails(q) \/ RedisFails(q)
    PROVE  Safety'
<1> USE DEF IndInv, Safety
<1>0. TypeOK /\ sent \subseteq Executions /\ version \in Nat /\ seen \in [Executions -> Nat]
  BY DEF TypeOK
<1>1. UNCHANGED <<due, thread, seen, sent>>
  BY DEF TryLockFails, RedisFails
<1>2. CASE FirstGetFails(q)
  <2>1. q \notin sent /\ pc[q] = "idle" /\ FiringOf(q) <= due
    BY <1>2 DEF FirstGetFails, SentAccounted, Ended
  <2>2. Goto(q, "done") /\ UNCHANGED <<version, owner>>
    BY <1>2 DEF FirstGetFails, lock
  <2>3. /\ pc'[q] = "done"
        /\ \A p \in Executions : p # q => pc'[p] = pc[p]
    BY <1>0, <2>2, OthersStay DEF Stages, Ended
  <2>4. Started'
    <3>1. due \in Int /\ FiringOf(q) \in Int
      BY <1>0, ExecutionPair, FiringsAssumption DEF TypeOK
    <3> QED
      BY <1>1, <2>1, <2>3, <3>1 DEF Started
  <2>5. ThreadsApart'
    BY <1>1, <2>3 DEF ThreadsApart, Running, Ended
  <2>6. SeenBounded' /\ OwnerInside' /\ SentAccounted' /\ FreshVersion' /\ OneSendPerVersion'
    BY <1>0, <1>1, <2>1, <2>2, <2>3
    DEF SeenBounded, OwnerInside, SentAccounted, FreshVersion, OneSendPerVersion, NotCounted
  <2> QED
    BY <2>4, <2>5, <2>6
<1>3. CASE TryLockFails(q) \/ TryLockThrows(q) \/ SecondGetFails(q)
  <2>1. q \notin sent /\ Running(q) /\ pc[q] \in {"tryLock", "locked"}
    BY <1>3 DEF TryLockFails, TryLockThrows, SecondGetFails, SentAccounted, Running, Ended
  <2>2. Goto(q, "finally") /\ version' = version
    BY <1>3 DEF TryLockFails, TryLockThrows, SecondGetFails
  <2>3. /\ pc'[q] = "finally"
        /\ \A p \in Executions : p # q => pc'[p] = pc[p]
    BY <1>0, <2>2, OthersStay DEF Stages
  <2>4. Started' /\ ThreadsApart'
    BY <1>1, <2>1, <2>2, ThreadsStay DEF Stages
  <2>5. ASSUME NEW p \in Executions, p # q, Running(p), owner = thread[p] PROVE owner' = thread[p]
    <3>1. owner # Nobody
      BY <2>5, RunningThread
    <3> QED
      BY <1>3, <2>5, <3>1 DEF TryLockFails, TryLockThrows, SecondGetFails, lock
  <2>6. SeenBounded' /\ OwnerInside'
    BY <1>1, <2>2, <2>3, <2>5 DEF SeenBounded, OwnerInside, Running, Ended
  <2>7. SentAccounted' /\ FreshVersion' /\ OneSendPerVersion'
    BY <1>0, <1>1, <2>1, <2>2, <2>3, <2>5
    DEF SentAccounted, FreshVersion, OneSendPerVersion, NotCounted, Running, Ended
  <2> QED
    BY <2>4, <2>6, <2>7
<1>4. CASE IncrementFails(q)
  <2>1. Running(q) /\ pc[q] = "finally"
    BY <1>4 DEF IncrementFails, Running, Ended
  <2>2. Goto(q, "uncounted") /\ version' \in Nat /\ version' >= version /\ owner' = owner
    BY <1>0, <1>4 DEF IncrementFails, lock
  <2>3. /\ pc'[q] = "uncounted"
        /\ \A p \in Executions : p # q => pc'[p] = pc[p]
    BY <1>0, <2>2, OthersStay DEF Stages, Ended
  <2>4. Started' /\ ThreadsApart'
    BY <1>1, <2>1, <2>2, ThreadsStay DEF Stages, Ended
  <2>5. SeenBounded' /\ OwnerInside' /\ FreshVersion' /\ OneSendPerVersion'
    BY <1>0, <1>1, <2>1, <2>2, <2>3
    DEF SeenBounded, OwnerInside, FreshVersion, OneSendPerVersion, NotCounted
  <2>6. SentAccounted'
    BY <1>0, <1>1, <2>1, <2>2, <2>3 DEF SentAccounted, Ended
  <2> QED
    BY <2>4, <2>5, <2>6
<1>5. CASE UnlockFails(q)
  <2>1. Running(q) /\ pc[q] = "unlock"
    BY <1>5 DEF UnlockFails, Running, Ended
  <2>2. Goto(q, "unreleased") /\ version' = version
    BY <1>5 DEF UnlockFails
  <2>3. /\ pc'[q] = "unreleased"
        /\ \A p \in Executions : p # q => pc'[p] = pc[p]
    BY <1>0, <2>2, OthersStay DEF Stages, Ended
  <2>4. Started' /\ ThreadsApart'
    BY <1>1, <2>1, <2>2, ThreadsStay DEF Stages, Ended
  <2>5. ASSUME NEW p \in Executions, p # q, Running(p), owner = thread[p] PROVE owner' = thread[p]
    BY <1>5, <2>1, <2>5, OneInside DEF UnlockFails, GiveBack, lock
  <2>6. SeenBounded' /\ OwnerInside'
    BY <1>1, <2>2, <2>3, <2>5 DEF SeenBounded, OwnerInside, Running, Ended
  <2>7. SentAccounted' /\ FreshVersion' /\ OneSendPerVersion'
    BY <1>0, <1>1, <2>1, <2>2, <2>3, <2>5
    DEF SentAccounted, FreshVersion, OneSendPerVersion, NotCounted, Running, Ended
  <2> QED
    BY <2>4, <2>6, <2>7
<1> QED
  BY <1>2, <1>3, <1>4, <1>5 DEF RedisFails

\* Every step keeps the inductive invariant.
LEMMA IndInvStep == IndInv /\ [Next]_vars => IndInv'
<1> SUFFICES ASSUME IndInv, [Next]_vars PROVE IndInv'
  OBVIOUS
<1>1. TypeOK'
  BY TypeStep
<1>2. Safety'
  <2>1. CASE UNCHANGED vars
    BY <2>1 DEF vars, Safety, IndInv, Started, ThreadsApart, Running, SeenBounded, OwnerInside,
                SentAccounted, FreshVersion, OneSendPerVersion, NotCounted
  <2> QED
    BY <2>1, EnvironmentStep, ProceedStep, FailureStep DEF Next, Step
<1> QED
  BY <1>1, <1>2 DEF IndInv

\* Every variable keeps a value of its type.
THEOREM TypeCorrect == Spec => []TypeOK
<1>1. IndInv => TypeOK
  BY DEF IndInv
<1> QED
  BY <1>1, InitIndInv, IndInvStep, PTL DEF Spec

\* However the nodes interleave, time out and fail, two dispatches of the job
\* carry the same version only if, after one of the two, the increment of the
\* finally block threw or the node went down before it.
THEOREM OneSendPerVersionHolds == Spec => []OneSendPerVersion
<1>1. IndInv => OneSendPerVersion
  BY DEF IndInv, Safety
<1> QED
  BY <1>1, InitIndInv, IndInvStep, PTL DEF Spec

-----------------------------------------------------------------------------
(* The lock is held on somebody's account                                   *)

Owing == {"locked", "send", "finally", "unlock", "uncounted", "unreleased"}

\* The executions are finitely many, and so are the holders of a lock.
LEMMA FinitelyMany ==
    ASSUME NEW S \in SUBSET Executions
    PROVE  IsFiniteSet(S) /\ Cardinality(S) \in Nat
<1>1. IsFiniteSet(Firings)
  BY FiringsAssumption, FS_Interval DEF Firings
<1>2. IsFiniteSet(Executions)
  BY <1>1, NodesAssumption, FS_Product DEF Executions
<1> QED
  BY <1>2, FS_Subset, FS_CardinalityType

\* Holders after a step in which one execution changes its stage.
LEMMA HoldersChange ==
    ASSUME IndInv, NEW q \in Executions, NEW stage \in Stages, Goto(q, stage),
           Running(q), thread' = thread, NEW t
    PROVE  /\ t # thread[q] => Holders(t)' = Holders(t)
           /\ t = thread[q] /\ stage \in Owing =>
                 /\ Cardinality(Holders(t)') >= Cardinality(Holders(t))
                 /\ Cardinality(Holders(t)') >= 1
                 /\ pc[q] \notin Owing => Cardinality(Holders(t)') = Cardinality(Holders(t)) + 1
           /\ t = thread[q] /\ stage \notin Owing =>
                 Cardinality(Holders(t)') >= Cardinality(Holders(t)) - 1
<1>1. /\ pc'[q] = stage
      /\ \A p \in Executions : p # q => pc'[p] = pc[p]
  BY OthersStay DEF IndInv
<1>2. t # thread[q] => Holders(t)' = Holders(t)
  BY <1>1 DEF Holders
<1>3. IsFiniteSet(Holders(t)) /\ Cardinality(Holders(t)) \in Nat
  BY FinitelyMany DEF Holders
<1>4. CASE t = thread[q] /\ stage \in Owing
  <2>1. Holders(t)' = Holders(t) \cup {q}
    BY <1>1, <1>4 DEF Holders, Owing
  <2>2. q \in Holders(t) <=> pc[q] \in Owing
    BY <1>4 DEF Holders, Owing
  <2>3. CASE q \in Holders(t)
    <3>1. Holders(t)' = Holders(t)
      BY <2>1, <2>3
    <3>2. Cardinality(Holders(t)) # 0
      BY <1>3, <2>3, FS_EmptySet
    <3> QED
      BY <1>2, <1>3, <1>4, <2>2, <2>3, <3>1, <3>2
  <2>4. CASE q \notin Holders(t)
    <3>1. Cardinality(Holders(t)') = Cardinality(Holders(t)) + 1
      BY <1>3, <2>1, <2>4, FS_AddElement
    <3> QED
      BY <1>2, <1>3, <1>4, <3>1
  <2> QED
    BY <2>3, <2>4
<1>5. CASE t = thread[q] /\ stage \notin Owing
  <2>1. Holders(t)' = Holders(t) \ {q}
    BY <1>1, <1>5 DEF Holders, Owing
  <2>2. Cardinality(Holders(t) \ {q}) >= Cardinality(Holders(t)) - 1
    <3>1. Cardinality(Holders(t) \ {q}) =
            IF q \in Holders(t) THEN Cardinality(Holders(t)) - 1 ELSE Cardinality(Holders(t))
      BY <1>3, FS_RemoveElement
    <3> QED
      BY <1>3, <3>1
  <2> QED
    BY <1>2, <1>5, <2>1, <2>2
<1> QED
  BY <1>2, <1>4, <1>5

\* The lock is never held more often than its thread's executions account for.
LEMMA HoldsStep == IndInv /\ HoldsExplained /\ [Next]_vars => HoldsExplained'
<1> SUFFICES ASSUME IndInv, HoldsExplained, [Next]_vars,
                    NEW t \in PoolThreads, owner' = t
             PROVE  hold' <= Cardinality(Holders(t)')
  BY DEF HoldsExplained, Holders
<1>0. TypeOK /\ hold \in Nat /\ t \notin {Nobody, NotRenewed}
  BY OwnersAssumption DEF IndInv, TypeOK
<1>1. Cardinality(Holders(t)) \in Nat /\ Cardinality(Holders(t)') \in Nat
  <2>1. Holders(t) \in SUBSET Executions /\ Holders(t)' \in SUBSET Executions
    BY DEF Holders
  <2> QED
    BY <2>1, FinitelyMany
<1>2. owner = t => hold <= Cardinality(Holders(t))
  BY DEF HoldsExplained, Holders
<1>3. CASE UNCHANGED vars
  BY <1>2, <1>3 DEF vars, lock, Holders
<1>4. CASE FiringDue \/ (\E n \in Nodes : Crash(n) \/ Restart(n)) \/ LeaseExpires
  <2>1. owner = t /\ hold' = hold
    BY <1>0, <1>4 DEF FiringDue, Crash, Restart, LeaseExpires, lock
  <2>2. ASSUME NEW p \in Executions, thread[p] = t, pc[p] \in Owing PROVE pc'[p] = pc[p]
    <3>1. due >= FiringOf(p)
      BY <1>0, <2>2, ExecutionPair, FiringsAssumption DEF IndInv, Safety, Started, TypeOK, Owing
    <3>2. ASSUME NEW n \in Nodes, Crash(n), pc'[p] # pc[p] PROVE FALSE
      <4>1. Running(p) /\ NodeOf(p) = n
        BY <1>0, <2>2, <3>2 DEF Crash, TypeOK, Running, Owing, Ended
      <4>2. owner \in {n} \X Threads
        BY <2>1, <2>2, <4>1 DEF IndInv, Safety, ThreadsApart
      <4> QED
        BY <1>0, <2>1, <3>2, <4>2 DEF Crash
    <3> QED
      BY <1>0, <1>4, <3>1, <3>2, ExecutionPair, FiringsAssumption DEF FiringDue, Restart, LeaseExpires, TypeOK
  <2>3. /\ thread' = thread
        /\ \A p \in Executions : pc'[p] = pc[p] \/ pc'[p] = "dead"
    BY <1>0, <1>4 DEF TypeOK, FiringDue, Crash, Restart, LeaseExpires
  <2>4. Holders(t)' = Holders(t)
    BY <2>2, <2>3 DEF Holders, Owing
  <2> QED
    BY <1>2, <2>1, <2>4
<1>5. ASSUME NEW q \in Executions, Step(q) PROVE hold' <= Cardinality(Holders(t)')
  <2>0. ReadVersion(q) \/ thread' = thread
    BY <1>5 DEF Step, Proceed, RedisFails, Acquire, CompareVersion, Send, Increment, Unlock,
                TryLockFails
  <2>1. CASE ReadVersion(q) \/ FirstGetFails(q)
    <3>1. owner = t /\ hold' = hold /\ pc[q] = "idle"
      BY <2>1 DEF ReadVersion, FirstGetFails, lock
    <3>2. PICK stage \in {"tryLock", "done"} : Goto(q, stage)
      BY <2>1 DEF ReadVersion, FirstGetFails
    <3>3. /\ pc'[q] \notin Owing
          /\ \A p \in Executions : p # q => pc'[p] = pc[p] /\ thread'[p] = thread[p]
      BY <1>0, <2>0, <3>2 DEF TypeOK, Goto, ReadVersion, Owing
    <3>4. Holders(t)' = Holders(t)
      BY <3>1, <3>3 DEF Holders, Owing
    <3> QED
      BY <1>2, <3>1, <3>4
  <2>2. CASE Acquire(q)
    <3>1. Goto(q, "locked") /\ Running(q) /\ thread' = thread /\ pc[q] \notin Owing
      BY <2>2 DEF Acquire, Running, Ended, Owing
    <3>2. t = thread[q] /\ hold' = hold + 1 /\ owner \in {Nobody, t}
      BY <2>2 DEF Acquire
    <3>3. Cardinality(Holders(t)') = Cardinality(Holders(t)) + 1
      BY <3>1, <3>2, HoldersChange DEF Stages, Owing
    <3>4. hold <= Cardinality(Holders(t))
      BY <1>0, <1>1, <1>2, <3>2, OwnersAssumption DEF TypeOK
    <3> QED
      BY <1>0, <1>1, <3>2, <3>3, <3>4
  <2>3. CASE CompareVersion(q) \/ Send(q) \/ Increment(q) \/ SecondGetFails(q) \/ IncrementFails(q)
    <3>1. Running(q) /\ thread' = thread /\ owner = t /\ hold' = hold
      BY <2>0, <2>3 DEF ReadVersion, CompareVersion, Send, Increment, SecondGetFails, IncrementFails,
                        Running, Ended, lock
    <3>2. PICK stage \in Owing : Goto(q, stage)
      BY <2>3 DEF CompareVersion, Send, Increment, SecondGetFails, IncrementFails, Owing
    <3>3. Cardinality(Holders(t)') >= Cardinality(Holders(t))
      <4>1. stage \in Stages
        BY DEF Owing, Stages, Ended
      <4> QED
        BY <1>1, <3>1, <3>2, <4>1, HoldersChange
    <3> QED
      BY <1>0, <1>1, <1>2, <3>1, <3>3
  <2>4. CASE TryLockFails(q) \/ TryLockThrows(q)
    <3>1. Running(q) /\ thread' = thread /\ Goto(q, "finally") /\ pc[q] \notin Owing
      BY <2>0, <2>4 DEF ReadVersion, TryLockFails, TryLockThrows, Running, Ended, Owing
    <3>2. owner = t /\ (hold' = hold \/ (t = thread[q] /\ hold' = hold + 1))
      BY <1>0, <2>4 DEF TryLockFails, TryLockThrows, lock
    <3>3. /\ t # thread[q] => Holders(t)' = Holders(t)
          /\ t = thread[q] => Cardinality(Holders(t)') = Cardinality(Holders(t)) + 1
      BY <3>1, HoldersChange DEF Stages, Owing
    <3> QED
      BY <1>0, <1>1, <1>2, <3>2, <3>3
  <2>5. CASE Unlock(q) \/ UnlockFails(q)
    <3>1. Running(q) /\ thread' = thread
      BY <2>0, <2>5 DEF ReadVersion, Unlock, UnlockFails, Running, Ended
    <3>2. owner = t /\ (hold' = hold \/ (t = thread[q] /\ hold' = hold - 1))
      BY <1>0, <2>5 DEF Unlock, UnlockFails, GiveBack, lock
    <3>3. CASE Unlock(q)
      <4>1. t = thread[q] => hold' = hold - 1
        BY <3>2, <3>3 DEF Unlock, GiveBack
      <4>2. Goto(q, "done")
        BY <3>3 DEF Unlock
      <4>3. /\ t # thread[q] => Holders(t)' = Holders(t)
            /\ t = thread[q] => Cardinality(Holders(t)') >= Cardinality(Holders(t)) - 1
        BY <3>1, <4>2, HoldersChange DEF Stages, Ended, Owing
      <4> QED
        BY <1>0, <1>1, <1>2, <3>2, <4>1, <4>3
    <3>4. CASE UnlockFails(q)
      <4>1. Goto(q, "unreleased")
        BY <3>4 DEF UnlockFails
      <4>2. /\ t # thread[q] => Holders(t)' = Holders(t)
            /\ t = thread[q] => Cardinality(Holders(t)') >= Cardinality(Holders(t))
        BY <3>1, <4>1, HoldersChange DEF Stages, Ended, Owing
      <4> QED
        BY <1>0, <1>1, <1>2, <3>2, <4>2
    <3> QED
      BY <2>5, <3>3, <3>4
  <2> QED
    BY <1>5, <2>1, <2>2, <2>3, <2>4, <2>5 DEF Step, Proceed, RedisFails
<1> QED
  BY <1>3, <1>4, <1>5 DEF Next

\* lockToDo leaks the lock in no other way than a Redis error at INCR or unlock().
THEOREM HoldsExplainedHolds == Spec => []HoldsExplained
<1>1. Init => HoldsExplained
  BY OwnersAssumption DEF Init, HoldsExplained
<1> QED
  BY <1>1, InitIndInv, IndInvStep, HoldsStep, PTL DEF Spec

-----------------------------------------------------------------------------
(* Spaced firings                                                           *)

HasRead(p) == pc[p] \notin {"idle", "dead"}

\* Only the latest firing is being executed, nothing fails but nodes, and
\* whoever is past the wait for the lock owns it.
OneFiringAtATime ==
    /\ \A p \in Executions : FiringOf(p) < due => pc[p] \in {"done", "dead"}
    /\ \A p \in Executions : pc[p] \notin {"uncounted", "unreleased"}
    /\ \A p \in Executions : pc[p] \in {"locked", "send", "finally", "unlock"} => owner = thread[p]

\* The version stands still from the dispatch to the dispatcher's increment.
VersionStands ==
    \A p \in Executions :
        pc[p] = "send" \/ (p \in sent /\ pc[p] = "finally") => seen[p] = version

\* Whoever read a later version than a dispatcher's read it late, or that
\* dispatcher's node went down.
LaterMeansLate ==
    \A p \in sent, q \in Executions :
        FiringOf(p) = FiringOf(q) /\ HasRead(q) /\ seen[p] < seen[q] => pc[p] = "dead" \/ q \in late

\* The version moves on, and lockToDo gets to its finally block, only once the
\* firing is dispatched.
MovedMeansDispatched ==
    \A p \in Executions :
        \/ pc[p] \in {"finally", "unlock", "done"}
        \/ HasRead(p) /\ seen[p] # version
        => Dispatched(FiringOf(p))

SpacedArgument == OneFiringAtATime /\ VersionStands /\ LaterMeansLate /\ MovedMeansDispatched
SpacedInv == IndInv /\ SpacedArgument

\* The spacing only removes behaviours.
LEMMA SpacedIsNext == SpacedNext => Next
  BY DEF SpacedNext, Next, Step

\* Steps of the schedulers, the nodes and the lease keep the argument.
LEMMA SpacedEnvironmentStep ==
    ASSUME SpacedInv,
           \/ (\A f \in 1 .. due : Over(f)) /\ FiringDue
           \/ \E n \in Nodes : Crash(n) \/ Restart(n)
           \/ LeaseExpires
    PROVE  SpacedArgument'
<1> USE DEF SpacedInv, SpacedArgument, IndInv
<1>0. TypeOK /\ sent \subseteq Executions /\ due \in Nat
  BY DEF TypeOK
<1>1. /\ \A p \in Executions : pc'[p] = pc[p] \/ pc'[p] = "dead"
      /\ UNCHANGED <<thread, seen, version, sent, late>>
  BY <1>0 DEF TypeOK, FiringDue, Crash, Restart, LeaseExpires
<1>2. VersionStands' /\ LaterMeansLate' /\ MovedMeansDispatched'
  BY <1>0, <1>1 DEF VersionStands, LaterMeansLate, MovedMeansDispatched, HasRead, Dispatched
<1>3. OneFiringAtATime'
  <2>1. \A p \in Executions : FiringOf(p) < due' => pc'[p] \in {"done", "dead"}
    <3>1. CASE (\A f \in 1 .. due : Over(f)) /\ FiringDue
      <4>1. due' = due + 1 /\ due + 1 \in Firings
        BY <1>0, <3>1, FiringsAssumption DEF FiringDue, Firings
      <4>2. \A p \in Executions : FiringOf(p) <= due => pc[p] \in Ended
        BY <3>1, <4>1, ExecutionPair DEF Over
      <4> QED
        BY <1>0, <1>1, <4>1, <4>2, ExecutionPair DEF OneFiringAtATime, Ended
    <3>2. CASE due' = due
      BY <1>1, <3>2 DEF OneFiringAtATime
    <3> QED
      BY <3>1, <3>2 DEF Crash, Restart, LeaseExpires
  <2>2. \A p \in Executions : pc'[p] \notin {"uncounted", "unreleased"}
    BY <1>1 DEF OneFiringAtATime
  <2>3. ASSUME NEW p \in Executions, pc'[p] \in {"locked", "send", "finally", "unlock"}
        PROVE  owner' = thread'[p]
    <3>1. pc[p] = pc'[p] /\ owner = thread[p] /\ Running(p)
      BY <1>1, <2>3 DEF OneFiringAtATime, Running, Ended
    <3>2. thread[p] \in {NodeOf(p)} \X Threads /\ thread[p] \notin {Nobody, NotRenewed}
      BY <3>1, RunningThread DEF Safety, ThreadsApart
    <3>3. FiringOf(p) <= due
      BY <1>0, <3>1, ExecutionPair DEF Safety, Started, Running
    <3>4. ASSUME NEW n \in Nodes, Crash(n), owner \in {n} \X Threads PROVE FALSE
      <4>1. NodeOf(p) = n
        BY <3>1, <3>2, <3>4
      <4> QED
        BY <1>0, <3>1, <3>3, <3>4, <4>1 DEF Crash, Running, TypeOK, Ended
    <3>5. owner' = owner
      BY <3>1, <3>2, <3>4 DEF FiringDue, Crash, Restart, LeaseExpires, lock
    <3> QED
      BY <1>1, <3>1, <3>5
  <2> QED
    BY <2>1, <2>2, <2>3 DEF OneFiringAtATime
<1> QED
  BY <1>2, <1>3

\* The steps of lockToDo keep the argument.
LEMMA SpacedProceedStep ==
    ASSUME SpacedInv, NEW q \in Executions, Proceed(q)
    PROVE  SpacedArgument'
<1> USE DEF SpacedInv, SpacedArgument, IndInv
<1>0. /\ TypeOK /\ sent \subseteq Executions /\ late \subseteq Executions
      /\ due \in Nat /\ version \in Nat /\ seen \in [Executions -> Nat]
  BY DEF TypeOK
<1>1. pc[q] # "idle" => Running(q)
  BY DEF Proceed, ReadVersion, Acquire, CompareVersion, Send, Increment, Unlock, Running, Ended
<1>2. FiringOf(q) = due
  <2>1. pc[q] \notin {"done", "dead"}
    BY DEF Proceed, ReadVersion, Acquire, CompareVersion, Send, Increment, Unlock
  <2>2. FiringOf(q) <= due
    BY <1>0, <1>1, ExecutionPair DEF Proceed, ReadVersion, Acquire, CompareVersion, Send, Increment, Unlock,
                                     Safety, Started
  <2> QED
    BY <1>0, <2>1, <2>2, ExecutionPair DEF OneFiringAtATime
<1>3. ASSUME NEW p \in Executions, p # q, pc[q] # "idle", owner = thread[q]
      PROVE  pc[p] \notin {"locked", "send", "finally", "unlock"}
  BY <1>1, <1>3, OneInside DEF OneFiringAtATime, Running, Ended
<1>4. CASE ReadVersion(q)
  <2>1. /\ pc' = [pc EXCEPT ![q] = "tryLock"] /\ seen' = [seen EXCEPT ![q] = version]
        /\ late' = (IF TooLate(q) THEN late \cup {q} ELSE late)
        /\ UNCHANGED <<due, version, owner, sent>>
        /\ pc[q] = "idle"
    BY <1>4 DEF ReadVersion, Goto, lock
  <2>2. \A p \in Executions : p # q => thread'[p] = thread[p]
    BY <1>0, <1>4 DEF ReadVersion, TypeOK
  <2>3. q \notin sent
    BY <2>1 DEF Safety, SentAccounted, Ended
  <2>4. OneFiringAtATime'
    BY <1>0, <1>2, <2>1, <2>2 DEF TypeOK, OneFiringAtATime
  <2>5. VersionStands' /\ MovedMeansDispatched'
    BY <1>0, <2>1 DEF TypeOK, VersionStands, MovedMeansDispatched, HasRead, Dispatched
  <2>6. ASSUME NEW p \in sent, FiringOf(p) = FiringOf(q), seen[p] < version, pc[p] # "dead"
        PROVE  q \in late'
    <3>1. pc[p] \in {"unlock", "done"}
      BY <1>0, <2>6 DEF Safety, SentAccounted, VersionStands, OneFiringAtATime, Ended
    <3> QED
      BY <2>1, <2>6, <3>1 DEF TooLate
  <2>7. LaterMeansLate'
    BY <1>0, <2>1, <2>3, <2>6 DEF TypeOK, LaterMeansLate, HasRead
  <2> QED
    BY <2>4, <2>5, <2>7
<1>5. CASE Acquire(q)
  <2>1. /\ pc' = [pc EXCEPT ![q] = "locked"] /\ owner' = thread[q]
        /\ UNCHANGED <<due, thread, seen, version, sent, late>>
        /\ pc[q] = "tryLock" /\ owner \in {Nobody, thread[q]}
    BY <1>5 DEF Acquire, Goto
  <2>2. ASSUME NEW p \in Executions, p # q PROVE pc[p] \notin {"locked", "send", "finally", "unlock"}
    <3>1. CASE owner = thread[q]
      BY <1>3, <2>1, <2>2, <3>1
    <3>2. CASE owner = Nobody
      BY <3>2, RunningThread DEF OneFiringAtATime, Running, Ended
    <3> QED
      BY <2>1, <3>1, <3>2
  <2>3. OneFiringAtATime'
    BY <1>0, <1>2, <2>1, <2>2 DEF TypeOK, OneFiringAtATime
  <2>4. VersionStands' /\ LaterMeansLate' /\ MovedMeansDispatched'
    BY <1>0, <2>1 DEF TypeOK, VersionStands, LaterMeansLate, MovedMeansDispatched, HasRead, Dispatched
  <2> QED
    BY <2>3, <2>4
<1>6. CASE CompareVersion(q)
  <2>1. /\ pc' = [pc EXCEPT ![q] = IF version = seen[q] THEN "send" ELSE "finally"]
        /\ UNCHANGED <<due, thread, seen, version, owner, sent, late>>
        /\ pc[q] = "locked"
    BY <1>6 DEF CompareVersion, Goto, lock
  <2>2. q \notin sent
    BY <2>1 DEF Safety, SentAccounted, Ended
  <2>3. OneFiringAtATime'
    BY <1>0, <1>2, <2>1 DEF TypeOK, OneFiringAtATime
  <2>4. VersionStands' /\ LaterMeansLate' /\ MovedMeansDispatched'
    BY <1>0, <2>1, <2>2 DEF TypeOK, VersionStands, LaterMeansLate, MovedMeansDispatched, HasRead, Dispatched
  <2> QED
    BY <2>3, <2>4
<1>7. CASE Send(q)
  <2>1. /\ pc' = [pc EXCEPT ![q] = "finally"] /\ sent' = sent \cup {q}
        /\ UNCHANGED <<due, thread, seen, version, owner, late>>
        /\ pc[q] = "send"
    BY <1>7 DEF Send, Goto, lock
  <2>2. seen[q] = version
    BY <2>1 DEF VersionStands
  <2>3. OneFiringAtATime'
    BY <1>0, <1>2, <2>1 DEF TypeOK, OneFiringAtATime
  <2>4. VersionStands'
    BY <1>0, <2>1, <2>2 DEF TypeOK, VersionStands
  <2>5. LaterMeansLate'
    <3>1. \A p \in Executions : ~(seen[q] < seen[p])
      BY <1>0, <2>2 DEF Safety, SeenBounded
    <3> QED
      BY <1>0, <2>1, <3>1 DEF TypeOK, LaterMeansLate, HasRead
  <2>6. Dispatched(FiringOf(q))'
    BY <2>1, ExecutionPair DEF Dispatched
  <2>7. MovedMeansDispatched'
    BY <1>0, <2>1, <2>6 DEF TypeOK, MovedMeansDispatched, HasRead, Dispatched
  <2> QED
    BY <2>3, <2>4, <2>5, <2>7
<1>8. CASE Increment(q)
  <2>1. /\ pc' = [pc EXCEPT ![q] = "unlock"] /\ version' = version + 1
        /\ UNCHANGED <<due, thread, seen, owner, sent, late>>
        /\ pc[q] = "finally"
    BY <1>8 DEF Increment, Goto, lock
  <2>2. OneFiringAtATime'
    BY <1>0, <1>2, <2>1 DEF TypeOK, OneFiringAtATime
  <2>3. owner = thread[q]
    BY <2>1 DEF OneFiringAtATime
  <2>4. VersionStands'
    BY <1>0, <1>3, <2>1, <2>3 DEF TypeOK, VersionStands
  <2>5. LaterMeansLate'
    BY <1>0, <2>1 DEF TypeOK, LaterMeansLate, HasRead
  <2>6. ASSUME NEW p \in Executions, HasRead(p) PROVE Dispatched(FiringOf(p))
    <3>1. CASE FiringOf(p) = due
      BY <1>2, <2>1, <3>1 DEF MovedMeansDispatched
    <3>2. CASE FiringOf(p) # due
      <4>1. pc[p] = "done"
        BY <1>0, <2>6, <3>2, ExecutionPair DEF Safety, Started, OneFiringAtATime, HasRead
      <4> QED
        BY <4>1 DEF MovedMeansDispatched
    <3> QED
      BY <3>1, <3>2
  <2>7. MovedMeansDispatched'
    BY <1>0, <2>1, <2>6 DEF TypeOK, MovedMeansDispatched, HasRead, Dispatched
  <2> QED
    BY <2>2, <2>4, <2>5, <2>7
<1>9. CASE Unlock(q)
  <2>1. /\ pc' = [pc EXCEPT ![q] = "done"]
        /\ UNCHANGED <<due, thread, seen, version, sent, late>>
        /\ pc[q] = "unlock" /\ owner = thread[q]
    BY <1>9 DEF Unlock, Goto, OneFiringAtATime
  <2>2. OneFiringAtATime'
    BY <1>0, <1>2, <1>3, <2>1 DEF TypeOK, OneFiringAtATime
  <2>3. VersionStands' /\ LaterMeansLate' /\ MovedMeansDispatched'
    BY <1>0, <2>1 DEF TypeOK, VersionStands, LaterMeansLate, MovedMeansDispatched, HasRead, Dispatched
  <2> QED
    BY <2>2, <2>3
<1> QED
  BY <1>4, <1>5, <1>6, <1>7, <1>8, <1>9 DEF Proceed

\* The initial state satisfies the argument, and every step keeps it.
LEMMA InitSpacedInv == Init => SpacedInv
<1> SUFFICES ASSUME Init PROVE SpacedInv
  OBVIOUS
<1>1. IndInv
  BY InitIndInv
<1>2. \A p \in Executions : pc[p] = "idle" /\ due < FiringOf(p)
  BY ExecutionPair DEF Init
<1>3. SpacedArgument
  <2>1. \A p \in Executions : ~(FiringOf(p) < due)
    BY <1>2, ExecutionPair DEF Init
  <2> QED
    BY <1>2, <2>1
    DEF Init, SpacedArgument, OneFiringAtATime, VersionStands, LaterMeansLate, MovedMeansDispatched,
        HasRead
<1> QED
  BY <1>1, <1>3 DEF SpacedInv

LEMMA SpacedInvStep == SpacedInv /\ [SpacedNext]_vars => SpacedInv'
<1> SUFFICES ASSUME SpacedInv, [SpacedNext]_vars PROVE SpacedInv'
  OBVIOUS
<1>1. IndInv'
  BY IndInvStep, SpacedIsNext DEF SpacedInv
<1>2. SpacedArgument'
  <2>1. CASE UNCHANGED vars
    BY <2>1 DEF vars, SpacedInv, SpacedArgument, OneFiringAtATime, VersionStands, LaterMeansLate,
                MovedMeansDispatched, HasRead, Dispatched
  <2> QED
    BY <2>1, SpacedEnvironmentStep, SpacedProceedStep DEF SpacedNext
<1> QED
  BY <1>1, <1>2 DEF SpacedInv

\* What the argument is for.
LEMMA SpacedInvMeaning ==
    ASSUME SpacedInv
    PROVE  TwiceOnlyByCrashOrLateRead /\ FinishedMeansDispatched
<1> USE DEF SpacedInv, SpacedArgument
<1>1. FinishedMeansDispatched
  BY DEF MovedMeansDispatched, FinishedMeansDispatched
<1>2. TwiceOnlyByCrashOrLateRead
  <2> SUFFICES ASSUME NEW p \in sent, NEW q \in sent, p # q, FiringOf(p) = FiringOf(q),
                      pc[p] # "dead", pc[q] # "dead"
               PROVE  p \in late \/ q \in late
    BY DEF TwiceOnlyByCrashOrLateRead
  <2>1. p \in Executions /\ q \in Executions /\ seen[p] \in Nat /\ seen[q] \in Nat
    BY DEF IndInv, TypeOK
  <2>2. HasRead(p) /\ HasRead(q)
    BY DEF IndInv, Safety, SentAccounted, HasRead, Ended
  <2>3. seen[p] # seen[q]
    BY <2>1 DEF IndInv, Safety, OneSendPerVersion, NotCounted, OneFiringAtATime
  <2> QED
    BY <2>1, <2>2, <2>3 DEF LaterMeansLate
<1> QED
  BY <1>1, <1>2

\* Spaced firings are dispatched twice only when a dispatching node goes down, or
\* when one node reads the version after the other is through with the firing.
THEOREM TwiceOnlyByCrashOrLateReadHolds == SpacedSpec => []TwiceOnlyByCrashOrLateRead
  BY InitSpacedInv, SpacedInvStep, SpacedInvMeaning, PTL DEF SpacedSpec

\* Nodes never finish a spaced firing that nobody dispatched.
THEOREM FinishedMeansDispatchedHolds == SpacedSpec => []FinishedMeansDispatched
  BY InitSpacedInv, SpacedInvStep, SpacedInvMeaning, PTL DEF SpacedSpec

-----------------------------------------------------------------------------
(* Spaced firings implement JobFiring                                       *)

SendersOf(f) == {n \in Nodes : <<n, f>> \in sent}
HurtFirings == {f \in Firings : \E n \in Nodes : pc[<<n, f>>] = "dead" \/ <<n, f>> \in late}

\* A set of nodes has a finite size, and a new node adds one to it.
LEMMA OneMoreNode ==
    ASSUME NEW S \in SUBSET Nodes, NEW n \in Nodes, n \notin S
    PROVE  Cardinality(S \cup {n}) = Cardinality(S) + 1
<1>1. IsFiniteSet(S)
  BY NodesAssumption, FS_Subset
<1> QED
  BY <1>1, FS_AddElement

\* A dispatch is the first of its firing, or a node failed or was late for it.
LEMMA SendIsDispatch ==
    ASSUME SpacedInv, SpacedInv', NEW q \in Executions, Send(q)
    PROVE  Promise!Dispatch(FiringOf(q))
<1> DEFINE f == FiringOf(q)
           n == NodeOf(q)
<1>1. q = <<n, f>> /\ n \in Nodes /\ f \in Firings
  BY ExecutionPair
<1>2. /\ q \notin sent /\ sent' = sent \cup {q} /\ UNCHANGED <<due, late>> /\ pc[q] = "send"
      /\ pc' = [pc EXCEPT ![q] = "finally"] /\ pc \in [Executions -> Stages]
  BY DEF Send, Goto, SpacedInv, IndInv, Safety, SentAccounted, TypeOK, Ended
<1>3. ASSUME f \notin HurtFirings PROVE SendersOf(f) = {}
  <2> SUFFICES ASSUME NEW m \in Nodes, <<m, f>> \in sent PROVE FALSE
    BY DEF SendersOf
  <2>1. TwiceOnlyByCrashOrLateRead'
    BY SpacedInvMeaning, PTL
  <2>2. <<m, f>> # q /\ <<m, f>> \in sent' /\ q \in sent'
    BY <1>2
  <2>3. FiringOf(<<m, f>>) = FiringOf(q) /\ <<m, f>> \in Executions
    BY <1>1, ExecutionPair
  <2>4. pc'[<<m, f>>] = "dead" \/ pc'[q] = "dead" \/ <<m, f>> \in late \/ q \in late
    BY <1>2, <2>1, <2>2, <2>3 DEF TwiceOnlyByCrashOrLateRead
  <2>5. pc'[q] = "finally" /\ pc'[<<m, f>>] = pc[<<m, f>>]
    BY <1>2, <2>2, <2>3
  <2> QED
    BY <1>1, <1>3, <2>4, <2>5 DEF HurtFirings
<1>4. SendersOf(f)' = SendersOf(f) \cup {n} /\ n \notin SendersOf(f)
  BY <1>1, <1>2 DEF SendersOf
<1>5. \A g \in Firings \ {f} : SendersOf(g)' = SendersOf(g)
  BY <1>1, <1>2 DEF SendersOf
<1>6. f <= due
  BY <1>1, <1>2, ExecutionPair, FiringsAssumption DEF SpacedInv, IndInv, TypeOK, Safety, Started
<1>7. Cardinality(SendersOf(f)') = Cardinality(SendersOf(f)) + 1
  <2>1. SendersOf(f) \in SUBSET Nodes
    BY DEF SendersOf
  <2> QED
    BY <1>1, <1>4, <2>1, OneMoreNode
<1>8. HurtFirings' = HurtFirings
  <2>1. \A m \in Nodes, g \in Firings : pc'[<<m, g>>] = "dead" <=> pc[<<m, g>>] = "dead"
    BY <1>1, <1>2, ExecutionPair DEF Executions
  <2> QED
    BY <1>2, <2>1 DEF HurtFirings
<1>9. Cardinality(SendersOf(f)) = 0 \/ f \in HurtFirings
  BY <1>3, FS_EmptySet
<1> DEFINE times == [g \in Firings |-> Cardinality(SendersOf(g))]
<1>10. times' = [times EXCEPT ![f] = @ + 1]
  <2>1. times' = [g \in Firings |-> Cardinality(SendersOf(g)')]
    OBVIOUS
  <2>2. \A g \in Firings : Cardinality(SendersOf(g)') =
            (IF g = f THEN Cardinality(SendersOf(f)) + 1 ELSE Cardinality(SendersOf(g)))
    BY <1>5, <1>7
  <2> QED
    BY <1>1, <2>1, <2>2
<1> QED
  BY <1>1, <1>2, <1>6, <1>8, <1>9, <1>10 DEF Promise!Dispatch, SendersOf, HurtFirings

\* The nodes implement the abstract specification: every step of theirs is a
\* firing coming due, a server failing or coming late, a dispatch, or invisible.
THEOREM SpacedImplementsPromise == SpacedSpec => Promise!SafeSpec
<1>1. Init => Promise!Init
  <2> SUFFICES ASSUME Init PROVE Promise!Init
    OBVIOUS
  <2>1. \A f \in Firings : SendersOf(f) = {}
    BY DEF Init, SendersOf
  <2>2. HurtFirings = {}
    BY DEF Init, HurtFirings, Executions
  <2> QED
    BY <2>1, <2>2, FS_EmptySet DEF Init, Promise!Init, Promise!Firings, Firings, SendersOf, HurtFirings
<1>2. SpacedInv /\ SpacedInv' /\ [SpacedNext]_vars => [Promise!Next]_(Promise!vars)
  <2> SUFFICES ASSUME SpacedInv, SpacedInv', [SpacedNext]_vars
               PROVE  [Promise!Next]_(Promise!vars)
    OBVIOUS
  <2>0. /\ pc \in [Executions -> Stages] /\ due \in Nat
        /\ \A m \in Nodes, g \in Firings : <<m, g>> \in Executions
                /\ NodeOf(<<m, g>>) = m /\ FiringOf(<<m, g>>) = g
    BY ExecutionPair DEF SpacedInv, IndInv, TypeOK
  <2>1. CASE FiringDue
    <3>1. HurtFirings' = HurtFirings \/ HurtFirings' = HurtFirings \cup {due + 1}
      <4>1. \A m \in Nodes, g \in Firings :
                pc'[<<m, g>>] = IF g = due + 1 /\ m \notin alive THEN "dead" ELSE pc[<<m, g>>]
        BY <2>0, <2>1 DEF FiringDue
      <4>2. due + 1 \in Firings /\ late' = late
        BY <2>0, <2>1, FiringsAssumption DEF FiringDue, Firings
      <4> QED
        BY <4>1, <4>2 DEF HurtFirings
    <3> QED
      BY <2>1, <3>1 DEF FiringDue, Promise!Next, Promise!FiringDue, HurtFirings
  <2>2. ASSUME UNCHANGED <<due, sent>>,
               \A m \in Nodes, g \in Firings :
                  /\ pc[<<m, g>>] = "dead" => pc'[<<m, g>>] = "dead"
                  /\ <<m, g>> \in late => <<m, g>> \in late'
                  /\ g > due => /\ pc'[<<m, g>>] = "dead" => pc[<<m, g>>] = "dead"
                                /\ <<m, g>> \in late' => <<m, g>> \in late
        PROVE  Promise!ServerFails
    <3>1. HurtFirings \subseteq HurtFirings'
      BY <2>2 DEF HurtFirings
    <3>2. HurtFirings' \subseteq HurtFirings \cup 1 .. due
      BY <2>0, <2>2, ExecutionPair DEF HurtFirings
    <3> QED
      BY <2>2, <3>1, <3>2 DEF Promise!ServerFails, HurtFirings
  <2>3. ASSUME UNCHANGED <<due, pc, sent, late>> PROVE UNCHANGED Promise!vars
    BY <2>3 DEF Promise!vars
  <2>4. ASSUME NEW p \in Executions, Proceed(p)
        PROVE  [Promise!Next]_(Promise!vars)
    <3>1. CASE Send(p)
      BY <3>1, SendIsDispatch, ExecutionPair DEF Promise!Next, Promise!Firings, Firings
    <3>2. CASE ~Send(p)
      <4>1. due' = due /\ sent' = sent
        BY <2>4, <3>2 DEF Proceed, ReadVersion, Acquire, CompareVersion, Unlock, Increment
      <4>2. \E s \in Stages \ {"dead"} : pc[p] # "dead" /\ pc' = [pc EXCEPT ![p] = s]
        BY <2>4, <3>2 DEF Proceed, ReadVersion, Acquire, CompareVersion, Unlock,
                          Increment, Goto, Stages, Ended
      <4>3. \A m \in Nodes, g \in Firings : pc'[<<m, g>>] = "dead" <=> pc[<<m, g>>] = "dead"
        BY <2>0, <4>2
      <4>4. late' = late \/ (late' = late \cup {p} /\ FiringOf(p) <= due)
        BY <2>4, <3>2 DEF Proceed, ReadVersion, Acquire, CompareVersion, Unlock, Increment
      <4>5. \A m \in Nodes, g \in Firings :
                /\ <<m, g>> \in late => <<m, g>> \in late'
                /\ g > due => (<<m, g>> \in late' => <<m, g>> \in late)
        <5>1. ASSUME NEW m \in Nodes, NEW g \in Firings, g > due PROVE <<m, g>> \in late' => <<m, g>> \in late
          BY <2>0, <4>4, <5>1, ExecutionPair
        <5> QED
          BY <4>4, <5>1
      <4> QED
        BY <2>2, <4>1, <4>3, <4>5 DEF Promise!Next
    <3> QED
      BY <3>1, <3>2
  <2>5. CASE LeaseExpires
    BY <2>3, <2>5 DEF LeaseExpires
  <2>6. ASSUME NEW c \in Nodes, Crash(c) PROVE Promise!ServerFails
    <3>1. \A m \in Nodes, g \in Firings :
              /\ pc[<<m, g>>] = "dead" => pc'[<<m, g>>] = "dead"
              /\ g > due => (pc'[<<m, g>>] = "dead" => pc[<<m, g>>] = "dead")
      <4>1. ASSUME NEW m \in Nodes, NEW g \in Firings
            PROVE  /\ pc[<<m, g>>] = "dead" => pc'[<<m, g>>] = "dead"
                   /\ pc'[<<m, g>>] = "dead" => pc[<<m, g>>] = "dead" \/ g <= due
        BY <2>0, <2>6, <4>1 DEF Crash
      <4>2. ASSUME NEW g \in Firings, g > due PROVE ~(g <= due)
        BY <2>0, <4>2, ExecutionPair
      <4> QED
        BY <4>1, <4>2
    <3> QED
      BY <2>2, <2>6, <3>1 DEF Crash
  <2>7. ASSUME NEW c \in Nodes, Restart(c) PROVE UNCHANGED Promise!vars
    BY <2>3, <2>7 DEF Restart
  <2>8. CASE UNCHANGED vars
    BY <2>3, <2>8 DEF vars
  <2> QED
    BY <2>1, <2>4, <2>5, <2>6, <2>7, <2>8 DEF SpacedNext, Promise!Next
<1> QED
  BY <1>1, <1>2, InitSpacedInv, SpacedInvStep, PTL DEF SpacedSpec, Promise!SafeSpec
=============================================================================
