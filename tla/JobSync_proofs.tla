--------------------------- MODULE JobSync_proofs ---------------------------
(***************************************************************************)
(* Proofs about JobSync for any servers, jobs, releases and requests: type   *)
(* correctness, the lock around the check for the group, the status of a row *)
(* that nothing changes, and, for jobs of which no row was inserted behind   *)
(* the back of a transaction, one row and schedulers that follow it.         *)
(***************************************************************************)
EXTENDS JobSync, FiniteSetTheorems, TLAPS

\* The jobs to insert are finitely many.
LEMMA NewJobsFinite ==
    ASSUME NEW s
    PROVE  IsFiniteSet(NewJobs(s)) /\ Cardinality(NewJobs(s)) \in Nat
<1>1. NewJobs(s) \subseteq Jobs
  BY DEF NewJobs
<1>2. IsFiniteSet(NewJobs(s))
  BY <1>1, JobsAssumption, FS_Subset
<1> QED
  BY <1>2, FS_CardinalityType

\* What a row becomes in saveJobs: its cron is that of the release.
LEMMA UpdatedRow ==
    ASSUME NEW s \in Snapshot, s.jobs \in Releases, NEW r \in Kept(s)
    PROVE  /\ r \in JobEntity
           /\ Updated(s, r) \in JobEntity
           /\ Updated(s, r).id = r.id
           /\ Updated(s, r).name = r.name
           /\ Updated(s, r).status = r.status
<1>1. r \in JobEntity /\ r.name \in Jobs /\ s.jobs[r.name] # Null
  BY DEF Kept, Snapshot, JobEntity
<1>2. s.jobs[r.name] \in JobInfo
  BY <1>1, ReleasesAssumption
<1>3. s.jobs[r.name].cron \in Crons
  BY <1>2 DEF JobInfo
<1> QED
  BY <1>1, <1>3 DEF Updated, JobEntity

\* What saveJobs inserts: rows of the new jobs as the release declares them.
LEMMA InsertedRows ==
    ASSUME NEW s \in Snapshot, s.jobs \in Releases,
           NEW ids \in [NewJobs(s) -> Ids], NEW r \in Inserted(s, ids)
    PROVE  /\ r \in JobEntity
           /\ r.name \in NewJobs(s)
           /\ r.id = ids[r.name]
           /\ r.status = s.jobs[r.name].status
<1>1. PICK j \in NewJobs(s) :
         r = [id |-> ids[j], name |-> j, status |-> s.jobs[j].status, cron |-> s.jobs[j].cron]
  BY DEF Inserted
<1>2. j \in Jobs /\ s.jobs[j] \in JobInfo
  BY ReleasesAssumption DEF NewJobs
<1>3. s.jobs[j].status \in Statuses /\ s.jobs[j].cron \in Crons
  BY <1>2 DEF JobInfo
<1> QED
  BY <1>1, <1>2, <1>3 DEF JobEntity

\* A row after saveJobs was there and is untouched, is a kept row of the snapshot
\* with the cron of the release, or is new.
LEMMA WrittenRows ==
    ASSUME NEW s, NEW new, NEW r \in Written(s, new)
    PROVE  \/ r \in rows /\ \A q \in Touched(s) : q.id # r.id
           \/ \E q \in Kept(s) \cap Touched(s) : r = Updated(s, q)
           \/ r \in new
  BY DEF Written

\* Quartz has a cron or nothing for every job.
LEMMA RescheduledType ==
    ASSUME NEW s \in Snapshot, s.jobs \in Releases, NEW jobs \in [Jobs -> Crons \cup {Null}]
    PROVE  Rescheduled(s, jobs) \in [Jobs -> Crons \cup {Null}]
<1>1. ASSUME NEW j \in NewJobs(s)
      PROVE  s.jobs[j].cron \in Crons
  BY ReleasesAssumption DEF NewJobs, JobInfo
<1> QED
  BY <1>1 DEF Rescheduled, added

\* A change of the operator leaves a cron or nothing too.
LEMMA ChangedType ==
    ASSUME NEW vo \in JobVO, NEW row \in JobEntity, NEW jobs \in [Jobs -> Crons \cup {Null}]
    PROVE  Changed(jobs, vo, row) \in [Jobs -> Crons \cup {Null}]
<1>1. vo.cron \in Crons \cup {Null}
  BY RequestsAssumption DEF JobVO
<1>2. row.cron \in Crons
  BY DEF JobEntity
<1> QED
  BY <1>1, <1>2 DEF Changed, added, Retimes

\* A row that execute can save differs from the one it has read in nothing.
THEOREM CopyKeeps ==
    ASSUME NEW vo \in JobVO, NEW row \in JobEntity, copyIgnoreProperties(vo, row) \in JobEntity
    PROVE  copyIgnoreProperties(vo, row) = row
<1> DEFINE copy == copyIgnoreProperties(vo, row)
<1>1. row = [id |-> row.id, name |-> row.name, status |-> row.status, cron |-> row.cron]
      /\ DOMAIN row = {"id", "name", "status", "cron"}
  BY DEF JobEntity
<1>2. DOMAIN vo = {"id", "status", "cron"}
  BY DEF JobVO
<1>3. copy.id # Null /\ copy.status # Null /\ copy.cron # Null
  BY NullAssumption DEF JobEntity
<1>4. copy = [f \in DOMAIN row |-> IF f \in DOMAIN vo /\ vo[f] = Null THEN Null ELSE row[f]]
  BY DEF copyIgnoreProperties
<1>5. \A f \in DOMAIN row : copy[f] = row[f]
  BY <1>1, <1>2, <1>3, <1>4
<1> QED
  BY <1>1, <1>4, <1>5

\* A row that is inserted anew gets the next id and keeps the rest.
LEMMA InsertedAnew ==
    ASSUME NEW row \in JobEntity, NEW i \in Ids
    PROVE  /\ [row EXCEPT !.id = i] \in JobEntity
           /\ [row EXCEPT !.id = i].id = i
           /\ [row EXCEPT !.id = i].name = row.name
           /\ [row EXCEPT !.id = i].status = row.status
  BY DEF JobEntity

\* What execute does to the rows: nothing, or it writes the row back as it has read
\* it, or inserts it anew.
LEMMA AppliedRows ==
    ASSUME TypeOK, NEW n \in Nodes, Apply(n)
    PROVE  LET row == changing[n].row IN
           \/ UNCHANGED <<rows, nextId, raced>>
           \/ /\ \E r \in rows : r.id = row.id
              /\ rows' = {r \in rows : r.id # row.id} \cup {row}
              /\ UNCHANGED <<nextId, raced>>
           \/ /\ \A r \in rows : r.id # row.id
              /\ nextId \in Ids
              /\ rows' = rows \cup {[row EXCEPT !.id = nextId]}
              /\ nextId' = nextId + 1
              /\ raced' = raced \cup {nextId}
<1> DEFINE copy == copyIgnoreProperties(changing[n].change, changing[n].row)
<1>1. changing[n] # Null
  BY DEF Apply
<1>2. changing[n].change \in JobVO /\ changing[n].row \in JobEntity
  BY <1>1 DEF TypeOK
<1>3. copy \in JobEntity => copy = changing[n].row
  BY <1>2, CopyKeeps
<1>4. \/ UNCHANGED <<rows, nextId, raced>>
      \/ /\ copy \in JobEntity
         /\ \E r \in rows : r.id = copy.id
         /\ rows' = {r \in rows : r.id # copy.id} \cup {copy}
         /\ UNCHANGED <<nextId, raced>>
      \/ /\ copy \in JobEntity
         /\ ~\E r \in rows : r.id = copy.id
         /\ nextId <= MaxRows
         /\ rows' = rows \cup {[copy EXCEPT !.id = nextId]}
         /\ nextId' = nextId + 1
         /\ raced' = raced \cup {nextId}
  BY DEF Apply
<1>5. nextId <= MaxRows => nextId \in Ids
  BY BoundsAssumption DEF TypeOK, Ids
<1> HIDE DEF copy
<1> QED
  BY <1>3, <1>4, <1>5

-----------------------------------------------------------------------------
(* Type correctness                                                        *)

\* saveJobs keeps the types of what it changes.
LEMMA SaveType ==
    ASSUME TypeOK, NEW n \in Nodes, NEW th \in Threads,
           saving[n][th] # Null, SaveSnapshot(n, th)
    PROVE  /\ trigger' \in [Nodes -> [Jobs -> Crons \cup {Null}]]
           /\ rows' \subseteq JobEntity
           /\ nextId' \in 1 .. MaxRows + 1
           /\ nextId <= nextId'
           /\ scheduledAt' \subseteq Nodes \X Ids
           /\ raced' \subseteq Ids /\ rolledBack' \subseteq Nodes
<1> DEFINE s == saving[n][th]
<1>0. s \in Snapshot
  BY DEF TypeOK
<1>1. CASE SaveNothing
  BY <1>1, BoundsAssumption DEF SaveNothing, TypeOK
<1>2. CASE s.jobs # NoInstance /\ SaveJobs(n, th)
  <2>1. s.jobs \in Releases
    BY <1>0, <1>2 DEF Snapshot, Instances
  <2> DEFINE k == Cardinality(NewJobs(s))
  <2>2. k \in Nat
    BY NewJobsFinite
  <2>3. PICK ids \in [NewJobs(s) -> nextId .. nextId + k - 1] :
          /\ nextId + k <= MaxRows + 1
          /\ nextId' = nextId + k
          /\ trigger' = [trigger EXCEPT ![n] = Rescheduled(s, @)]
          /\ \/ /\ rows' = Written(s, Inserted(s, ids))
                /\ scheduledAt' = scheduledAt \cup
                      {<<n, r.id>> : r \in {q \in Inserted(s, ids) : q.status = "RUNNING"}}
                /\ raced' \subseteq raced \cup {r.id : r \in Inserted(s, ids)}
                /\ UNCHANGED rolledBack
             \/ /\ rolledBack' = rolledBack \cup {n}
                /\ UNCHANGED <<rows, scheduledAt, raced>>
    BY <1>2 DEF SaveJobs
  <2> HIDE DEF k
  <2>4. ids \in [NewJobs(s) -> Ids]
    BY <2>2, <2>3, BoundsAssumption DEF TypeOK, Ids
  <2> HIDE DEF s
  <2>5. Rescheduled(s, trigger[n]) \in [Jobs -> Crons \cup {Null}]
    BY <1>0, <2>1, RescheduledType DEF TypeOK
  <2>6. \A r \in Inserted(s, ids) : r \in JobEntity /\ r.id \in Ids
    BY <1>0, <2>1, <2>4, InsertedRows DEF JobEntity
  <2>7. \A r \in Kept(s) : Updated(s, r) \in JobEntity
    BY <1>0, <2>1, UpdatedRow
  <2>8. Written(s, Inserted(s, ids)) \subseteq JobEntity
    BY <2>6, <2>7, WrittenRows DEF TypeOK
  <2>9. rows' \subseteq JobEntity
    BY <2>3, <2>8 DEF TypeOK
  <2>10. nextId' \in 1 .. MaxRows + 1 /\ nextId <= nextId'
    BY <2>2, <2>3, BoundsAssumption DEF TypeOK
  <2>11. \A p \in scheduledAt' :
           p \in scheduledAt \/ \E r \in Inserted(s, ids) : p = <<n, r.id>>
    BY <2>3
  <2>13. scheduledAt' \subseteq Nodes \X Ids
    BY <2>6, <2>11 DEF TypeOK
  <2>12. raced' \subseteq Ids /\ rolledBack' \subseteq Nodes
    <3>1. raced' \subseteq raced \cup {r.id : r \in Inserted(s, ids)}
      BY <2>3
    <3>2. raced' \subseteq Ids
      BY <2>6, <3>1 DEF TypeOK
    <3>3. rolledBack' \subseteq Nodes
      BY <2>3 DEF TypeOK
    <3> QED
      BY <3>2, <3>3
  <2> QED
    BY <2>3, <2>5, <2>9, <2>10, <2>12, <2>13 DEF TypeOK
<1> QED
  BY <1>1, <1>2 DEF SaveSnapshot

\* What an execution of execute works on.
LEMMA ChangeType ==
    ASSUME TypeOK, NEW n \in Nodes, changing[n] # Null
    PROVE  /\ changing[n].change \in JobVO
           /\ changing[n].row \in JobEntity
           /\ changing[n].row.name \in Jobs
           /\ changing[n].row.id \in Ids
  BY DEF TypeOK, JobEntity

\* execute keeps the types: the row it saves is the one it has read.
LEMMA ApplyType ==
    ASSUME TypeOK, NEW n \in Nodes, Apply(n)
    PROVE  TypeOK'
<1> DEFINE c == changing[n]
<1>1. c # Null /\ c.change \in JobVO /\ c.row \in JobEntity /\ c.row.id \in Ids
  BY ChangeType DEF Apply
<1>3. Changed(trigger[n], c.change, c.row) \in [Jobs -> Crons \cup {Null}]
  BY <1>1, ChangedType DEF TypeOK
<1>4. trigger' \in [Nodes -> [Jobs -> Crons \cup {Null}]]
  BY <1>3 DEF Apply, TypeOK
<1>6. rows' \subseteq JobEntity /\ nextId' \in 1 .. MaxRows + 1
  <2> DEFINE row == c.row
  <2>1. row \in JobEntity
    BY <1>1
  <2>2. \/ UNCHANGED <<rows, nextId>>
        \/ /\ rows' = {r \in rows : r.id # row.id} \cup {row}
           /\ UNCHANGED nextId
        \/ /\ nextId \in Ids
           /\ rows' = rows \cup {[row EXCEPT !.id = nextId]}
           /\ nextId' = nextId + 1
    BY AppliedRows
  <2> HIDE DEF row
  <2>3. nextId \in Ids => [row EXCEPT !.id = nextId] \in JobEntity
    BY <2>1, InsertedAnew
  <2>4. rows \subseteq JobEntity /\ nextId \in 1 .. MaxRows + 1
    BY DEF TypeOK
  <2>5. rows' \subseteq JobEntity
    BY <2>1, <2>2, <2>3, <2>4
  <2>6. nextId' \in 1 .. MaxRows + 1
    BY <2>2, <2>4, BoundsAssumption DEF Ids
  <2> QED
    BY <2>5, <2>6
<1>7. heard' \in [Nodes -> JobVO \cup {INIT}]
  BY <1>1 DEF Apply, TypeOK
<1>8. stopped' \subseteq Ids /\ stoppedAt' \subseteq Nodes \X Ids
      /\ scheduledAt' \subseteq Nodes \X Ids
  BY <1>1 DEF Apply, TypeOK
<1>11. raced' \subseteq Ids
  <2>1. raced' = raced \/ (nextId <= MaxRows /\ raced' = raced \cup {nextId})
    BY DEF Apply
  <2>2. nextId <= MaxRows => nextId \in Ids
    BY BoundsAssumption DEF TypeOK, Ids
  <2> QED
    BY <2>1, <2>2 DEF TypeOK
<1>9. changing' \in [Nodes -> [change : JobVO, row : JobEntity] \cup {Null}]
  BY DEF Apply, TypeOK
<1>10. UNCHANGED <<phase, toStart, group, deployed, subscribed, event, scanLock, selected, saving,
                   config, events, rolledBack>>
  BY DEF Apply, namingVars
<1> QED
  BY <1>4, <1>6, <1>7, <1>8, <1>9, <1>10, <1>11 DEF TypeOK

\* The actions that save a snapshot keep the types.
LEMMA SaveStepType ==
    ASSUME TypeOK, NEW n \in Nodes, SaveScan(n) \/ SaveListen(n)
    PROVE  TypeOK'
<1>1. PICK th \in Threads : saving[n][th] # Null /\ SaveSnapshot(n, th)
  BY DEF SaveScan, SaveListen, Threads
<1>2. /\ trigger' \in [Nodes -> [Jobs -> Crons \cup {Null}]]
      /\ rows' \subseteq JobEntity
      /\ nextId' \in 1 .. MaxRows + 1
      /\ scheduledAt' \subseteq Nodes \X Ids
      /\ raced' \subseteq Ids /\ rolledBack' \subseteq Nodes
  BY <1>1, SaveType
<1>3. CASE SaveScan(n)
  <2>1. group' \in BOOLEAN /\ subscribed' \subseteq Nodes /\ scanLock' = Null
    BY <1>3 DEF SaveScan, TypeOK
  <2>2. event' \in [Nodes -> SUBSET Instances]
    BY <1>3 DEF SaveScan, TypeOK
  <2>3. saving' \in [Nodes -> [Threads -> Snapshot \cup {Null}]]
    BY <1>3 DEF SaveScan, TypeOK
  <2>4. UNCHANGED <<phase, toStart, deployed, selected, config, heard, changing, events, stopped,
                    stoppedAt>>
    BY <1>3 DEF SaveScan, configVars
  <2> QED
    BY <1>2, <2>1, <2>2, <2>3, <2>4 DEF TypeOK
<1>4. CASE SaveListen(n)
  <2>1. saving' \in [Nodes -> [Threads -> Snapshot \cup {Null}]]
    BY <1>4 DEF SaveListen, TypeOK
  <2>2. UNCHANGED <<phase, toStart, group, deployed, subscribed, event, scanLock, selected, config,
                    heard, changing, events, stopped, stoppedAt>>
    BY <1>4 DEF SaveListen, configVars
  <2> QED
    BY <1>2, <2>1, <2>2 DEF TypeOK
<1> QED
  BY <1>3, <1>4

\* Every step keeps the types.
LEMMA TypeStep ==
    ASSUME TypeOK, [Next]_vars
    PROVE  TypeOK'
<1> USE DEF nodeVars, dbVars, namingVars, configVars, historyVars
<1>1. ASSUME NEW i \in Instances, Deploy(i) PROVE TypeOK'
  <2>1. event' \in [Nodes -> SUBSET Instances]
    BY <1>1 DEF TypeOK, Deploy
  <2> QED
    BY <1>1, <2>1, BoundsAssumption DEF TypeOK, Deploy, Event
<1>2. ASSUME NEW vo \in JobVO, Push(vo) PROVE TypeOK'
  BY <1>2, BoundsAssumption DEF TypeOK, Push, Event
<1>3. ASSUME NEW n \in Nodes, Scan(n) PROVE TypeOK'
  <2>1. selected' \in [Nodes -> Instances \cup {Null}]
    BY <1>3 DEF TypeOK, Scan
  <2> QED
    BY <1>3, <2>1, BoundsAssumption DEF TypeOK, Scan, Event
<1>4. ASSUME NEW n \in Nodes, CheckAndSave(n) \/ Listen(n) PROVE TypeOK'
  <2>1. PICK th \in Threads, i \in Instances : Reads(n, th, i)
    BY <1>4 DEF TypeOK, CheckAndSave, Listen, Threads
  <2>2. saving' \in [Nodes -> [Threads -> Snapshot \cup {Null}]]
    <3> DEFINE new == [jobs |-> i, group |-> group, rows |-> rows]
    <3>1. new \in Snapshot
      BY DEF TypeOK, Snapshot
    <3>2. saving' = [saving EXCEPT ![n][th] = new]
      BY <2>1 DEF Reads
    <3> HIDE DEF new
    <3> QED
      BY <3>1, <3>2 DEF TypeOK
  <2>3. selected' \in [Nodes -> Instances \cup {Null}] /\ event' \in [Nodes -> SUBSET Instances]
    <3>1. CASE CheckAndSave(n)
      BY <3>1 DEF TypeOK, CheckAndSave
    <3>2. CASE Listen(n)
      BY <3>2 DEF TypeOK, Listen
    <3> QED
      BY <1>4, <3>1, <3>2
  <2>4. UNCHANGED <<nodeVars, dbVars, deployed, subscribed, scanLock, configVars, events,
                    historyVars>>
    BY <1>4 DEF CheckAndSave, Listen
  <2> QED
    BY <2>2, <2>3, <2>4 DEF TypeOK
<1>5. ASSUME NEW n \in Nodes, SaveScan(n) \/ SaveListen(n) PROVE TypeOK'
  BY <1>5, SaveStepType
<1>6. ASSUME NEW n \in Nodes, Hear(n) PROVE TypeOK'
  <2>1. changing' \in [Nodes -> [change : JobVO, row : JobEntity] \cup {Null}]
    BY <1>6 DEF Hear, Known, TypeOK
  <2>2. heard' \in [Nodes -> JobVO \cup {INIT}]
    BY <1>6 DEF Hear, TypeOK
  <2>3. UNCHANGED <<nodeVars, dbVars, namingVars, config, events, historyVars>>
    BY <1>6 DEF Hear
  <2> QED
    BY <2>1, <2>2, <2>3 DEF TypeOK
<1>7. ASSUME NEW n \in Nodes, Apply(n) PROVE TypeOK'
  BY <1>7, ApplyType
<1>8. ASSUME NEW n \in Nodes, Crash(n) PROVE TypeOK'
  <2>1. /\ phase' \in [Nodes -> {"down", "listening", "starting", "running"}]
        /\ trigger' \in [Nodes -> [Jobs -> Crons \cup {Null}]]
        /\ toStart' \in [Nodes -> SUBSET JobEntity]
        /\ event' \in [Nodes -> SUBSET Instances]
        /\ selected' \in [Nodes -> Instances \cup {Null}]
    BY <1>8 DEF TypeOK, Crash
  <2>2. /\ saving' \in [Nodes -> [Threads -> Snapshot \cup {Null}]]
        /\ heard' \in [Nodes -> JobVO \cup {INIT}]
        /\ changing' \in [Nodes -> [change : JobVO, row : JobEntity] \cup {Null}]
    BY <1>8 DEF TypeOK, Crash, Idle
  <2> QED
    BY <1>8, <2>1, <2>2, BoundsAssumption DEF TypeOK, Crash, Event
<1>9. ASSUME NEW n \in Nodes, Restart(n) \/ Started(n) PROVE TypeOK'
  BY <1>9 DEF TypeOK, Restart, Started
<1>10. ASSUME NEW n \in Nodes, Start(n) PROVE TypeOK'
  BY <1>10 DEF TypeOK, Start
<1>11. ASSUME NEW n \in Nodes, StartJob(n) PROVE TypeOK'
  <2>1. PICK r \in toStart[n] :
          /\ toStart' = [toStart EXCEPT ![n] = @ \ {r}]
          /\ trigger' = [trigger EXCEPT ![n][r.name] = added(trigger[n], r.name, r.cron)]
          /\ scheduledAt' = scheduledAt \cup {<<n, r.id>>}
          /\ stoppedAt' = stoppedAt \ ({n} \X RowsOf(r.name))
    BY <1>11 DEF StartJob
  <2>2. r.name \in Jobs /\ r.cron \in Crons /\ r.id \in Ids
    BY DEF TypeOK, JobEntity
  <2>3. added(trigger[n], r.name, r.cron) \in Crons \cup {Null}
    BY <2>2 DEF TypeOK, added
  <2>4. trigger' \in [Nodes -> [Jobs -> Crons \cup {Null}]]
    BY <2>1, <2>2, <2>3 DEF TypeOK
  <2>5. toStart' \in [Nodes -> SUBSET JobEntity]
    BY <2>1 DEF TypeOK
  <2>6. scheduledAt' \subseteq Nodes \X Ids /\ stoppedAt' \subseteq Nodes \X Ids
    BY <2>1, <2>2 DEF TypeOK
  <2>7. UNCHANGED <<phase, dbVars, namingVars, configVars, events, raced, stopped, rolledBack>>
    BY <1>11 DEF StartJob
  <2> QED
    BY <2>4, <2>5, <2>6, <2>7 DEF TypeOK
<1>12. CASE LeaseExpires
  BY <1>12 DEF TypeOK, LeaseExpires
<1>13. CASE UNCHANGED vars
  BY <1>13 DEF TypeOK, vars
<1> QED
  BY <1>1, <1>2, <1>3, <1>4, <1>5, <1>6, <1>7, <1>8, <1>9, <1>10, <1>11, <1>12, <1>13 DEF Next

\* Type correctness for any servers, jobs and releases.
THEOREM TypeCorrect == Spec => []TypeOK
<1>1. Init => TypeOK
  <2> SUFFICES ASSUME Init PROVE TypeOK
    OBVIOUS
  <2>1. 1 \in 1 .. MaxRows + 1 /\ 0 \in 0 .. MaxEvents
    BY BoundsAssumption
  <2>2. Idle \in [Threads -> Snapshot \cup {Null}]
    BY DEF Idle
  <2> QED
    BY <2>1, <2>2 DEF Init, TypeOK, INIT
<1> QED
  BY <1>1, TypeStep, PTL DEF Spec

-----------------------------------------------------------------------------
(* The lock of scan                                                        *)

\* Who scans holds SCAN_EXECUTOR, and selects before its transaction begins.
ScanHolder ==
    \A n \in Nodes :
        /\ selected[n] # Null => scanLock = n /\ saving[n]["scan"] = Null
        /\ saving[n]["scan"] # Null => scanLock = n

\* Every step keeps the scan and the group that others may insert apart.
LEMMA LockStep ==
    ASSUME TypeOK, ScanHolder, GroupStillMissing, [Next]_vars
    PROVE  ScanHolder' /\ GroupStillMissing'
<1> DEFINE Good(m) ==
        /\ selected[m] # Null => scanLock = m /\ saving[m]["scan"] = Null
        /\ saving[m]["scan"] # Null => scanLock = m /\ (group => saving[m]["scan"].group)
<1> SUFFICES ASSUME NEW m \in Nodes PROVE Good(m)'
  BY DEF ScanHolder, GroupStillMissing
<1>0. \A n \in Nodes : Good(n)
  BY DEF ScanHolder, GroupStillMissing
<1>1. ASSUME NEW n \in Nodes, Scan(n) PROVE Good(m)'
  <2>1. /\ scanLock = Null /\ scanLock' = n /\ UNCHANGED <<group, saving>>
        /\ selected' = [selected EXCEPT ![n] = deployed]
        /\ saving[n]["scan"] = Null
    BY <1>1 DEF Scan, dbVars
  <2>2. CASE m = n
    BY <2>1, <2>2
  <2>3. CASE m # n
    <3>1. selected'[m] = selected[m]
      BY <2>1, <2>3 DEF TypeOK
    <3>2. scanLock # m
      BY <2>1, NullAssumption
    <3> QED
      BY <1>0, <2>1, <3>1, <3>2
  <2> QED
    BY <2>2, <2>3
<1>2. ASSUME NEW n \in Nodes, CheckAndSave(n) PROVE Good(m)'
  <2> DEFINE new == [jobs |-> selected[n], group |-> group, rows |-> rows]
  <2>1. new.group = group
    OBVIOUS
  <2> HIDE DEF new
  <2>2. /\ selected[n] # Null /\ UNCHANGED <<group, scanLock>>
        /\ selected' = [selected EXCEPT ![n] = Null]
        /\ saving' = [saving EXCEPT ![n]["scan"] = new]
    BY <1>2 DEF CheckAndSave, Reads, dbVars, new
  <2>3. CASE m = n
    <3>1. saving'[m]["scan"] = new /\ selected'[m] = Null
      BY <2>2, <2>3 DEF TypeOK, Threads
    <3> QED
      BY <1>0, <2>1, <2>2, <2>3, <3>1
  <2>4. CASE m # n
    <3>1. saving'[m]["scan"] = saving[m]["scan"] /\ selected'[m] = selected[m]
      BY <2>2, <2>4 DEF TypeOK, Threads
    <3> QED
      BY <1>0, <2>2, <3>1
  <2> QED
    BY <2>3, <2>4
<1>3. ASSUME NEW n \in Nodes, Listen(n) PROVE Good(m)'
  <2>1. PICK i \in event[n] : Reads(n, "listen", i) /\ UNCHANGED <<group, scanLock, selected>>
    BY <1>3 DEF Listen, dbVars
  <2>2. saving'[m]["scan"] = saving[m]["scan"]
    BY <2>1 DEF Reads, TypeOK, Threads
  <2> QED
    BY <1>0, <2>1, <2>2
<1>4. ASSUME NEW n \in Nodes, SaveScan(n) PROVE Good(m)'
  <2>1. /\ saving' = [saving EXCEPT ![n]["scan"] = Null] /\ saving[n]["scan"] # Null
        /\ UNCHANGED selected
    BY <1>4 DEF SaveScan
  <2>2. m = n => saving'[m]["scan"] = Null /\ selected[m] = Null
    BY <1>0, <2>1 DEF TypeOK, Threads
  <2>3. m # n => saving'[m]["scan"] = Null /\ selected[m] = Null
    <3>1. scanLock = n
      BY <1>0, <2>1
    <3>2. m # n => saving'[m]["scan"] = saving[m]["scan"]
      BY <2>1 DEF TypeOK, Threads
    <3> QED
      BY <1>0, <3>1, <3>2
  <2> QED
    BY <2>1, <2>2, <2>3
<1>5. ASSUME NEW n \in Nodes, SaveListen(n) PROVE Good(m)'
  <2>1. saving' = [saving EXCEPT ![n]["listen"] = Null] /\ UNCHANGED <<group, scanLock, selected>>
    BY <1>5 DEF SaveListen
  <2>2. saving'[m]["scan"] = saving[m]["scan"]
    BY <2>1 DEF TypeOK, Threads
  <2> QED
    BY <1>0, <2>1, <2>2
<1>6. ASSUME NEW n \in Nodes, Crash(n) PROVE Good(m)'
  <2>1. /\ saving' = [saving EXCEPT ![n] = Idle] /\ UNCHANGED <<group, scanLock>>
        /\ selected' = [selected EXCEPT ![n] = Null]
    BY <1>6 DEF Crash, dbVars
  <2>2. m = n => saving'[m]["scan"] = Null /\ selected'[m] = Null
    BY <2>1 DEF TypeOK, Threads, Idle
  <2>3. m # n => saving'[m]["scan"] = saving[m]["scan"] /\ selected'[m] = selected[m]
    BY <2>1 DEF TypeOK
  <2> QED
    BY <1>0, <2>1, <2>2, <2>3
<1>7. CASE LeaseExpires
  BY <1>0, <1>7 DEF LeaseExpires, dbVars
<1>8. CASE UNCHANGED <<group, scanLock, selected, saving>>
  BY <1>0, <1>8
<1>9. ASSUME NEW n \in Nodes,
             Hear(n) \/ Apply(n) \/ Restart(n) \/ Start(n) \/ StartJob(n) \/ Started(n)
      PROVE  UNCHANGED <<group, scanLock, selected, saving>>
  BY <1>9 DEF Hear, Apply, Restart, Start, StartJob, Started, dbVars, namingVars
<1>10. ASSUME NEW i, Deploy(i) PROVE UNCHANGED <<group, scanLock, selected, saving>>
  BY <1>10 DEF Deploy, dbVars
<1>11. ASSUME NEW vo, Push(vo) PROVE UNCHANGED <<group, scanLock, selected, saving>>
  BY <1>11 DEF Push, dbVars, namingVars
<1>12. UNCHANGED vars => UNCHANGED <<group, scanLock, selected, saving>>
  BY DEF vars, dbVars, namingVars
<1> HIDE DEF Good
<1> QED
  BY <1>1, <1>2, <1>3, <1>4, <1>5, <1>6, <1>7, <1>8, <1>9, <1>10, <1>11, <1>12 DEF Next

\* A scan that has found no group inserts the only one.
THEOREM GroupStillMissingHolds == Spec => []GroupStillMissing
<1>1. Init => ScanHolder /\ GroupStillMissing
  BY DEF Init, Idle, ScanHolder, GroupStillMissing, Threads
<1> QED
  BY <1>1, LockStep, TypeCorrect, PTL DEF Spec

-----------------------------------------------------------------------------
(* Rows keep their status                                                  *)

\* The rows a server has read and will write.
ReadBy(n, th) == IF saving[n][th] = Null THEN {} ELSE saving[n][th].rows

\* Ids are handed out in turn, and a row is known by its id.
IdsUsed ==
    /\ \A r \in rows : r.id < nextId
    /\ \A r, q \in rows : r.id = q.id => r = q
    /\ \A n \in Nodes, th \in Threads :
        /\ \A r \in ReadBy(n, th) : r.id < nextId
        /\ \A r, q \in ReadBy(n, th) : r.id = q.id => r = q
    /\ \A n \in Nodes : changing[n] # Null => changing[n].row.id < nextId
    /\ \A n \in Nodes : \A r \in toStart[n] : r.id < nextId
    /\ \A p \in scheduledAt \cup stoppedAt : p[2] < nextId

\* What a server has read of a row still says its status and name, or the row has
\* gone.
SameStatus ==
    /\ \A n \in Nodes, th \in Threads, q \in rows : \A r \in ReadBy(n, th) :
        r.id = q.id => r.status = q.status /\ r.name = q.name
    /\ \A n \in Nodes, q \in rows : changing[n] # Null /\ changing[n].row.id = q.id =>
        changing[n].row.status = q.status /\ changing[n].row.name = q.name
    /\ \A n \in Nodes, q \in rows : \A r \in toStart[n] :
        r.id = q.id => r.status = q.status /\ r.name = q.name

\* What a step does to the rows: a row after it is a row before it, with the same
\* status and name, or has a new id.
RowsGrow ==
    /\ nextId <= nextId'
    /\ \A q \in rows' :
        \/ \E r \in rows : r.id = q.id /\ r.status = q.status /\ r.name = q.name
        \/ nextId <= q.id /\ q.id < nextId'
    /\ \A q, r \in rows' : q.id = r.id => q = r

\* saveJobs lets the rows grow.
LEMMA SaveRows ==
    ASSUME TypeOK, IdsUsed, SameStatus,
           NEW n \in Nodes, NEW th \in Threads, saving[n][th] # Null,
           SaveSnapshot(n, th)
    PROVE  /\ RowsGrow
           /\ \A p \in scheduledAt' : p \in scheduledAt \/ p[2] < nextId'
<1> DEFINE s == saving[n][th]
<1>1. s \in Snapshot /\ s.rows = ReadBy(n, th)
  BY DEF TypeOK, ReadBy
<1>2. /\ \A r \in s.rows : r.id < nextId
      /\ \A r, q \in s.rows : r.id = q.id => r = q
      /\ \A r \in s.rows, q \in rows : r.id = q.id => r.status = q.status /\ r.name = q.name
  BY <1>1 DEF IdsUsed, SameStatus
<1>4. /\ nextId \in Nat
      /\ \A r \in rows : r.id \in Nat /\ r.id < nextId
      /\ \A r, q \in rows : r.id = q.id => r = q
  BY DEF TypeOK, IdsUsed, JobEntity, Ids
<1>5. CASE SaveNothing
  BY <1>4, <1>5 DEF SaveNothing, RowsGrow
<1>6. CASE s.jobs # NoInstance /\ SaveJobs(n, th)
  <2>1. s.jobs \in Releases
    BY <1>1, <1>6 DEF Snapshot, Instances
  <2> DEFINE k == Cardinality(NewJobs(s))
  <2>2. k \in Nat
    BY NewJobsFinite
  <2>3. PICK ids \in [NewJobs(s) -> nextId .. nextId + k - 1] :
          /\ \A i, j \in NewJobs(s) : ids[i] = ids[j] => i = j
          /\ nextId + k <= MaxRows + 1
          /\ nextId' = nextId + k
          /\ rows' = IF Committable(s) THEN Written(s, Inserted(s, ids)) ELSE rows
          /\ scheduledAt' = IF Committable(s)
                THEN scheduledAt \cup
                     {<<n, r.id>> : r \in {q \in Inserted(s, ids) : q.status = "RUNNING"}}
                ELSE scheduledAt
    BY <1>6 DEF SaveJobs
  <2> HIDE DEF k, s
  <2>4. ids \in [NewJobs(s) -> Ids]
    BY <2>2, <2>3, <1>4, BoundsAssumption DEF TypeOK, Ids
  <2> DEFINE new == Inserted(s, ids)
  <2>5. \A r \in new : r.name \in NewJobs(s) /\ r.id = ids[r.name]
    BY <1>1, <2>1, <2>4, InsertedRows
  <2>6. \A r \in new : nextId <= r.id /\ r.id < nextId'
    BY <1>4, <2>2, <2>3, <2>5
  <2>7. \A r, q \in new : r.id = q.id => r = q
    <3> SUFFICES ASSUME NEW r \in new, NEW q \in new, r.id = q.id PROVE r = q
      OBVIOUS
    <3>1. r.name = q.name
      BY <2>3, <2>5
    <3> QED
      BY <3>1 DEF Inserted
  <2>11. \A p \in scheduledAt' : p \in scheduledAt \/ p[2] < nextId'
    BY <2>3, <2>6 DEF new
  <2> HIDE DEF new
  <2>8. \A r \in Kept(s) : /\ r \in s.rows
                           /\ Updated(s, r).id = r.id
                           /\ Updated(s, r).name = r.name
                           /\ Updated(s, r).status = r.status
    BY <1>1, <2>1, UpdatedRow DEF Kept
  <2>9. CASE ~Committable(s)
    BY <1>4, <2>2, <2>3, <2>9 DEF RowsGrow
  <2>10. CASE Committable(s)
    <3>1. rows' = Written(s, new)
      BY <2>3, <2>10 DEF new
    <3>2. \A q \in rows' :
            \/ q \in rows /\ \A r \in Touched(s) : r.id # q.id
            \/ \E r \in Kept(s) \cap Touched(s) : q = Updated(s, r)
            \/ q \in new
      BY <3>1, WrittenRows
    <3>3. \A q \in rows' :
            \/ \E r \in rows : r.id = q.id /\ r.status = q.status /\ r.name = q.name
            \/ nextId <= q.id /\ q.id < nextId'
      BY <1>2, <2>6, <2>8, <2>10, <3>2 DEF Committable
    <3>4. \A q \in rows' :
            \/ q \in rows /\ q.id < nextId /\ \A r \in Touched(s) : r.id # q.id
            \/ \E r \in Touched(s) \cap s.rows : q = Updated(s, r) /\ q.id = r.id /\ r.id < nextId
            \/ q \in new /\ nextId <= q.id
      BY <1>2, <1>4, <2>6, <2>8, <3>2
    <3>5. \A r \in s.rows \cup new : r.id \in Nat
      BY <1>1, <1>4, <2>2, <2>3, <2>5 DEF Snapshot, JobEntity, Ids
    <3>6. ASSUME NEW q \in rows', NEW r \in rows', q.id = r.id PROVE q = r
      BY <1>2, <1>4, <2>7, <3>4, <3>5, <3>6
    <3> QED
      BY <1>4, <2>2, <2>3, <2>11, <3>3, <3>6 DEF RowsGrow
  <2> QED
    BY <2>9, <2>10, <2>11
<1> QED
  BY <1>5, <1>6 DEF SaveSnapshot

\* execute lets the rows grow.
LEMMA ApplyRows ==
    ASSUME TypeOK, IdsUsed, SameStatus, NEW n \in Nodes, Apply(n)
    PROVE  RowsGrow
<1> DEFINE row == changing[n].row
<1>1. row \in JobEntity /\ changing[n] # Null
  BY DEF TypeOK, Apply
<1>2. /\ row.id < nextId
      /\ \A q \in rows : row.id = q.id => row.status = q.status /\ row.name = q.name
  BY <1>1 DEF IdsUsed, SameStatus
<1>3. \/ UNCHANGED <<rows, nextId>>
      \/ /\ \E r \in rows : r.id = row.id
         /\ rows' = {r \in rows : r.id # row.id} \cup {row}
         /\ UNCHANGED nextId
      \/ /\ \A r \in rows : r.id # row.id
         /\ nextId \in Ids
         /\ rows' = rows \cup {[row EXCEPT !.id = nextId]}
         /\ nextId' = nextId + 1
  BY AppliedRows
<1> HIDE DEF row
<1>4. nextId \in Ids => [row EXCEPT !.id = nextId].id = nextId
  BY <1>1, InsertedAnew
<1>5. /\ nextId \in Nat
      /\ \A r \in rows : r.id \in Nat /\ r.id < nextId
      /\ \A r, q \in rows : r.id = q.id => r = q
  BY DEF TypeOK, IdsUsed, JobEntity, Ids
<1>6. CASE UNCHANGED <<rows, nextId>>
  BY <1>5, <1>6 DEF RowsGrow
<1>7. CASE /\ \E r \in rows : r.id = row.id
           /\ rows' = {r \in rows : r.id # row.id} \cup {row}
           /\ UNCHANGED nextId
  BY <1>2, <1>5, <1>7 DEF RowsGrow
<1>8. CASE /\ nextId \in Ids
           /\ rows' = rows \cup {[row EXCEPT !.id = nextId]}
           /\ nextId' = nextId + 1
  <2> DEFINE anew == [row EXCEPT !.id = nextId]
  <2>1. anew.id = nextId /\ rows' = rows \cup {anew}
    BY <1>4, <1>8
  <2> HIDE DEF anew
  <2> QED
    BY <1>5, <1>8, <2>1 DEF RowsGrow
<1> QED
  BY <1>3, <1>6, <1>7, <1>8

\* Every step lets the rows grow.
LEMMA EveryStepRows ==
    ASSUME TypeOK, IdsUsed, SameStatus, [Next]_vars
    PROVE  RowsGrow
<1> USE DEF dbVars
<1>1. UNCHANGED <<rows, nextId>> => RowsGrow
  BY DEF RowsGrow, TypeOK, IdsUsed
<1>2. ASSUME NEW i, Deploy(i) PROVE UNCHANGED <<rows, nextId>>
  BY <1>2 DEF Deploy
<1>3. ASSUME NEW vo, Push(vo) PROVE UNCHANGED <<rows, nextId>>
  BY <1>3 DEF Push
<1>4. ASSUME NEW n \in Nodes,
             \/ Scan(n) \/ CheckAndSave(n) \/ Listen(n) \/ Hear(n) \/ Crash(n)
             \/ Restart(n) \/ Start(n) \/ StartJob(n) \/ Started(n)
      PROVE  UNCHANGED <<rows, nextId>>
  BY <1>4 DEF Scan, CheckAndSave, Listen, Hear, Crash, Restart, Start, StartJob, Started
<1>5. ASSUME NEW n \in Nodes, SaveScan(n) PROVE RowsGrow
  BY <1>5, SaveRows DEF SaveScan, Threads
<1>6. ASSUME NEW n \in Nodes, SaveListen(n) PROVE RowsGrow
  BY <1>6, SaveRows DEF SaveListen, Threads
<1>7. ASSUME NEW n \in Nodes, Apply(n) PROVE RowsGrow
  BY <1>7, ApplyRows
<1>8. LeaseExpires \/ UNCHANGED vars => UNCHANGED <<rows, nextId>>
  BY DEF LeaseExpires, vars
<1> QED
  BY <1>1, <1>2, <1>3, <1>4, <1>5, <1>6, <1>7, <1>8 DEF Next

\* What a server has read stays what it was, is forgotten, or is read now; what it
\* has scheduled and stopped are rows that have been there.
ReadsFresh ==
    /\ \A m \in Nodes, th \in Threads :
        \/ saving'[m][th] \in {saving[m][th], Null}
        \/ saving'[m][th].rows = rows /\ UNCHANGED <<rows, nextId>>
    /\ \A m \in Nodes :
        \/ changing'[m] \in {changing[m], Null}
        \/ changing'[m].row \in rows /\ UNCHANGED <<rows, nextId>>
    /\ \A m \in Nodes :
        \/ toStart'[m] \subseteq toStart[m]
        \/ toStart'[m] \subseteq rows /\ UNCHANGED <<rows, nextId>>
    /\ \A p \in scheduledAt' \cup stoppedAt' :
        p \in scheduledAt \cup stoppedAt \/ p[2] < nextId'

\* What a transaction reads is the table.
LEMMA ReadStep ==
    ASSUME TypeOK, NEW n \in Nodes, CheckAndSave(n) \/ Listen(n)
    PROVE  /\ \A m \in Nodes, th \in Threads :
                saving'[m][th] = saving[m][th] \/ saving'[m][th].rows = rows
           /\ UNCHANGED <<nodeVars, dbVars, configVars, historyVars>>
<1>1. PICK ti \in Threads, i \in Instances : Reads(n, ti, i)
  BY DEF TypeOK, CheckAndSave, Listen, Threads
<1> DEFINE new == [jobs |-> i, group |-> group, rows |-> rows]
<1>2. new.rows = rows /\ saving' = [saving EXCEPT ![n][ti] = new]
  BY <1>1 DEF Reads
<1> HIDE DEF new
<1>3. saving \in [Nodes -> [Threads -> Snapshot \cup {Null}]]
  BY DEF TypeOK
<1>4. ASSUME NEW m \in Nodes, NEW th \in Threads
      PROVE  saving'[m][th] \in {saving[m][th], new}
  <2>1. CASE m = n
    BY <1>2, <1>3, <2>1
  <2>2. CASE m # n
    BY <1>2, <1>3, <2>2
  <2> QED
    BY <2>1, <2>2
<1>5. UNCHANGED <<nodeVars, dbVars, configVars, historyVars>>
  BY DEF CheckAndSave, Listen
<1> QED
  BY <1>2, <1>4, <1>5

\* Saving forgets what was read.
LEMMA SaveForgets ==
    ASSUME TypeOK, NEW n \in Nodes, NEW th \in Threads, saving' = [saving EXCEPT ![n][th] = Null]
    PROVE  /\ saving'[n][th] = Null
           /\ \A m \in Nodes, ti \in Threads : saving'[m][ti] \in {saving[m][ti], Null}
<1>1. saving \in [Nodes -> [Threads -> Snapshot \cup {Null}]]
  BY DEF TypeOK
<1>2. ASSUME NEW m \in Nodes, NEW ti \in Threads
      PROVE  saving'[m][ti] \in {saving[m][ti], Null}
  <2>1. CASE m = n
    BY <1>1, <2>1
  <2>2. CASE m # n
    BY <1>1, <2>2
  <2> QED
    BY <2>1, <2>2
<1>3. saving'[n][th] = Null
  BY <1>1
<1> QED
  BY <1>2, <1>3

\* The end of a transaction forgets what it has read.
LEMMA SaveReads ==
    ASSUME TypeOK, IdsUsed, SameStatus, NEW n \in Nodes, SaveScan(n) \/ SaveListen(n)
    PROVE  ReadsFresh
<1>1. PICK th \in Threads : /\ saving[n][th] # Null
                            /\ SaveSnapshot(n, th)
                            /\ saving' = [saving EXCEPT ![n][th] = Null]
  BY DEF SaveScan, SaveListen, Threads
<1>2. \A p \in scheduledAt' : p \in scheduledAt \/ p[2] < nextId'
  BY <1>1, SaveRows
<1>3. \A m \in Nodes, ti \in Threads : saving'[m][ti] \in {saving[m][ti], Null}
  BY <1>1, SaveForgets
<1>4. UNCHANGED <<changing, toStart, stoppedAt>>
  BY DEF SaveScan, SaveListen, configVars
<1> QED
  BY <1>2, <1>3, <1>4 DEF ReadsFresh

\* Every step reads fresh rows or none.
LEMMA EveryStepReads ==
    ASSUME TypeOK, IdsUsed, SameStatus, [Next]_vars
    PROVE  ReadsFresh
<1> DEFINE Same == UNCHANGED <<saving, changing, toStart, scheduledAt, stoppedAt>>
<1> USE DEF nodeVars, dbVars, namingVars, configVars, historyVars
<1>1. Same => ReadsFresh
  BY DEF ReadsFresh
<1>2. ASSUME NEW i, Deploy(i) PROVE Same
  BY <1>2 DEF Deploy
<1>3. ASSUME NEW vo, Push(vo) PROVE Same
  BY <1>3 DEF Push
<1>4. ASSUME NEW n \in Nodes, Scan(n) \/ Restart(n) \/ Started(n) PROVE Same
  BY <1>4 DEF Scan, Restart, Started
<1>5. LeaseExpires \/ UNCHANGED vars => Same
  BY DEF LeaseExpires, vars
<1>6. ASSUME NEW n \in Nodes, CheckAndSave(n) \/ Listen(n) PROVE ReadsFresh
  BY <1>6, ReadStep DEF ReadsFresh
<1>7. ASSUME NEW n \in Nodes, SaveScan(n) \/ SaveListen(n) PROVE ReadsFresh
  BY <1>7, SaveReads
<1>8. ASSUME NEW n \in Nodes, Hear(n) PROVE ReadsFresh
  <2>1. UNCHANGED <<saving, toStart, rows, nextId, scheduledAt, stoppedAt>>
    BY <1>8 DEF Hear
  <2>2. \/ changing' = changing
        \/ \E r \in rows : changing' = [changing EXCEPT ![n] = [change |-> config, row |-> r]]
    BY <1>8 DEF Hear
  <2>3. ASSUME NEW m \in Nodes PROVE changing'[m] = changing[m] \/ changing'[m].row \in rows
    BY <2>2 DEF TypeOK
  <2> QED
    BY <2>1, <2>3 DEF ReadsFresh
<1>9. ASSUME NEW n \in Nodes, Apply(n) PROVE ReadsFresh
  <2>1. changing[n] # Null /\ changing[n].row.id < nextId
    BY <1>9 DEF Apply, IdsUsed
  <2>2. nextId <= nextId' /\ nextId \in Nat /\ nextId' \in Nat
    BY <1>9, EveryStepRows, TypeStep, BoundsAssumption DEF Next, RowsGrow, TypeOK
  <2>3. changing[n].row.id \in Nat
    BY <2>1, ChangeType DEF Ids
  <2>4. \A p \in scheduledAt' \cup stoppedAt' :
          p \in scheduledAt \cup stoppedAt \/ p = <<n, changing[n].row.id>>
    BY <1>9 DEF Apply
  <2>5. \A p \in scheduledAt' \cup stoppedAt' :
          p \in scheduledAt \cup stoppedAt \/ p[2] < nextId'
    BY <2>1, <2>2, <2>3, <2>4
  <2>6. UNCHANGED <<saving, toStart>> /\ changing' = [changing EXCEPT ![n] = Null]
    BY <1>9 DEF Apply
  <2>7. \A m \in Nodes : changing'[m] \in {changing[m], Null}
    BY <2>6 DEF TypeOK
  <2> QED
    BY <2>5, <2>6, <2>7 DEF ReadsFresh
<1>10. ASSUME NEW n \in Nodes, Crash(n) PROVE ReadsFresh
  <2>1. /\ saving' = [saving EXCEPT ![n] = Idle]
        /\ changing' = [changing EXCEPT ![n] = Null]
        /\ toStart' = [toStart EXCEPT ![n] = {}]
        /\ scheduledAt' \subseteq scheduledAt /\ stoppedAt' \subseteq stoppedAt
    BY <1>10 DEF Crash
  <2>2. \A m \in Nodes, th \in Threads : saving'[m][th] \in {saving[m][th], Null}
    BY <2>1 DEF TypeOK, Idle
  <2>3. \A m \in Nodes : changing'[m] \in {changing[m], Null} /\ toStart'[m] \subseteq toStart[m]
    BY <2>1 DEF TypeOK
  <2> QED
    BY <2>1, <2>2, <2>3 DEF ReadsFresh
<1>11. ASSUME NEW n \in Nodes, Start(n) PROVE ReadsFresh
  <2>1. /\ UNCHANGED <<saving, changing, rows, nextId, scheduledAt, stoppedAt>>
        /\ toStart' = [toStart EXCEPT ![n] = {r \in rows : r.status = "RUNNING"}]
    BY <1>11 DEF Start
  <2>2. \A m \in Nodes : toStart'[m] \subseteq toStart[m] \/ toStart'[m] \subseteq rows
    BY <2>1 DEF TypeOK
  <2> QED
    BY <2>1, <2>2 DEF ReadsFresh
<1>12. ASSUME NEW n \in Nodes, StartJob(n) PROVE ReadsFresh
  <2>1. PICK r \in toStart[n] :
          /\ toStart' = [toStart EXCEPT ![n] = @ \ {r}]
          /\ scheduledAt' = scheduledAt \cup {<<n, r.id>>}
          /\ stoppedAt' \subseteq stoppedAt
          /\ UNCHANGED <<saving, changing, nextId>>
    BY <1>12 DEF StartJob
  <2>2. \A m \in Nodes : toStart'[m] \subseteq toStart[m]
    BY <2>1 DEF TypeOK
  <2>3. r.id < nextId
    BY DEF IdsUsed
  <2> QED
    BY <2>1, <2>2, <2>3 DEF ReadsFresh
<1> HIDE DEF Same
<1> QED
  BY <1>1, <1>2, <1>3, <1>4, <1>5, <1>6, <1>7, <1>8, <1>9, <1>10, <1>11, <1>12 DEF Next

\* Every step keeps ids apart and what was read of a row true.
LEMMA StatusStep ==
    ASSUME TypeOK, IdsUsed, SameStatus, [Next]_vars
    PROVE  IdsUsed' /\ SameStatus'
<1>1. RowsGrow
  BY EveryStepRows
<1>2. ReadsFresh
  BY EveryStepReads
<1>3. TypeOK'
  BY TypeStep
<1>4. /\ nextId \in Nat /\ nextId' \in Nat /\ nextId <= nextId'
      /\ \A r \in rows : r.id \in Nat /\ r.id < nextId
      /\ \A r \in rows' : r.id \in Nat
  BY <1>1, <1>3, BoundsAssumption DEF TypeOK, IdsUsed, RowsGrow, JobEntity, Ids
<1>5. \A r \in rows' : r.id < nextId'
  BY <1>1, <1>4 DEF RowsGrow
\* A row of rows' with an id that has been used is a row of rows.
<1>6. \A q \in rows' : q.id < nextId =>
        \E r \in rows : r.id = q.id /\ r.status = q.status /\ r.name = q.name
  BY <1>1, <1>4 DEF RowsGrow
<1>7. ASSUME NEW n \in Nodes, NEW th \in Threads
      PROVE  \/ ReadBy(n, th)' \subseteq ReadBy(n, th)
             \/ ReadBy(n, th)' \subseteq rows /\ rows' = rows /\ nextId' = nextId
  BY <1>2 DEF ReadsFresh, ReadBy
<1>8. ASSUME NEW n \in Nodes, NEW th \in Threads, NEW r \in ReadBy(n, th)
      PROVE  /\ r.id \in Nat /\ r.id < nextId
             /\ \A q \in rows : r.id = q.id => r.status = q.status /\ r.name = q.name
             /\ \A q \in ReadBy(n, th) : r.id = q.id => r = q
  BY <1>8 DEF TypeOK, IdsUsed, SameStatus, ReadBy, Snapshot, JobEntity, Ids
<1>9. ASSUME NEW n \in Nodes, NEW th \in Threads, NEW r \in ReadBy(n, th)'
      PROVE  /\ r.id < nextId'
             /\ \A q \in rows' : r.id = q.id => r.status = q.status /\ r.name = q.name
             /\ \A q \in ReadBy(n, th)' : r.id = q.id => r = q
  <2>1. CASE ReadBy(n, th)' \subseteq ReadBy(n, th)
    BY <1>4, <1>6, <1>8, <1>9, <2>1
  <2>2. CASE ReadBy(n, th)' \subseteq rows /\ rows' = rows /\ nextId' = nextId
    BY <1>4, <1>9, <2>2 DEF IdsUsed
  <2> QED
    BY <1>7, <2>1, <2>2
<1>10. ASSUME NEW n \in Nodes, changing'[n] # Null
       PROVE  /\ changing'[n].row.id < nextId'
              /\ \A q \in rows' : changing'[n].row.id = q.id =>
                    changing'[n].row.status = q.status /\ changing'[n].row.name = q.name
  <2>1. CASE changing'[n] = changing[n]
    <3>1. changing[n].row.id \in Nat /\ changing[n].row.id < nextId
      BY <1>10, <2>1, ChangeType DEF Ids, IdsUsed
    <3>2. \A q \in rows : changing[n].row.id = q.id =>
            changing[n].row.status = q.status /\ changing[n].row.name = q.name
      BY <1>10, <2>1 DEF SameStatus
    <3> QED
      BY <1>4, <1>6, <2>1, <3>1, <3>2
  <2>2. CASE changing'[n].row \in rows /\ rows' = rows /\ nextId' = nextId
    BY <1>4, <2>2 DEF IdsUsed
  <2> QED
    BY <1>2, <1>10, <2>1, <2>2 DEF ReadsFresh
<1>15. ASSUME NEW n \in Nodes, NEW r \in toStart'[n]
       PROVE  /\ r.id < nextId'
              /\ \A q \in rows' : r.id = q.id => r.status = q.status /\ r.name = q.name
  <2>1. CASE r \in toStart[n]
    <3>1. r.id \in Nat /\ r.id < nextId
      BY <2>1 DEF TypeOK, IdsUsed, JobEntity, Ids
    <3>2. \A q \in rows : r.id = q.id => r.status = q.status /\ r.name = q.name
      BY <2>1 DEF SameStatus
    <3> QED
      BY <1>4, <1>6, <3>1, <3>2
  <2>2. CASE r \in rows /\ rows' = rows /\ nextId' = nextId
    BY <1>4, <2>2 DEF IdsUsed
  <2> QED
    BY <1>2, <1>15, <2>1, <2>2 DEF ReadsFresh
<1>11. \A p \in scheduledAt' \cup stoppedAt' : p[2] < nextId'
  <2>1. \A p \in scheduledAt \cup stoppedAt : p[2] \in Nat /\ p[2] < nextId
    BY DEF TypeOK, IdsUsed, Ids
  <2> QED
    BY <1>2, <1>4, <2>1 DEF ReadsFresh
<1>12. \A r, q \in rows' : r.id = q.id => r = q
  BY <1>1 DEF RowsGrow
<1>13. IdsUsed'
  BY <1>5, <1>9, <1>10, <1>11, <1>12, <1>15 DEF IdsUsed
<1>14. SameStatus'
  BY <1>9, <1>10, <1>15 DEF SameStatus
<1> QED
  BY <1>13, <1>14

\* In the beginning there is nothing.
LEMMA StatusInit == Init => IdsUsed /\ SameStatus
  BY DEF Init, IdsUsed, SameStatus, ReadBy, Idle

\* Neither a release nor the operator changes the status of a row.
THEOREM FirstStatusCountsHolds == Spec => FirstStatusCounts
<1> DEFINE StatusKept == \A r \in rows, q \in rows' : r.id = q.id => r.status = q.status
<1>1. ASSUME TypeOK, IdsUsed, SameStatus, [Next]_vars
      PROVE  StatusKept
  <2>1. RowsGrow
    BY <1>1, EveryStepRows
  <2>2. /\ nextId \in Nat
        /\ \A r \in rows : r.id \in Nat /\ r.id < nextId
        /\ \A r, q \in rows : r.id = q.id => r = q
    BY <1>1 DEF TypeOK, IdsUsed, JobEntity, Ids
  <2> QED
    BY <2>1, <2>2 DEF RowsGrow
<1>2. Spec => [](IdsUsed /\ SameStatus)
  BY StatusInit, StatusStep, TypeCorrect, PTL DEF Spec
<1>3. TypeOK /\ IdsUsed /\ SameStatus /\ [Next]_vars => [StatusKept]_vars
  BY <1>1
<1>4. Spec => [][StatusKept]_vars
  BY <1>2, <1>3, TypeCorrect, PTL DEF Spec
<1> QED
  BY <1>4 DEF FirstStatusCounts

-----------------------------------------------------------------------------
(* Jobs of which no row was raced                                          *)

\* A transaction under way has read every row that is there and was not raced.
Seen ==
    \A n \in Nodes, th \in Threads : \A r \in rows :
        saving[n][th] # Null /\ r.id \notin raced =>
            \E q \in saving[n][th].rows : q.id = r.id

\* Of a name there is one row that was not raced.
OneUnraced ==
    \A r, q \in rows : r.name = q.name /\ r.id \notin raced /\ q.id \notin raced => r = q

\* What is inductive: the three properties need what a transaction has read.
Follows == Seen /\ OneUnraced /\ StopHolds /\ SchedulesWhatItFound

\* A row that is left and was not raced was there before.
OldUnraced ==
    \A q \in rows' : q.id \notin raced' =>
        \E r \in rows : r.id = q.id /\ r.name = q.name /\ r.id \notin raced

\* What was read before or is read now holds the rows that were not raced.
LEMMA SeenKept ==
    ASSUME Seen, OldUnraced, ReadsFresh
    PROVE  Seen'
<1> SUFFICES ASSUME NEW n \in Nodes, NEW th \in Threads, NEW r \in rows',
                    saving'[n][th] # Null, r.id \notin raced'
             PROVE  \E q \in saving'[n][th].rows : q.id = r.id
  BY DEF Seen
<1>1. PICK r0 \in rows : r0.id = r.id /\ r0.id \notin raced
  BY DEF OldUnraced
<1>2. CASE saving'[n][th] = saving[n][th]
  BY <1>1, <1>2 DEF Seen
<1>3. CASE saving'[n][th].rows = rows
  BY <1>1, <1>3
<1> QED
  BY <1>2, <1>3 DEF ReadsFresh

\* Rows that were there before and were not raced have one name each still.
LEMMA OneKept ==
    ASSUME TypeOK, IdsUsed, OneUnraced, OldUnraced, RowsGrow
    PROVE  OneUnraced'
<1> SUFFICES ASSUME NEW r \in rows', NEW q \in rows', r.name = q.name,
                    r.id \notin raced', q.id \notin raced'
             PROVE  r = q
  BY DEF OneUnraced
<1>1. PICK r0 \in rows : r0.id = r.id /\ r0.name = r.name /\ r0.id \notin raced
  BY DEF OldUnraced
<1>2. PICK q0 \in rows : q0.id = q.id /\ q0.name = q.name /\ q0.id \notin raced
  BY DEF OldUnraced
<1>3. r0 = q0
  BY <1>1, <1>2 DEF OneUnraced
<1> QED
  BY <1>1, <1>2, <1>3 DEF RowsGrow

\* Quartz begins with a job that is inserted and declared RUNNING.
LEMMA RescheduledNew ==
    ASSUME NEW s \in Snapshot, s.jobs \in Releases, NEW jobs,
           NEW j \in NewJobs(s), s.jobs[j].status = "RUNNING"
    PROVE  Rescheduled(s, jobs)[j] # Null
<1>1. \A r \in Gone(s) : r.name # j
  BY DEF Gone, NewJobs
<1>2. j \in Jobs /\ s.jobs[j].cron # Null
  BY ReleasesAssumption, NullAssumption DEF NewJobs, JobInfo
<1> QED
  BY <1>1, <1>2 DEF Rescheduled, added

\* Quartz goes on with, or ends, a job that the snapshot has a row of; it ends it
\* only with that row.
LEMMA RescheduledKnown ==
    ASSUME NEW s, NEW jobs, NEW k \in s.rows, k.name \in Jobs
    PROVE  /\ Rescheduled(s, jobs)[k.name] \in {Null, jobs[k.name]}
           /\ s.jobs[k.name] # Null => Rescheduled(s, jobs)[k.name] = jobs[k.name]
<1>1. k.name \notin NewJobs(s)
  BY DEF NewJobs
<1>2. s.jobs[k.name] # Null => \A r \in Gone(s) : r.name # k.name
  BY DEF Gone
<1> QED
  BY <1>1, <1>2 DEF Rescheduled

\* What the end of a transaction of server n does to the rows that were not raced.
SavedWell(n, th) ==
    /\ raced \subseteq raced' /\ rolledBack \subseteq rolledBack'
    /\ \A q \in rows' : q.id \notin raced' =>
        \/ \E r \in rows : r.id = q.id /\ r.name = q.name /\ r.id \notin raced
        \/ /\ ~OthersSave(n, th)
           /\ nextId <= q.id
           /\ \A r \in rows : r.name = q.name => r.id \in raced
           /\ \A r \in rows' : nextId <= r.id /\ r.name = q.name => r = q
    /\ \A q \in rows' : q.id < nextId /\ NotRaced(q.name)' =>
        /\ NotRaced(q.name)
        /\ \A m \in Nodes :
            /\ trigger'[m][q.name] \in {Null, trigger[m][q.name]}
            /\ m \notin rolledBack' => trigger'[m][q.name] = trigger[m][q.name]
    /\ \A p \in scheduledAt' : p \in scheduledAt \/
        \E q \in rows' : p = <<n, q.id>> /\ trigger'[n][q.name] # Null

\* The end of a transaction leaves the jobs of which no row was raced well.
LEMMA SaveWell ==
    ASSUME TypeOK, IdsUsed, SameStatus, Seen, NEW n \in Nodes, NEW th \in Threads,
           saving[n][th] # Null, SaveSnapshot(n, th)
    PROVE  SavedWell(n, th)
<1> DEFINE s == saving[n][th]
<1>1. s \in Snapshot /\ s.rows = ReadBy(n, th)
  BY DEF TypeOK, ReadBy
\* What the transaction has read, of rows that are still there and of others.
<1>2. /\ \A r, q \in s.rows : r.id = q.id => r = q
      /\ \A r \in s.rows : r.id \in Nat /\ r.id < nextId /\ r.name \in Jobs
      /\ \A r \in s.rows, q \in rows : r.id = q.id => r.name = q.name
      /\ \A q \in rows : q.id \notin raced => \E r \in s.rows : r.id = q.id /\ r.name = q.name
  <2>1. \A r, q \in s.rows : r.id = q.id => r = q
    BY <1>1 DEF IdsUsed
  <2>2. \A r \in s.rows : r.id \in Nat /\ r.id < nextId /\ r.name \in Jobs
    BY <1>1 DEF IdsUsed, Snapshot, JobEntity, Ids
  <2>3. \A r \in s.rows, q \in rows : r.id = q.id => r.name = q.name
    BY <1>1 DEF SameStatus
  <2>4. \A q \in rows : q.id \notin raced => \E r \in s.rows : r.id = q.id
    BY DEF Seen
  <2> QED
    BY <2>1, <2>2, <2>3, <2>4
<1>3. /\ nextId \in Nat
      /\ \A r \in rows : r.id \in Nat /\ r.id < nextId /\ r.name \in Jobs
      /\ \A r, q \in rows : r.id = q.id => r = q
  BY DEF TypeOK, IdsUsed, JobEntity, Ids
<1>4. CASE SaveNothing
  <2>1. \A j : NotRaced(j)' => NotRaced(j)
    BY <1>4 DEF SaveNothing, NotRaced, RowsOf
  <2> QED
    BY <1>4, <2>1 DEF SaveNothing, SavedWell
<1>5. CASE s.jobs # NoInstance /\ SaveJobs(n, th)
  <2>1. s.jobs \in Releases
    BY <1>1, <1>5 DEF Snapshot, Instances
  <2> DEFINE k == Cardinality(NewJobs(s))
  <2>2. k \in Nat
    BY NewJobsFinite
  <2>3. PICK ids \in [NewJobs(s) -> nextId .. nextId + k - 1] :
          /\ nextId + k <= MaxRows + 1
          /\ trigger' = [trigger EXCEPT ![n] = Rescheduled(s, @)]
          /\ \/ /\ Committable(s)
                /\ rows' = Written(s, Inserted(s, ids))
                /\ scheduledAt' = scheduledAt \cup
                      {<<n, r.id>> : r \in {q \in Inserted(s, ids) : q.status = "RUNNING"}}
                /\ raced' = IF OthersSave(n, th)
                            THEN raced \cup {r.id : r \in Inserted(s, ids)} ELSE raced
                /\ UNCHANGED rolledBack
             \/ /\ rolledBack' = rolledBack \cup {n}
                /\ UNCHANGED <<rows, scheduledAt, raced>>
    BY <1>5 DEF SaveJobs
  <2> HIDE DEF k
  <2>4. ids \in [NewJobs(s) -> Ids]
    BY <1>3, <2>2, <2>3, BoundsAssumption DEF TypeOK, Ids
  <2> HIDE DEF s
  <2> DEFINE new == Inserted(s, ids)
             others == OthersSave(n, th)
             job == Rescheduled(s, trigger[n])
  <2>5. \A r \in new : /\ r.name \in NewJobs(s) /\ r.id = ids[r.name]
                       /\ r.status = s.jobs[r.name].status
    BY <1>1, <2>1, <2>4, InsertedRows
  <2>6. \A r \in new : nextId <= r.id /\ r.id \in Nat
    BY <1>3, <2>2, <2>3, <2>5
  <2>7. \A r, q \in new : r.name = q.name => r = q
    BY DEF Inserted
  <2>8. \A r \in Kept(s) : /\ r \in s.rows
                           /\ Updated(s, r).id = r.id /\ Updated(s, r).name = r.name
    BY <1>1, <2>1, UpdatedRow DEF Kept
  <2>9. trigger'[n] = job /\ \A m \in Nodes : m # n => trigger'[m] = trigger[m]
    BY <2>3 DEF TypeOK
  <2>10. \A j \in NewJobs(s) : s.jobs[j].status = "RUNNING" => job[j] # Null
    BY <1>1, <2>1, RescheduledNew
  <2>11. \A r \in s.rows : /\ job[r.name] \in {Null, trigger[n][r.name]}
                           /\ s.jobs[r.name] # Null => job[r.name] = trigger[n][r.name]
    BY <1>2, RescheduledKnown
  \* A row that has been there and is not new was read with its name if it was not raced.
  <2>12. \A q \in rows : q.id \notin raced => q.name \notin NewJobs(s)
    BY <1>2 DEF NewJobs
  <2> HIDE DEF job
  <2>13. CASE /\ rolledBack' = rolledBack \cup {n}
              /\ UNCHANGED <<rows, scheduledAt, raced>>
    <3>1. \A j : NotRaced(j)' => NotRaced(j)
      BY <2>13 DEF NotRaced, RowsOf
    <3>2. ASSUME NEW q \in rows, NotRaced(q.name), NEW m \in Nodes
          PROVE  /\ trigger'[m][q.name] \in {Null, trigger[m][q.name]}
                 /\ m \notin rolledBack' => trigger'[m][q.name] = trigger[m][q.name]
      <4>1. q.id \notin raced
        BY <3>2 DEF NotRaced, RowsOf
      <4>2. PICK r \in s.rows : r.name = q.name
        BY <1>2, <4>1
      <4> QED
        BY <2>9, <2>11, <2>13, <4>2
    <3>3. raced \subseteq raced' /\ rolledBack \subseteq rolledBack'
      BY <2>13
    <3>4. \A q \in rows' : q \in rows /\ (q.id \notin raced' => q.id \notin raced)
      BY <2>13
    <3>5. \A p \in scheduledAt' : p \in scheduledAt
      BY <2>13
    <3> QED
      BY <3>1, <3>2, <3>3, <3>4, <3>5 DEF SavedWell
  <2>14. CASE /\ rows' = Written(s, new)
              /\ scheduledAt' = scheduledAt \cup
                    {<<n, r.id>> : r \in {q \in new : q.status = "RUNNING"}}
              /\ raced' = IF others THEN raced \cup {r.id : r \in new} ELSE raced
              /\ UNCHANGED rolledBack
              /\ Committable(s)
    <3> HIDE DEF new, others
    <3>1. raced \subseteq raced' /\ rolledBack' = rolledBack
      BY <2>14
    <3>2. \A q \in new : q \in rows'
      BY <2>14 DEF Written
    \* Where an old row comes from, and what the release says of its name.
    <3>3. ASSUME NEW q \in rows', q \notin new
          PROVE  \E r \in rows : /\ r.id = q.id /\ r.name = q.name
                                 /\ \A p \in s.rows : p.id = q.id => p \notin Gone(s)
      <4>1. CASE q \in rows /\ \A r \in Touched(s) : r.id # q.id
        BY <4>1 DEF Touched
      <4>2. CASE \E r \in Kept(s) \cap Touched(s) : q = Updated(s, r)
        <5>1. PICK r \in Kept(s) : r \in Touched(s) /\ q = Updated(s, r)
          BY <4>2
        <5>2. q.id = r.id /\ q.name = r.name /\ r \in s.rows
          BY <2>8, <5>1
        <5>3. PICK r0 \in rows : r0.id = r.id
          BY <2>14, <5>1 DEF Committable
        <5>4. \A p \in s.rows : p.id = q.id => p \notin Gone(s)
          BY <1>2, <5>1, <5>2 DEF Gone, Kept
        <5> QED
          BY <1>2, <5>2, <5>3, <5>4
      <4> QED
        BY <2>14, <3>3, <4>1, <4>2, WrittenRows
    <3>4. ASSUME NEW q \in rows', q.id \notin raced'
          PROVE  \/ \E r \in rows : r.id = q.id /\ r.name = q.name /\ r.id \notin raced
                 \/ /\ ~others
                    /\ nextId <= q.id
                    /\ \A r \in rows : r.name = q.name => r.id \in raced
                    /\ \A r \in rows' : nextId <= r.id /\ r.name = q.name => r = q
      <4>1. CASE q \in new
        <5>1. ~others
          BY <2>14, <3>4, <4>1
        <5>2. \A r \in rows : r.name = q.name => r.id \in raced
          BY <2>5, <2>12, <4>1
        <5>3. \A r \in rows' : r \in new \/ r.id < nextId
          BY <1>3, <3>3
        <5>4. \A r \in rows' : nextId <= r.id /\ r.name = q.name => r = q
          <6> SUFFICES ASSUME NEW r \in rows', nextId <= r.id, r.name = q.name, r \notin new
                       PROVE  FALSE
            BY <2>7, <4>1
          <6>1. PICK r0 \in rows : r0.id = r.id
            BY <3>3
          <6> QED
            BY <1>3, <6>1
        <5> QED
          BY <2>6, <4>1, <5>1, <5>2, <5>4
      <4>2. CASE q \notin new
        BY <3>1, <3>3, <3>4, <4>2
      <4> QED
        BY <4>1, <4>2
    <3>5. ASSUME NEW q \in rows', q.id < nextId, NotRaced(q.name)'
          PROVE  /\ NotRaced(q.name)
                 /\ \A m \in Nodes : trigger'[m][q.name] = trigger[m][q.name]
      <4>1. q \notin new
        BY <1>3, <2>6, <3>5
      <4>2. q.id \notin raced'
        BY <3>5 DEF NotRaced, RowsOf
      <4>3. PICK r \in rows : /\ r.id = q.id /\ r.name = q.name
                              /\ \A p \in s.rows : p.id = q.id => p \notin Gone(s)
        BY <3>3, <4>1
      <4>4. r.id \notin raced
        BY <3>1, <4>2, <4>3
      <4>5. PICK p \in s.rows : p.id = r.id /\ p.name = r.name
        BY <1>2, <4>4
      <4>6. s.jobs[q.name] # Null
        BY <4>3, <4>5 DEF Gone
      <4>7. NotRaced(q.name)
        <5> SUFFICES ASSUME NEW x \in rows, x.name = q.name, x.id \in raced PROVE FALSE
          BY DEF NotRaced, RowsOf
        <5>1. \A y \in rows' : y.name = q.name => y.id \notin raced'
          BY <3>5 DEF NotRaced, RowsOf
        <5>2. CASE \A y \in Touched(s) : y.id # x.id
          <6>1. x \in rows'
            BY <2>14, <5>2 DEF Written
          <6> QED
            BY <3>1, <5>1, <6>1
        <5>3. CASE \E y \in Touched(s) : y.id = x.id
          <6>1. PICK y \in Touched(s) : y.id = x.id
            BY <5>3
          <6>2. y \in s.rows /\ y.name = q.name
            BY <1>2, <6>1 DEF Touched, Gone, Kept
          <6>3. y \in Kept(s)
            BY <4>6, <6>2 DEF Kept
          <6>4. Updated(s, y) \in rows'
            BY <2>14, <6>1, <6>3 DEF Written
          <6> QED
            BY <2>8, <3>1, <5>1, <6>1, <6>2, <6>3, <6>4
        <5> QED
          BY <5>2, <5>3
      <4>8. ASSUME NEW m \in Nodes PROVE trigger'[m][q.name] = trigger[m][q.name]
        BY <2>9, <2>11, <4>3, <4>5, <4>6
      <4> QED
        BY <4>7, <4>8
    <3>6. ASSUME NEW p \in scheduledAt', p \notin scheduledAt
          PROVE  \E q \in rows' : p = <<n, q.id>> /\ trigger'[n][q.name] # Null
      <4>1. PICK q \in new : p = <<n, q.id>> /\ q.status = "RUNNING"
        BY <2>14, <3>6
      <4> QED
        BY <2>5, <2>9, <2>10, <3>2, <4>1
    <3> USE DEF others
    <3> QED
      BY <3>1, <3>4, <3>5, <3>6 DEF SavedWell
  <2> QED
    BY <2>3, <2>13, <2>14
<1> QED
  BY <1>4, <1>5 DEF SaveSnapshot

\* The end of a save.
LEMMA SaveFollows ==
    ASSUME TypeOK, IdsUsed, SameStatus, Follows, NEW n \in Nodes, SaveScan(n) \/ SaveListen(n)
    PROVE  Follows'
<1>1. PICK th \in Threads : /\ saving[n][th] # Null
                            /\ SaveSnapshot(n, th)
                            /\ saving' = [saving EXCEPT ![n][th] = Null]
  BY DEF SaveScan, SaveListen, Threads
<1>2. SavedWell(n, th)
  BY <1>1, SaveWell DEF Follows
<1>3. RowsGrow /\ ReadsFresh
  BY <1>1, SaveRows, SaveReads
<1>4. UNCHANGED stoppedAt
  BY DEF SaveScan, SaveListen
<1>5. /\ nextId \in Nat
      /\ \A p \in scheduledAt \cup stoppedAt : p[2] \in Nat /\ p[2] < nextId
  BY DEF TypeOK, IdsUsed, Ids
<1>6. Seen'
  <2>1. CASE OthersSave(n, th)
    <3>1. OldUnraced
      BY <1>2, <2>1 DEF SavedWell, OldUnraced
    <3> QED
      BY <1>3, <3>1, SeenKept DEF Follows
  <2>2. CASE ~OthersSave(n, th)
    <3>1. ASSUME NEW m \in Nodes, NEW ti \in Threads, saving'[m][ti] # Null PROVE FALSE
      <4>1. saving'[n][th] = Null /\ saving'[m][ti] \in {saving[m][ti], Null}
        BY <1>1, SaveForgets
      <4>2. saving[m][ti] # Null /\ ~(m = n /\ ti = th)
        BY <3>1, <4>1
      <4>3. <<m, ti>> # <<n, th>>
        BY <4>2
      <4> QED
        BY <2>2, <4>2, <4>3 DEF OthersSave
    <3> QED
      BY <3>1 DEF Seen
  <2> QED
    BY <2>1, <2>2
<1>7. OneUnraced'
  <2> SUFFICES ASSUME NEW r \in rows', NEW q \in rows', r.name = q.name,
                      r.id \notin raced', q.id \notin raced'
               PROVE  r = q
    BY DEF OneUnraced
  <2> DEFINE Old(x) == \E y \in rows : y.id = x.id /\ y.name = x.name /\ y.id \notin raced
             New(x) == /\ nextId <= x.id
                       /\ \A y \in rows : y.name = x.name => y.id \in raced
                       /\ \A y \in rows' : nextId <= y.id /\ y.name = x.name => y = x
  <2>1. (Old(r) \/ New(r)) /\ (Old(q) \/ New(q))
    BY <1>2 DEF SavedWell
  <2>2. CASE Old(r) /\ Old(q)
    BY <1>3, <2>2 DEF Follows, OneUnraced, RowsGrow
  <2>3. CASE New(r) /\ New(q)
    BY <2>3
  <2>4. CASE (Old(r) /\ New(q)) \/ (New(r) /\ Old(q))
    BY <2>4
  <2> HIDE DEF Old, New
  <2> QED
    BY <2>1, <2>2, <2>3, <2>4
\* A row with an id that has been used was there, and Quartz goes on as it did.
<1>8. ASSUME NEW q \in rows', q.id < nextId, NotRaced(q.name)'
      PROVE  /\ \E r \in rows : r.id = q.id /\ r.name = q.name
             /\ NotRaced(q.name)
             /\ \A m \in Nodes :
                 /\ trigger'[m][q.name] \in {Null, trigger[m][q.name]}
                 /\ m \notin rolledBack' => trigger'[m][q.name] = trigger[m][q.name]
  <2>1. q.id \in Nat
    BY <1>8, TypeStep DEF Next, TypeOK, JobEntity, Ids
  <2>2. \E r \in rows : r.id = q.id /\ r.name = q.name
    BY <1>3, <1>5, <1>8, <2>1 DEF RowsGrow
  <2> QED
    BY <1>2, <1>8, <2>2 DEF SavedWell
<1>9. StopHolds'
  <2> SUFFICES ASSUME NEW q \in rows', NEW m \in Nodes, <<m, q.id>> \in stoppedAt,
                      NotRaced(q.name)'
               PROVE  trigger'[m][q.name] = Null
    BY <1>4 DEF StopHolds
  <2>1. q.id < nextId
    BY <1>5
  <2> QED
    BY <1>8, <2>1 DEF Follows, StopHolds
<1>10. SchedulesWhatItFound'
  <2> SUFFICES ASSUME NEW q \in rows', NEW m \in Nodes, <<m, q.id>> \in scheduledAt',
                      NotRaced(q.name)', m \notin rolledBack'
               PROVE  trigger'[m][q.name] # Null
    BY DEF SchedulesWhatItFound
  <2>1. CASE <<m, q.id>> \in scheduledAt
    <3>1. q.id < nextId
      BY <1>5, <2>1
    <3>2. m \notin rolledBack
      BY <1>2 DEF SavedWell
    <3> QED
      BY <1>8, <2>1, <3>1, <3>2 DEF Follows, SchedulesWhatItFound
  <2>2. CASE <<m, q.id>> \notin scheduledAt
    <3>1. PICK r \in rows' : <<m, q.id>> = <<n, r.id>> /\ trigger'[n][r.name] # Null
      BY <1>2, <2>2 DEF SavedWell
    <3>2. m = n /\ q = r
      BY <1>3, <3>1 DEF RowsGrow
    <3> QED
      BY <3>1, <3>2
  <2> QED
    BY <2>1, <2>2
<1> QED
  BY <1>6, <1>7, <1>9, <1>10 DEF Follows

\* What execute does to a job that is stopped, and to one that is scheduled.
LEMMA ChangedJob ==
    ASSUME NEW vo, NEW row, NEW jobs \in [Jobs -> Crons \cup {Null}],
           row.name \in Jobs, row.cron # Null
    PROVE  /\ Stops(vo, row) => Changed(jobs, vo, row)[row.name] = Null
           /\ vo.status # "RUNNING" /\ jobs[row.name] = Null =>
                Changed(jobs, vo, row)[row.name] = Null
           /\ ~Stops(vo, row) /\ jobs[row.name] # Null =>
                Changed(jobs, vo, row)[row.name] # Null
           /\ \A j \in Jobs : j # row.name => Changed(jobs, vo, row)[j] = jobs[j]
  BY DEF Changed, added, Stops, Starts, Retimes

\* What execute does to the rows that were not raced: they stay, under their names.
LEMMA AppliedUnraced ==
    ASSUME TypeOK, IdsUsed, SameStatus, NEW n \in Nodes, Apply(n)
    PROVE  OldUnraced /\ \A j : NotRaced(j)' => NotRaced(j)
<1> DEFINE row == changing[n].row
<1>1. row \in JobEntity /\ changing[n] # Null
  BY DEF TypeOK, Apply
<1>2. \A q \in rows : row.id = q.id => row.name = q.name
  BY <1>1 DEF SameStatus
<1>3. \/ UNCHANGED <<rows, raced>>
      \/ /\ rows' = {r \in rows : r.id # row.id} \cup {row}
         /\ \E r \in rows : r.id = row.id
         /\ UNCHANGED raced
      \/ /\ rows' = rows \cup {[row EXCEPT !.id = nextId]}
         /\ [row EXCEPT !.id = nextId].id = nextId
         /\ raced' = raced \cup {nextId}
  BY <1>1, AppliedRows, InsertedAnew
<1> HIDE DEF row
<1>4. OldUnraced
  BY <1>2, <1>3 DEF OldUnraced
<1>5. /\ raced \subseteq raced'
      /\ \A r \in rows : \E q \in rows' : q.id = r.id /\ q.name = r.name
  <2>1. CASE UNCHANGED <<rows, raced>>
    BY <2>1
  <2>2. CASE /\ rows' = {r \in rows : r.id # row.id} \cup {row}
             /\ UNCHANGED raced
    BY <1>2, <2>2
  <2>3. CASE /\ rows' = rows \cup {[row EXCEPT !.id = nextId]}
             /\ raced' = raced \cup {nextId}
    BY <2>3
  <2> QED
    BY <1>3, <2>1, <2>2, <2>3
<1>6. ASSUME NEW j, NotRaced(j)' PROVE NotRaced(j)
  BY <1>5, <1>6 DEF NotRaced, RowsOf
<1> QED
  BY <1>4, <1>6

\* The end of execute.
LEMMA ApplyFollows ==
    ASSUME TypeOK, IdsUsed, SameStatus, Follows, NEW n \in Nodes, Apply(n)
    PROVE  Follows'
<1> DEFINE vo == changing[n].change
           row == changing[n].row
           its == {n} \X RowsOf(row.name)
<1>1. OldUnraced /\ \A j : NotRaced(j)' => NotRaced(j)
  BY AppliedUnraced
<1>2. RowsGrow /\ ReadsFresh
  BY ApplyRows, EveryStepReads DEF Next
<1>3. /\ row \in JobEntity /\ row.name \in Jobs /\ row.cron # Null
      /\ \A q \in rows : row.id = q.id => row.name = q.name
  BY NullAssumption DEF TypeOK, Apply, JobEntity, SameStatus
<1>4. /\ trigger' = [trigger EXCEPT ![n] = Changed(@, vo, row)]
      /\ UNCHANGED rolledBack
      /\ \/ /\ Stops(vo, row)
            /\ stoppedAt' = stoppedAt \cup {<<n, row.id>>}
            /\ scheduledAt' = scheduledAt \ its
         \/ /\ ~Stops(vo, row) /\ vo.status = "RUNNING"
            /\ stoppedAt' = stoppedAt \ its
            /\ UNCHANGED scheduledAt
         \/ /\ ~Stops(vo, row) /\ vo.status # "RUNNING"
            /\ UNCHANGED <<stoppedAt, scheduledAt>>
  BY DEF Apply, Stops
<1>5. /\ trigger'[n] = Changed(trigger[n], vo, row)
      /\ trigger[n] \in [Jobs -> Crons \cup {Null}]
      /\ \A m \in Nodes : m # n => trigger'[m] = trigger[m]
  BY <1>4 DEF TypeOK
<1> HIDE DEF vo, row
<1>6. ASSUME NEW q \in rows', NotRaced(q.name)'
      PROVE  \E r \in rows : r.id = q.id /\ r.name = q.name /\ r.name \in Jobs /\ NotRaced(r.name)
  <2>1. q.id \notin raced'
    BY <1>6 DEF NotRaced, RowsOf
  <2> QED
    BY <1>1, <1>6, <2>1 DEF OldUnraced, TypeOK, JobEntity
<1>7. StopHolds'
  <2> SUFFICES ASSUME NEW q \in rows', NEW m \in Nodes, <<m, q.id>> \in stoppedAt',
                      NotRaced(q.name)'
               PROVE  trigger'[m][q.name] = Null
    BY DEF StopHolds
  <2>1. PICK r \in rows : r.id = q.id /\ r.name = q.name /\ r.name \in Jobs /\ NotRaced(r.name)
    BY <1>6
  <2>2. <<m, r.id>> \in stoppedAt => trigger[m][r.name] = Null
    BY <2>1 DEF Follows, StopHolds
  <2>3. CASE m # n
    BY <1>4, <1>5, <2>1, <2>2, <2>3
  <2>4. CASE m = n /\ r.name # row.name
    <3>1. <<m, r.id>> \in stoppedAt
      BY <1>3, <1>4, <2>1, <2>4
    <3> QED
      BY <1>3, <1>5, <2>1, <2>2, <2>4, <3>1, ChangedJob
  <2>5. CASE m = n /\ r.name = row.name /\ Stops(vo, row)
    BY <1>3, <1>5, <2>1, <2>5, ChangedJob
  <2>6. CASE m = n /\ r.name = row.name /\ ~Stops(vo, row)
    <3>1. <<m, r.id>> \in its
      BY <2>6 DEF RowsOf
    <3>2. vo.status # "RUNNING" /\ <<m, r.id>> \in stoppedAt
      BY <1>4, <2>1, <2>6, <3>1
    <3> QED
      BY <1>3, <1>5, <2>1, <2>2, <2>6, <3>2, ChangedJob
  <2> QED
    BY <2>3, <2>4, <2>5, <2>6
<1>8. SchedulesWhatItFound'
  <2> SUFFICES ASSUME NEW q \in rows', NEW m \in Nodes, <<m, q.id>> \in scheduledAt',
                      NotRaced(q.name)', m \notin rolledBack'
               PROVE  trigger'[m][q.name] # Null
    BY DEF SchedulesWhatItFound
  <2>1. PICK r \in rows : r.id = q.id /\ r.name = q.name /\ r.name \in Jobs /\ NotRaced(r.name)
    BY <1>6
  <2>2. <<m, r.id>> \in scheduledAt /\ trigger[m][r.name] # Null
    BY <1>4, <2>1 DEF Follows, SchedulesWhatItFound
  <2>3. CASE m # n
    BY <1>5, <2>1, <2>2, <2>3
  <2>4. CASE m = n /\ r.name # row.name
    BY <1>3, <1>5, <2>1, <2>2, <2>4, ChangedJob
  <2>5. CASE m = n /\ r.name = row.name
    <3>1. <<m, r.id>> \in its
      BY <2>5 DEF RowsOf
    <3>2. ~Stops(vo, row)
      BY <1>4, <2>1, <3>1
    <3> QED
      BY <1>3, <1>5, <2>1, <2>2, <2>5, <3>2, ChangedJob
  <2> QED
    BY <2>3, <2>4, <2>5
<1>9. Seen' /\ OneUnraced'
  BY <1>1, <1>2, SeenKept, OneKept DEF Follows
<1> QED
  BY <1>7, <1>8, <1>9 DEF Follows

\* A server that starts schedules a row it has read.
LEMMA StartJobFollows ==
    ASSUME TypeOK, IdsUsed, SameStatus, Follows, NEW n \in Nodes, StartJob(n)
    PROVE  Follows'
<1>1. PICK r \in toStart[n] :
        /\ trigger' = [trigger EXCEPT ![n][r.name] = added(trigger[n], r.name, r.cron)]
        /\ scheduledAt' = scheduledAt \cup {<<n, r.id>>}
        /\ stoppedAt' = stoppedAt \ ({n} \X RowsOf(r.name))
        /\ UNCHANGED <<rows, saving, raced, rolledBack>>
  BY DEF StartJob, dbVars, namingVars
<1>2. /\ r.name \in Jobs /\ r.cron # Null
      /\ \A q \in rows : r.id = q.id => r.name = q.name
      /\ \A q \in rows : q.name \in Jobs
  BY NullAssumption DEF TypeOK, JobEntity, SameStatus
<1>3. /\ trigger'[n][r.name] # Null
      /\ \A m \in Nodes, j \in Jobs : <<m, j>> # <<n, r.name>> => trigger'[m][j] = trigger[m][j]
  BY <1>1, <1>2 DEF TypeOK, added
<1>4. \A j : NotRaced(j)' = NotRaced(j)
  BY <1>1 DEF NotRaced, RowsOf
<1>5. StopHolds'
  <2> SUFFICES ASSUME NEW q \in rows, NEW m \in Nodes, <<m, q.id>> \in stoppedAt',
                      NotRaced(q.name)
               PROVE  trigger'[m][q.name] = Null
    BY <1>1, <1>4 DEF StopHolds
  <2>1. <<m, q.name>> # <<n, r.name>>
    BY <1>1 DEF RowsOf
  <2>2. trigger[m][q.name] = Null
    BY <1>1 DEF Follows, StopHolds
  <2> QED
    BY <1>2, <1>3, <2>1, <2>2
<1>6. SchedulesWhatItFound'
  <2> SUFFICES ASSUME NEW q \in rows, NEW m \in Nodes, <<m, q.id>> \in scheduledAt',
                      NotRaced(q.name), m \notin rolledBack
               PROVE  trigger'[m][q.name] # Null
    BY <1>1, <1>4 DEF SchedulesWhatItFound
  <2>1. CASE <<m, q.name>> = <<n, r.name>>
    BY <1>3, <2>1
  <2>2. CASE <<m, q.name>> # <<n, r.name>>
    <3>1. <<m, q.id>> \in scheduledAt
      BY <1>1, <1>2, <2>2
    <3> QED
      BY <1>2, <1>3, <2>2, <3>1 DEF Follows, SchedulesWhatItFound
  <2> QED
    BY <2>1, <2>2
<1>7. Seen' /\ OneUnraced'
  BY <1>1 DEF Follows, Seen, OneUnraced
<1> QED
  BY <1>5, <1>6, <1>7 DEF Follows

\* A server goes down, and with it what it has read and scheduled.
LEMMA CrashFollows ==
    ASSUME TypeOK, Follows, NEW n \in Nodes, Crash(n)
    PROVE  Follows'
<1>1. /\ trigger' = [trigger EXCEPT ![n] = [j \in Jobs |-> Null]]
      /\ saving' = [saving EXCEPT ![n] = Idle]
      /\ scheduledAt' = {p \in scheduledAt : p[1] # n}
      /\ stoppedAt' = {p \in stoppedAt : p[1] # n}
      /\ rolledBack' = rolledBack \ {n}
      /\ UNCHANGED <<rows, raced>>
  BY DEF Crash, dbVars
<1>2. /\ \A m \in Nodes, th \in Threads : saving'[m][th] \in {Null, saving[m][th]}
      /\ \A m \in Nodes : m # n => trigger'[m] = trigger[m]
  BY <1>1 DEF TypeOK, Idle
<1>3. \A j : NotRaced(j)' = NotRaced(j)
  BY <1>1 DEF NotRaced, RowsOf
<1>4. Seen' /\ OneUnraced'
  BY <1>1, <1>2 DEF Follows, Seen, OneUnraced
<1>5. StopHolds' /\ SchedulesWhatItFound'
  BY <1>1, <1>2, <1>3 DEF Follows, StopHolds, SchedulesWhatItFound
<1> QED
  BY <1>4, <1>5 DEF Follows

\* Every step keeps the schedulers following the rows that were not raced.
LEMMA FollowStep ==
    ASSUME TypeOK, IdsUsed, SameStatus, Follows, [Next]_vars
    PROVE  Follows'
<1> DEFINE Same == UNCHANGED <<rows, trigger, raced, rolledBack, scheduledAt, stoppedAt>>
<1> USE DEF nodeVars, dbVars, namingVars, configVars, historyVars
<1>1. ASSUME Same PROVE Follows'
  <2>1. Seen'
    BY <1>1, EveryStepReads, SeenKept DEF Follows, OldUnraced
  <2>2. \A j : NotRaced(j)' = NotRaced(j)
    BY <1>1 DEF NotRaced, RowsOf
  <2> QED
    BY <1>1, <2>1, <2>2 DEF Follows, OneUnraced, StopHolds, SchedulesWhatItFound
<1>2. ASSUME NEW i, Deploy(i) PROVE Same
  BY <1>2 DEF Deploy
<1>3. ASSUME NEW vo, Push(vo) PROVE Same
  BY <1>3 DEF Push
<1>4. ASSUME NEW n \in Nodes, Scan(n) \/ CheckAndSave(n) \/ Listen(n) PROVE Same
  BY <1>4 DEF Scan, CheckAndSave, Listen
<1>5. ASSUME NEW n \in Nodes, Hear(n) \/ Restart(n) \/ Start(n) \/ Started(n) PROVE Same
  BY <1>5 DEF Hear, Restart, Start, Started
<1>6. LeaseExpires \/ UNCHANGED vars => Same
  BY DEF LeaseExpires, vars
<1>7. ASSUME NEW n \in Nodes, SaveScan(n) \/ SaveListen(n) PROVE Follows'
  BY <1>7, SaveFollows
<1>8. ASSUME NEW n \in Nodes, Apply(n) PROVE Follows'
  BY <1>8, ApplyFollows
<1>9. ASSUME NEW n \in Nodes, StartJob(n) PROVE Follows'
  BY <1>9, StartJobFollows
<1>10. ASSUME NEW n \in Nodes, Crash(n) PROVE Follows'
  BY <1>10, CrashFollows
<1> HIDE DEF Same
<1> QED
  BY <1>1, <1>2, <1>3, <1>4, <1>5, <1>6, <1>7, <1>8, <1>9, <1>10 DEF Next

\* The inductive invariant behind the three theorems that follow.
LEMMA FollowInvariant == Spec => []Follows
<1>1. Init => Follows
  BY DEF Init, Follows, Seen, OneUnraced, StopHolds, SchedulesWhatItFound
<1>2. Spec => [](IdsUsed /\ SameStatus)
  BY StatusInit, StatusStep, TypeCorrect, PTL DEF Spec
<1> QED
  BY <1>1, <1>2, FollowStep, TypeCorrect, PTL DEF Spec

\* Two rows of a name come only from a row that was inserted behind the back of
\* another transaction, or anew by execute.
THEOREM TwoRowsOnlyByOverlapHolds == Spec => []TwoRowsOnlyByOverlap
<1>1. Follows => TwoRowsOnlyByOverlap
  BY DEF Follows, OneUnraced, TwoRowsOnlyByOverlap, NotRaced, RowsOf
<1> QED
  BY <1>1, FollowInvariant, PTL

\* A server that has stopped a job at the operator's word goes on without it.
THEOREM StopHoldsHolds == Spec => []StopHolds
<1>1. Follows => StopHolds
  BY DEF Follows
<1> QED
  BY <1>1, FollowInvariant, PTL

\* A server that has scheduled a job itself goes on until the operator stops it.
THEOREM SchedulesWhatItFoundHolds == Spec => []SchedulesWhatItFound
<1>1. Follows => SchedulesWhatItFound
  BY DEF Follows
<1> QED
  BY <1>1, FollowInvariant, PTL
=============================================================================
