------------------------------ MODULE JobSync ------------------------------
(***************************************************************************)
(* Which jobs every job server schedules.  A server learns of the jobs of an *)
(* executor from the naming service, stores them in the database all servers *)
(* share and gives the new ones to its own Quartz scheduler; an operator     *)
(* stops, starts and retimes jobs through a configuration item that every    *)
(* server listens to; a server that starts schedules what the database says. *)
(***************************************************************************)
EXTENDS Integers, FiniteSets

CONSTANTS
    Nodes,      \* the job servers
    Jobs,       \* the names of the executor's jobs
    Crons,      \* cron expressions
    Releases,   \* what the executor may declare: for each job a status and a cron
    Requests,   \* what the operator may ask of a job: a status and a cron
    Null,       \* Java's null: no value
    NoInstance, \* what the naming service says of an executor that is not there
    MaxRows,    \* bound: how many rows of tb_job are ever inserted
    MaxEvents   \* bound: how many releases, scans, changes and crashes there are

Statuses == {"STOP", "RUNNING"}
JobInfo == [status : Statuses, cron : Crons]
Ids == 1 .. MaxRows
JobEntity == [id : Ids, name : Jobs, status : Statuses, cron : Crons]

\* What the operator sends; a field that is left out is null.
JobVO == {[id |-> i, status |-> q.status, cron |-> q.cron] : i \in Ids, q \in Requests}

ASSUME BoundsAssumption == MaxRows \in Nat /\ MaxEvents \in Nat
ASSUME ReleasesAssumption == Releases \subseteq [Jobs -> JobInfo \cup {Null}]
ASSUME RequestsAssumption ==
    Requests \subseteq [status : Statuses \cup {Null}, cron : Crons \cup {Null}]
ASSUME NullAssumption ==
    /\ Null \notin Nodes /\ Null \notin Crons /\ Null \notin Statuses
    /\ Null \notin JobInfo /\ Null \notin Ids
    /\ Null \notin Releases /\ Null # NoInstance /\ NoInstance \notin Releases
ASSUME JobsAssumption == IsFiniteSet(Jobs)

INIT == Null   \* the configuration item is "[]"
Instances == Releases \cup {NoInstance}

VARIABLES
    phase,       \* of each server: down, listening to the configuration, starting, running
    trigger,     \* the cron each server's Quartz fires a job by, Null if it does not
    toStart,     \* the rows a starting server has read and not yet scheduled
    group,       \* is there a row of tb_job_group for the executor?
    rows,        \* tb_job
    nextId,      \* the next id of tb_job
    deployed,    \* the instances the naming service knows
    subscribed,  \* the servers that subscribed to the executor
    event,       \* the instances in the naming events under way to each server
    scanLock,    \* the holder of SCAN_EXECUTOR
    selected,    \* the instances a scan has selected, Null before and after
    saving,      \* what the transaction of each server's scan and listener has read
    config,      \* the configuration item
    heard,       \* what each server's listener was last called with
    changing,    \* the change and the row a listener is working on
    events       \* how much of MaxEvents is used

\* History: which rows were inserted while another transaction had read the table
\* before (or anew, by execute), which has the operator stopped, which server
\* scheduled which row itself, which has stopped it, and on which a transaction
\* was rolled back after Quartz had been told?
VARIABLES raced, stopped, scheduledAt, stoppedAt, rolledBack

nodeVars == <<phase, trigger, toStart>>
dbVars == <<group, rows, nextId>>
namingVars == <<deployed, subscribed, event, scanLock, selected, saving>>
configVars == <<config, heard, changing>>
historyVars == <<raced, stopped, scheduledAt, stoppedAt, rolledBack>>
vars == <<nodeVars, dbVars, namingVars, configVars, events, historyVars>>

Threads == {"scan", "listen"}
Snapshot == [jobs : Instances, group : BOOLEAN, rows : SUBSET JobEntity]

TypeOK ==
    /\ phase \in [Nodes -> {"down", "listening", "starting", "running"}]
    /\ trigger \in [Nodes -> [Jobs -> Crons \cup {Null}]]
    /\ toStart \in [Nodes -> SUBSET JobEntity]
    /\ group \in BOOLEAN
    /\ rows \subseteq JobEntity
    /\ nextId \in 1 .. MaxRows + 1
    /\ deployed \in Instances
    /\ subscribed \subseteq Nodes
    /\ event \in [Nodes -> SUBSET Instances]
    /\ scanLock \in Nodes \cup {Null}
    /\ selected \in [Nodes -> Instances \cup {Null}]
    /\ saving \in [Nodes -> [Threads -> Snapshot \cup {Null}]]
    /\ config \in JobVO \cup {INIT}
    /\ heard \in [Nodes -> JobVO \cup {INIT}]
    /\ changing \in [Nodes -> [change : JobVO, row : JobEntity] \cup {Null}]
    /\ events \in 0 .. MaxEvents
    /\ raced \subseteq Ids /\ stopped \subseteq Ids /\ rolledBack \subseteq Nodes
    /\ scheduledAt \subseteq Nodes \X Ids /\ stoppedAt \subseteq Nodes \X Ids

Idle == [th \in Threads |-> Null]

Init ==
    /\ phase = [n \in Nodes |-> "running"]
    /\ trigger = [n \in Nodes |-> [j \in Jobs |-> Null]]
    /\ toStart = [n \in Nodes |-> {}]
    /\ group = FALSE /\ rows = {} /\ nextId = 1
    /\ deployed \in Instances /\ subscribed = {}
    /\ event = [n \in Nodes |-> {}]
    /\ scanLock = Null
    /\ selected = [n \in Nodes |-> Null]
    /\ saving = [n \in Nodes |-> Idle]
    /\ config = INIT
    /\ heard = [n \in Nodes |-> INIT]
    /\ changing = [n \in Nodes |-> Null]
    /\ events = 0
    /\ raced = {} /\ stopped = {} /\ scheduledAt = {} /\ stoppedAt = {} /\ rolledBack = {}

Event == events < MaxEvents /\ events' = events + 1

\* QuartzManager.addJob: a job that is there already is left as it is.
added(jobs, j, cron) == IF jobs[j] = Null THEN cron ELSE jobs[j]

-----------------------------------------------------------------------------
(* The executor and the naming service                                     *)

\* The executor comes up with a release, goes away or comes back with another
\* one; every subscribed server is sent an event that carries the instances.
Deploy(instances) ==
    /\ Event
    /\ instances # deployed
    /\ deployed' = instances
    /\ event' = [n \in Nodes |-> IF n \in subscribed THEN event[n] \cup {instances} ELSE event[n]]
    /\ UNCHANGED <<nodeVars, dbVars, subscribed, scanLock, selected, saving, configVars, historyVars>>

\* Mutant of Scan: no lock.
ScanUnlocked(n) ==
    /\ Event
    /\ phase[n] = "running"
    /\ selected[n] = Null /\ saving[n]["scan"] = Null
    /\ selected' = [selected EXCEPT ![n] = deployed]
    /\ UNCHANGED <<nodeVars, dbVars, deployed, subscribed, event, scanLock, saving, configVars,
                   historyVars>>

\* ExecutorDiscovery.scan takes its lock and selects the instances; who does not
\* get the lock in time does nothing.
Scan(n) ==
    /\ Event
    /\ phase[n] = "running"
    /\ selected[n] = Null /\ saving[n]["scan"] = Null
    /\ scanLock = Null
    /\ scanLock' = n
    /\ selected' = [selected EXCEPT ![n] = deployed]
    /\ UNCHANGED <<nodeVars, dbVars, deployed, subscribed, event, saving, configVars,
                   historyVars>>

\* A transaction for these instances begins with what it reads.
Reads(n, thread, instances) ==
    saving' = [saving EXCEPT ![n][thread] = [jobs |-> instances, group |-> group, rows |-> rows]]

\* checkAndSave begins, for the instances that were selected before.
CheckAndSave(n) ==
    /\ selected[n] # Null
    /\ Reads(n, "scan", selected[n])
    /\ selected' = [selected EXCEPT ![n] = Null]
    /\ UNCHANGED <<nodeVars, dbVars, deployed, subscribed, event, scanLock, configVars, events,
                   historyVars>>

\* JobGroupServiceImpl.listening, on a thread of the naming client and under no
\* lock, for the instances its event carries, be they the latest or not.
Listen(n) ==
    \E instances \in event[n] :
        /\ saving[n]["listen"] = Null
        /\ event' = [event EXCEPT ![n] = @ \ {instances}]
        /\ Reads(n, "listen", instances)
        /\ UNCHANGED <<nodeVars, dbVars, deployed, subscribed, scanLock, selected, configVars,
                       events, historyVars>>

\* What saveJobs makes of a snapshot: the rows to delete, the rows to keep, the
\* jobs to insert.
Gone(s) == {r \in s.rows : s.jobs[r.name] = Null}
Kept(s) == {r \in s.rows : s.jobs[r.name] # Null}

\* Mutant of NewJobs: jobs that have a row already are inserted too.
NewJobsAll(s) == {j \in Jobs : s.jobs[j] # Null}

NewJobs(s) == {j \in Jobs : s.jobs[j] # Null /\ \A r \in s.rows : r.name # j}

\* Mutant of Updated: the status of the release overwrites that of the row.
UpdatedWhole(s, r) == [r EXCEPT !.cron = s.jobs[r.name].cron, !.status = s.jobs[r.name].status]

\* Mutant of Updated: the row is replaced by what the executor declares.
UpdatedLosesId(s, r) == s.jobs[r.name]

\* A kept row takes over everything of the release but its status.
Updated(s, r) == [r EXCEPT !.cron = s.jobs[r.name].cron]

\* toMap throws when two rows have the same name.
TwoOfAName(s) == \E r, q \in s.rows : r # q /\ r.name = q.name

\* The rows the transaction deletes or changes; where one of them is no longer
\* there, its flush fails.
Touched(s) == Gone(s) \cup {r \in Kept(s) : Updated(s, r) # r}
Committable(s) == \A r \in Touched(s) : \E q \in rows : q.id = r.id

Inserted(s, ids) ==
    {[id |-> ids[j], name |-> j, status |-> s.jobs[j].status, cron |-> s.jobs[j].cron] :
        j \in NewJobs(s)}

\* The rows after the transaction: what it has not touched stays, even if others
\* have inserted it meanwhile.
Written(s, new) ==
    {r \in rows : \A q \in Touched(s) : q.id # r.id}
        \cup {Updated(s, r) : r \in Kept(s) \cap Touched(s)}
        \cup new

\* Mutant of Rescheduled: a job that is now declared STOP is unscheduled too.
RescheduledByRelease(s, jobs) ==
    [j \in Jobs |->
        CASE \E r \in s.rows : r.name = j /\ (s.jobs[j] = Null \/ s.jobs[j].status = "STOP") -> Null
          [] j \in NewJobs(s) /\ s.jobs[j].status = "RUNNING" -> added(jobs, j, s.jobs[j].cron)
          [] OTHER -> jobs[j]]

\* Mutant of Rescheduled: every job of the release is scheduled, not the new ones.
RescheduledAll(s, jobs) ==
    [j \in Jobs |->
        CASE \E r \in Gone(s) : r.name = j /\ r.status = "RUNNING" -> Null
          [] s.jobs[j] # Null /\ s.jobs[j].status = "RUNNING" -> added(jobs, j, s.jobs[j].cron)
          [] OTHER -> jobs[j]]

\* Quartz is told before the transaction commits, and told of new jobs only.
Rescheduled(s, jobs) ==
    [j \in Jobs |->
        CASE \E r \in Gone(s) : r.name = j /\ r.status = "RUNNING" -> Null
          [] j \in NewJobs(s) /\ s.jobs[j].status = "RUNNING" -> added(jobs, j, s.jobs[j].cron)
          [] OTHER -> jobs[j]]

\* Has another transaction read the table and not ended?
OthersSave(n, thread) ==
    \E m \in Nodes, th \in Threads : <<m, th>> # <<n, thread>> /\ saving[m][th] # Null

\* saveJobs for what a thread of server n has read.
SaveJobs(n, thread) ==
    LET s == saving[n][thread]
        k == Cardinality(NewJobs(s))
    IN
    /\ nextId + k <= MaxRows + 1
    /\ \E ids \in [NewJobs(s) -> nextId .. nextId + k - 1] :
        LET new == Inserted(s, ids) IN
        /\ \A i, j \in NewJobs(s) : ids[i] = ids[j] => i = j
        /\ nextId' = nextId + k
        /\ trigger' = [trigger EXCEPT ![n] = Rescheduled(s, @)]
        /\ \/ /\ Committable(s)
              /\ rows' = Written(s, new)
              /\ scheduledAt' = scheduledAt \cup
                    {<<n, r.id>> : r \in {q \in new : q.status = "RUNNING"}}
              /\ raced' = IF OthersSave(n, thread) THEN raced \cup {r.id : r \in new} ELSE raced
              /\ UNCHANGED rolledBack
           \/ /\ ~Committable(s)
              /\ rolledBack' = rolledBack \cup {n}
              /\ UNCHANGED <<rows, scheduledAt, raced>>

\* Nothing to save: no executor is registered, or the jobs cannot be read.
SaveNothing == UNCHANGED <<rows, nextId, trigger, scheduledAt, raced, rolledBack>>

\* The column app_name is unique: to insert the group a second time throws.
GroupStands(s) == s.group \/ ~group

SaveSnapshot(n, thread) ==
    LET s == saving[n][thread] IN
    IF s.jobs = NoInstance \/ TwoOfAName(s) \/ ~GroupStands(s)
    THEN SaveNothing ELSE SaveJobs(n, thread)

Committed(s) ==
    /\ GroupStands(s)
    /\ s.jobs = NoInstance \/ (~TwoOfAName(s) /\ Committable(s))

\* checkAndSave ends: the group is inserted if it was not there.  Only then the
\* server subscribes, which brings it an event at once; the lock is given back in
\* any case.
SaveScan(n) ==
    LET s == saving[n]["scan"] IN
    /\ s # Null
    /\ SaveSnapshot(n, "scan")
    /\ group' = (group \/ Committed(s))
    /\ subscribed' = IF Committed(s) THEN subscribed \cup {n} ELSE subscribed
    /\ event' = IF Committed(s) THEN [event EXCEPT ![n] = @ \cup {deployed}] ELSE event
    /\ scanLock' = Null
    /\ saving' = [saving EXCEPT ![n]["scan"] = Null]
    /\ UNCHANGED <<phase, toStart, deployed, selected, configVars, events, stopped, stoppedAt>>

SaveListen(n) ==
    /\ saving[n]["listen"] # Null
    /\ SaveSnapshot(n, "listen")
    /\ saving' = [saving EXCEPT ![n]["listen"] = Null]
    /\ UNCHANGED <<phase, toStart, group, deployed, subscribed, event, scanLock, selected,
                   configVars, events, stopped, stoppedAt>>

-----------------------------------------------------------------------------
(* Changes by the operator                                                 *)

\* changeStatus and changeCron publish what the operator sent, if there is such a
\* row; a content equal to the last one tells nobody anything.
Push(vo) ==
    /\ Event
    /\ \E n \in Nodes : phase[n] = "running"
    /\ \E r \in rows : r.id = vo.id
    /\ config' = vo
    /\ UNCHANGED <<nodeVars, dbVars, namingVars, heard, changing, historyVars>>

\* The listener of a server is called with the present content; execute reads the
\* row.  "[]" and the id of no row are passed over.
Known(vo) == vo # INIT /\ \E r \in rows : r.id = vo.id

Hear(n) ==
    /\ phase[n] # "down"
    /\ heard[n] # config /\ changing[n] = Null
    /\ \/ /\ Known(config)
          /\ \E r \in rows :
                /\ r.id = config.id
                /\ changing' = [changing EXCEPT ![n] = [change |-> config, row |-> r]]
          /\ UNCHANGED heard
       \/ /\ ~Known(config)
          /\ heard' = [heard EXCEPT ![n] = config]
          /\ UNCHANGED changing
    /\ UNCHANGED <<nodeVars, dbVars, namingVars, config, events, historyVars>>

\* BeanCopyUtils.copyIgnoreProperties: the properties that are NOT null are the
\* ones that BeanUtils.copyProperties is told to ignore.
copyIgnoreProperties(vo, row) ==
    [f \in DOMAIN row |-> IF f \in DOMAIN vo /\ vo[f] = Null THEN Null ELSE row[f]]

Stops(vo, row) == vo.status = "STOP" /\ row.status = "RUNNING"
Starts(vo, row) == vo.status = "RUNNING" /\ row.status = "STOP"

\* QuartzManager.modifyJobTime: a job that is not there is left out, and a null
\* cron expression throws.
Retimes(vo, row) == row.status = "RUNNING" /\ row.cron # vo.cron /\ vo.cron # Null

Changed(jobs, vo, row) ==
    [jobs EXCEPT ![row.name] =
        CASE Stops(vo, row) -> Null
          [] Starts(vo, row) -> added(jobs, row.name, row.cron)
          [] Retimes(vo, row) /\ ~Stops(vo, row) /\ @ # Null -> vo.cron
          [] OTHER -> @]

\* The rows of a job.
RowsOf(j) == {r.id : r \in {q \in rows : q.name = j}}

\* execute tells Quartz and saves the row it has read, whatever it has become
\* meanwhile: no transaction spans the two, and to save a row that has gone
\* inserts it anew.  Where a column would be null the save throws, and the
\* listener may be called again with the same content.
Apply(n) ==
    LET c == changing[n]
        copy == copyIgnoreProperties(c.change, c.row)
        saved == copy \in JobEntity
        there == \E r \in rows : r.id = copy.id
    IN
    /\ c # Null
    /\ trigger' = [trigger EXCEPT ![n] = Changed(@, c.change, c.row)]
    /\ \/ /\ saved /\ there
          /\ rows' = {r \in rows : r.id # copy.id} \cup {copy}
          /\ UNCHANGED <<nextId, raced>>
       \/ /\ saved /\ ~there /\ nextId <= MaxRows
          /\ rows' = rows \cup {[copy EXCEPT !.id = nextId]}
          /\ nextId' = nextId + 1
          /\ raced' = raced \cup {nextId}
       \/ /\ ~saved
          /\ UNCHANGED <<rows, nextId, raced>>
    /\ heard' \in {[heard EXCEPT ![n] = c.change]} \cup (IF saved THEN {} ELSE {heard})
    /\ changing' = [changing EXCEPT ![n] = Null]
    /\ \/ /\ Stops(c.change, c.row)
          /\ stopped' = stopped \cup {c.row.id}
          /\ stoppedAt' = stoppedAt \cup {<<n, c.row.id>>}
          /\ scheduledAt' = scheduledAt \ ({n} \X RowsOf(c.row.name))
       \/ /\ c.change.status = "RUNNING"
          /\ stopped' = stopped \ {c.row.id}
          /\ stoppedAt' = stoppedAt \ ({n} \X RowsOf(c.row.name))
          /\ UNCHANGED scheduledAt
       \/ /\ ~Stops(c.change, c.row) /\ c.change.status # "RUNNING"
          /\ UNCHANGED <<stopped, stoppedAt, scheduledAt>>
    /\ UNCHANGED <<phase, toStart, group, namingVars, config, events, rolledBack>>

-----------------------------------------------------------------------------
(* Servers go down and come up                                             *)

\* A server forgets what it was doing; its transactions are rolled back.
Crash(n) ==
    /\ Event
    /\ phase[n] # "down"
    /\ phase' = [phase EXCEPT ![n] = "down"]
    /\ trigger' = [trigger EXCEPT ![n] = [j \in Jobs |-> Null]]
    /\ toStart' = [toStart EXCEPT ![n] = {}]
    /\ subscribed' = subscribed \ {n}
    /\ event' = [event EXCEPT ![n] = {}]
    /\ selected' = [selected EXCEPT ![n] = Null]
    /\ saving' = [saving EXCEPT ![n] = Idle]
    /\ changing' = [changing EXCEPT ![n] = Null]
    /\ heard' = [heard EXCEPT ![n] = INIT]
    /\ scheduledAt' = {p \in scheduledAt : p[1] # n}
    /\ stoppedAt' = {p \in stoppedAt : p[1] # n}
    /\ rolledBack' = rolledBack \ {n}
    /\ UNCHANGED <<dbVars, deployed, scanLock, config, raced, stopped>>

\* The lease of the lock runs out when its holder is no longer there.
LeaseExpires ==
    /\ scanLock # Null
    /\ selected[scanLock] = Null /\ saving[scanLock]["scan"] = Null
    /\ scanLock' = Null
    /\ UNCHANGED <<nodeVars, dbVars, deployed, subscribed, event, selected, saving, configVars,
                   events, historyVars>>

\* A server comes up: it sets the configuration item back to "[]", whatever the
\* others have not heard yet, and listens.
Restart(n) ==
    /\ phase[n] = "down"
    /\ phase' = [phase EXCEPT ![n] = "listening"]
    /\ config' = INIT
    /\ UNCHANGED <<trigger, toStart, dbVars, namingVars, heard, changing, events, historyVars>>

\* JobScheduler.start reads the rows that say RUNNING, ...
Start(n) ==
    /\ phase[n] = "listening"
    /\ phase' = [phase EXCEPT ![n] = "starting"]
    /\ toStart' = [toStart EXCEPT ![n] = {r \in rows : r.status = "RUNNING"}]
    /\ UNCHANGED <<trigger, dbVars, namingVars, configVars, events, historyVars>>

\* ... schedules one after the other ...
StartJob(n) ==
    \E r \in toStart[n] :
        /\ toStart' = [toStart EXCEPT ![n] = @ \ {r}]
        /\ trigger' = [trigger EXCEPT ![n][r.name] = added(trigger[n], r.name, r.cron)]
        /\ scheduledAt' = scheduledAt \cup {<<n, r.id>>}
        /\ stoppedAt' = stoppedAt \ ({n} \X RowsOf(r.name))
        /\ UNCHANGED <<phase, dbVars, namingVars, configVars, events, raced, stopped, rolledBack>>

\* ... and is done.
Started(n) ==
    /\ phase[n] = "starting"
    /\ toStart[n] = {}
    /\ phase' = [phase EXCEPT ![n] = "running"]
    /\ UNCHANGED <<trigger, toStart, dbVars, namingVars, configVars, events, historyVars>>

Next ==
    \/ \E instances \in Instances : Deploy(instances)
    \/ \E vo \in JobVO : Push(vo)
    \/ \E n \in Nodes :
        \/ Scan(n) \/ CheckAndSave(n) \/ SaveScan(n)
        \/ Listen(n) \/ SaveListen(n)
        \/ Hear(n) \/ Apply(n)
        \/ Crash(n) \/ Restart(n)
        \/ Start(n) \/ StartJob(n) \/ Started(n)
    \/ LeaseExpires

Spec == Init /\ [][Next]_vars

-----------------------------------------------------------------------------
(* Properties                                                              *)

\* The lock of scan keeps the check for the group and its insertion together: a
\* scan that has found no group still finds none when it inserts it.
GroupStillMissing ==
    \A n \in Nodes :
        saving[n]["scan"] # Null /\ group => saving[n]["scan"].group

\* "The first configuration counts": neither a release nor the operator changes
\* the status of a row.
FirstStatusCounts ==
    [][\A r \in rows, q \in rows' : r.id = q.id => r.status = q.status]_vars

\* No row of this job was inserted behind the back of another transaction.
NotRaced(j) == RowsOf(j) \cap raced = {}

\* saveJobs inserts a job it has not found, whatever release it is told of and
\* however late.  Two rows of a name, on which its toMap throws from then on, come
\* only from a row inserted while another transaction had read the table already.
TwoRowsOnlyByOverlap ==
    \A r, q \in rows : r # q /\ r.name = q.name => ~NotRaced(r.name)

\* A server that has stopped a job at the operator's word does not schedule it
\* again, whatever the executor registers, until the operator asks for it or the
\* server starts anew; unless a row of the job was raced.
StopHolds ==
    \A r \in rows, n \in Nodes :
        <<n, r.id>> \in stoppedAt /\ NotRaced(r.name) => trigger[n][r.name] = Null

\* A server that scheduled a job itself, as the one that found it or at its start,
\* goes on while the row stands and the operator does not stop the job, unless a
\* transaction of the server was rolled back (Quartz is not told) or a row raced.
SchedulesWhatItFound ==
    \A r \in rows, n \in Nodes :
        <<n, r.id>> \in scheduledAt /\ NotRaced(r.name) /\ n \notin rolledBack =>
            trigger[n][r.name] # Null

\* "A job we have stopped by hand stays stopped, that is what we really want to
\* control": a server that starts takes up no row that the operator had stopped.
StoppedStaysStopped ==
    [][\A n \in Nodes : \A r \in toStart'[n] \ toStart[n] : r.id \notin stopped]_vars
=============================================================================
