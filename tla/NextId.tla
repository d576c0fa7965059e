------------------------------- MODULE NextId -------------------------------
(***************************************************************************)
(* DefaultUidGenerator.nextId on several machines: a UID is made of the      *)
(* seconds since the epoch, the worker id and a sequence number within the   *)
(* second.  nextId is synchronized, so a call is one step, or two when it    *)
(* has to spin for the next second.  The clock of a machine may be set back, *)
(* and the machine may be restarted.                                         *)
(***************************************************************************)
EXTENDS Integers

CONSTANTS
    Generators,   \* the machines
    WorkerOf,     \* the configured worker id of each (uid.workerId)
    MaxSequence,  \* the three maxima of BitsAllocator
    MaxWorkerId,
    MaxDelta,
    MaxClock      \* bound: the latest second of the model

ASSUME MaximaAssumption ==
    /\ MaxSequence \in Nat
    /\ MaxWorkerId \in Nat
    /\ MaxDelta \in Nat
    /\ MaxClock \in Nat
\* The worker id is configured per machine, and afterPropertiesSet refuses one
\* that is too large.
ASSUME WorkersAssumption ==
    /\ WorkerOf \in [Generators -> 0 .. MaxWorkerId]
    /\ \A g, h \in Generators : WorkerOf[g] = WorkerOf[h] => g = h

Seconds == 0 .. MaxClock
NEVER == -1

VARIABLES
    now,       \* the second each clock shows, counted from the epoch
    last,      \* lastSecond of each generator
    sequence,  \* sequence of each generator
    waiting,   \* is the generator in the loop of getNextSecond?
    issued,    \* the UIDs each machine has returned, over all its restarts
    floor,     \* the last second used before the machine's last restart
    repeats    \* history: the machines whose last second has started again at 0

vars == <<now, last, sequence, waiting, issued, floor, repeats>>

\* Mutant of allocate: the worker id above the timestamp.
allocateSwapped(delta, worker, seq) ==
    (worker * (MaxDelta + 1) + delta) * (MaxSequence + 1) + seq

\* BitsAllocator.allocate: shifts and ORs of fields that do not overlap.
allocate(delta, worker, seq) ==
    (delta * (MaxWorkerId + 1) + worker) * (MaxSequence + 1) + seq

\* DefaultUidGenerator.parseUID cuts the fields out again.
parseDelta(uid) == uid \div ((MaxWorkerId + 1) * (MaxSequence + 1))
parseWorker(uid) == (uid \div (MaxSequence + 1)) % (MaxWorkerId + 1)

TypeOK ==
    /\ now \in [Generators -> Seconds]
    /\ last \in [Generators -> Seconds \cup {NEVER}]
    /\ sequence \in [Generators -> 0 .. MaxSequence]
    /\ waiting \in [Generators -> BOOLEAN]
    /\ issued \in [Generators -> SUBSET Nat]
    /\ floor \in [Generators -> Seconds \cup {NEVER}]
    /\ repeats \subseteq Generators

Init ==
    /\ now \in [Generators -> Seconds]
    /\ last = [g \in Generators |-> NEVER]
    /\ sequence = [g \in Generators |-> 0]
    /\ waiting = [g \in Generators |-> FALSE]
    /\ issued = [g \in Generators |-> {}]
    /\ floor = [g \in Generators |-> NEVER]
    /\ repeats = {}

-----------------------------------------------------------------------------
(* The machines                                                            *)

Tick(g) ==
    /\ now[g] < MaxClock
    /\ now' = [now EXCEPT ![g] = now[g] + 1]
    /\ UNCHANGED <<last, sequence, waiting, issued, floor, repeats>>

\* The clock of a machine is set back, but not behind what was used before its
\* last restart: the class comment leaves that to the administrator.
SetBack(g) ==
    \E t \in Seconds :
        /\ floor[g] <= t /\ t < now[g]
        /\ now' = [now EXCEPT ![g] = t]
        /\ UNCHANGED <<last, sequence, waiting, issued, floor, repeats>>

\* A restart forgets the last second and the sequence.  The clock is not behind
\* what was used before (the same comment), but may still show that second.
Restart(g) ==
    LET used == IF last[g] = NEVER THEN floor[g] ELSE last[g] IN
    /\ now[g] >= used
    /\ floor' = [floor EXCEPT ![g] = used]
    /\ last' = [last EXCEPT ![g] = NEVER]
    /\ sequence' = [sequence EXCEPT ![g] = 0]
    /\ waiting' = [waiting EXCEPT ![g] = FALSE]
    /\ repeats' = repeats \ {g}
    /\ UNCHANGED <<now, issued>>

-----------------------------------------------------------------------------
(* nextId; a call that throws before it changes anything is no step         *)

\* The UID of this call is built from what it has just stored.
Return(g) ==
    issued' = [issued EXCEPT ![g] = @ \cup {allocate(last'[g], WorkerOf[g], sequence'[g])}]

\* getCurrentSecond throws when the timestamp bits are exhausted.
ClockReadable(g) == now[g] <= MaxDelta

\* Mutant of SameSecond: the sequence is not compared with its maximum.
SameSecondUnbounded(g) ==
    /\ ~waiting[g] /\ ClockReadable(g)
    /\ now[g] = last[g]
    /\ sequence' = [sequence EXCEPT ![g] = sequence[g] + 1]
    /\ last' = last
    /\ Return(g)
    /\ UNCHANGED <<now, waiting, floor, repeats>>

SameSecond(g) ==
    /\ ~waiting[g] /\ ClockReadable(g)
    /\ now[g] = last[g]
    /\ sequence[g] < MaxSequence
    /\ sequence' = [sequence EXCEPT ![g] = sequence[g] + 1]
    /\ last' = last
    /\ Return(g)
    /\ UNCHANGED <<now, waiting, floor, repeats>>

\* The sequence of this second is used up: it is reset before getNextSecond
\* starts to spin.
SequenceWraps(g) ==
    /\ ~waiting[g] /\ ClockReadable(g)
    /\ now[g] = last[g]
    /\ sequence[g] = MaxSequence
    /\ sequence' = [sequence EXCEPT ![g] = 0]
    /\ waiting' = [waiting EXCEPT ![g] = TRUE]
    /\ UNCHANGED <<now, last, issued, floor, repeats>>

\* After a restart within a used second nothing keeps its UIDs from coming again.
NowRepeats(g) == IF now[g] = floor[g] THEN repeats \cup {g} ELSE repeats \ {g}

\* Mutant of NewSecond: a clock that was set back is not refused.
NewSecondAnyClock(g) ==
    /\ ~waiting[g] /\ ClockReadable(g)
    /\ now[g] # last[g]
    /\ sequence' = [sequence EXCEPT ![g] = 0]
    /\ last' = [last EXCEPT ![g] = now[g]]
    /\ Return(g)
    /\ repeats' = NowRepeats(g)
    /\ UNCHANGED <<now, waiting, floor>>

NewSecond(g) ==
    /\ ~waiting[g] /\ ClockReadable(g)
    /\ now[g] > last[g]
    /\ sequence' = [sequence EXCEPT ![g] = 0]
    /\ last' = [last EXCEPT ![g] = now[g]]
    /\ Return(g)
    /\ repeats' = NowRepeats(g)
    /\ UNCHANGED <<now, waiting, floor>>

\* Mutant of NextSecondComes: the loop ends in the same second.
SameSecondWillDo(g) ==
    /\ waiting[g] /\ ClockReadable(g)
    /\ now[g] >= last[g]
    /\ waiting' = [waiting EXCEPT ![g] = FALSE]
    /\ last' = [last EXCEPT ![g] = now[g]]
    /\ sequence' = sequence
    /\ Return(g)
    /\ repeats' = repeats \ {g}
    /\ UNCHANGED <<now, floor>>

NextSecondComes(g) ==
    /\ waiting[g] /\ ClockReadable(g)
    /\ now[g] > last[g]
    /\ waiting' = [waiting EXCEPT ![g] = FALSE]
    /\ last' = [last EXCEPT ![g] = now[g]]
    /\ sequence' = sequence
    /\ Return(g)
    /\ repeats' = repeats \ {g}
    /\ UNCHANGED <<now, floor>>

\* getCurrentSecond throws inside the loop; the sequence stays reset.
SpinThrows(g) ==
    /\ waiting[g] /\ ~ClockReadable(g)
    /\ waiting' = [waiting EXCEPT ![g] = FALSE]
    /\ repeats' = repeats \cup {g}
    /\ UNCHANGED <<now, last, sequence, issued, floor>>

Returning(g) == SameSecond(g) \/ NewSecond(g) \/ NextSecondComes(g)

Next ==
    \E g \in Generators :
        \/ Tick(g) \/ SetBack(g) \/ Restart(g)
        \/ Returning(g)
        \/ SequenceWraps(g)
        \/ SpinThrows(g)

Spec == Init /\ [][Next]_vars

-----------------------------------------------------------------------------
(* Properties                                                              *)

NewUid(g) == allocate(last'[g], WorkerOf[g], sequence'[g])

\* "Get a unique ID": nextId never returns a UID that this or another machine
\* has returned before, even if clocks are set back while machines run.  Two
\* exceptions, until the next second: once getNextSecond has thrown, or the
\* machine has restarted within a second, that second starts again at 0.
NoUidTwice ==
    [][\A g \in Generators : Returning(g) /\ g \notin repeats' =>
          \A h \in Generators : NewUid(g) \notin issued[h]]_vars

\* The UIDs of a machine grow over the seconds, the sequences and the restarts,
\* with the same exceptions.
UidsGrow ==
    [][\A g \in Generators : Returning(g) /\ g \notin repeats' =>
          \A old \in issued[g] : old < NewUid(g)]_vars

\* parseUID names the machine a UID came from, and no UID has more delta seconds
\* than fit under the sign bit, even once the timestamp bits are exhausted.
ParsesBack ==
    \A g \in Generators : \A uid \in issued[g] :
        parseWorker(uid) = WorkerOf[g] /\ parseDelta(uid) <= MaxDelta
=============================================================================
