------------------------------ MODULE UidRing ------------------------------
(***************************************************************************)
(* The UID cache of CachedUidGenerator: a ring of slots that threads take   *)
(* UIDs from without a lock (RingBuffer.take) while one padding thread       *)
(* refills it with the UIDs of the next seconds (RingBuffer.put,             *)
(* BufferPaddingExecutor.paddingBuffer).                                     *)
(*                                                                         *)
(* Every access to a variable that threads share is a step of its own.      *)
(***************************************************************************)
EXTENDS Integers

CONSTANTS
    Takers,     \* the threads that call getUID
    Size,       \* bufferSize, the number of slots
    Threshold,  \* paddingThreshold
    PerSecond,  \* maxSequence + 1, the UIDs of one second
    Scheduled,  \* is a scheduleInterval configured?
    MaxSecond,  \* bound: the last second the padding thread borrows
    MaxPending  \* bound: padding tasks counted in the pool's queue

ASSUME SizeAssumption == Size \in Nat \ {0}
ASSUME PerSecondAssumption == PerSecond \in Nat \ {0}
ASSUME BoundsAssumption ==
    /\ Threshold \in Nat
    /\ Scheduled \in BOOLEAN
    /\ MaxSecond \in Nat
    /\ MaxPending \in Nat \ {0}

Slots == 0 .. Size - 1
START_POINT == -1

VARIABLES
    tail,     \* sequence of the last UID put
    cursor,   \* sequence of the last UID claimed
    slots,    \* the UIDs
    flags,    \* CAN_PUT or CAN_TAKE for each slot
    \* the padding threads
    running,  \* the flag that lets one of them in
    pending,  \* padding tasks submitted and not started
    second,   \* lastSecond, the last second borrowed
    stage,    \* where the padding thread that is in stands
    next,     \* the UID it is about to put
    ready,    \* has the initial padding returned?
    \* the takers
    at,       \* where each taker stands
    seen,     \* currentCursor of each
    claim,    \* nextCursor of each
    uid,      \* the UID each has read
    issued    \* every UID returned by a take

ring == <<tail, cursor, slots, flags>>
padder == <<running, pending, second, stage, next, ready>>
takers == <<at, seen, claim, uid, issued>>
vars == <<ring, padder, takers>>

\* calSlotIndex: the mask is a remainder, since Size is a power of two.
Index(sequence) == sequence % Size

\* nextIdsForOneSecond: the UIDs of a second are consecutive, and those of a
\* later second are greater.
FirstOf(sec) == sec * PerSecond
LastOf(sec) == sec * PerSecond + PerSecond - 1

Min2(a, b) == IF a < b THEN a ELSE b

TypeOK ==
    /\ tail \in Nat \cup {START_POINT}
    /\ cursor \in Nat \cup {START_POINT}
    /\ slots \in [Slots -> Nat]
    /\ flags \in [Slots -> {"CAN_PUT", "CAN_TAKE"}]
    /\ running \in BOOLEAN
    /\ pending \in 0 .. MaxPending
    /\ second \in Nat
    /\ stage \in {"off", "provide", "room", "flag", "fill", "mark", "publish", "full"}
    /\ next \in Nat /\ next \in FirstOf(second) .. LastOf(second)
    /\ ready \in BOOLEAN
    /\ at \in [Takers -> {"idle", "advance", "threshold", "flag", "read", "release"}]
    /\ seen \in [Takers -> Nat \cup {START_POINT}]
    /\ claim \in [Takers -> Nat \cup {START_POINT}]
    /\ uid \in [Takers -> Nat]
    /\ issued \subseteq Nat

\* initRingBuffer pads on its own thread before the generator is used.
Init ==
    /\ tail = START_POINT
    /\ cursor = START_POINT
    /\ slots = [i \in Slots |-> 0]
    /\ flags = [i \in Slots |-> "CAN_PUT"]
    /\ running = TRUE
    /\ pending = 0
    /\ second = 0
    /\ stage = "provide"
    /\ next = 0
    /\ ready = FALSE
    /\ at = [t \in Takers |-> "idle"]
    /\ seen = [t \in Takers |-> START_POINT]
    /\ claim = [t \in Takers |-> START_POINT]
    /\ uid = [t \in Takers |-> 0]
    /\ issued = {}

-----------------------------------------------------------------------------
(* paddingBuffer                                                           *)

\* The compareAndSet lets a thread in only if no padding is running.
EnterPadding ==
    /\ running' = TRUE
    /\ stage' = IF running THEN stage ELSE "provide"
    /\ UNCHANGED <<ring, takers, second, next, ready>>

\* A thread of the pool starts a submitted task.
StartPadding ==
    /\ pending > 0
    /\ pending' = pending - 1
    /\ EnterPadding

\* The schedule starts one of its own, every scheduleInterval seconds.
SchedulePadding ==
    /\ Scheduled /\ ready
    /\ EnterPadding
    /\ UNCHANGED pending

\* Mutant of Provide: the same second is borrowed again.
ProvideAgain ==
    /\ stage = "provide"
    /\ second < MaxSecond
    /\ second' \in {second, second + 1}
    /\ next' = FirstOf(second + 1)
    /\ stage' = "room"
    /\ UNCHANGED <<ring, takers, running, pending, ready>>

\* The next second is borrowed and its UIDs are put one by one.
Provide ==
    /\ stage = "provide"
    /\ second < MaxSecond
    /\ second' = second + 1
    /\ next' = FirstOf(second + 1)
    /\ stage' = "room"
    /\ UNCHANGED <<ring, takers, running, pending, ready>>

\* put: the tail must not catch the cursor.
CheckRoom ==
    LET distance == tail - (IF cursor = START_POINT THEN 0 ELSE cursor) IN
    /\ stage = "room"
    /\ stage' = IF distance = Size - 1 THEN "full" ELSE "flag"
    /\ UNCHANGED <<ring, takers, running, pending, second, next, ready>>

\* put: and the UID that was in the slot must have been taken out.
CheckFlag ==
    /\ stage = "flag"
    /\ stage' = IF flags[Index(tail + 1)] = "CAN_PUT" THEN "fill" ELSE "full"
    /\ UNCHANGED <<ring, takers, running, pending, second, next, ready>>

\* Mutant of Fill: the slot of the tail, not of the one after it.
FillTail ==
    /\ stage = "fill"
    /\ slots' = [slots EXCEPT ![Index(tail + Size)] = next]
    /\ stage' = "mark"
    /\ UNCHANGED <<tail, cursor, flags, takers, running, pending, second, next, ready>>

Fill ==
    /\ stage = "fill"
    /\ slots' = [slots EXCEPT ![Index(tail + 1)] = next]
    /\ stage' = "mark"
    /\ UNCHANGED <<tail, cursor, flags, takers, running, pending, second, next, ready>>

Mark ==
    /\ stage = "mark"
    /\ flags' = [flags EXCEPT ![Index(tail + 1)] = "CAN_TAKE"]
    /\ stage' = "publish"
    /\ UNCHANGED <<tail, cursor, slots, takers, running, pending, second, next, ready>>

\* Mutant of Publish: a second has one UID too many.
PublishOneMore ==
    /\ stage = "publish"
    /\ tail' = tail + 1
    /\ next' = IF next = LastOf(second) + 1 THEN next ELSE next + 1
    /\ stage' = IF next = LastOf(second) + 1 THEN "provide" ELSE "room"
    /\ UNCHANGED <<cursor, slots, flags, takers, running, pending, second, ready>>

\* The put returns true and the loop goes on with the next UID or second.
Publish ==
    /\ stage = "publish"
    /\ tail' = tail + 1
    /\ next' = IF next = LastOf(second) THEN next ELSE next + 1
    /\ stage' = IF next = LastOf(second) THEN "provide" ELSE "room"
    /\ UNCHANGED <<cursor, slots, flags, takers, running, pending, second, ready>>

\* Mutant of StopPadding: the flag that lets the next thread in is not reset.
StopShut ==
    /\ stage = "full"
    /\ stage' = "off"
    /\ ready' = TRUE
    /\ UNCHANGED <<ring, takers, running, pending, second, next>>

\* A put was rejected: what is left of the second is dropped and the thread
\* lets the next one in.
StopPadding ==
    /\ stage = "full"
    /\ running' = FALSE
    /\ stage' = "off"
    /\ ready' = TRUE
    /\ UNCHANGED <<ring, takers, pending, second, next>>

Pad ==
    \/ Provide
    \/ CheckRoom
    \/ CheckFlag
    \/ Fill
    \/ Mark
    \/ Publish
    \/ StopPadding

-----------------------------------------------------------------------------
(* take                                                                    *)

\* Mutant of ReadCursor: the tail is read in its place.
ReadTail(t) ==
    /\ ready
    /\ at[t] = "idle"
    /\ seen' = [seen EXCEPT ![t] = tail]
    /\ at' = [at EXCEPT ![t] = "advance"]
    /\ UNCHANGED <<ring, padder, claim, uid, issued>>

ReadCursor(t) ==
    /\ ready
    /\ at[t] = "idle"
    /\ seen' = [seen EXCEPT ![t] = cursor]
    /\ at' = [at EXCEPT ![t] = "advance"]
    /\ UNCHANGED <<ring, padder, claim, uid, issued>>

\* Mutant of Advance: the cursor moves on past the tail.
AdvanceAlways(t) ==
    /\ at[t] = "advance"
    /\ cursor' = cursor + 1
    /\ claim' = [claim EXCEPT ![t] = cursor']
    /\ at' = [at EXCEPT ![t] = "threshold"]
    /\ UNCHANGED <<tail, slots, flags, padder, seen, uid, issued>>

\* cursor.updateAndGet(old -> old == tail.get() ? old : old + 1), one atomic
\* step: the compareAndSet fails if the cursor moved, and the tail only grows.
Advance(t) ==
    /\ at[t] = "advance"
    /\ cursor' = IF cursor = tail THEN cursor ELSE cursor + 1
    /\ claim' = [claim EXCEPT ![t] = cursor']
    /\ at' = [at EXCEPT ![t] = "threshold"]
    /\ UNCHANGED <<tail, slots, flags, padder, seen, uid, issued>>

\* Below the threshold a padding task is submitted; a claim equal to the cursor
\* read before is an empty ring, and the rejected take throws.
CheckThreshold(t) ==
    /\ at[t] = "threshold"
    /\ pending' = IF tail - claim[t] < Threshold THEN Min2(pending + 1, MaxPending) ELSE pending
    /\ at' = [at EXCEPT ![t] = IF claim[t] = seen[t] THEN "idle" ELSE "flag"]
    /\ UNCHANGED <<ring, running, second, stage, next, ready, seen, claim, uid, issued>>

\* The assertion that the claimed slot can be taken; it throws if not.
CheckTake(t) ==
    /\ at[t] = "flag"
    /\ at' = [at EXCEPT ![t] = IF flags[Index(claim[t])] = "CAN_TAKE" THEN "read" ELSE "idle"]
    /\ UNCHANGED <<ring, padder, seen, claim, uid, issued>>

ReadSlot(t) ==
    /\ at[t] = "read"
    /\ uid' = [uid EXCEPT ![t] = slots[Index(claim[t])]]
    /\ at' = [at EXCEPT ![t] = "release"]
    /\ UNCHANGED <<ring, padder, seen, claim, issued>>

\* The slot may be overwritten from here on, and the UID is returned.
Release(t) ==
    /\ at[t] = "release"
    /\ flags' = [flags EXCEPT ![Index(claim[t])] = "CAN_PUT"]
    /\ issued' = issued \cup {uid[t]}
    /\ at' = [at EXCEPT ![t] = "idle"]
    /\ UNCHANGED <<tail, cursor, slots, padder, seen, claim, uid>>

Take(t) ==
    \/ ReadCursor(t)
    \/ Advance(t)
    \/ CheckThreshold(t)
    \/ CheckTake(t)
    \/ ReadSlot(t)
    \/ Release(t)

Next == StartPadding \/ SchedulePadding \/ Pad \/ \E t \in Takers : Take(t)

Spec == Init /\ [][Next]_vars

\* The pool runs its tasks, threads run, and callers keep asking for UIDs.
FairSpec ==
    /\ Spec
    /\ WF_vars(StartPadding)
    /\ WF_vars(Pad)
    /\ \A t \in Takers : WF_vars(Take(t))

-----------------------------------------------------------------------------
(* Properties                                                              *)

\* The cursor never passes the tail, and the tail never laps the cursor: the
\* distance test of put compares for equality, with the cursor read earlier.
CursorBehindTail == cursor <= tail /\ tail - cursor <= Size

\* UIDs that nobody has claimed are in their slots in the order they were put:
\* the producer, which works with an old cursor, never overwrites one.
UnclaimedIncrease ==
    \A s \in cursor + 1 .. tail :
        s > cursor + 1 => slots[Index(s - 1)] < slots[Index(s)]

\* "Curosr can't move back ... it never occurs".
CursorNeverBack ==
    \A t \in Takers : at[t] \in {"threshold", "flag", "read", "release"} => claim[t] >= seen[t]

\* "Get a unique ID": no UID is returned twice.
NoDuplicateUid ==
    /\ \A t \in Takers : at[t] = "release" => uid[t] \notin issued
    /\ \A t, u \in Takers :
          t # u /\ at[t] = "release" /\ at[u] = "release" => uid[t] # uid[u]

\* The assertion "Curosr not in can take status" never fires: what a taker claims
\* nobody else takes, and nobody refills before it is taken.
ClaimedCanBeTaken ==
    \A t \in Takers : at[t] = "flag" => flags[Index(claim[t])] = "CAN_TAKE"

\* A taker that has claimed a sequence of its own and not returned its UID.
HasClaim(t) == at[t] \in {"flag", "read", "release"} \/ (at[t] = "threshold" /\ claim[t] # seen[t])

\* The sequences whose UIDs have been put and not been returned.
Unreturned == (cursor + 1 .. tail) \cup {claim[t] : t \in {u \in Takers : HasClaim(u)}}

Waiting == {slots[Index(s)] : s \in Unreturned}

\* The ring as a pool of these UIDs.
Pool == INSTANCE UidPool WITH
    Uids <- 0 .. LastOf(MaxSecond), Capacity <- Size, waiting <- Waiting, taken <- issued

\* The ring is a queue of Size UIDs: take returns the oldest UID that put has put and no
\* take has returned; none is lost, overwritten or returned twice.
IsAQueue == Pool!QueueSpec

\* An empty ring is filled again, unless the seconds of the model are used up.
EmptyIsRefilled == (cursor = tail) ~> (cursor < tail \/ second = MaxSecond)
=============================================================================
