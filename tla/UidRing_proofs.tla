--------------------------- MODULE UidRing_proofs ---------------------------
(***************************************************************************)
(* Proofs about UidRing for any number of takers and any ring size.          *)
(***************************************************************************)
EXTENDS UidRing, FiniteSetTheorems, TLAPS

\* A slot index is one of the slots.
LEMMA IndexInSlots ==
    ASSUME NEW s \in Nat
    PROVE  Index(s) \in Slots
  BY SizeAssumption DEF Index, Slots

\* Two sequences less than a lap apart have different slots.
LEMMA DifferentSlots ==
    ASSUME NEW s \in Nat, NEW u \in Nat, s < u, u - s < Size
    PROVE  Index(s) # Index(u)
<1> SUFFICES ASSUME Index(s) = Index(u) PROVE FALSE
  OBVIOUS
<1> DEFINE a == s \div Size
           b == u \div Size
<1>1. /\ a \in Int /\ b \in Int
      /\ s = Size * a + Index(s) /\ u = Size * b + Index(u)
  BY SizeAssumption DEF Index
<1> HIDE DEF a, b
<1>2. u - s = Size * (b - a)
  BY <1>1, SizeAssumption, IndexInSlots DEF Slots
<1>3. b - a >= 1
  BY <1>1, <1>2, SizeAssumption
<1>4. Size * (b - a) >= Size
  BY <1>1, <1>3, SizeAssumption
<1> QED
  BY <1>2, <1>4, SizeAssumption

-----------------------------------------------------------------------------
(* Type correctness                                                        *)

\* The initial state has the types of TypeOK.
LEMMA TypeInit == Init => TypeOK
<1> SUFFICES ASSUME Init PROVE TypeOK
  OBVIOUS
<1>1. pending \in 0 .. MaxPending
  BY BoundsAssumption DEF Init
<1>2. next \in FirstOf(second) .. LastOf(second)
  BY PerSecondAssumption DEF Init, FirstOf, LastOf
<1> QED
  BY <1>1, <1>2 DEF Init, TypeOK

\* Every step keeps the types.
LEMMA TypeStep == TypeOK /\ [Next]_vars => TypeOK'
<1> SUFFICES ASSUME TypeOK, [Next]_vars PROVE TypeOK'
  OBVIOUS
<1> USE DEF TypeOK, START_POINT, ring, padder, takers
<1>1. CASE StartPadding
  BY <1>1, BoundsAssumption DEF StartPadding, EnterPadding
<1>2. CASE SchedulePadding
  BY <1>2 DEF SchedulePadding, EnterPadding
<1>3. CASE Pad
  <2>1. CASE Provide
    <3>1. next' \in Nat /\ next' \in FirstOf(second') .. LastOf(second')
      BY <2>1, PerSecondAssumption DEF Provide, FirstOf, LastOf
    <3> QED
      BY <2>1, <3>1 DEF Provide
  <2>2. CASE CheckRoom
    BY <2>2 DEF CheckRoom
  <2>3. CASE CheckFlag
    BY <2>3 DEF CheckFlag
  <2>4. CASE Fill
    BY <2>4 DEF Fill
  <2>5. CASE Mark
    BY <2>5 DEF Mark
  <2>6. CASE Publish
    <3>1. FirstOf(second) \in Int /\ LastOf(second) \in Int
      BY PerSecondAssumption DEF FirstOf, LastOf
    <3>2. next' \in Nat /\ next' \in FirstOf(second) .. LastOf(second)
      BY <2>6, <3>1 DEF Publish
    <3> QED
      BY <2>6, <3>2 DEF Publish
  <2>7. CASE StopPadding
    BY <2>7 DEF StopPadding
  <2> QED
    BY <1>3, <2>1, <2>2, <2>3, <2>4, <2>5, <2>6, <2>7 DEF Pad
<1>4. ASSUME NEW t \in Takers, Take(t) PROVE TypeOK'
  <2>1. CASE ReadCursor(t)
    BY <2>1 DEF ReadCursor
  <2>2. CASE Advance(t)
    <3>1. cursor' \in Nat \cup {START_POINT}
      BY <2>2 DEF Advance
    <3> QED
      BY <2>2, <3>1 DEF Advance
  <2>3. CASE CheckThreshold(t)
    BY <2>3, BoundsAssumption DEF CheckThreshold, Min2
  <2>4. CASE CheckTake(t)
    BY <2>4 DEF CheckTake
  <2>5. CASE ReadSlot(t)
    <3>1. slots[Index(claim[t])] \in Nat
      <4>1. claim[t] \in Nat \cup {-1}
        OBVIOUS
      <4>2. Index(claim[t]) \in Slots
        BY <4>1, SizeAssumption DEF Index, Slots
      <4> QED
        BY <4>2
    <3> QED
      BY <2>5, <3>1 DEF ReadSlot
  <2>6. CASE Release(t)
    BY <2>6 DEF Release
  <2> QED
    BY <1>4, <2>1, <2>2, <2>3, <2>4, <2>5, <2>6 DEF Take
<1>5. CASE UNCHANGED vars
  BY <1>5 DEF vars
<1> QED
  BY <1>1, <1>2, <1>3, <1>4, <1>5 DEF Next

\* Every variable keeps a value of its type.
THEOREM TypeCorrect == Spec => []TypeOK
  BY TypeInit, TypeStep, PTL DEF Spec

-----------------------------------------------------------------------------
(* The producer and the cursor                                             *)

\* The sequence the distance of put is measured from.
Base == IF cursor = START_POINT THEN 0 ELSE cursor

\* A put that passed the distance test has room for one more UID, even if the
\* cursor has moved since: it only moves on.
Room ==
    /\ cursor <= tail
    /\ tail - Base <= Size - 1
    /\ stage \in {"flag", "fill", "mark", "publish"} => tail - Base < Size - 1

\* What was put is older than what is about to be put.
Older ==
    /\ \A s \in cursor + 1 .. tail : slots[Index(s)] <= LastOf(second)
    /\ stage \in {"room", "flag", "fill", "mark", "publish"} =>
          /\ next \in FirstOf(second) .. LastOf(second)
          /\ \A s \in cursor + 1 .. tail : slots[Index(s)] < next
    /\ stage \in {"mark", "publish"} => slots[Index(tail + 1)] = next

\* A cursor that a taker has read is at most the cursor.
ReadBehind ==
    /\ \A t \in Takers : at[t] = "advance" => seen[t] <= cursor
    /\ CursorNeverBack

IndInv == TypeOK /\ Room /\ Older /\ UnclaimedIncrease /\ ReadBehind

\* The initial state satisfies the inductive invariant.
LEMMA InitIndInv == Init => IndInv
<1> SUFFICES ASSUME Init PROVE IndInv
  OBVIOUS
<1>1. TypeOK
  BY TypeInit
<1>2. tail = -1 /\ cursor = -1 /\ stage = "provide" /\ \A t \in Takers : at[t] = "idle"
  BY DEF Init, START_POINT
<1> QED
  BY <1>1, <1>2, SizeAssumption
  DEF IndInv, Room, Base, Older, UnclaimedIncrease, ReadBehind, CursorNeverBack, START_POINT

\* A step that leaves the ring, the UID being put and the takers' cursors alone
\* only has to keep the conditions on the producer's stage.
LEMMA QuietStep ==
    ASSUME IndInv, UNCHANGED <<tail, cursor, slots, second, next, seen, claim>>,
           \/ stage' = stage
           \/ stage' \in {"off", "provide", "full"}
           \/ stage = "mark" /\ stage' = "publish",
           \A t \in Takers : \/ at'[t] = at[t]
                             \/ at'[t] = "idle"
                             \/ /\ at[t] \in {"threshold", "flag", "read", "release"}
                                /\ at'[t] \in {"threshold", "flag", "read", "release"}
    PROVE  Room' /\ Older' /\ UnclaimedIncrease' /\ ReadBehind'
<1>1. Room'
  BY DEF IndInv, Room, Base
<1>2. Older'
  BY DEF IndInv, Older
<1>3. UnclaimedIncrease'
  BY DEF IndInv, UnclaimedIncrease
<1>4. ReadBehind'
  BY DEF IndInv, ReadBehind, CursorNeverBack
<1> QED
  BY <1>1, <1>2, <1>3, <1>4

\* The steps of the padding thread that touch the ring.
LEMMA PadStep ==
    ASSUME IndInv, Pad
    PROVE  Room' /\ Older' /\ UnclaimedIncrease' /\ ReadBehind'
<1> USE DEF IndInv, takers, ring
<1>0. /\ tail \in Nat \cup {-1} /\ cursor \in Nat \cup {-1} /\ cursor <= tail
      /\ slots \in [Slots -> Nat] /\ second \in Nat /\ next \in Nat /\ tail + 1 \in Nat
      /\ tail - Base <= Size - 1
  BY DEF TypeOK, START_POINT, Room
<1>1. \A s \in cursor + 1 .. tail : s \in Nat /\ Index(s) \in Slots
  BY <1>0, IndexInSlots
<1>2. CASE Provide
  <2>1. /\ UNCHANGED <<tail, cursor, slots, at, seen, claim>>
        /\ second' = second + 1 /\ next' = FirstOf(second + 1) /\ stage' = "room"
    BY <1>2 DEF Provide
  <2>2. LastOf(second) < FirstOf(second + 1) /\ FirstOf(second + 1) <= LastOf(second + 1)
    BY <1>0, PerSecondAssumption DEF FirstOf, LastOf
  <2>3. FirstOf(second + 1) \in Nat /\ LastOf(second + 1) \in Nat /\ LastOf(second) \in Nat
    BY <1>0, PerSecondAssumption DEF FirstOf, LastOf
  <2>4. \A s \in cursor + 1 .. tail : slots[Index(s)] \in Nat /\ slots[Index(s)] <= LastOf(second)
    BY <1>0, <1>1 DEF Older
  <2>5. Older'
    BY <2>1, <2>2, <2>3, <2>4 DEF Older
  <2>6. Room'
    BY <2>1 DEF Room, Base
  <2>7. UnclaimedIncrease' /\ ReadBehind'
    BY <2>1 DEF UnclaimedIncrease, ReadBehind, CursorNeverBack
  <2> QED
    BY <2>5, <2>6, <2>7
<1>3. CASE CheckRoom
  <2>1. /\ UNCHANGED <<tail, cursor, slots, second, next, at, seen, claim>>
        /\ stage = "room"
        /\ stage' = IF tail - Base = Size - 1 THEN "full" ELSE "flag"
    BY <1>3 DEF CheckRoom, Base
  <2>2. Room'
    BY <1>0, <2>1, SizeAssumption DEF Room, Base, START_POINT
  <2>3. Older' /\ UnclaimedIncrease' /\ ReadBehind'
    BY <2>1 DEF Older, UnclaimedIncrease, ReadBehind, CursorNeverBack
  <2> QED
    BY <2>2, <2>3
<1>4. CASE CheckFlag
  <2>1. /\ UNCHANGED <<tail, cursor, slots, second, next, at, seen, claim>>
        /\ stage = "flag" /\ stage' \in {"fill", "full"}
    BY <1>4 DEF CheckFlag
  <2> QED
    BY <2>1 DEF Room, Base, Older, UnclaimedIncrease, ReadBehind, CursorNeverBack
<1>5. CASE Fill
  <2>1. /\ UNCHANGED <<tail, cursor, second, next, at, seen, claim>>
        /\ slots' = [slots EXCEPT ![Index(tail + 1)] = next]
        /\ stage = "fill" /\ stage' = "mark"
    BY <1>5 DEF Fill
  <2>2. \A s \in cursor + 1 .. tail : Index(s) # Index(tail + 1)
    <3> SUFFICES ASSUME NEW s \in cursor + 1 .. tail PROVE Index(s) # Index(tail + 1)
      OBVIOUS
    <3>1. s \in Nat /\ s < tail + 1 /\ tail + 1 - s < Size
      BY <1>0, <2>1, SizeAssumption DEF Room, Base, START_POINT
    <3> QED
      BY <1>0, <3>1, DifferentSlots
  <2>3. \A s \in cursor + 1 .. tail : slots'[Index(s)] = slots[Index(s)]
    BY <1>0, <1>1, <2>1, <2>2
  <2>4. Index(tail + 1) \in Slots
    BY <1>0, IndexInSlots
  <2>5. Older'
    BY <1>0, <2>1, <2>3, <2>4 DEF Older
  <2>6. UnclaimedIncrease'
    <3>1. \A s \in cursor + 1 .. tail : s > cursor + 1 => s - 1 \in cursor + 1 .. tail
      BY <1>0
    <3> QED
      BY <2>1, <2>3, <3>1 DEF UnclaimedIncrease
  <2>7. Room' /\ ReadBehind'
    BY <2>1 DEF Room, Base, ReadBehind, CursorNeverBack
  <2> QED
    BY <2>5, <2>6, <2>7
<1>6. CASE Mark
  <2>1. /\ UNCHANGED <<tail, cursor, slots, second, next, at, seen, claim>>
        /\ stage = "mark" /\ stage' = "publish"
    BY <1>6 DEF Mark
  <2> QED
    BY <2>1, QuietStep
<1>7. CASE Publish
  <2>1. /\ UNCHANGED <<cursor, slots, second, at, seen, claim>>
        /\ tail' = tail + 1 /\ stage = "publish"
        /\ next' = IF next = LastOf(second) THEN next ELSE next + 1
        /\ stage' = IF next = LastOf(second) THEN "provide" ELSE "room"
    BY <1>7 DEF Publish
  <2>2. Room'
    BY <1>0, <2>1, SizeAssumption DEF Room, Base, START_POINT
  <2>3. /\ slots[Index(tail + 1)] = next
        /\ next \in FirstOf(second) .. LastOf(second)
        /\ \A s \in cursor + 1 .. tail : slots[Index(s)] < next
    BY <2>1 DEF Older
  <2>4. \A s \in cursor + 1 .. tail' : s \in cursor + 1 .. tail \/ s = tail + 1
    BY <1>0, <2>1
  <2>5. FirstOf(second) \in Nat /\ LastOf(second) \in Nat
    BY <1>0, PerSecondAssumption DEF FirstOf, LastOf
  <2>6. \A s \in cursor + 1 .. tail : slots[Index(s)] \in Nat
    BY <1>0, <1>1
  <2>7. Older'
    BY <1>0, <2>1, <2>3, <2>4, <2>5, <2>6 DEF Older
  <2>8. UnclaimedIncrease'
    <3> SUFFICES ASSUME NEW s \in cursor + 1 .. tail', s > cursor + 1
                 PROVE  slots[Index(s - 1)] < slots[Index(s)]
      BY <2>1 DEF UnclaimedIncrease
    <3>1. CASE s \in cursor + 1 .. tail
      BY <3>1 DEF UnclaimedIncrease
    <3>2. CASE s = tail + 1
      <4>1. s - 1 \in cursor + 1 .. tail
        BY <1>0, <3>2
      <4> QED
        BY <2>3, <3>2, <4>1
    <3> QED
      BY <2>4, <3>1, <3>2
  <2>9. ReadBehind'
    BY <2>1 DEF ReadBehind, CursorNeverBack
  <2> QED
    BY <2>2, <2>7, <2>8, <2>9
<1>8. CASE StopPadding
  <2>1. UNCHANGED <<tail, cursor, slots, second, next, at, seen, claim>> /\ stage' = "off"
    BY <1>8 DEF StopPadding
  <2> QED
    BY <2>1, QuietStep
<1> QED
  BY <1>2, <1>3, <1>4, <1>5, <1>6, <1>7, <1>8 DEF Pad

\* The steps of take.
LEMMA TakeStep ==
    ASSUME IndInv, NEW t \in Takers, Take(t)
    PROVE  Room' /\ Older' /\ UnclaimedIncrease' /\ ReadBehind'
<1> USE DEF IndInv, padder, ring
<1>0. /\ tail \in Nat \cup {-1} /\ cursor \in Nat \cup {-1} /\ cursor <= tail
      /\ at \in [Takers -> {"idle", "advance", "threshold", "flag", "read", "release"}]
      /\ seen \in [Takers -> Nat \cup {-1}] /\ claim \in [Takers -> Nat \cup {-1}]
  BY DEF TypeOK, START_POINT, Room
<1>1. CASE ReadCursor(t)
  <2>1. /\ UNCHANGED <<tail, cursor, slots, second, next, stage, claim>>
        /\ at' = [at EXCEPT ![t] = "advance"] /\ seen' = [seen EXCEPT ![t] = cursor]
    BY <1>1 DEF ReadCursor
  <2>2. Room' /\ Older' /\ UnclaimedIncrease'
    BY <2>1 DEF Room, Base, Older, UnclaimedIncrease
  <2>3. ReadBehind'
    BY <1>0, <2>1 DEF ReadBehind, CursorNeverBack
  <2> QED
    BY <2>2, <2>3
<1>2. CASE Advance(t)
  <2>1. /\ UNCHANGED <<tail, slots, second, next, stage, seen>>
        /\ cursor' = IF cursor = tail THEN cursor ELSE cursor + 1
        /\ claim' = [claim EXCEPT ![t] = cursor']
        /\ at' = [at EXCEPT ![t] = "threshold"] /\ at[t] = "advance"
    BY <1>2 DEF Advance
  <2>2. cursor' \in Nat \cup {-1} /\ cursor <= cursor' /\ cursor' <= tail /\ cursor' <= cursor + 1
    BY <1>0, <2>1
  <2>3. Room'
    BY <1>0, <2>1, <2>2, SizeAssumption DEF Room, Base, START_POINT
  <2>4. \A s \in cursor' + 1 .. tail :
            s \in cursor + 1 .. tail /\ (s > cursor' + 1 => s > cursor + 1)
    <3> DEFINE c == cursor'
    <3>1. cursor \in Int /\ tail \in Int /\ c \in Int /\ cursor <= c
      BY <1>0, <2>2
    <3> HIDE DEF c
    <3>2. \A s \in c + 1 .. tail : s \in cursor + 1 .. tail /\ (s > c + 1 => s > cursor + 1)
      BY <3>1
    <3> QED
      BY <3>2 DEF c
  <2>5. Older'
    BY <2>1, <2>4 DEF Older
  <2>6. UnclaimedIncrease'
    BY <2>1, <2>4 DEF UnclaimedIncrease
  <2>7. ReadBehind'
    BY <1>0, <2>1, <2>2 DEF ReadBehind, CursorNeverBack
  <2> QED
    BY <2>3, <2>5, <2>6, <2>7
<1>3. CASE CheckThreshold(t) \/ CheckTake(t) \/ ReadSlot(t) \/ Release(t)
  <2>1. UNCHANGED <<tail, cursor, slots, second, next, stage, seen, claim>>
    BY <1>3 DEF CheckThreshold, CheckTake, ReadSlot, Release
  <2>2. \E to \in {"idle", "flag", "read", "release"} : at' = [at EXCEPT ![t] = to]
    BY <1>3 DEF CheckThreshold, CheckTake, ReadSlot, Release
  <2>3. at[t] \in {"threshold", "flag", "read", "release"}
    BY <1>3 DEF CheckThreshold, CheckTake, ReadSlot, Release
  <2> QED
    BY <1>0, <2>1, <2>2, <2>3, QuietStep
<1> QED
  BY <1>1, <1>2, <1>3 DEF Take

\* Every step keeps the inductive invariant.
LEMMA IndInvStep == IndInv /\ [Next]_vars => IndInv'
<1> SUFFICES ASSUME IndInv, [Next]_vars PROVE IndInv'
  OBVIOUS
<1>1. TypeOK'
  BY TypeStep DEF IndInv
<1>2. CASE StartPadding \/ SchedulePadding
  <2>1. /\ UNCHANGED <<tail, cursor, slots, second, next, at, seen, claim>>
        /\ stage' = stage \/ stage' = "provide"
    BY <1>2 DEF StartPadding, SchedulePadding, EnterPadding, ring, takers
  <2> QED
    BY <1>1, <2>1, QuietStep DEF IndInv
<1>3. CASE UNCHANGED vars
  BY <1>1, <1>3, QuietStep DEF vars, ring, takers, padder, IndInv
<1> QED
  BY <1>1, <1>2, <1>3, PadStep, TakeStep DEF Next, IndInv

\* The cursor stays behind the tail and the tail within a lap of it.
THEOREM CursorBehindTailHolds == Spec => []CursorBehindTail
<1>1. IndInv => CursorBehindTail
  BY SizeAssumption DEF IndInv, TypeOK, Room, Base, START_POINT, CursorBehindTail
<1> QED
  BY <1>1, InitIndInv, IndInvStep, PTL DEF Spec

\* No UID is overwritten before it is claimed, and the order of the UIDs is kept,
\* however many threads take and whatever they take twice.
THEOREM UnclaimedIncreaseHolds == Spec => []UnclaimedIncrease
<1>1. IndInv => UnclaimedIncrease
  BY DEF IndInv
<1> QED
  BY <1>1, InitIndInv, IndInvStep, PTL DEF Spec

\* The assertion that the cursor does not move back never fires.
THEOREM CursorNeverBackHolds == Spec => []CursorNeverBack
<1>1. IndInv => CursorNeverBack
  BY DEF IndInv, ReadBehind
<1> QED
  BY <1>1, InitIndInv, IndInvStep, PTL DEF Spec

-----------------------------------------------------------------------------
(* One taker                                                               *)

\* The first sequence whose UID has not been returned, if there is one taker only.
Lowest(t) == IF HasClaim(t) THEN cursor ELSE cursor + 1

\* Nobody else moves the cursor.
CursorIsMine(t) ==
    /\ at[t] = "advance" => seen[t] = cursor
    /\ at[t] \in {"threshold", "flag", "read", "release"} => claim[t] = cursor
    /\ HasClaim(t) => cursor \in Nat

\* What has not been returned can be taken and stands in order, after all that was
\* returned and before what is still to be put.
KeptInOrder(t) ==
    /\ \A s \in Lowest(t) .. tail :
        /\ flags[Index(s)] = "CAN_TAKE"
        /\ slots[Index(s)] <= LastOf(second)
        /\ \A u \in issued : u < slots[Index(s)]
    /\ \A r, s \in Lowest(t) .. tail : r < s => slots[Index(r)] < slots[Index(s)]
NextIsNewer(t) ==
    /\ \A u \in issued : u <= LastOf(second)
    /\ stage \in {"room", "flag", "fill", "mark", "publish"} =>
        /\ \A s \in Lowest(t) .. tail : slots[Index(s)] < next
        /\ \A u \in issued : u < next
    /\ stage = "publish" => flags[Index(tail + 1)] = "CAN_TAKE"
ReadIsMine(t) == at[t] = "release" => uid[t] = slots[Index(cursor)]

OneTaker(t) == CursorIsMine(t) /\ KeptInOrder(t) /\ NextIsNewer(t) /\ ReadIsMine(t)

\* What a single taker has not returned lies less than a lap before the next UID, and
\* so does what it has claimed before the tail.
LEMMA WithinALap ==
    ASSUME IndInv, NEW t, Takers = {t}, OneTaker(t)
    PROVE  /\ \A s \in Lowest(t) .. tail : s \in Nat /\ Index(s) \in Slots
           /\ stage \in {"flag", "fill", "mark", "publish"} =>
                \A s \in Lowest(t) .. tail : Index(s) # Index(tail + 1)
           /\ HasClaim(t) => \A s \in cursor + 1 .. tail : Index(s) # Index(cursor)
           /\ HasClaim(t) /\ stage = "publish" => Index(tail + 1) # Index(cursor)
<1>1. /\ tail \in Nat \cup {-1} /\ cursor \in Nat \cup {-1} /\ cursor <= tail /\ tail + 1 \in Nat
      /\ tail - Base <= Size - 1 /\ Lowest(t) \in Nat /\ Lowest(t) >= cursor
      /\ stage \in {"flag", "fill", "mark", "publish"} => tail - Base < Size - 1
      /\ HasClaim(t) => cursor \in Nat
  BY DEF IndInv, TypeOK, Room, START_POINT, OneTaker, CursorIsMine, Lowest
<1>2. \A s \in Lowest(t) .. tail : s \in Nat /\ Index(s) \in Slots
  BY <1>1, IndexInSlots
<1>3. ASSUME stage \in {"flag", "fill", "mark", "publish"}, NEW s \in Lowest(t) .. tail
      PROVE  Index(s) # Index(tail + 1)
  <2>1. s \in Nat /\ s < tail + 1
    BY <1>1
  <2>2. tail + 1 - s < Size
    BY <1>1, <1>3, <2>1, SizeAssumption DEF Base, START_POINT, Lowest
  <2> QED
    BY <1>1, <2>1, <2>2, DifferentSlots
<1>4. ASSUME HasClaim(t), NEW s \in cursor + 1 .. tail
      PROVE  Index(s) # Index(cursor)
  <2>1. s \in Nat /\ cursor < s /\ s - cursor < Size
    BY <1>1, <1>4, SizeAssumption DEF Base, START_POINT
  <2> QED
    BY <1>1, <1>4, <2>1, DifferentSlots
<1>5. ASSUME HasClaim(t), stage = "publish"
      PROVE  Index(tail + 1) # Index(cursor)
  <2>1. cursor \in Nat /\ cursor < tail + 1 /\ tail + 1 - cursor < Size
    BY <1>1, <1>5, SizeAssumption DEF Base, START_POINT
  <2> QED
    BY <1>1, <2>1, DifferentSlots
<1> QED
  BY <1>2, <1>3, <1>4, <1>5

LEMMA OneTakerInit ==
    ASSUME Init, NEW t, Takers = {t}
    PROVE  OneTaker(t)
<1>1. at[t] = "idle" /\ tail = -1 /\ cursor = -1 /\ issued = {} /\ stage = "provide"
  BY DEF Init, START_POINT
<1>2. Lowest(t) = 0
  BY <1>1 DEF Lowest, HasClaim
<1> QED
  BY <1>1, <1>2 DEF OneTaker, CursorIsMine, KeptInOrder, NextIsNewer, ReadIsMine, HasClaim

\* A step of the padding that leaves the ring alone.
LEMMA PaddingAlone ==
    ASSUME NEW t, OneTaker(t), UNCHANGED <<ring, takers, second, next>>,
           stage' \in {stage, "off", "provide", "full"} \/ (stage = "room" /\ stage' = "flag")
             \/ (stage = "flag" /\ stage' = "fill")
    PROVE  OneTaker(t)'
<1>1. UNCHANGED <<tail, cursor, slots, flags, at, seen, claim, uid, issued>>
  BY DEF ring, takers
<1>2. Lowest(t)' = Lowest(t) /\ (HasClaim(t)' <=> HasClaim(t))
  BY <1>1 DEF Lowest, HasClaim
<1>3. CursorIsMine(t)' /\ KeptInOrder(t)' /\ ReadIsMine(t)'
  BY <1>1, <1>2 DEF OneTaker, CursorIsMine, KeptInOrder, ReadIsMine
<1>4. NextIsNewer(t)'
  BY <1>1, <1>2 DEF OneTaker, NextIsNewer
<1> QED
  BY <1>3, <1>4 DEF OneTaker

LEMMA OneTakerPad ==
    ASSUME IndInv, NEW t, Takers = {t}, OneTaker(t), Pad
    PROVE  OneTaker(t)'
<1>0. /\ tail \in Nat \cup {-1} /\ cursor \in Nat \cup {-1} /\ tail + 1 \in Nat
      /\ slots \in [Slots -> Nat] /\ flags \in [Slots -> {"CAN_PUT", "CAN_TAKE"}]
      /\ second \in Nat /\ next \in Nat /\ issued \subseteq Nat
      /\ Index(tail + 1) \in Slots /\ Lowest(t) \in Int
  BY IndexInSlots DEF IndInv, TypeOK, START_POINT, Lowest
<1>1. CASE Provide
  <2>1. /\ UNCHANGED <<tail, cursor, slots, flags, at, seen, claim, uid, issued>>
        /\ second' = second + 1 /\ next' = FirstOf(second + 1) /\ stage' = "room"
    BY <1>1 DEF Provide, ring, takers
  <2>2. Lowest(t)' = Lowest(t) /\ (HasClaim(t)' <=> HasClaim(t))
    BY <2>1 DEF Lowest, HasClaim
  <2>3. CursorIsMine(t)' /\ ReadIsMine(t)'
    BY <2>1, <2>2 DEF OneTaker, CursorIsMine, ReadIsMine
  <2>4. /\ LastOf(second) \in Nat /\ LastOf(second)' \in Nat /\ next' \in Nat
        /\ LastOf(second) < next' /\ next' <= LastOf(second)'
    BY <1>0, <2>1, PerSecondAssumption DEF FirstOf, LastOf
  <2>5. \A s \in Lowest(t) .. tail : slots[Index(s)] \in Nat /\ slots[Index(s)] <= LastOf(second)
    BY <1>0, WithinALap DEF OneTaker, KeptInOrder
  <2>6. \A u \in issued : u \in Nat /\ u <= LastOf(second)
    BY <1>0 DEF OneTaker, NextIsNewer
  <2>7. KeptInOrder(t)'
    BY <2>1, <2>2, <2>4, <2>5 DEF OneTaker, KeptInOrder
  <2>8. NextIsNewer(t)'
    BY <2>1, <2>2, <2>4, <2>5, <2>6 DEF NextIsNewer
  <2> QED
    BY <2>3, <2>7, <2>8 DEF OneTaker
<1>2. CASE CheckRoom \/ CheckFlag \/ StopPadding
  BY <1>2, PaddingAlone DEF CheckRoom, CheckFlag, StopPadding
<1>3. CASE Fill
  <2>1. /\ UNCHANGED <<tail, cursor, flags, at, seen, claim, uid, issued, second, next>>
        /\ slots' = [slots EXCEPT ![Index(tail + 1)] = next]
        /\ stage = "fill" /\ stage' = "mark"
    BY <1>3 DEF Fill, takers
  <2>2. Lowest(t)' = Lowest(t) /\ (HasClaim(t)' <=> HasClaim(t))
    BY <2>1 DEF Lowest, HasClaim
  <2>3. \A s \in Lowest(t) .. tail : slots'[Index(s)] = slots[Index(s)]
    BY <1>0, <2>1, WithinALap
  <2>4. CursorIsMine(t)'
    BY <2>1, <2>2 DEF OneTaker, CursorIsMine
  <2>5. ReadIsMine(t)'
    <3>1. at[t] = "release" => Lowest(t) = cursor /\ cursor \in Lowest(t) .. tail
      BY <1>0 DEF Lowest, HasClaim, IndInv, Room
    <3> QED
      BY <2>1, <2>3, <3>1 DEF OneTaker, ReadIsMine
  <2>6. KeptInOrder(t)' /\ NextIsNewer(t)'
    BY <2>1, <2>2, <2>3 DEF OneTaker, KeptInOrder, NextIsNewer
  <2> QED
    BY <2>4, <2>5, <2>6 DEF OneTaker
<1>4. CASE Mark
  <2>1. /\ UNCHANGED <<tail, cursor, slots, at, seen, claim, uid, issued, second, next>>
        /\ flags' = [flags EXCEPT ![Index(tail + 1)] = "CAN_TAKE"]
        /\ stage = "mark" /\ stage' = "publish"
    BY <1>4 DEF Mark, takers
  <2>2. Lowest(t)' = Lowest(t) /\ (HasClaim(t)' <=> HasClaim(t))
    BY <2>1 DEF Lowest, HasClaim
  <2>3. \A s \in Lowest(t) .. tail : flags'[Index(s)] = flags[Index(s)]
    BY <1>0, <2>1, WithinALap
  <2>4. flags'[Index(tail + 1)] = "CAN_TAKE"
    BY <1>0, <2>1
  <2> QED
    BY <2>1, <2>2, <2>3, <2>4 DEF OneTaker, CursorIsMine, KeptInOrder, NextIsNewer, ReadIsMine
<1>5. CASE Publish
  <2>1. /\ UNCHANGED <<cursor, slots, flags, at, seen, claim, uid, issued, second>>
        /\ tail' = tail + 1 /\ stage = "publish"
        /\ next' = IF next = LastOf(second) THEN next ELSE next + 1
        /\ stage' = IF next = LastOf(second) THEN "provide" ELSE "room"
    BY <1>5 DEF Publish, takers
  <2>2. Lowest(t)' = Lowest(t) /\ (HasClaim(t)' <=> HasClaim(t))
    BY <2>1 DEF Lowest, HasClaim
  <2>3. CursorIsMine(t)' /\ ReadIsMine(t)'
    BY <2>1, <2>2 DEF OneTaker, CursorIsMine, ReadIsMine
  <2>4. /\ slots[Index(tail + 1)] = next /\ flags[Index(tail + 1)] = "CAN_TAKE"
        /\ next <= LastOf(second) /\ LastOf(second) \in Nat
        /\ \A s \in Lowest(t) .. tail : slots[Index(s)] < next
        /\ \A u \in issued : u < next
    BY <1>0, <2>1, PerSecondAssumption DEF IndInv, Older, OneTaker, NextIsNewer, LastOf, FirstOf
  <2>5. \A s \in Lowest(t) .. tail' : s \in Lowest(t) .. tail \/ s = tail + 1
    BY <1>0, <2>1
  <2>6. \A r, s \in Lowest(t) .. tail' : r < s => r \in Lowest(t) .. tail
    BY <1>0, <2>1
  <2>7. KeptInOrder(t)'
    <3>1. ASSUME NEW s \in Lowest(t) .. tail'
          PROVE  /\ flags[Index(s)] = "CAN_TAKE" /\ slots[Index(s)] <= LastOf(second)
                 /\ \A u \in issued : u < slots[Index(s)]
      BY <2>4, <2>5, <3>1 DEF OneTaker, KeptInOrder
    <3>2. ASSUME NEW r \in Lowest(t) .. tail', NEW s \in Lowest(t) .. tail', r < s
          PROVE  slots[Index(r)] < slots[Index(s)]
      BY <2>4, <2>5, <2>6, <3>2 DEF OneTaker, KeptInOrder
    <3> QED
      BY <2>1, <2>2, <3>1, <3>2 DEF KeptInOrder
  <2>8. NextIsNewer(t)'
    <3>1. CASE next = LastOf(second)
      BY <2>1, <2>2, <3>1 DEF OneTaker, NextIsNewer
    <3>2. CASE next # LastOf(second)
      <4>1. next' = next + 1 /\ stage' = "room"
        BY <2>1, <3>2
      <4>2. ASSUME NEW s \in Lowest(t) .. tail' PROVE slots[Index(s)] < next + 1
        <5>1. s \in Lowest(t) .. tail => slots[Index(s)] \in Nat /\ slots[Index(s)] < next
          BY <1>0, <2>4, WithinALap
        <5> QED
          BY <1>0, <2>4, <2>5, <5>1
      <4>3. \A u \in issued : u < next + 1
        BY <1>0, <2>4
      <4> QED
        BY <2>1, <2>2, <4>1, <4>2, <4>3 DEF OneTaker, NextIsNewer
    <3> QED
      BY <3>1, <3>2
  <2> QED
    BY <2>3, <2>7, <2>8 DEF OneTaker
<1> QED
  BY <1>1, <1>2, <1>3, <1>4, <1>5 DEF Pad

LEMMA OneTakerTake ==
    ASSUME IndInv, NEW t, Takers = {t}, OneTaker(t), Take(t)
    PROVE  OneTaker(t)'
<1>0. /\ tail \in Nat \cup {-1} /\ cursor \in Nat \cup {-1} /\ cursor <= tail
      /\ at \in [Takers -> {"idle", "advance", "threshold", "flag", "read", "release"}]
      /\ seen \in [Takers -> Nat \cup {-1}] /\ claim \in [Takers -> Nat \cup {-1}]
      /\ uid \in [Takers -> Nat] /\ issued \subseteq Nat /\ slots \in [Slots -> Nat]
      /\ flags \in [Slots -> {"CAN_PUT", "CAN_TAKE"}] /\ t \in Takers /\ second \in Nat /\ next \in Nat
  BY DEF IndInv, TypeOK, START_POINT, Room
<1>1. CASE ReadCursor(t)
  <2>1. /\ UNCHANGED <<tail, cursor, slots, flags, stage, second, next, issued>>
        /\ at[t] = "idle" /\ at'[t] = "advance" /\ seen'[t] = cursor
    BY <1>0, <1>1 DEF ReadCursor, ring, padder
  <2>2. Lowest(t)' = Lowest(t) /\ ~HasClaim(t) /\ ~HasClaim(t)'
    BY <2>1 DEF Lowest, HasClaim
  <2>3. CursorIsMine(t)' /\ ReadIsMine(t)'
    BY <2>1, <2>2 DEF CursorIsMine, ReadIsMine
  <2>4. KeptInOrder(t)' /\ NextIsNewer(t)'
    BY <2>1, <2>2 DEF OneTaker, KeptInOrder, NextIsNewer
  <2> QED
    BY <2>3, <2>4 DEF OneTaker
<1>2. CASE Advance(t)
  <2>1. /\ UNCHANGED <<tail, slots, flags, stage, second, next, issued>>
        /\ at[t] = "advance" /\ at'[t] = "threshold" /\ seen'[t] = seen[t] /\ seen[t] = cursor
        /\ cursor' = IF cursor = tail THEN cursor ELSE cursor + 1
        /\ claim'[t] = cursor'
    BY <1>0, <1>2 DEF Advance, padder, OneTaker, CursorIsMine
  <2>2. cursor' # cursor => cursor' = cursor + 1 /\ cursor' \in Nat
    BY <1>0, <2>1
  <2>3. HasClaim(t)' <=> cursor' # cursor
    BY <2>1 DEF HasClaim
  <2>4. Lowest(t)' = Lowest(t)
    BY <2>1, <2>2, <2>3 DEF Lowest, HasClaim
  <2>5. CursorIsMine(t)' /\ ReadIsMine(t)'
    BY <2>1, <2>2, <2>3 DEF CursorIsMine, ReadIsMine
  <2>6. KeptInOrder(t)' /\ NextIsNewer(t)'
    BY <2>1, <2>4 DEF OneTaker, KeptInOrder, NextIsNewer
  <2> QED
    BY <2>5, <2>6 DEF OneTaker
<1>3. CASE CheckThreshold(t) \/ CheckTake(t) \/ ReadSlot(t)
  <2>1. UNCHANGED <<tail, cursor, slots, flags, stage, second, next, issued, seen, claim>>
    BY <1>3 DEF CheckThreshold, CheckTake, ReadSlot, ring, padder
  <2>2. HasClaim(t)' <=> HasClaim(t)
    <3>1. CASE CheckThreshold(t)
      BY <1>0, <3>1 DEF CheckThreshold, HasClaim
    <3>2. CASE CheckTake(t)
      <4>1. HasClaim(t) /\ claim[t] = cursor /\ cursor \in Lowest(t) .. tail
        BY <1>0, <3>2 DEF CheckTake, HasClaim, OneTaker, CursorIsMine, Lowest
      <4>2. flags[Index(claim[t])] = "CAN_TAKE"
        BY <4>1 DEF OneTaker, KeptInOrder
      <4> QED
        BY <1>0, <3>2, <4>2 DEF CheckTake, HasClaim
    <3>3. CASE ReadSlot(t)
      BY <1>0, <3>3 DEF ReadSlot, HasClaim
    <3> QED
      BY <1>3, <3>1, <3>2, <3>3
  <2>3. Lowest(t)' = Lowest(t)
    BY <2>1, <2>2 DEF Lowest
  <2>4. at[t] \in {"threshold", "flag", "read", "release"} /\ at'[t] # "advance"
    BY <1>0, <1>3 DEF CheckThreshold, CheckTake, ReadSlot
  <2>5. CursorIsMine(t)'
    BY <2>1, <2>2, <2>4 DEF OneTaker, CursorIsMine
  <2>6. ReadIsMine(t)'
    <3>1. at'[t] = "release" => ReadSlot(t)
      BY <1>0, <1>3 DEF CheckThreshold, CheckTake
    <3>2. ReadSlot(t) => uid'[t] = slots[Index(cursor)]
      BY <1>0 DEF ReadSlot, OneTaker, CursorIsMine
    <3> QED
      BY <2>1, <3>1, <3>2 DEF ReadIsMine
  <2>7. KeptInOrder(t)' /\ NextIsNewer(t)'
    BY <2>1, <2>3 DEF OneTaker, KeptInOrder, NextIsNewer
  <2> QED
    BY <2>5, <2>6, <2>7 DEF OneTaker
<1>4. CASE Release(t)
  <2>1. /\ UNCHANGED <<tail, cursor, slots, stage, second, next, seen, claim, uid>>
        /\ at[t] = "release" /\ at'[t] = "idle"
        /\ flags' = [flags EXCEPT ![Index(claim[t])] = "CAN_PUT"]
        /\ issued' = issued \cup {uid[t]}
    BY <1>0, <1>4 DEF Release, padder
  <2>2. HasClaim(t) /\ ~HasClaim(t)' /\ claim[t] = cursor /\ cursor \in Nat /\ uid[t] = slots[Index(cursor)]
    BY <2>1 DEF HasClaim, OneTaker, CursorIsMine, ReadIsMine
  <2>3. Lowest(t) = cursor /\ Lowest(t)' = cursor + 1
    BY <2>1, <2>2 DEF Lowest
  <2>4. \A s \in cursor + 1 .. tail : s \in cursor .. tail /\ cursor < s
    BY <1>0
  <2>5. \A s \in cursor + 1 .. tail : flags'[Index(s)] = "CAN_TAKE"
    <3>1. \A s \in cursor + 1 .. tail : Index(s) # Index(cursor) /\ flags[Index(s)] = "CAN_TAKE"
      BY <2>2, <2>3, <2>4, WithinALap DEF OneTaker, KeptInOrder
    <3> QED
      BY <1>0, <2>1, <2>2, <3>1
  <2>6. cursor \in cursor .. tail
    BY <1>0
  <2>7. KeptInOrder(t)'
    BY <2>1, <2>2, <2>3, <2>4, <2>5, <2>6 DEF OneTaker, KeptInOrder
  <2>8. stage = "publish" => flags'[Index(tail + 1)] = "CAN_TAKE"
    <3>1. ASSUME stage = "publish" PROVE flags'[Index(tail + 1)] = "CAN_TAKE"
      <4>1. Index(tail + 1) # Index(cursor) /\ flags[Index(tail + 1)] = "CAN_TAKE"
        BY <2>2, <3>1, WithinALap DEF OneTaker, NextIsNewer
      <4> QED
        BY <1>0, <2>1, <2>2, <4>1
    <3> QED
      BY <3>1
  <2>9. NextIsNewer(t)'
    BY <2>1, <2>2, <2>3, <2>4, <2>6, <2>8 DEF OneTaker, KeptInOrder, NextIsNewer
  <2>10. CursorIsMine(t)' /\ ReadIsMine(t)'
    BY <2>1, <2>2 DEF CursorIsMine, ReadIsMine
  <2> QED
    BY <2>7, <2>9, <2>10 DEF OneTaker
<1> QED
  BY <1>1, <1>2, <1>3, <1>4 DEF Take

LEMMA OneTakerStep ==
    ASSUME NEW t, Takers = {t}
    PROVE  IndInv /\ OneTaker(t) /\ [Next]_vars => OneTaker(t)'
<1> SUFFICES ASSUME IndInv, OneTaker(t), [Next]_vars PROVE OneTaker(t)'
  OBVIOUS
<1>1. CASE StartPadding \/ SchedulePadding \/ UNCHANGED vars
  BY <1>1, PaddingAlone DEF StartPadding, SchedulePadding, EnterPadding, vars, padder
<1> QED
  BY <1>1, OneTakerPad, OneTakerTake DEF Next

\* With one taker the assertion in RingBuffer.take that a claimed slot can be taken never
\* fires, whatever the padding thread does between the steps of the take.
THEOREM ClaimedCanBeTakenHolds ==
    ASSUME NEW t, Takers = {t}
    PROVE  Spec => []ClaimedCanBeTaken
<1>1. Init => IndInv /\ OneTaker(t)
  BY InitIndInv, OneTakerInit
<1>2. IndInv /\ OneTaker(t) /\ [Next]_vars => (IndInv /\ OneTaker(t))'
  BY IndInvStep, OneTakerStep
<1>3. IndInv /\ OneTaker(t) => ClaimedCanBeTaken
  <2> SUFFICES ASSUME IndInv, OneTaker(t), at[t] = "flag"
               PROVE  flags[Index(claim[t])] = "CAN_TAKE"
    BY DEF ClaimedCanBeTaken
  <2>1. claim[t] = cursor /\ cursor \in Lowest(t) .. tail
    BY DEF IndInv, TypeOK, START_POINT, Room, OneTaker, CursorIsMine, HasClaim, Lowest
  <2> QED
    BY <2>1 DEF OneTaker, KeptInOrder
<1> QED
  BY <1>1, <1>2, <1>3, PTL DEF Spec

\* What a take is about to return is newer than all that was returned.
UidsIncrease ==
    \A t \in Takers : at[t] = "release" => \A old \in issued : old < uid[t]

LEMMA NewestIsRead ==
    ASSUME IndInv, NEW t, Takers = {t}, OneTaker(t), at[t] = "release", NEW old \in issued
    PROVE  old < uid[t]
<1>1. uid[t] = slots[Index(cursor)] /\ cursor \in Lowest(t) .. tail
  BY DEF IndInv, TypeOK, START_POINT, Room, OneTaker, CursorIsMine, ReadIsMine, HasClaim, Lowest
<1> QED
  BY <1>1 DEF OneTaker, KeptInOrder

\* With one taker getUID returns greater and greater UIDs, over any number of laps of the
\* ring and any stop in between.
THEOREM UidsIncreaseHolds ==
    ASSUME NEW t, Takers = {t}
    PROVE  Spec => []UidsIncrease
<1>1. Init => IndInv /\ OneTaker(t)
  BY InitIndInv, OneTakerInit
<1>2. IndInv /\ OneTaker(t) /\ [Next]_vars => (IndInv /\ OneTaker(t))'
  BY IndInvStep, OneTakerStep
<1>3. IndInv /\ OneTaker(t) => UidsIncrease
  BY NewestIsRead DEF UidsIncrease
<1> QED
  BY <1>1, <1>2, <1>3, PTL DEF Spec

\* With one taker no UID is returned twice: what two takers can bring about (see
\* NoDuplicateUid) takes two of them.
THEOREM OneTakerNoDuplicate ==
    ASSUME NEW t, Takers = {t}
    PROVE  Spec => []NoDuplicateUid
<1>1. Init => IndInv /\ OneTaker(t)
  BY InitIndInv, OneTakerInit
<1>2. IndInv /\ OneTaker(t) /\ [Next]_vars => (IndInv /\ OneTaker(t))'
  BY IndInvStep, OneTakerStep
<1>3. IndInv /\ OneTaker(t) => NoDuplicateUid
  <2> SUFFICES ASSUME IndInv, OneTaker(t), at[t] = "release" PROVE uid[t] \notin issued
    BY DEF NoDuplicateUid
  <2>1. uid[t] \in Nat
    BY DEF IndInv, TypeOK
  <2> QED
    BY <2>1, NewestIsRead
<1> QED
  BY <1>1, <1>2, <1>3, PTL DEF Spec
-----------------------------------------------------------------------------
(* Any number of takers                                                    *)

\* The take that goes wrong: the update of the cursor found the ring empty, and yet the
\* cursor the taker had read before was a lower one. The check for an empty ring
\* compares the two, so this taker goes on with the last UID, which another one claimed.
LateClaim(t) == Advance(t) /\ cursor = tail /\ seen[t] # cursor

\* Without a late claim each taker has a sequence of its own.
ClaimsApart ==
    /\ \A t \in Takers : HasClaim(t) => claim[t] \in Nat /\ claim[t] <= cursor
    /\ \A t, u \in Takers : t # u /\ HasClaim(t) /\ HasClaim(u) => claim[t] # claim[u]
    /\ \A t \in Takers : at[t] = "release" => uid[t] = slots[Index(claim[t])]

\* What has not been returned can be taken, and stands in the ring in the order it was
\* put, less than a lap behind the tail.
UnreturnedKept ==
    /\ \A s \in Unreturned :
        /\ tail - s < Size
        /\ flags[Index(s)] = "CAN_TAKE"
        /\ slots[Index(s)] <= LastOf(second)
        /\ slots[Index(s)] \notin issued
    /\ \A r, s \in Unreturned : r < s => slots[Index(r)] < slots[Index(s)]

\* What is about to be put is newer than all that was put, and its slot is free: the
\* slot of a slow taker's claim stops the producer, however far the cursor has gone.
NextIsFresh ==
    /\ \A u \in issued : u <= LastOf(second)
    /\ stage \in {"room", "flag", "fill", "mark", "publish"} =>
        /\ \A s \in Unreturned : slots[Index(s)] < next
        /\ \A u \in issued : u < next
    /\ stage \in {"fill", "mark"} => flags[Index(tail + 1)] = "CAN_PUT"
    /\ stage = "publish" =>
        /\ flags[Index(tail + 1)] = "CAN_TAKE"
        /\ \A s \in Unreturned : tail + 1 - s < Size

ManyTakers == ClaimsApart /\ UnreturnedKept /\ NextIsFresh

\* A sequence and the one a lap later have the same slot.
LEMMA SameSlot ==
    ASSUME NEW s \in Nat
    PROVE  Index(s) = Index(s + Size)
<1> DEFINE a == s \div Size
           b == (s + Size) \div Size
<1>1. /\ a \in Int /\ b \in Int /\ s + Size \in Nat
      /\ s = Size * a + Index(s) /\ s + Size = Size * b + Index(s + Size)
  BY SizeAssumption DEF Index
<1> HIDE DEF a, b
<1>2. Index(s) \in 0 .. Size - 1 /\ Index(s + Size) \in 0 .. Size - 1
  BY <1>1, IndexInSlots DEF Slots
<1> DEFINE d == b - a - 1
<1>3. d \in Int /\ Index(s) - Index(s + Size) = Size * d
  BY <1>1, <1>2, SizeAssumption
<1> HIDE DEF d
<1>4. d >= 1 => Size * d >= Size
  BY <1>3, SizeAssumption
<1>5. d <= -1 => Size * d <= -Size
  BY <1>3, SizeAssumption
<1>6. d = 0
  BY <1>2, <1>3, <1>4, <1>5, SizeAssumption
<1> QED
  BY <1>2, <1>3, <1>6, SizeAssumption

\* The sequences that have not been returned are sequences up to the tail, with slots
\* and UIDs of their own.
LEMMA UnreturnedTypes ==
    ASSUME IndInv, ClaimsApart
    PROVE  /\ \A s \in Unreturned : s \in Nat /\ s <= tail /\ Index(s) \in Slots /\ slots[Index(s)] \in Nat
           /\ \A s \in cursor + 1 .. tail : s \in Unreturned
           /\ \A t \in Takers : HasClaim(t) => claim[t] \in Unreturned
<1>1. tail \in Nat \cup {-1} /\ cursor \in Nat \cup {-1} /\ cursor <= tail /\ slots \in [Slots -> Nat]
  BY DEF IndInv, TypeOK, START_POINT, Room
<1>2. \A s \in Unreturned : s \in Nat /\ s <= tail
  BY <1>1 DEF Unreturned, ClaimsApart
<1> QED
  BY <1>1, <1>2, IndexInSlots DEF Unreturned

\* They differ in their slots, and from the slot a put is about to fill.
LEMMA UnreturnedSlots ==
    ASSUME IndInv, ManyTakers
    PROVE  /\ \A r, s \in Unreturned : r # s => Index(r) # Index(s) /\ slots[Index(r)] # slots[Index(s)]
           /\ stage \in {"fill", "mark", "publish"} =>
                \A s \in Unreturned : tail + 1 - s < Size /\ Index(s) # Index(tail + 1)
<1>1. tail \in Nat \cup {-1} /\ tail + 1 \in Nat
  BY DEF IndInv, TypeOK, START_POINT
<1>2. \A s \in Unreturned : s \in Nat /\ s <= tail /\ tail - s < Size /\ slots[Index(s)] \in Nat
                            /\ flags[Index(s)] = "CAN_TAKE"
  BY UnreturnedTypes DEF ManyTakers, UnreturnedKept
<1>3. ASSUME NEW r \in Unreturned, NEW s \in Unreturned, r < s
      PROVE  Index(r) # Index(s) /\ slots[Index(r)] # slots[Index(s)]
  <2>1. s - r < Size
    BY <1>1, <1>2, <1>3, SizeAssumption
  <2>2. slots[Index(r)] < slots[Index(s)]
    BY <1>3 DEF ManyTakers, UnreturnedKept
  <2> QED
    BY <1>2, <1>3, <2>1, <2>2, DifferentSlots
<1>4. ASSUME NEW r \in Unreturned, NEW s \in Unreturned, r # s
      PROVE  Index(r) # Index(s) /\ slots[Index(r)] # slots[Index(s)]
  <2>1. r < s \/ s < r
    BY <1>2, <1>4
  <2> QED
    BY <1>3, <2>1
<1>5. ASSUME stage \in {"fill", "mark", "publish"}, NEW s \in Unreturned
      PROVE  tail + 1 - s < Size /\ Index(s) # Index(tail + 1)
  <2>1. tail + 1 - s < Size
    <3>1. CASE stage = "publish"
      BY <3>1 DEF ManyTakers, NextIsFresh
    <3>2. CASE stage \in {"fill", "mark"}
      <4>1. Index(s) # Index(tail + 1)
        BY <1>2, <3>2 DEF ManyTakers, NextIsFresh
      <4>2. tail + 1 # s + Size
        BY <1>2, <4>1, SameSlot
      <4> QED
        BY <1>1, <1>2, <4>2, SizeAssumption
    <3> QED
      BY <1>5, <3>1, <3>2
  <2> QED
    BY <1>1, <1>2, <2>1, DifferentSlots
<1> QED
  BY <1>4, <1>5

\* At the start nothing has been put.
LEMMA ManyTakersInit == Init => ManyTakers
<1> SUFFICES ASSUME Init PROVE ManyTakers
  OBVIOUS
<1>1. /\ tail = -1 /\ cursor = -1 /\ stage = "provide" /\ issued = {}
      /\ \A t \in Takers : at[t] = "idle"
  BY DEF Init, START_POINT
<1>2. Unreturned = {} /\ \A t \in Takers : ~HasClaim(t)
  BY <1>1 DEF Unreturned, HasClaim
<1> QED
  BY <1>1, <1>2 DEF ManyTakers, ClaimsApart, UnreturnedKept, NextIsFresh
\* A step that leaves the cursor, the claims and where their owners stand alone leaves
\* the claims alone.
LEMMA SameClaims ==
    ASSUME UNCHANGED <<cursor, at, seen, claim>>
    PROVE  /\ \A t \in Takers : HasClaim(t)' <=> HasClaim(t)
           /\ tail' = tail => Unreturned' = Unreturned
  BY DEF HasClaim, Unreturned

\* A step of the padding that leaves the ring alone.
LEMMA ManyTakersQuiet ==
    ASSUME ManyTakers, UNCHANGED <<ring, takers, second, next>>,
           \/ stage' \in {stage, "off", "provide", "full"}
           \/ stage = "room" /\ stage' = "flag"
           \/ stage = "flag" /\ stage' = "fill" /\ flags[Index(tail + 1)] = "CAN_PUT"
    PROVE  ManyTakers'
<1>1. UNCHANGED <<tail, cursor, slots, flags, at, seen, claim, uid, issued>>
  BY DEF ring, takers
<1>2. Unreturned' = Unreturned /\ \A t \in Takers : HasClaim(t)' <=> HasClaim(t)
  BY <1>1, SameClaims
<1>3. ClaimsApart' /\ UnreturnedKept'
  BY <1>1, <1>2 DEF ManyTakers, ClaimsApart, UnreturnedKept
<1>4. NextIsFresh'
  BY <1>1, <1>2 DEF ManyTakers, NextIsFresh
<1> QED
  BY <1>3, <1>4 DEF ManyTakers

\* The steps of the padding thread.
LEMMA ManyTakersPad ==
    ASSUME IndInv, ManyTakers, Pad
    PROVE  ManyTakers'
<1>0. /\ tail \in Nat \cup {-1} /\ cursor \in Nat \cup {-1} /\ cursor <= tail /\ tail + 1 \in Nat
      /\ slots \in [Slots -> Nat] /\ flags \in [Slots -> {"CAN_PUT", "CAN_TAKE"}]
      /\ second \in Nat /\ next \in Nat /\ issued \subseteq Nat
      /\ Index(tail + 1) \in Slots /\ LastOf(second) \in Nat
  BY IndexInSlots, PerSecondAssumption DEF IndInv, TypeOK, START_POINT, Room, LastOf
<1>a. \A s \in Unreturned : s \in Nat /\ s <= tail /\ Index(s) \in Slots /\ slots[Index(s)] \in Nat
  BY UnreturnedTypes DEF ManyTakers
<1>b. \A t \in Takers : HasClaim(t) => claim[t] \in Unreturned
  BY UnreturnedTypes DEF ManyTakers
<1>1. CASE Provide
  <2>1. /\ UNCHANGED <<tail, cursor, slots, flags, at, seen, claim, uid, issued>>
        /\ second' = second + 1 /\ next' = FirstOf(second + 1) /\ stage' = "room"
    BY <1>1 DEF Provide, ring, takers
  <2>2. Unreturned' = Unreturned /\ \A t \in Takers : HasClaim(t)' <=> HasClaim(t)
    BY <2>1, SameClaims
  <2>3. /\ LastOf(second)' \in Nat /\ next' \in Nat
        /\ LastOf(second) < next' /\ next' <= LastOf(second)'
    BY <1>0, <2>1, PerSecondAssumption DEF FirstOf, LastOf
  <2>4. \A s \in Unreturned : slots[Index(s)] <= LastOf(second)
    BY DEF ManyTakers, UnreturnedKept
  <2>5. \A u \in issued : u \in Nat /\ u <= LastOf(second)
    BY <1>0 DEF ManyTakers, NextIsFresh
  <2>6. ClaimsApart'
    BY <2>1, <2>2 DEF ManyTakers, ClaimsApart
  <2>7. \A s \in Unreturned : slots[Index(s)] <= LastOf(second)' /\ slots[Index(s)] < next'
    BY <1>0, <1>a, <2>3, <2>4
  <2>8. \A u \in issued : u <= LastOf(second)' /\ u < next'
    BY <1>0, <2>3, <2>5
  <2>9. UnreturnedKept'
    BY <2>1, <2>2, <2>7 DEF ManyTakers, UnreturnedKept
  <2>10. NextIsFresh'
    BY <2>1, <2>2, <2>7, <2>8 DEF NextIsFresh
  <2> QED
    BY <2>6, <2>9, <2>10 DEF ManyTakers
<1>2. CASE CheckRoom \/ CheckFlag \/ StopPadding
  BY <1>2, ManyTakersQuiet DEF CheckRoom, CheckFlag, StopPadding
<1>3. CASE Fill
  <2>1. /\ UNCHANGED <<tail, cursor, flags, at, seen, claim, uid, issued, second, next>>
        /\ slots' = [slots EXCEPT ![Index(tail + 1)] = next]
        /\ stage = "fill" /\ stage' = "mark"
    BY <1>3 DEF Fill, takers
  <2>2. Unreturned' = Unreturned /\ \A t \in Takers : HasClaim(t)' <=> HasClaim(t)
    BY <2>1, SameClaims
  <2>3. \A s \in Unreturned : slots'[Index(s)] = slots[Index(s)]
    BY <1>0, <1>a, <2>1, UnreturnedSlots
  <2>4. ClaimsApart'
    <3>1. \A t \in Takers : at[t] = "release" => slots'[Index(claim[t])] = slots[Index(claim[t])]
      BY <1>b, <2>3 DEF HasClaim
    <3> QED
      BY <2>1, <2>2, <3>1 DEF ManyTakers, ClaimsApart
  <2>5. UnreturnedKept' /\ NextIsFresh'
    BY <2>1, <2>2, <2>3 DEF ManyTakers, UnreturnedKept, NextIsFresh
  <2> QED
    BY <2>4, <2>5 DEF ManyTakers
<1>4. CASE Mark
  <2>1. /\ UNCHANGED <<tail, cursor, slots, at, seen, claim, uid, issued, second, next>>
        /\ flags' = [flags EXCEPT ![Index(tail + 1)] = "CAN_TAKE"]
        /\ stage = "mark" /\ stage' = "publish"
    BY <1>4 DEF Mark, takers
  <2>2. Unreturned' = Unreturned /\ \A t \in Takers : HasClaim(t)' <=> HasClaim(t)
    BY <2>1, SameClaims
  <2>3. \A s \in Unreturned : flags'[Index(s)] = flags[Index(s)] /\ tail + 1 - s < Size
    BY <1>0, <1>a, <2>1, UnreturnedSlots
  <2>4. flags'[Index(tail + 1)] = "CAN_TAKE"
    BY <1>0, <2>1
  <2>5. ClaimsApart' /\ UnreturnedKept'
    BY <2>1, <2>2, <2>3 DEF ManyTakers, ClaimsApart, UnreturnedKept
  <2>6. NextIsFresh'
    BY <2>1, <2>2, <2>3, <2>4 DEF ManyTakers, NextIsFresh
  <2> QED
    BY <2>5, <2>6 DEF ManyTakers
<1>5. CASE Publish
  <2>1. /\ UNCHANGED <<cursor, slots, flags, at, seen, claim, uid, issued, second>>
        /\ tail' = tail + 1 /\ stage = "publish"
        /\ next' = IF next = LastOf(second) THEN next ELSE next + 1
        /\ stage' = IF next = LastOf(second) THEN "provide" ELSE "room"
    BY <1>5 DEF Publish, takers
  <2>2. \A t \in Takers : HasClaim(t)' <=> HasClaim(t)
    BY <2>1, SameClaims
  <2>3. Unreturned' = Unreturned \cup {tail + 1}
    <3>1. cursor + 1 .. tail' = (cursor + 1 .. tail) \cup {tail + 1}
      BY <1>0, <2>1
    <3>2. {claim'[t] : t \in {u \in Takers : HasClaim(u)'}} = {claim[t] : t \in {u \in Takers : HasClaim(u)}}
      BY <2>1, <2>2
    <3> QED
      BY <2>1, <3>1, <3>2 DEF Unreturned
  <2>4. /\ slots[Index(tail + 1)] = next /\ flags[Index(tail + 1)] = "CAN_TAKE"
        /\ next <= LastOf(second)
        /\ \A s \in Unreturned : slots[Index(s)] < next /\ tail + 1 - s < Size
        /\ \A u \in issued : u < next
    BY <1>0, <2>1, PerSecondAssumption DEF IndInv, Older, ManyTakers, NextIsFresh, LastOf, FirstOf
  <2>5. ClaimsApart'
    BY <2>1, <2>2 DEF ManyTakers, ClaimsApart
  <2>6. UnreturnedKept'
    <3>1. ASSUME NEW s \in Unreturned'
          PROVE  /\ tail' - s < Size /\ flags[Index(s)] = "CAN_TAKE"
                 /\ slots[Index(s)] <= LastOf(second) /\ slots[Index(s)] \notin issued
      <4>1. CASE s \in Unreturned
        BY <1>0, <1>a, <2>1, <2>4, <4>1 DEF ManyTakers, UnreturnedKept
      <4>2. CASE s = tail + 1
        <5>1. next \notin issued
          BY <1>0, <2>4
        <5>2. tail' - s < Size
          BY <1>0, <2>1, <4>2, SizeAssumption
        <5> QED
          BY <2>4, <4>2, <5>1, <5>2
      <4> QED
        BY <2>3, <3>1, <4>1, <4>2
    <3>2. ASSUME NEW r \in Unreturned', NEW s \in Unreturned', r < s
          PROVE  slots[Index(r)] < slots[Index(s)]
      <4>1. r \in Unreturned
        BY <1>0, <1>a, <2>3, <3>2
      <4>2. CASE s \in Unreturned
        BY <3>2, <4>1, <4>2 DEF ManyTakers, UnreturnedKept
      <4>3. CASE s = tail + 1
        BY <2>4, <4>1, <4>3
      <4> QED
        BY <2>3, <3>2, <4>2, <4>3
    <3> QED
      BY <2>1, <3>1, <3>2 DEF UnreturnedKept
  <2>7. NextIsFresh'
    <3>1. CASE next = LastOf(second)
      BY <2>1, <3>1 DEF ManyTakers, NextIsFresh
    <3>2. CASE next # LastOf(second)
      <4>1. next' = next + 1 /\ stage' = "room"
        BY <2>1, <3>2
      <4>2. \A s \in Unreturned' : slots[Index(s)] < next + 1
        BY <1>0, <1>a, <2>3, <2>4
      <4>3. \A u \in issued : u < next + 1
        BY <1>0, <2>4
      <4> QED
        BY <2>1, <4>1, <4>2, <4>3 DEF ManyTakers, NextIsFresh
    <3> QED
      BY <3>1, <3>2
  <2> QED
    BY <2>5, <2>6, <2>7 DEF ManyTakers
<1> QED
  BY <1>1, <1>2, <1>3, <1>4, <1>5 DEF Pad
\* Until it returns the UID a take changes nothing of what waits: a claim comes on top
\* when the cursor moves past its sequence.
LEMMA TakeKeepsUnreturned ==
    ASSUME IndInv, ManyTakers, NEW t \in Takers, Take(t), ~LateClaim(t), ~Release(t)
    PROVE  Unreturned' = Unreturned /\ UNCHANGED <<slots, issued>>
<1>0. /\ tail \in Nat \cup {-1} /\ cursor \in Nat \cup {-1} /\ cursor <= tail
      /\ at \in [Takers -> {"idle", "advance", "threshold", "flag", "read", "release"}]
      /\ seen \in [Takers -> Nat \cup {-1}] /\ claim \in [Takers -> Nat \cup {-1}]
  BY DEF IndInv, TypeOK, START_POINT, Room
<1>1. UNCHANGED <<tail, slots, issued>>
  BY DEF Take, ReadCursor, Advance, CheckThreshold, CheckTake, ReadSlot, ring
<1>2. \A u \in Takers : u # t => (HasClaim(u)' <=> HasClaim(u)) /\ claim'[u] = claim[u]
  BY <1>0 DEF Take, ReadCursor, Advance, CheckThreshold, CheckTake, ReadSlot, HasClaim
<1>3. CASE Advance(t)
  <2>1. /\ at[t] = "advance" /\ at' = [at EXCEPT ![t] = "threshold"] /\ seen' = seen
        /\ cursor' = IF cursor = tail THEN cursor ELSE cursor + 1
        /\ claim' = [claim EXCEPT ![t] = cursor']
        /\ seen[t] <= cursor /\ (cursor = tail => seen[t] = cursor)
    BY <1>3 DEF Advance, LateClaim, IndInv, ReadBehind
  <2>2. ~HasClaim(t) /\ (HasClaim(t)' <=> cursor # tail) /\ claim'[t] = cursor'
    BY <1>0, <2>1 DEF HasClaim
  <2>3. CASE cursor = tail
    <3>1. cursor' = cursor /\ ~HasClaim(t)'
      BY <2>1, <2>2, <2>3
    <3> QED
      BY <1>1, <1>2, <2>2, <3>1 DEF Unreturned
  <2>4. CASE cursor # tail
    <3>1. cursor' = cursor + 1 /\ HasClaim(t)'
      BY <2>1, <2>2, <2>4
    <3>2. cursor + 1 .. tail = {cursor + 1} \cup (cursor' + 1 .. tail')
      BY <1>0, <1>1, <2>4, <3>1
    <3>3. {claim'[u] : u \in {w \in Takers : HasClaim(w)'}}
            = {cursor + 1} \cup {claim[u] : u \in {w \in Takers : HasClaim(w)}}
      BY <1>2, <2>2, <3>1
    <3> QED
      BY <1>1, <3>2, <3>3 DEF Unreturned
  <2> QED
    BY <2>3, <2>4
<1>4. CASE ~Advance(t)
  <2>1. cursor' = cursor /\ claim' = claim
    BY <1>4 DEF Take, ReadCursor, CheckThreshold, CheckTake, ReadSlot, ring
  <2>2. HasClaim(t)' <=> HasClaim(t)
    <3>1. CASE ReadCursor(t) \/ CheckThreshold(t) \/ ReadSlot(t)
      BY <1>0, <3>1 DEF ReadCursor, CheckThreshold, ReadSlot, HasClaim
    <3>2. CASE CheckTake(t)
      <4>1. HasClaim(t)
        BY <3>2 DEF CheckTake, HasClaim
      <4>2. flags[Index(claim[t])] = "CAN_TAKE"
        BY <4>1, UnreturnedTypes DEF ManyTakers, UnreturnedKept
      <4> QED
        BY <1>0, <3>2, <4>1, <4>2 DEF CheckTake, HasClaim
    <3> QED
      BY <1>4, <3>1, <3>2 DEF Take
  <2> QED
    BY <1>1, <1>2, <2>1, <2>2 DEF Unreturned
<1> QED
  BY <1>1, <1>3, <1>4

\* The steps of take, but for a late claim.
LEMMA ManyTakersTake ==
    ASSUME IndInv, ManyTakers, NEW t \in Takers, Take(t), ~LateClaim(t)
    PROVE  ManyTakers'
<1>0. /\ tail \in Nat \cup {-1} /\ cursor \in Nat \cup {-1} /\ cursor <= tail
      /\ at \in [Takers -> {"idle", "advance", "threshold", "flag", "read", "release"}]
      /\ seen \in [Takers -> Nat \cup {-1}] /\ claim \in [Takers -> Nat \cup {-1}]
      /\ uid \in [Takers -> Nat] /\ issued \subseteq Nat /\ slots \in [Slots -> Nat]
      /\ flags \in [Slots -> {"CAN_PUT", "CAN_TAKE"}] /\ second \in Nat /\ next \in Nat
  BY DEF IndInv, TypeOK, START_POINT, Room
<1>a. \A s \in Unreturned : s \in Nat /\ s <= tail /\ Index(s) \in Slots /\ slots[Index(s)] \in Nat
  BY UnreturnedTypes DEF ManyTakers
<1>b. \A u \in Takers : HasClaim(u) => claim[u] \in Unreturned
  BY UnreturnedTypes DEF ManyTakers
<1>1. CASE ReadCursor(t)
  <2>1. /\ UNCHANGED <<tail, cursor, slots, flags, stage, second, next, claim, uid, issued>>
        /\ at[t] = "idle" /\ at' = [at EXCEPT ![t] = "advance"]
        /\ seen' = [seen EXCEPT ![t] = cursor]
    BY <1>1 DEF ReadCursor, ring, padder
  <2>2. \A u \in Takers : HasClaim(u)' <=> HasClaim(u)
    BY <1>0, <2>1 DEF HasClaim
  <2>3. Unreturned' = Unreturned
    BY <2>1, <2>2 DEF Unreturned
  <2>4. ClaimsApart'
    BY <1>0, <2>1, <2>2 DEF ManyTakers, ClaimsApart
  <2>5. UnreturnedKept' /\ NextIsFresh'
    BY <2>1, <2>3 DEF ManyTakers, UnreturnedKept, NextIsFresh
  <2> QED
    BY <2>4, <2>5 DEF ManyTakers
<1>2. CASE Advance(t)
  <2>1. /\ UNCHANGED <<tail, slots, flags, stage, second, next, seen, uid, issued>>
        /\ at[t] = "advance" /\ at' = [at EXCEPT ![t] = "threshold"]
        /\ cursor' = IF cursor = tail THEN cursor ELSE cursor + 1
        /\ claim' = [claim EXCEPT ![t] = cursor']
        /\ seen[t] <= cursor /\ (cursor = tail => seen[t] = cursor)
    BY <1>2 DEF Advance, LateClaim, padder, IndInv, ReadBehind
  <2>2. ~HasClaim(t) /\ (HasClaim(t)' <=> cursor # tail)
    BY <1>0, <2>1 DEF HasClaim
  <2>3. \A u \in Takers : u # t => (HasClaim(u)' <=> HasClaim(u)) /\ claim'[u] = claim[u] /\ at'[u] = at[u]
    BY <1>0, <2>1 DEF HasClaim
  <2>4. cursor # tail => cursor' = cursor + 1 /\ cursor + 1 \in cursor + 1 .. tail /\ claim'[t] = cursor + 1
    BY <1>0, <2>1
  <2>5. ClaimsApart'
    <3>1. \A u \in Takers : HasClaim(u)' => claim'[u] \in Nat /\ claim'[u] <= cursor'
      <4>1. \A u \in Takers : HasClaim(u) => claim[u] \in Nat /\ claim[u] <= cursor
        BY DEF ManyTakers, ClaimsApart
      <4>2. cursor <= cursor' /\ cursor' \in Nat \cup {-1}
        BY <1>0, <2>1
      <4>3. HasClaim(t)' => claim'[t] \in Nat /\ claim'[t] <= cursor'
        BY <1>0, <2>2, <2>4
      <4>4. \A u \in Takers : u # t /\ HasClaim(u)' => claim'[u] \in Nat /\ claim'[u] <= cursor'
        BY <1>0, <2>3, <4>1, <4>2
      <4> QED
        BY <4>3, <4>4
    <3>2. \A u \in Takers : u # t /\ HasClaim(u)' /\ HasClaim(t)' => claim'[u] # claim'[t]
      BY <1>0, <2>2, <2>3, <2>4 DEF ManyTakers, ClaimsApart
    <3>3. \A u, w \in Takers : u # w /\ HasClaim(u)' /\ HasClaim(w)' => claim'[u] # claim'[w]
      BY <2>3, <3>2 DEF ManyTakers, ClaimsApart
    <3>4. \A u \in Takers : at'[u] = "release" => uid'[u] = slots'[Index(claim'[u])]
      BY <1>0, <2>1, <2>3 DEF ManyTakers, ClaimsApart
    <3> QED
      BY <3>1, <3>3, <3>4 DEF ClaimsApart
  <2>6. Unreturned' = Unreturned
    BY <1>2, TakeKeepsUnreturned DEF Advance, Release
  <2>7. UnreturnedKept' /\ NextIsFresh'
    BY <2>1, <2>6 DEF ManyTakers, UnreturnedKept, NextIsFresh
  <2> QED
    BY <2>5, <2>7 DEF ManyTakers
<1>3. CASE CheckThreshold(t) \/ CheckTake(t) \/ ReadSlot(t)
  <2>1. /\ UNCHANGED <<tail, cursor, slots, flags, stage, second, next, issued, seen, claim>>
        /\ \A u \in Takers : u # t => at'[u] = at[u] /\ uid'[u] = uid[u]
    BY <1>0, <1>3 DEF CheckThreshold, CheckTake, ReadSlot, ring, padder
  <2>2. HasClaim(t)' <=> HasClaim(t)
    <3>1. CASE CheckThreshold(t)
      BY <1>0, <3>1 DEF CheckThreshold, HasClaim
    <3>2. CASE CheckTake(t)
      <4>1. HasClaim(t)
        BY <3>2 DEF CheckTake, HasClaim
      <4>2. flags[Index(claim[t])] = "CAN_TAKE"
        BY <1>b, <4>1 DEF ManyTakers, UnreturnedKept
      <4> QED
        BY <1>0, <3>2, <4>1, <4>2 DEF CheckTake, HasClaim
    <3>3. CASE ReadSlot(t)
      BY <1>0, <3>3 DEF ReadSlot, HasClaim
    <3> QED
      BY <1>3, <3>1, <3>2, <3>3
  <2>3. \A u \in Takers : HasClaim(u)' <=> HasClaim(u)
    BY <2>1, <2>2 DEF HasClaim
  <2>4. Unreturned' = Unreturned
    BY <2>1, <2>3 DEF Unreturned
  <2>5. at'[t] = "release" => uid'[t] = slots[Index(claim[t])]
    BY <1>0, <1>3 DEF CheckThreshold, CheckTake, ReadSlot
  <2>6. \A u \in Takers : at'[u] = "release" => uid'[u] = slots'[Index(claim'[u])]
    BY <2>1, <2>5 DEF ManyTakers, ClaimsApart
  <2>7. ClaimsApart'
    BY <2>1, <2>3, <2>6 DEF ManyTakers, ClaimsApart
  <2>8. UnreturnedKept' /\ NextIsFresh'
    BY <2>1, <2>4 DEF ManyTakers, UnreturnedKept, NextIsFresh
  <2> QED
    BY <2>7, <2>8 DEF ManyTakers
<1>4. CASE Release(t)
  <2>1. /\ UNCHANGED <<tail, cursor, slots, stage, second, next, seen, claim, uid>>
        /\ at[t] = "release" /\ at' = [at EXCEPT ![t] = "idle"]
        /\ flags' = [flags EXCEPT ![Index(claim[t])] = "CAN_PUT"]
        /\ issued' = issued \cup {uid[t]}
    BY <1>4 DEF Release, padder
  <2>2. /\ HasClaim(t) /\ ~HasClaim(t)' /\ claim[t] \in Unreturned /\ claim[t] \in Nat /\ claim[t] <= cursor
        /\ uid[t] = slots[Index(claim[t])]
    BY <1>0, <1>b, <2>1 DEF HasClaim, ManyTakers, ClaimsApart
  <2>3. \A u \in Takers : u # t => (HasClaim(u)' <=> HasClaim(u)) /\ at'[u] = at[u]
    BY <1>0, <2>1 DEF HasClaim
  <2>4. ClaimsApart'
    BY <1>0, <2>1, <2>2, <2>3 DEF ManyTakers, ClaimsApart
  <2>5. \A s \in Unreturned' : s \in Unreturned /\ s # claim[t]
    <3>1. \A s \in cursor + 1 .. tail : s # claim[t]
      BY <1>0, <2>2
    <3>2. \A u \in Takers : HasClaim(u)' => HasClaim(u) /\ claim[u] # claim[t]
      BY <2>2, <2>3 DEF ManyTakers, ClaimsApart
    <3> QED
      BY <2>1, <3>1, <3>2 DEF Unreturned
  <2>6. \A s \in Unreturned' : flags'[Index(s)] = flags[Index(s)] /\ slots[Index(s)] # uid[t]
    BY <1>0, <1>a, <2>1, <2>2, <2>5, UnreturnedSlots
  <2>7. UnreturnedKept'
    BY <2>1, <2>5, <2>6 DEF ManyTakers, UnreturnedKept
  <2>8. stage \in {"fill", "mark"} => flags'[Index(tail + 1)] = "CAN_PUT"
    BY <1>0, <1>a, <2>1, <2>2, UnreturnedSlots DEF ManyTakers, NextIsFresh
  <2>9. stage = "publish" => flags'[Index(tail + 1)] = "CAN_TAKE"
    BY <1>0, <1>a, <2>1, <2>2, UnreturnedSlots DEF ManyTakers, NextIsFresh
  <2>10. /\ \A u \in issued' : u <= LastOf(second)
         /\ stage \in {"room", "flag", "fill", "mark", "publish"} => \A u \in issued' : u < next
    BY <2>1, <2>2 DEF ManyTakers, UnreturnedKept, NextIsFresh
  <2>11. NextIsFresh'
    BY <2>1, <2>5, <2>8, <2>9, <2>10 DEF ManyTakers, NextIsFresh
  <2> QED
    BY <2>4, <2>7, <2>11 DEF ManyTakers
<1> QED
  BY <1>1, <1>2, <1>3, <1>4 DEF Take

\* Without late claims every step keeps the invariant.
LEMMA ManyTakersStep ==
    IndInv /\ ManyTakers /\ [Next]_vars /\ [\A t \in Takers : ~LateClaim(t)]_vars => ManyTakers'
<1> SUFFICES ASSUME IndInv, ManyTakers, [Next]_vars, [\A t \in Takers : ~LateClaim(t)]_vars
             PROVE  ManyTakers'
  OBVIOUS
<1>1. CASE StartPadding \/ SchedulePadding \/ UNCHANGED vars
  BY <1>1, ManyTakersQuiet DEF StartPadding, SchedulePadding, EnterPadding, vars, padder
<1>2. CASE ~UNCHANGED vars
  <2>1. \A t \in Takers : ~LateClaim(t)
    BY <1>2
  <2> QED
    BY <1>1, <1>2, <2>1, ManyTakersPad, ManyTakersTake DEF Next
<1> QED
  BY <1>1, <1>2

\* The one way in which getUID returns a UID twice, for any number of threads: unless
\* some taker's update of the cursor finds the ring emptied since it read the cursor, no
\* UID is returned twice. The run that violates NoDuplicateUid shows such a taker.
THEOREM DuplicatesNeedLateClaim ==
    Spec /\ [][\A t \in Takers : ~LateClaim(t)]_vars => []NoDuplicateUid
<1>1. Init => IndInv /\ ManyTakers
  BY InitIndInv, ManyTakersInit
<1>2. IndInv /\ ManyTakers /\ [Next]_vars /\ [\A t \in Takers : ~LateClaim(t)]_vars => (IndInv /\ ManyTakers)'
  BY IndInvStep, ManyTakersStep
<1>3. IndInv /\ ManyTakers => NoDuplicateUid
  <2> SUFFICES ASSUME IndInv, ManyTakers PROVE NoDuplicateUid
    OBVIOUS
  <2>1. \A t \in Takers : at[t] = "release" => HasClaim(t) /\ claim[t] \in Unreturned /\ uid[t] = slots[Index(claim[t])]
    BY UnreturnedTypes DEF HasClaim, ManyTakers, ClaimsApart
  <2>2. \A t \in Takers : at[t] = "release" => uid[t] \notin issued
    BY <2>1 DEF ManyTakers, UnreturnedKept
  <2>3. ASSUME NEW t \in Takers, NEW u \in Takers, t # u, at[t] = "release", at[u] = "release"
        PROVE  uid[t] # uid[u]
    <3>1. claim[t] # claim[u]
      BY <2>1, <2>3 DEF ManyTakers, ClaimsApart
    <3> QED
      BY <2>1, <2>3, <3>1, UnreturnedSlots
  <2> QED
    BY <2>2, <2>3 DEF NoDuplicateUid
<1> QED
  BY <1>1, <1>2, <1>3, PTL DEF Spec

\* Nor does the assertion that a claimed slot can be taken ever fire without a late claim.
THEOREM AssertionNeedsLateClaim ==
    Spec /\ [][\A t \in Takers : ~LateClaim(t)]_vars => []ClaimedCanBeTaken
<1>1. Init => IndInv /\ ManyTakers
  BY InitIndInv, ManyTakersInit
<1>2. IndInv /\ ManyTakers /\ [Next]_vars /\ [\A t \in Takers : ~LateClaim(t)]_vars => (IndInv /\ ManyTakers)'
  BY IndInvStep, ManyTakersStep
<1>3. IndInv /\ ManyTakers => ClaimedCanBeTaken
  <2> SUFFICES ASSUME IndInv, ManyTakers, NEW t \in Takers, at[t] = "flag"
               PROVE  flags[Index(claim[t])] = "CAN_TAKE"
    BY DEF ClaimedCanBeTaken
  <2>1. claim[t] \in Unreturned
    BY UnreturnedTypes DEF HasClaim, ManyTakers
  <2> QED
    BY <2>1 DEF ManyTakers, UnreturnedKept
<1> QED
  BY <1>1, <1>2, <1>3, PTL DEF Spec

-----------------------------------------------------------------------------
(* The ring as a pool and as a queue                                       *)

\* The seconds that are borrowed.
SecondBounded == second <= MaxSecond

LEMMA SecondBoundedStep == TypeOK /\ SecondBounded /\ [Next]_vars => SecondBounded'
<1> SUFFICES ASSUME TypeOK, SecondBounded, [Next]_vars PROVE second' <= MaxSecond
  BY DEF SecondBounded
<1>1. CASE Provide
  BY <1>1, BoundsAssumption DEF Provide, TypeOK
<1>2. CASE ~Provide
  <2>1. second' = second
    BY <1>2
    DEF Next, StartPadding, SchedulePadding, EnterPadding, Pad, CheckRoom, CheckFlag, Fill, Mark,
        Publish, StopPadding, Take, ReadCursor, Advance, CheckThreshold, CheckTake, ReadSlot,
        Release, vars, padder
  <2> QED
    BY <2>1 DEF SecondBounded
<1> QED
  BY <1>1, <1>2

\* What waits and what is about to be put are UIDs of those seconds.
LEMMA WaitingAreUids ==
    ASSUME IndInv, ManyTakers, SecondBounded
    PROVE  /\ Waiting \subseteq 0 .. LastOf(MaxSecond)
           /\ stage = "publish" => next \in 0 .. LastOf(MaxSecond)
<1>1. second \in Nat /\ MaxSecond \in Nat /\ PerSecond \in Nat /\ second <= MaxSecond /\ next \in Nat
  BY BoundsAssumption, PerSecondAssumption DEF IndInv, TypeOK, SecondBounded
<1>2. second * PerSecond <= MaxSecond * PerSecond /\ second * PerSecond \in Nat /\ MaxSecond * PerSecond \in Nat
  <2>1. PICK k \in Nat : MaxSecond = second + k
    BY <1>1
  <2>2. MaxSecond * PerSecond = second * PerSecond + k * PerSecond
    BY <1>1, <2>1
  <2>3. k * PerSecond \in Nat /\ second * PerSecond \in Nat
    BY <1>1, <2>1
  <2> QED
    BY <2>2, <2>3
<1>3. LastOf(second) <= LastOf(MaxSecond) /\ LastOf(second) \in Int /\ LastOf(MaxSecond) \in Int
  BY <1>1, <1>2 DEF LastOf
<1>4. \A s \in Unreturned : slots[Index(s)] \in Nat /\ slots[Index(s)] <= LastOf(second)
  BY UnreturnedTypes DEF ManyTakers, UnreturnedKept
<1>5. stage = "publish" => next <= LastOf(second)
  BY <1>3 DEF IndInv, Older
<1> QED
  BY <1>1, <1>3, <1>4, <1>5 DEF Waiting

\* A put that has found its slot free has room in the pool.
LEMMA WaitingFits ==
    ASSUME IndInv, ManyTakers, stage = "publish"
    PROVE  Cardinality(Waiting) < Size
<1> DEFINE S == (tail + 2 - Size) .. tail
           f == [s \in Unreturned |-> slots[Index(s)]]
<1>1. tail \in Nat \cup {-1} /\ Size \in Nat \ {0}
  BY SizeAssumption DEF IndInv, TypeOK, START_POINT
<1>2. Unreturned \subseteq S
  <2>1. \A s \in Unreturned : s \in Nat /\ s <= tail /\ tail + 1 - s < Size
    BY UnreturnedTypes, UnreturnedSlots DEF ManyTakers
  <2> QED
    BY <1>1, <2>1
<1>3. IsFiniteSet(S) /\ Cardinality(S) = Size - 1
  <2> DEFINE a == tail + 2 - Size
  <2>1. a \in Int /\ tail \in Int /\ tail - a + 1 = Size - 1 /\ (a > tail => Size - 1 = 0)
    BY <1>1
  <2> HIDE DEF a
  <2>2. IsFiniteSet(a .. tail) /\ Cardinality(a .. tail) = IF a > tail THEN 0 ELSE tail - a + 1
    BY <2>1, FS_Interval
  <2>3. Cardinality(a .. tail) = Size - 1
    BY <2>1, <2>2
  <2> QED
    BY <2>2, <2>3 DEF a
<1>4. IsFiniteSet(Unreturned) /\ Cardinality(Unreturned) <= Size - 1
  BY <1>2, <1>3, FS_Subset
<1>5. f \in Surjection(Unreturned, Waiting)
  BY DEF Surjection, Waiting
<1>6. IsFiniteSet(Waiting) /\ Cardinality(Waiting) <= Cardinality(Unreturned)
  BY <1>4, <1>5, FS_Surjection
<1>7. Cardinality(Waiting) \in Nat /\ Cardinality(Unreturned) \in Nat
  BY <1>4, <1>6, FS_CardinalityType
<1> QED
  BY <1>1, <1>4, <1>6, <1>7

\* The last step of put is a put into the pool.
LEMMA PublishPuts ==
    ASSUME IndInv, ManyTakers, SecondBounded, Publish
    PROVE  \E u \in 0 .. LastOf(MaxSecond) : Pool!Put(u)
<1>0. tail \in Nat \cup {-1} /\ cursor \in Nat \cup {-1} /\ cursor <= tail
  BY DEF IndInv, TypeOK, START_POINT, Room
<1>1. /\ stage = "publish" /\ tail' = tail + 1
      /\ UNCHANGED <<cursor, slots, at, seen, claim, uid, issued>>
  BY DEF Publish, takers
<1>2. \A t \in Takers : HasClaim(t)' <=> HasClaim(t)
  BY <1>1, SameClaims
<1>3. Unreturned' = Unreturned \cup {tail + 1}
  <2>1. cursor + 1 .. tail' = (cursor + 1 .. tail) \cup {tail + 1}
    BY <1>0, <1>1
  <2> QED
    BY <1>1, <1>2, <2>1 DEF Unreturned
<1>4. slots[Index(tail + 1)] = next
  BY <1>1 DEF IndInv, Older
<1>5. Waiting' = Waiting \cup {next}
  BY <1>1, <1>3, <1>4 DEF Waiting
<1>6. \A v \in Waiting \cup issued : v < next
  BY <1>1 DEF ManyTakers, NextIsFresh, Waiting
<1>7. Pool!Cardinality(Waiting) < Size
  BY <1>1, WaitingFits DEF Pool!Cardinality, Cardinality
<1>8. Pool!Put(next) /\ next \in 0 .. LastOf(MaxSecond)
  BY <1>1, <1>5, <1>6, <1>7, WaitingAreUids DEF Pool!Put
<1> QED
  BY <1>8

\* The last step of take is a take from the pool.
LEMMA ReleaseTakes ==
    ASSUME IndInv, ManyTakers, NEW t \in Takers, Release(t)
    PROVE  Pool!Take(uid[t])
<1>0. tail \in Nat \cup {-1} /\ cursor \in Nat \cup {-1} /\ cursor <= tail
      /\ at \in [Takers -> {"idle", "advance", "threshold", "flag", "read", "release"}]
  BY DEF IndInv, TypeOK, START_POINT, Room
<1>1. /\ UNCHANGED <<tail, cursor, slots, seen, claim>>
      /\ at[t] = "release" /\ at' = [at EXCEPT ![t] = "idle"]
      /\ issued' = issued \cup {uid[t]}
  BY DEF Release
<1>2. /\ HasClaim(t) /\ ~HasClaim(t)' /\ claim[t] \in Unreturned /\ claim[t] <= cursor
      /\ claim[t] \in Nat /\ uid[t] = slots[Index(claim[t])]
  BY <1>0, <1>1, UnreturnedTypes DEF HasClaim, ManyTakers, ClaimsApart
<1>3. \A u \in Takers : u # t => (HasClaim(u)' <=> HasClaim(u))
  BY <1>0, <1>1 DEF HasClaim
<1>4. Unreturned' = Unreturned \ {claim[t]}
  <2>1. \A s \in cursor + 1 .. tail : s # claim[t]
    BY <1>0, <1>2
  <2>2. {claim[u] : u \in {w \in Takers : HasClaim(w)'}}
          = {claim[u] : u \in {w \in Takers : HasClaim(w)}} \ {claim[t]}
    BY <1>2, <1>3 DEF ManyTakers, ClaimsApart
  <2> QED
    BY <1>1, <2>1, <2>2 DEF Unreturned
<1>5. \A s \in Unreturned : s # claim[t] => slots[Index(s)] # uid[t]
  BY <1>2, UnreturnedSlots
<1>6. Waiting' = Waiting \ {uid[t]} /\ uid[t] \in Waiting
  BY <1>1, <1>2, <1>4, <1>5 DEF Waiting
<1> QED
  BY <1>1, <1>6 DEF Pool!Take

\* No other step of the padding or of a take changes what waits.
LEMMA PadWaits ==
    ASSUME IndInv, ManyTakers, StartPadding \/ SchedulePadding \/ (Pad /\ ~Publish) \/ UNCHANGED vars
    PROVE  UNCHANGED <<Waiting, issued>>
<1>1. UNCHANGED <<tail, cursor, at, seen, claim, issued>>
  BY DEF StartPadding, SchedulePadding, EnterPadding, Pad, Provide, CheckRoom, CheckFlag, Fill, Mark,
         StopPadding, vars, ring, takers
<1>2. Unreturned' = Unreturned
  BY <1>1, SameClaims
<1>3. CASE Fill
  <2>1. slots' = [slots EXCEPT ![Index(tail + 1)] = next] /\ stage = "fill"
    BY <1>3 DEF Fill
  <2>2. \A s \in Unreturned : slots'[Index(s)] = slots[Index(s)]
    BY <2>1, UnreturnedSlots, UnreturnedTypes DEF ManyTakers, IndInv, TypeOK
  <2> QED
    BY <1>1, <1>2, <2>2 DEF Waiting
<1>4. CASE ~Fill
  <2>1. slots' = slots
    BY <1>4
    DEF StartPadding, SchedulePadding, EnterPadding, Pad, Provide, CheckRoom, CheckFlag, Mark,
        StopPadding, vars, ring
  <2> QED
    BY <1>1, <1>2, <2>1 DEF Waiting
<1> QED
  BY <1>3, <1>4

\* The ring as a pool: every step puts one UID, takes one, or leaves what waits alone.
LEMMA PoolStep ==
    ASSUME IndInv, ManyTakers, SecondBounded, [Next]_vars, [\A t \in Takers : ~LateClaim(t)]_vars
    PROVE  \/ \E u \in 0 .. LastOf(MaxSecond) : Pool!Put(u)
           \/ \E t \in Takers : Release(t) /\ Pool!Take(uid[t]) /\ uid[t] \in 0 .. LastOf(MaxSecond)
           \/ UNCHANGED <<Waiting, issued>>
<1>1. CASE StartPadding \/ SchedulePadding \/ UNCHANGED vars \/ (Pad /\ ~Publish)
  BY <1>1, PadWaits
<1>2. CASE Publish
  BY <1>2, PublishPuts
<1>3. ASSUME NEW t \in Takers, Release(t)
      PROVE  Pool!Take(uid[t]) /\ uid[t] \in 0 .. LastOf(MaxSecond)
  BY <1>3, ReleaseTakes, WaitingAreUids DEF Pool!Take
<1>4. ASSUME NEW t \in Takers, Take(t), ~Release(t), ~UNCHANGED vars
      PROVE  UNCHANGED <<Waiting, issued>>
  BY <1>4, TakeKeepsUnreturned DEF Waiting
<1> QED
  BY <1>1, <1>2, <1>3, <1>4 DEF Next

LEMMA PoolInit == Init => Pool!Init /\ SecondBounded
<1> SUFFICES ASSUME Init PROVE Pool!Init /\ SecondBounded
  OBVIOUS
<1>1. tail = -1 /\ cursor = -1 /\ issued = {} /\ second = 0 /\ \A t \in Takers : at[t] = "idle"
  BY DEF Init, START_POINT
<1>2. Unreturned = {}
  BY <1>1 DEF Unreturned, HasClaim
<1> QED
  BY <1>1, <1>2, BoundsAssumption DEF Pool!Init, Waiting, SecondBounded

\* Any number of threads take from the ring as from a pool, as long as no claim comes late:
\* no UID that was put is lost or overwritten, each is returned by one take, and Size of
\* them wait at most.
THEOREM IsAPoolHolds ==
    Spec /\ [][\A t \in Takers : ~LateClaim(t)]_vars => Pool!Spec
<1> DEFINE Inv == IndInv /\ ManyTakers /\ SecondBounded
<1>1. Init => Inv /\ Pool!Init
  BY InitIndInv, ManyTakersInit, PoolInit
<1>2. Inv /\ [Next]_vars /\ [\A t \in Takers : ~LateClaim(t)]_vars => Inv'
  BY IndInvStep, ManyTakersStep, SecondBoundedStep DEF IndInv
<1>3. Inv /\ [Next]_vars /\ [\A t \in Takers : ~LateClaim(t)]_vars => [Pool!Next]_(Pool!vars)
  BY PoolStep DEF Pool!Next, Pool!vars
<1> HIDE DEF Inv
<1> QED
  BY <1>1, <1>2, <1>3, PTL DEF Spec, Pool!Spec

\* A single thread takes from the ring as from a queue: it gets the oldest UID that it has
\* not got, whatever the padding thread does between the steps of the take.
THEOREM IsAQueueHolds ==
    ASSUME NEW t, Takers = {t}
    PROVE  Spec => IsAQueue
<1> DEFINE Inv == IndInv /\ ManyTakers /\ SecondBounded /\ OneTaker(t)
<1>1. Init => Inv /\ Pool!Init
  BY InitIndInv, ManyTakersInit, PoolInit, OneTakerInit
<1>2. Inv => ~LateClaim(t)
  BY DEF LateClaim, Advance, OneTaker, CursorIsMine
<1>3. Inv /\ [Next]_vars => Inv'
  BY <1>2, IndInvStep, ManyTakersStep, SecondBoundedStep, OneTakerStep DEF IndInv
<1>4. ASSUME Inv, Release(t), NEW v \in Waiting PROVE uid[t] <= v
  <2>1. PICK s \in Unreturned : v = slots[Index(s)]
    BY <1>4 DEF Waiting
  <2>2. uid[t] = slots[Index(cursor)] /\ HasClaim(t) /\ claim[t] = cursor /\ cursor \in Unreturned
    BY <1>4, UnreturnedTypes DEF Release, OneTaker, CursorIsMine, ReadIsMine, HasClaim, ManyTakers
  <2>3. s = cursor \/ cursor < s
    BY <1>4, <2>2 DEF Unreturned, IndInv, TypeOK, START_POINT
  <2>4. v \in Nat
    BY <1>4, <2>1, UnreturnedTypes DEF ManyTakers
  <2>5. slots[Index(cursor)] \in Nat
    BY <1>4, <2>2, UnreturnedTypes DEF ManyTakers
  <2> QED
    BY <1>4, <2>1, <2>2, <2>3, <2>4, <2>5 DEF ManyTakers, UnreturnedKept
<1>5. Inv /\ [Next]_vars => [Pool!NextInOrder]_(Pool!vars)
  <2> SUFFICES ASSUME Inv, [Next]_vars PROVE [Pool!NextInOrder]_(Pool!vars)
    OBVIOUS
  <2>1. \/ \E u \in 0 .. LastOf(MaxSecond) : Pool!Put(u)
        \/ Release(t) /\ Pool!Take(uid[t]) /\ uid[t] \in 0 .. LastOf(MaxSecond)
        \/ UNCHANGED <<Waiting, issued>>
    BY <1>2, PoolStep
  <2> QED
    BY <1>4, <2>1 DEF Pool!NextInOrder, Pool!TakeOldest, Pool!vars
<1> HIDE DEF Inv
<1> QED
  BY <1>1, <1>3, <1>5, PTL DEF Spec, Pool!QueueSpec, IsAQueue
=============================================================================
