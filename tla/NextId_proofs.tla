--------------------------- MODULE NextId_proofs ---------------------------
(***************************************************************************)
(* Proofs about NextId for any machines, any widths of the fields of a UID   *)
(* and any course of the clocks: UIDs grow on every machine and no UID is    *)
(* returned twice, except in a second that starts again at 0.                *)
(***************************************************************************)
EXTENDS NextId, TLAPS

-----------------------------------------------------------------------------
(* The arithmetic of a UID                                                 *)

\* Numbers written with a digit below Q compare by what stands above the digit.
LEMMA Digit ==
    ASSUME NEW Q \in Nat, NEW a \in Int, NEW b \in Int,
           NEW s \in 0 .. Q - 1, NEW t \in 0 .. Q - 1, a < b
    PROVE  a * Q + s < b * Q + t
<1>1. (b - a) * Q >= Q
  <2>1. b - a >= 1
    OBVIOUS
  <2> QED
    BY <2>1
<1>2. (b - a) * Q = b * Q - a * Q
  OBVIOUS
<1>3. a * Q \in Int /\ b * Q \in Int
  OBVIOUS
<1> QED
  BY <1>1, <1>2, <1>3

\* A UID is a natural number.
LEMMA AllocateNat ==
    ASSUME NEW d \in Nat, NEW w \in 0 .. MaxWorkerId, NEW s \in 0 .. MaxSequence
    PROVE  allocate(d, w, s) \in Nat
<1>1. d * (MaxWorkerId + 1) \in Nat
  BY MaximaAssumption
<1>2. (d * (MaxWorkerId + 1) + w) * (MaxSequence + 1) \in Nat
  BY <1>1, MaximaAssumption
<1> QED
  BY <1>2 DEF allocate

\* A later second gives a greater UID, whatever the worker and the sequence.
LEMMA LaterIsGreater ==
    ASSUME NEW d \in Nat, NEW e \in Nat, d < e,
           NEW w \in 0 .. MaxWorkerId, NEW x \in 0 .. MaxWorkerId,
           NEW s \in 0 .. MaxSequence, NEW t \in 0 .. MaxSequence
    PROVE  allocate(d, w, s) < allocate(e, x, t)
<1> DEFINE a == d * (MaxWorkerId + 1) + w
           b == e * (MaxWorkerId + 1) + x
<1>1. a < b /\ a \in Int /\ b \in Int
  BY MaximaAssumption, Digit
<1> HIDE DEF a, b
<1>2. a * (MaxSequence + 1) + s < b * (MaxSequence + 1) + t
  BY <1>1, MaximaAssumption, Digit
<1> QED
  BY <1>2 DEF allocate, a, b

\* UIDs of different workers differ.
LEMMA WorkersDiffer ==
    ASSUME NEW d \in Nat, NEW e \in Nat,
           NEW w \in 0 .. MaxWorkerId, NEW x \in 0 .. MaxWorkerId, w # x,
           NEW s \in 0 .. MaxSequence, NEW t \in 0 .. MaxSequence
    PROVE  allocate(d, w, s) # allocate(e, x, t)
<1>1. CASE d # e
  <2> DEFINE u == allocate(d, w, s)
             v == allocate(e, x, t)
  <2>1. u \in Nat /\ v \in Nat
    BY AllocateNat
  <2>2. d < e => u < v
    BY LaterIsGreater
  <2>3. e < d => v < u
    BY LaterIsGreater
  <2> HIDE DEF u, v
  <2>4. d < e \/ e < d
    BY <1>1
  <2>5. u # v
    BY <2>1, <2>2, <2>3, <2>4
  <2> QED
    BY <2>5 DEF u, v
<1>2. CASE d = e
  <2> DEFINE a == d * (MaxWorkerId + 1) + w
             b == e * (MaxWorkerId + 1) + x
  <2>1. a # b /\ a \in Int /\ b \in Int
    BY <1>2, MaximaAssumption
  <2> HIDE DEF a, b
  <2>2. a * (MaxSequence + 1) + s # b * (MaxSequence + 1) + t
    <3>1. a < b \/ b < a
      BY <2>1
    <3>2. /\ a < b => a * (MaxSequence + 1) + s < b * (MaxSequence + 1) + t
          /\ b < a => b * (MaxSequence + 1) + t < a * (MaxSequence + 1) + s
      BY <2>1, MaximaAssumption, Digit
    <3>3. a * (MaxSequence + 1) + s \in Int /\ b * (MaxSequence + 1) + t \in Int
      BY <2>1, MaximaAssumption
    <3> QED
      BY <3>1, <3>2, <3>3
  <2> QED
    BY <2>2 DEF allocate, a, b
<1> QED
  BY <1>1, <1>2

-----------------------------------------------------------------------------
(* The inductive invariant                                                 *)

\* The sequence number the generator cannot use again in its last second.
Top(g) == IF waiting[g] THEN MaxSequence ELSE sequence[g]

\* Every UID a machine may still return is at least this.
Limit(g) ==
    IF last[g] = NEVER THEN allocate(floor[g] + 1, 0, 0)
                       ELSE allocate(last[g], WorkerOf[g], Top(g)) + 1

\* The clock and the last second do not fall behind what was used before a
\* restart.
AheadOfFloor(g) ==
    /\ floor[g] <= now[g]
    /\ last[g] # NEVER => floor[g] <= last[g]
    /\ waiting[g] => last[g] # NEVER /\ sequence[g] = 0

\* The last second the machine has used.
Used(g) == IF last[g] = NEVER THEN floor[g] ELSE last[g]

\* What a machine has returned carries its worker id and a second it has used,
\* and lies below its limit as long as the sequence is not reset too early.
IssuedBelow(g) ==
    \A u \in issued[g] :
        /\ g \notin repeats => u < Limit(g)
        /\ \E d \in Nat, s \in 0 .. MaxSequence :
              d <= Used(g) /\ d <= MaxDelta /\ u = allocate(d, WorkerOf[g], s)

IndInv ==
    /\ TypeOK
    /\ \A g \in Generators : AheadOfFloor(g) /\ IssuedBelow(g)

\* What a call returns is a UID of the machine and moves the limit past it; it
\* is above all UIDs the machine has returned.
Fresh(g) ==
    /\ Limit(g)' = NewUid(g) + 1
    /\ g \notin repeats' => \A u \in issued[g] : u < NewUid(g)
    /\ Used(g)' \in Nat /\ Used(g)' >= Used(g) /\ Used(g)' <= MaxDelta
    /\ \E s \in 0 .. MaxSequence : NewUid(g) = allocate(Used(g)', WorkerOf[g], s)
    /\ issued' = [issued EXCEPT ![g] = @ \cup {NewUid(g)}]

\* The facts about one generator that the arithmetic needs.
LEMMA Fields ==
    ASSUME TypeOK, NEW g \in Generators
    PROVE  /\ WorkerOf[g] \in 0 .. MaxWorkerId /\ 0 \in 0 .. MaxWorkerId
           /\ sequence[g] \in 0 .. MaxSequence /\ Top(g) \in 0 .. MaxSequence
           /\ 0 \in 0 .. MaxSequence /\ MaxSequence \in 0 .. MaxSequence
           /\ now[g] \in Nat /\ floor[g] \in Nat \cup {-1} /\ last[g] \in Nat \cup {-1}
           /\ floor[g] + 1 \in Nat
  BY MaximaAssumption, WorkersAssumption DEF TypeOK, Seconds, NEVER, Top

\* A limit is a natural number.
LEMMA LimitNat ==
    ASSUME TypeOK, NEW g \in Generators
    PROVE  Limit(g) \in Nat
<1>1. allocate(floor[g] + 1, 0, 0) \in Nat
  BY Fields, AllocateNat
<1>2. last[g] # NEVER => allocate(last[g], WorkerOf[g], Top(g)) \in Nat
  BY Fields, AllocateNat DEF NEVER
<1> QED
  BY <1>1, <1>2 DEF Limit

\* A UID of a second after the last used one is above all returned UIDs.
LEMMA LaterIsAbove ==
    ASSUME TypeOK, NEW g \in Generators, IssuedBelow(g),
           NEW e \in Nat, Used(g) < e, NEW x \in 0 .. MaxWorkerId, NEW u \in issued[g]
    PROVE  u \in Nat /\ u < allocate(e, x, 0)
<1>1. PICK d \in Nat, s \in 0 .. MaxSequence :
          d <= Used(g) /\ u = allocate(d, WorkerOf[g], s)
  BY DEF IssuedBelow
<1>2. Used(g) \in Int
  BY Fields DEF Used
<1>3. d < e
  BY <1>1, <1>2
<1>4. allocate(d, WorkerOf[g], s) < allocate(e, x, 0)
  BY <1>3, Fields, LaterIsGreater
<1>5. allocate(d, WorkerOf[g], s) \in Nat
  BY Fields, AllocateNat
<1> QED
  BY <1>1, <1>4, <1>5

-----------------------------------------------------------------------------
(* The steps                                                               *)

\* The initial state satisfies the inductive invariant.
LEMMA InitIndInv == Init => IndInv
<1> SUFFICES ASSUME Init PROVE IndInv
  OBVIOUS
<1>1. TypeOK
  BY MaximaAssumption DEF Init, TypeOK
<1>2. ASSUME NEW g \in Generators PROVE AheadOfFloor(g) /\ IssuedBelow(g)
  <2>1. now[g] \in Nat /\ floor[g] = -1 /\ last[g] = NEVER /\ ~waiting[g] /\ issued[g] = {}
    BY <1>2 DEF Init, NEVER, Seconds
  <2> QED
    BY <2>1 DEF AheadOfFloor, IssuedBelow
<1> QED
  BY <1>1, <1>2 DEF IndInv

\* Every step keeps the types.
LEMMA TypeStep == TypeOK /\ [Next]_vars => TypeOK'
<1> SUFFICES ASSUME TypeOK, [Next]_vars PROVE TypeOK'
  OBVIOUS
<1>1. ASSUME NEW g \in Generators, Tick(g) PROVE TypeOK'
  <2>1. now[g] + 1 \in Seconds
    BY <1>1, MaximaAssumption DEF TypeOK, Tick, Seconds
  <2> QED
    BY <1>1, <2>1 DEF TypeOK, Tick
<1>2. ASSUME NEW g \in Generators, SetBack(g) PROVE TypeOK'
  <2>1. PICK t \in Seconds : now' = [now EXCEPT ![g] = t]
                            /\ UNCHANGED <<last, sequence, waiting, issued, floor, repeats>>
    BY <1>2 DEF SetBack
  <2> QED
    BY <2>1 DEF TypeOK
<1>3. ASSUME NEW g \in Generators, Restart(g) PROVE TypeOK'
  <2> DEFINE used == IF last[g] = NEVER THEN floor[g] ELSE last[g]
  <2>1. used \in Seconds \cup {NEVER} /\ NEVER \in Seconds \cup {NEVER} /\ 0 \in 0 .. MaxSequence
    BY MaximaAssumption DEF TypeOK
  <2>2. /\ floor' = [floor EXCEPT ![g] = used] /\ last' = [last EXCEPT ![g] = NEVER]
        /\ sequence' = [sequence EXCEPT ![g] = 0] /\ waiting' = [waiting EXCEPT ![g] = FALSE]
        /\ repeats' = repeats \ {g} /\ UNCHANGED <<now, issued>>
    BY <1>3 DEF Restart
  <2> HIDE DEF used
  <2> QED
    BY <2>1, <2>2 DEF TypeOK
<1>4. ASSUME NEW g \in Generators, SequenceWraps(g) \/ SpinThrows(g) PROVE TypeOK'
  <2>1. CASE SequenceWraps(g)
    <3>1. 0 \in 0 .. MaxSequence
      BY MaximaAssumption
    <3> QED
      BY <2>1, <3>1 DEF TypeOK, SequenceWraps
  <2>2. CASE SpinThrows(g)
    BY <2>2 DEF TypeOK, SpinThrows
  <2> QED
    BY <1>4, <2>1, <2>2
<1>5. ASSUME NEW g \in Generators, Returning(g) PROVE TypeOK'
  <2>1. /\ last' \in [Generators -> Seconds \cup {NEVER}] /\ last'[g] \in Seconds
        /\ sequence' \in [Generators -> 0 .. MaxSequence]
        /\ waiting' \in [Generators -> BOOLEAN]
        /\ repeats' \subseteq Generators
        /\ UNCHANGED <<now, floor>>
        /\ issued' = [issued EXCEPT ![g] = @ \cup {NewUid(g)}]
    <3>1. CASE SameSecond(g)
      BY <3>1, MaximaAssumption DEF TypeOK, SameSecond, Return, NewUid, Seconds
    <3>2. CASE NewSecond(g)
      BY <3>2, MaximaAssumption DEF TypeOK, NewSecond, NowRepeats, Return, NewUid, Seconds
    <3>3. CASE NextSecondComes(g)
      BY <3>3, MaximaAssumption DEF TypeOK, NextSecondComes, Return, NewUid, Seconds
    <3> QED
      BY <1>5, <3>1, <3>2, <3>3 DEF Returning
  <2>2. NewUid(g) \in Nat
    BY <2>1, AllocateNat, WorkersAssumption DEF NewUid, Seconds
  <2> QED
    BY <2>1, <2>2 DEF TypeOK
<1>6. CASE UNCHANGED vars
  BY <1>6 DEF vars, TypeOK
<1> QED
  BY <1>1, <1>2, <1>3, <1>4, <1>5, <1>6 DEF Next

\* Every variable keeps a value of its type.
THEOREM TypeCorrect == Spec => []TypeOK
<1>1. Init => TypeOK
  BY InitIndInv DEF IndInv
<1> QED
  BY <1>1, TypeStep, PTL DEF Spec

\* A call returns a UID of the machine above all that the machine has returned.
LEMMA ReturningFresh ==
    ASSUME IndInv, TypeOK', NEW g \in Generators, Returning(g)
    PROVE  Fresh(g) /\ AheadOfFloor(g)'
<1>0. TypeOK /\ AheadOfFloor(g) /\ IssuedBelow(g)
  BY DEF IndInv
<1>1. /\ last'[g] \in Nat /\ last'[g] # NEVER /\ last'[g] >= floor[g] /\ ~waiting'[g]
      /\ last'[g] <= MaxDelta
      /\ UNCHANGED <<now, floor>>
      /\ sequence'[g] \in 0 .. MaxSequence
      /\ issued' = [issued EXCEPT ![g] = @ \cup {NewUid(g)}]
  <2>1. CASE SameSecond(g)
    BY <1>0, <2>1, Fields, MaximaAssumption
    DEF TypeOK, SameSecond, Return, NewUid, AheadOfFloor, NEVER, Seconds, ClockReadable
  <2>2. CASE NewSecond(g)
    BY <1>0, <2>2, Fields, MaximaAssumption
    DEF TypeOK, NewSecond, Return, NewUid, AheadOfFloor, NEVER, Seconds, ClockReadable
  <2>3. CASE NextSecondComes(g)
    BY <1>0, <2>3, Fields, MaximaAssumption
    DEF TypeOK, NextSecondComes, Return, NewUid, AheadOfFloor, NEVER, Seconds, ClockReadable
  <2> QED
    BY <2>1, <2>2, <2>3 DEF Returning
<1>2. Limit(g)' = NewUid(g) + 1
  BY <1>1 DEF Limit, Top, NewUid
<1>3. Used(g)' = last'[g]
  BY <1>1 DEF Used
<1>4. /\ Used(g)' >= Used(g)
      /\ g \notin repeats' => \A u \in issued[g] : u < NewUid(g)
  <2>1. CASE SameSecond(g)
    <3>1. /\ last' = last /\ last[g] \in Nat /\ last[g] # NEVER /\ ~waiting[g]
          /\ sequence'[g] = sequence[g] + 1 /\ repeats' = repeats
      BY <1>0, <2>1, Fields DEF TypeOK, SameSecond, NEVER
    <3>2. allocate(last[g], WorkerOf[g], sequence[g] + 1) = allocate(last[g], WorkerOf[g], sequence[g]) + 1
      <4>1. (last[g] * (MaxWorkerId + 1) + WorkerOf[g]) * (MaxSequence + 1) \in Nat
        BY <1>0, <3>1, Fields, MaximaAssumption
      <4> QED
        BY <1>0, <4>1, Fields DEF allocate
    <3>3. NewUid(g) = Limit(g)
      BY <3>1, <3>2 DEF NewUid, Limit, Top
    <3>4. Used(g)' = Used(g)
      BY <1>1, <3>1 DEF Used
    <3>5. Used(g) \in Int
      BY <1>0, <3>1 DEF Used
    <3> QED
      BY <1>0, <3>1, <3>3, <3>4, <3>5 DEF IssuedBelow
  <2>2. CASE NewSecond(g) \/ NextSecondComes(g)
    <3>1. /\ sequence'[g] = 0 /\ last'[g] = now[g] /\ last[g] < now[g]
      BY <1>0, <2>2, Fields DEF TypeOK, NewSecond, NextSecondComes, AheadOfFloor
    <3>2. Used(g) <= now[g] /\ Used(g) \in Int /\ now[g] \in Nat
      BY <1>0, <3>1, Fields DEF Used, AheadOfFloor
    <3>3. g \notin repeats' => Used(g) < now[g]
      <4>1. CASE NewSecond(g)
        <5>1. g \notin repeats' => now[g] # floor[g]
          BY <4>1 DEF NewSecond, NowRepeats
        <5> QED
          BY <1>0, <3>1, <5>1, Fields DEF Used, AheadOfFloor
      <4>2. CASE NextSecondComes(g)
        BY <1>0, <3>1, <4>2 DEF NextSecondComes, Used, AheadOfFloor
      <4> QED
        BY <2>2, <4>1, <4>2
    <3>4. g \notin repeats' => \A u \in issued[g] : u < allocate(now[g], WorkerOf[g], 0)
      BY <1>0, <3>2, <3>3, Fields, LaterIsAbove
    <3> QED
      BY <1>3, <3>1, <3>2, <3>4 DEF NewUid
  <2> QED
    BY <1>2, <2>1, <2>2 DEF Returning
<1>5. AheadOfFloor(g)'
  BY <1>0, <1>1 DEF AheadOfFloor
<1> QED
  BY <1>1, <1>2, <1>3, <1>4, <1>5 DEF Fresh, NewUid

\* Nothing changes for a machine whose variables keep their values.
LEMMA OthersKept ==
    ASSUME IndInv, NEW h \in Generators,
           now'[h] = now[h], last'[h] = last[h], sequence'[h] = sequence[h],
           waiting'[h] = waiting[h], issued'[h] = issued[h], floor'[h] = floor[h],
           h \in repeats' <=> h \in repeats
    PROVE  AheadOfFloor(h)' /\ IssuedBelow(h)'
<1>1. Limit(h)' = Limit(h) /\ Used(h)' = Used(h)
  BY DEF Limit, Top, Used
<1>2. AheadOfFloor(h) /\ IssuedBelow(h)
  BY DEF IndInv
<1> QED
  BY <1>1, <1>2 DEF AheadOfFloor, IssuedBelow

\* Every step keeps the inductive invariant.
LEMMA StepIndInv ==
    ASSUME IndInv, [Next]_vars
    PROVE  IndInv'
<1>0. TypeOK /\ TypeOK'
  BY TypeStep DEF IndInv
<1>1. ASSUME NEW g \in Generators, NEW h \in Generators, Tick(g) \/ SetBack(g)
      PROVE  AheadOfFloor(h)' /\ IssuedBelow(h)'
  <2>1. /\ UNCHANGED <<last, sequence, waiting, issued, floor, repeats>>
        /\ now'[h] >= floor[h]
    <3>1. CASE Tick(g)
      BY <1>0, <3>1, Fields DEF Tick, IndInv, AheadOfFloor, TypeOK
    <3>2. CASE SetBack(g)
      <4>1. PICK t \in Seconds : floor[g] <= t /\ now' = [now EXCEPT ![g] = t]
        BY <3>2 DEF SetBack
      <4> QED
        BY <3>2, <4>1 DEF SetBack, IndInv, AheadOfFloor, TypeOK
    <3> QED
      BY <1>1, <3>1, <3>2
  <2>2. Limit(h)' = Limit(h) /\ Used(h)' = Used(h)
    BY <2>1 DEF Limit, Top, Used
  <2> QED
    BY <2>1, <2>2 DEF IndInv, AheadOfFloor, IssuedBelow
<1>2. ASSUME NEW g \in Generators, Restart(g)
      PROVE  AheadOfFloor(g)' /\ IssuedBelow(g)'
  <2>1. /\ floor'[g] = Used(g) /\ last'[g] = NEVER /\ ~waiting'[g] /\ now'[g] >= Used(g)
        /\ issued'[g] = issued[g] /\ Used(g) + 1 \in Nat /\ Used(g) \in Int
    BY <1>0, <1>2, Fields DEF Restart, TypeOK, Used
  <2>2. AheadOfFloor(g)'
    BY <2>1 DEF AheadOfFloor
  <2>3. Limit(g)' = allocate(Used(g) + 1, 0, 0) /\ Used(g)' = Used(g)
    BY <2>1 DEF Limit, Used
  <2>4. \A u \in issued[g] : u < allocate(Used(g) + 1, 0, 0)
    BY <1>0, <2>1, Fields, LaterIsAbove DEF IndInv
  <2> QED
    BY <2>1, <2>2, <2>3, <2>4 DEF IndInv, IssuedBelow
<1>3. ASSUME NEW g \in Generators, SequenceWraps(g)
      PROVE  AheadOfFloor(g)' /\ IssuedBelow(g)'
  <2>1. /\ now' = now /\ last' = last /\ floor' = floor /\ issued' = issued
        /\ waiting'[g] /\ sequence'[g] = 0 /\ last[g] = now[g] /\ last[g] # NEVER
        /\ repeats' = repeats
        /\ ~waiting[g] /\ sequence[g] = MaxSequence
    BY <1>0, <1>3, Fields DEF SequenceWraps, TypeOK, NEVER
  <2>2. Limit(g)' = Limit(g) /\ Used(g)' = Used(g)
    BY <2>1 DEF Limit, Top, Used
  <2> QED
    BY <2>1, <2>2 DEF IndInv, AheadOfFloor, IssuedBelow
<1>4. ASSUME NEW g \in Generators, Returning(g)
      PROVE  AheadOfFloor(g)' /\ IssuedBelow(g)'
  <2>1. Fresh(g) /\ AheadOfFloor(g)'
    BY <1>0, <1>4, ReturningFresh
  <2>2. PICK r \in 0 .. MaxSequence : NewUid(g) = allocate(Used(g)', WorkerOf[g], r)
    BY <2>1 DEF Fresh
  <2>3. Used(g)' \in Nat /\ Used(g)' >= Used(g) /\ Used(g)' <= MaxDelta /\ Used(g) \in Int
    BY <1>0, <2>1, Fields DEF Fresh, Used
  <2>4. NewUid(g) \in Nat
    BY <1>0, <2>2, <2>3, AllocateNat, Fields
  <2>5. issued'[g] = issued[g] \cup {NewUid(g)}
    BY <1>0, <2>1 DEF Fresh, TypeOK
  <2>6. \A u \in issued[g] : u \in Nat
    BY <1>0 DEF TypeOK
  <2>7. ASSUME NEW u \in issued'[g] PROVE g \notin repeats' => u < Limit(g)'
    BY <2>1, <2>4, <2>5, <2>6, <2>7 DEF Fresh
  <2>8. ASSUME NEW u \in issued'[g]
        PROVE  \E d \in Nat, s \in 0 .. MaxSequence :
                  d <= Used(g)' /\ d <= MaxDelta /\ u = allocate(d, WorkerOf[g], s)
    <3>1. CASE u = NewUid(g)
      BY <2>2, <2>3, <3>1
    <3>2. CASE u \in issued[g]
      <4>1. PICK d \in Nat, s \in 0 .. MaxSequence :
                d <= Used(g) /\ d <= MaxDelta /\ u = allocate(d, WorkerOf[g], s)
        BY <3>2 DEF IndInv, IssuedBelow
      <4>2. d <= Used(g)'
        BY <2>3, <4>1
      <4> QED
        BY <4>1, <4>2
    <3> QED
      BY <2>5, <2>8, <3>1, <3>2
  <2> QED
    BY <2>1, <2>7, <2>8 DEF IssuedBelow
<1>5. ASSUME NEW g \in Generators, SpinThrows(g)
      PROVE  AheadOfFloor(g)' /\ IssuedBelow(g)'
  <2>1. /\ now' = now /\ last' = last /\ floor' = floor /\ issued' = issued
        /\ ~waiting'[g] /\ g \in repeats'
    BY <1>0, <1>5 DEF SpinThrows, TypeOK
  <2>2. Used(g)' = Used(g)
    BY <2>1 DEF Used
  <2> QED
    BY <2>1, <2>2 DEF IndInv, AheadOfFloor, IssuedBelow
<1>6. ASSUME NEW g \in Generators, NEW h \in Generators, h # g,
             Restart(g) \/ SequenceWraps(g) \/ Returning(g) \/ SpinThrows(g)
      PROVE  AheadOfFloor(h)' /\ IssuedBelow(h)'
  <2>1. /\ now'[h] = now[h] /\ last'[h] = last[h] /\ sequence'[h] = sequence[h]
        /\ waiting'[h] = waiting[h] /\ issued'[h] = issued[h] /\ floor'[h] = floor[h]
        /\ h \in repeats' <=> h \in repeats
    BY <1>0, <1>6
    DEF TypeOK, Restart, SequenceWraps, Returning, SameSecond, NewSecond, NowRepeats, NextSecondComes,
        Return, SpinThrows
  <2> QED
    BY <2>1, OthersKept
<1>7. CASE UNCHANGED vars
  BY <1>7, OthersKept, <1>0 DEF vars, IndInv
<1>8. CASE Next
  <2>1. PICK g \in Generators : \/ Tick(g) \/ SetBack(g) \/ Restart(g)
                                \/ Returning(g) \/ SequenceWraps(g) \/ SpinThrows(g)
    BY <1>8 DEF Next
  <2>2. ASSUME NEW h \in Generators PROVE AheadOfFloor(h)' /\ IssuedBelow(h)'
    BY <1>1, <1>2, <1>3, <1>4, <1>5, <1>6, <2>1
  <2> QED
    BY <1>0, <2>2 DEF IndInv
<1> QED
  BY <1>7, <1>8

\* A call of a machine within the invariant returns a UID that is greater than
\* the machine's own and differs from every other machine's.
LEMMA ReturnedIsNew ==
    ASSUME IndInv, TypeOK', NEW g \in Generators, Returning(g), g \notin repeats'
    PROVE  /\ \A old \in issued[g] : old < NewUid(g)
           /\ \A h \in Generators : NewUid(g) \notin issued[h]
<1>1. Fresh(g) /\ TypeOK
  BY ReturningFresh DEF IndInv
<1>2. PICK d \in Nat, s \in 0 .. MaxSequence : NewUid(g) = allocate(d, WorkerOf[g], s)
  BY <1>1 DEF Fresh
<1>3. \A old \in issued[g] : old < NewUid(g)
  BY <1>1 DEF Fresh
<1>4. ASSUME NEW h \in Generators PROVE NewUid(g) \notin issued[h]
  <2>1. CASE h = g
    <3>1. NewUid(g) \in Nat
      BY <1>1, <1>2, AllocateNat, Fields
    <3> QED
      BY <1>3, <2>1, <3>1
  <2>2. CASE h # g
    <3> SUFFICES ASSUME NewUid(g) \in issued[h] PROVE FALSE
      OBVIOUS
    <3>1. PICK e \in Nat, t \in 0 .. MaxSequence : NewUid(g) = allocate(e, WorkerOf[h], t)
      BY DEF IndInv, IssuedBelow
    <3>2. WorkerOf[g] # WorkerOf[h]
      BY <2>2, WorkersAssumption
    <3>3. WorkerOf[g] \in 0 .. MaxWorkerId /\ WorkerOf[h] \in 0 .. MaxWorkerId
      BY WorkersAssumption
    <3> QED
      BY <1>2, <3>1, <3>2, <3>3, WorkersDiffer
  <2> QED
    BY <2>1, <2>2
<1> QED
  BY <1>3, <1>4

-----------------------------------------------------------------------------
(* The fields of a UID                                                     *)

\* A number is cut into what stands above a digit and the digit.
LEMMA Cut ==
    ASSUME NEW Q \in Nat, Q > 0, NEW a \in Nat, NEW s \in 0 .. Q - 1
    PROVE  (a * Q + s) \div Q = a /\ (a * Q + s) % Q = s
<1> DEFINE n == a * Q + s
           b == n \div Q
           t == n % Q
<1>1. n \in Nat
  <2>1. a * Q \in Nat
    OBVIOUS
  <2> QED
    BY <2>1
<1> HIDE DEF n
<1>2. b \in Int /\ t \in 0 .. Q - 1 /\ n = b * Q + t
  BY <1>1
<1> HIDE DEF b, t
<1>3. a < b => n < b * Q + t
  BY <1>2, Digit DEF n
<1>4. b < a => b * Q + t < n
  BY <1>2, Digit DEF n
<1>5. a = b
  BY <1>1, <1>2, <1>3, <1>4
<1>6. s = t
  <2>1. a * Q \in Nat
    OBVIOUS
  <2> QED
    BY <1>2, <1>5, <2>1 DEF n
<1> QED
  BY <1>5, <1>6 DEF n, b, t

\* parseUID finds the fields that allocate was given.
LEMMA Parses ==
    ASSUME NEW d \in Nat, NEW w \in 0 .. MaxWorkerId, NEW s \in 0 .. MaxSequence
    PROVE  /\ parseWorker(allocate(d, w, s)) = w
           /\ parseDelta(allocate(d, w, s)) = d
<1> DEFINE W == MaxWorkerId + 1
           S == MaxSequence + 1
           a == d * W + w
<1>1. W \in Nat /\ W > 0 /\ S \in Nat /\ S > 0 /\ w \in 0 .. W - 1 /\ s \in 0 .. S - 1
  BY MaximaAssumption
<1>2. a \div W = d /\ a % W = w /\ a \in Nat
  <2> HIDE DEF W
  <2>1. d * W \in Nat
    BY <1>1
  <2> QED
    BY <1>1, <2>1, Cut
<1>3. (a * S + s) \div S = a
  <2> HIDE DEF S, a
  <2> QED
    BY <1>1, <1>2, Cut
<1>4. parseWorker(a * S + s) = w
  BY <1>2, <1>3 DEF parseWorker
<1>5. parseDelta(a * S + s) = d
  <2> DEFINE r == w * S + s
             V == W * S
  <2>1. a * S + s = d * V + r
    <3> HIDE DEF W, S
    <3>1. (d * W + w) * S = (d * W) * S + w * S
      BY <1>1
    <3>2. (d * W) * S = d * (W * S)
      BY <1>1
    <3>3. d * (W * S) \in Nat /\ w * S \in Nat
      BY <1>1
    <3> QED
      BY <1>1, <3>1, <3>2, <3>3
  <2>2. r \in 0 .. V - 1 /\ V \in Nat /\ V > 0
    <3> HIDE DEF W, S
    <3>1. V \in Nat /\ w * S \in Nat
      BY <1>1
    <3>2. w < W => w * S + s < W * S + 0
      BY <1>1, Digit
    <3>3. W * S >= 1
      BY <1>1
    <3> QED
      BY <1>1, <3>1, <3>2, <3>3
  <2>3. (d * V + r) \div V = d
    <3> HIDE DEF V, r
    <3> QED
      BY <2>2, Cut
  <2> QED
    BY <2>1, <2>3 DEF parseDelta
<1> QED
  BY <1>4, <1>5 DEF allocate

-----------------------------------------------------------------------------
(* The theorems                                                            *)

\* No call returns a UID that this or another machine has returned, wherever
\* clocks are set back and machines restart, unless their second has
\* started again at 0.
THEOREM NoUidTwiceHolds == Spec => NoUidTwice
<1>1. IndInv /\ [Next]_vars => IndInv'
  BY StepIndInv
<1>2. IndInv /\ [Next]_vars =>
        [\A g \in Generators : Returning(g) /\ g \notin repeats' =>
            \A h \in Generators : NewUid(g) \notin issued[h]]_vars
  BY ReturnedIsNew, TypeStep DEF IndInv
<1> QED
  BY InitIndInv, <1>1, <1>2, PTL DEF Spec, NoUidTwice

\* The UIDs of a machine only grow, with the same exceptions.
THEOREM UidsGrowHolds == Spec => UidsGrow
<1>1. IndInv /\ [Next]_vars => IndInv'
  BY StepIndInv
<1>2. IndInv /\ [Next]_vars =>
        [\A g \in Generators : Returning(g) /\ g \notin repeats' =>
            \A old \in issued[g] : old < NewUid(g)]_vars
  BY ReturnedIsNew, TypeStep DEF IndInv
<1> QED
  BY InitIndInv, <1>1, <1>2, PTL DEF Spec, UidsGrow

\* Every UID names its machine and a second within the timestamp bits.
THEOREM ParsesBackHolds == Spec => []ParsesBack
<1>1. IndInv => ParsesBack
  <2> SUFFICES ASSUME IndInv, NEW g \in Generators, NEW u \in issued[g]
               PROVE  parseWorker(u) = WorkerOf[g] /\ parseDelta(u) <= MaxDelta
    BY DEF ParsesBack
  <2>1. PICK d \in Nat, s \in 0 .. MaxSequence : d <= MaxDelta /\ u = allocate(d, WorkerOf[g], s)
    BY DEF IndInv, IssuedBelow
  <2> QED
    BY <2>1, Parses, WorkersAssumption
<1>2. IndInv /\ [Next]_vars => IndInv'
  BY StepIndInv
<1> QED
  BY InitIndInv, <1>1, <1>2, PTL DEF Spec
=============================================================================
