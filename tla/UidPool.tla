------------------------------ MODULE UidPool ------------------------------
(***************************************************************************)
(* What the callers of a UID cache expect of it: a UID that was put waits    *)
(* until it is taken, whoever takes it takes it alone, and later UIDs are     *)
(* greater.  A queue also gives out the oldest one first.                    *)
(***************************************************************************)
EXTENDS Naturals, FiniteSets

CONSTANTS
    Uids,     \* the UIDs there are
    Capacity  \* how many may wait

VARIABLES
    waiting,  \* the UIDs that were put and not taken
    taken     \* those that were taken

vars == <<waiting, taken>>

Init == waiting = {} /\ taken = {}

Put(u) ==
    /\ Cardinality(waiting) < Capacity
    /\ \A v \in waiting \cup taken : v < u
    /\ waiting' = waiting \cup {u}
    /\ UNCHANGED taken

Take(u) ==
    /\ u \in waiting
    /\ waiting' = waiting \ {u}
    /\ taken' = taken \cup {u}

TakeOldest(u) == Take(u) /\ \A v \in waiting : u <= v

Next == \E u \in Uids : Put(u) \/ Take(u)
NextInOrder == \E u \in Uids : Put(u) \/ TakeOldest(u)

Spec == Init /\ [][Next]_vars
QueueSpec == Init /\ [][NextInOrder]_vars
=============================================================================
