------------------------------ MODULE JobFiring ------------------------------
(***************************************************************************)
(* What a user of the job platform expects of the job servers, however many *)
(* there are: every firing of a job that comes due is dispatched, and only    *)
(* a job server that fails, or comes to the firing late, can make it be       *)
(* missed or dispatched again.                                               *)
(***************************************************************************)
EXTENDS Integers

CONSTANT MaxFirings     \* bound: how many times the cron expression comes due

Firings == 1 .. MaxFirings

VARIABLES
    due,    \* the last firing that came due
    times,  \* how often each firing was dispatched
    hurt    \* the firings on which a job server was down, went down or was late

vars == <<due, times, hurt>>

Init ==
    /\ due = 0
    /\ times = [f \in Firings |-> 0]
    /\ hurt = {}

\* A server that is down when the firing comes due misses it.
FiringDue ==
    /\ due < MaxFirings
    /\ due' = due + 1
    /\ hurt' \in {hurt, hurt \cup {due + 1}}
    /\ UNCHANGED times

\* A server goes down on firings that are due, or comes to one of them late.
ServerFails ==
    /\ hurt \subseteq hurt'
    /\ hurt' \subseteq hurt \cup 1 .. due
    /\ UNCHANGED <<due, times>>

\* Only such a firing is ever dispatched again.
Dispatch(f) ==
    /\ f <= due
    /\ times[f] = 0 \/ f \in hurt
    /\ times' = [times EXCEPT ![f] = @ + 1]
    /\ UNCHANGED <<due, hurt>>

Next == FiringDue \/ ServerFails \/ \E f \in Firings : Dispatch(f)

SafeSpec == Init /\ [][Next]_vars

\* A firing on which no server fails is dispatched in the end.
DispatchUnhurt(f) == f \notin hurt /\ Dispatch(f)

Spec == SafeSpec /\ \A f \in Firings : WF_vars(times[f] = 0 /\ DispatchUnhurt(f))
=============================================================================
