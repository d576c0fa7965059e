------------------------------- MODULE TaskLife -------------------------------
(***************************************************************************)
(* What a user of the job platform expects of a dispatched task, whatever    *)
(* messages are lost and whoever goes down: an executor runs it, runs it     *)
(* again only after it failed and at most retryTimes times, and its final    *)
(* result is settled once, after which it is not run any more.               *)
(***************************************************************************)
EXTENDS Naturals

CONSTANTS
    Tasks,    \* the tasks
    Retries,  \* retryTimes of their job
    NoTask    \* nothing is being run

VARIABLES
    attempts,  \* how often each task was run
    failures,  \* how many of its runs failed
    finals,    \* how often its final result was settled
    busy       \* the task that is being run

vars == <<attempts, failures, finals, busy>>

Init ==
    /\ attempts = [t \in Tasks |-> 0]
    /\ failures = [t \in Tasks |-> 0]
    /\ finals = [t \in Tasks |-> 0]
    /\ busy = NoTask

\* A run begins only if every earlier one has failed and retries are left.
Begin(t) ==
    /\ busy = NoTask
    /\ finals[t] = 0
    /\ failures[t] = attempts[t]
    /\ attempts[t] <= Retries
    /\ attempts' = [attempts EXCEPT ![t] = @ + 1]
    /\ busy' = t
    /\ UNCHANGED <<failures, finals>>

Fail(t) ==
    /\ busy = t
    /\ busy' = NoTask
    /\ failures' = [failures EXCEPT ![t] = @ + 1]
    /\ UNCHANGED <<attempts, finals>>

\* It succeeds, or the executor goes down.
End(t) ==
    /\ busy = t
    /\ busy' = NoTask
    /\ UNCHANGED <<attempts, failures, finals>>

\* The final result is that of a run that did not fail, unless there are no retries.
Settle(t) ==
    /\ busy # t
    /\ finals[t] = 0
    /\ attempts[t] = failures[t] + 1 \/ (Retries = 0 /\ attempts[t] = 1)
    /\ finals' = [finals EXCEPT ![t] = 1]
    /\ UNCHANGED <<attempts, failures, busy>>

Next == \E t \in Tasks : Begin(t) \/ Fail(t) \/ End(t) \/ Settle(t)

Spec == Init /\ [][Next]_vars
=============================================================================
