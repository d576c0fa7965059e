----------------------------- MODULE MCJobSync -----------------------------
(* Small instances of JobSync for TLC: one release of the executor has two    *)
(* jobs, one has dropped the second and stopped the first, one has none.       *)
EXTENDS JobSync, TLC

CONSTANTS j1, j2, c1, c2

Declares(status, cron) == [status |-> status, cron |-> cron]

MCReleases ==
    {j1 :> Declares("RUNNING", c1) @@ j2 :> Declares("RUNNING", c1),
     j1 :> Declares("STOP", c2) @@ j2 :> Null,
     j1 :> Null @@ j2 :> Null}

\* The operator stops a job, starts and retimes it, or leaves a field out.
MCRequests == {Declares("STOP", c1), Declares("RUNNING", c2), Declares("STOP", Null)}

NodeSymmetry == Permutations(Nodes)
=============================================================================
