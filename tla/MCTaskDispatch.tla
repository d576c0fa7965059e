--------------------------- MODULE MCTaskDispatch ---------------------------
(* Small instances of TaskDispatch for TLC.                                *)
EXTENDS TaskDispatch, TLC

TaskSymmetry == Permutations(Tasks) \cup Permutations(Servers)
=============================================================================
