---------------------------- MODULE MCTriggerJob ----------------------------
(* Small instances of TriggerJob for TLC.                                  *)
EXTENDS TriggerJob, TLC

NodeSymmetry == Permutations(Nodes)
=============================================================================
