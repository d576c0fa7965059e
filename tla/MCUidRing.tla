----------------------------- MODULE MCUidRing -----------------------------
(* Small instances of UidRing for TLC.                                     *)
EXTENDS UidRing, TLC

TakerSymmetry == Permutations(Takers)
=============================================================================
