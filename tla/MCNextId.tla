------------------------------ MODULE MCNextId ------------------------------
(* Small instances of NextId for TLC: machines are numbered and the number  *)
(* is the worker id.                                                        *)
EXTENDS NextId

MCWorkerOf == [g \in Generators |-> g]
=============================================================================
