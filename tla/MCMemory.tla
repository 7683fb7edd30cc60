------------------------------ MODULE MCMemory ------------------------------
(***************************************************************************)
(* Memory for model checking: the processes are interchangeable.           *)
(***************************************************************************)
EXTENDS Memory, TLC

ProcsAlike == Permutations(Procs)
=============================================================================
