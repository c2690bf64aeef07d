---------------------------- MODULE MCSimplePool ----------------------------
(***************************************************************************)
(* Small instances of SimplePool: the tasks are interchangeable.           *)
(***************************************************************************)
EXTENDS SimplePool, TLC

TaskSymmetry == Permutations(Tasks)
=============================================================================
