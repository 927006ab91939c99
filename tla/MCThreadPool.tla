---------------------------- MODULE MCThreadPool ----------------------------
(***************************************************************************)
(* ThreadPool on small sets.  Workers and tasks are interchangeable; only  *)
(* runs without liveness use the symmetry.                                 *)
(***************************************************************************)
EXTENDS ThreadPool, TLC

Symmetry == Permutations(Workers) \cup Permutations(Tasks)
=============================================================================
