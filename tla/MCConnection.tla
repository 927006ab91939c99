---------------------------- MODULE MCConnection ----------------------------
(***************************************************************************)
(* Connection with few requests, workers and a small kernel buffer.  The   *)
(* workers are interchangeable; only runs without liveness use that.       *)
(***************************************************************************)
EXTENDS Connection, TLC

Symmetry == Permutations(Workers)
=============================================================================
