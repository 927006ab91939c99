----------------------------- MODULE MCConnTable -----------------------------
(***************************************************************************)
(* ConnTable with few connections and so few descriptors that they are     *)
(* reused.  Connections are interchangeable; only runs without liveness    *)
(* use that.                                                               *)
(***************************************************************************)
EXTENDS ConnTable, TLC

Symmetry == Permutations(Conns)
=============================================================================
