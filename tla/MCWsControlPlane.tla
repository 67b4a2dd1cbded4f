-------------------------- MODULE MCWsControlPlane --------------------------
(* Model-checking instance of WsControlPlane. *)
EXTENDS WsControlPlane, TLC

Symmetry == Permutations(Tasks)
=============================================================================
