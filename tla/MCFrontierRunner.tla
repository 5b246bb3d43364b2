-------------------------- MODULE MCFrontierRunner --------------------------
(* Instances of FrontierRunner for TLC. *)
EXTENDS FrontierRunner, TLC

Symmetric == Permutations(Session)
=============================================================================
