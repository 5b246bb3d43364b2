---------------------------- MODULE MCWarmPage ----------------------------
(* Instances of WarmSession and WarmPage for TLC. *)
EXTENDS WarmPage, TLC

Symmetric == Permutations(Cmd \ Fallen)
=============================================================================
