------------------------------- MODULE MCCascade -----------------------------
(* Two drains over the syncs of one project.                               *)
EXTENDS Cascade, TLC
Symmetric == Permutations(Drains)
=============================================================================
