-------------------------------- MODULE MCSpans ------------------------------
(* One project's index, written by one round at a time.                     *)
EXTENDS Spans, TLC
Symmetric == Permutations(Topics) \cup Permutations(Texts)
=============================================================================
