------------------------------- MODULE MCWrites ------------------------------
(* What is written a call or a statement at a time, to the index and to the *)
(* ledger.  Spans: two topics of two spans.  Ledger: two names and two      *)
(* writers.  They share no variable, and a behaviour is one of one of them. *)
EXTENDS Spans, Ledger, TLC

VARIABLE part   \* which of them this behaviour is of

MCInit == part \in {"spans", "ledger"} /\ Init /\ LedgerInit

MCNext ==
  /\ UNCHANGED part
  /\ \/ part = "spans" /\ Next /\ UNCHANGED tableVars
     \/ part = "ledger" /\ LedgerNext /\ UNCHANGED vars

MCSpec == MCInit /\ [][MCNext]_<<vars, tableVars, part>>

\* The writers of the ledger go by the names of the topics of Spans, so that two
\* permutations do for both.
Symmetric == Permutations(Topics) \cup Permutations(Texts)

=============================================================================
