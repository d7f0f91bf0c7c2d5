------------------------------ MODULE MCIngest ------------------------------
(* Ingest: two files of one section each.  `a` is rewritten, and says what `b`  *)
(* can say too, or much the same, so it can be moved there; `b` can be cut down  *)
(* to almost nothing.                                                            *)
(* Packing: every text of a few lines.  Models: two that ask, two engines.  They *)
(* share no variable, and a behaviour is of one of them.                        *)
EXTENDS Ingest, Packing, Models, TLC

CONSTANTS a, b, a1, b1, x, y, thin

MCOf == a1 :> a @@ b1 :> b
MCContents == a :> {a1 :> x, a1 :> y} @@ b :> {b1 :> x, b1 :> thin}
MCAlike == {<<y, x>>, <<y, thin>>}
MCByHand == {<<a1, y>>}
MCRequests ==
  {<<found, {}, "whole">> : found \in {{b}, {a, b}}}
  \cup {<<{b}, {}, "partly">>, <<{a}, {}, "none">>, <<{b}, {a}, "none">>, <<{}, {a}, "none">>}

\* A line of prose, of sentences of so many tokens.
Prose == [opens |-> "nothing", length |-> 0, bare |-> TRUE, cells |-> 0, rule |-> FALSE,
          sentences |-> <<1, 2>>, word |-> FALSE]
MCLines ==
  {[Prose EXCEPT !.sentences = <<>>], Prose,
   [Prose EXCEPT !.sentences = <<6>>, !.word = TRUE],
   [Prose EXCEPT !.opens = "heading", !.sentences = <<2>>],
   [Prose EXCEPT !.opens = "heading", !.sentences = <<1, 4>>, !.word = TRUE],
   [Prose EXCEPT !.opens = "fence", !.length = 3, !.sentences = <<1>>],
   [Prose EXCEPT !.opens = "fence", !.length = 4, !.bare = FALSE, !.sentences = <<2>>],
   [Prose EXCEPT !.opens = "turn", !.sentences = <<2>>],
   [Prose EXCEPT !.cells = 2, !.sentences = <<2>>],
   [Prose EXCEPT !.cells = 2, !.sentences = <<1>>, !.rule = TRUE]}

VARIABLE part   \* which of them this behaviour is of

MCInit == part \in {"ingest", "packing", "models"} /\ Init /\ PackingInit /\ ModelsInit

MCNext ==
  /\ UNCHANGED part
  /\ \/ part = "ingest" /\ Next /\ UNCHANGED <<packingVars, modelsVars>>
     \/ part = "packing" /\ PackingNext /\ UNCHANGED <<vars, modelsVars>>
     \/ part = "models" /\ ModelsNext /\ UNCHANGED <<vars, packingVars>>

MCSpec == MCInit /\ [][MCNext]_<<vars, packingVars, modelsVars, part>>
=============================================================================
