------------------------------- MODULE MCGraph -------------------------------
(* The relationship graph.  Mentions: two topics, one of which can name the *)
(* other, whose name is the wider, either with drains at work one after     *)
(* another and no bound on what changes, or with two at work at once, until *)
(* MaxChanges have happened (names are then filed by another process).      *)
(* Edges: two edges and two callers.                                        *)
(* Walk: the graphs of four topics, each pair of them apart or joined one   *)
(* way or the other, one pair by two kinds of edge at once, and questions   *)
(* of one or two seeds; the fourth topic stands for nothing.  Search: the   *)
(* same topics, one crowding a channel with its spans, and one of them      *)
(* retired while a search runs.  A behaviour is of one of the five.         *)
EXTENDS Mentions, Edges, Search, TLC

CONSTANTS
  a, b,
  MaxChanges   \* how often something changes, fails or dies while drains cross

MCTopics == {a, b}
MCTexts == (a :> {{}, {b}}) @@ (b :> {{}})
MCPairs == {<<a, b>>}
MCWidth == (a :> 1) @@ (b :> 2)

MCJoined == {p \in Node \X Node : p[1] < p[2]}
MCEdge(from, to, kind, confidence) ==
  [from |-> from, to |-> to, kind |-> kind, confidence |-> confidence]
MCWays(p) ==
  <<{}, {MCEdge(p[1], p[2], 1, 2)}, {MCEdge(p[2], p[1], 1, 3)},
    {MCEdge(p[1], p[2], 1, 3), MCEdge(p[1], p[2], 2, 3)}>>
MCGraphs ==
  {UNION {MCWays(p)[way[p]] : p \in MCJoined} :
     way \in {w \in [MCJoined -> 1 .. 4] : \A p \in MCJoined : w[p] < 4 \/ p = <<1, 3>>}}
MCQuestions ==
  [named : {<<>>, <<3>>}, lists : {<<<<2>>, <<>>>>, <<<<1, 3>>, <<2>>>>, <<<<4, 1>>, <<>>>>},
   standing : {{1, 2, 3}}, depth : {1, 2}, keep : {1, 2}]
MCDiscount == <<2, 1>>

MCSpan(topic, span, score) == [topic |-> topic, span |-> span, score |-> score]
MCCrowded == <<MCSpan(1, 1, 9), MCSpan(1, 0, 8), MCSpan(1, 2, 7), MCSpan(2, 0, 5), MCSpan(3, 0, 4)>>
MCTied == <<MCSpan(4, 0, 6), MCSpan(2, 1, 6), MCSpan(2, 0, 6)>>
MCProposed ==
  {<<MCSpan(1, 0, 4), MCSpan(1, 1, 6), MCSpan(1, 2, 5), MCSpan(1, 3, 2), MCSpan(2, 0, 7)>>,
   <<MCSpan(2, 1, 5), MCSpan(2, 0, 7), MCSpan(3, 0, 6)>>}
MCWhole == <<MCSpan(2, 0, 5), MCSpan(4, 0, 3), MCSpan(1, 0, 2)>>
MCAsks ==
  [segmented : {MCCrowded, MCTied}, ngram : {<<MCSpan(3, 1, 7), MCSpan(2, 0, 3)>>, <<>>},
   vector : MCProposed, cut : {TRUE}, named : {<<>>, <<1>>}, head : {1, 2}, limit : {3}]
  \cup [segmented : {MCWhole}, ngram : {<<>>}, vector : {MCWhole, <<MCSpan(4, 0, 1)>>},
        cut : {FALSE}, named : {<<>>}, head : {2}, limit : {4}]
MCSearched ==
  {{MCEdge(1, 4, 1, 3), MCEdge(2, 4, 1, 2), MCEdge(1, 3, 1, 3)},
   {MCEdge(2, 1, 1, 3), MCEdge(3, 2, 1, 3), MCEdge(3, 4, 1, 2)}}
MCWeight == [segmented |-> 5, ngram |-> 5, vector |-> 40, graph |-> 12]
MCTokens == <<<<4, 3, 1, 4>>, <<3, 3>>, <<2>>, <<5>>>>

\* The jobs that bear on the edges followed: the others are owed and never run.
MCJobs == {k \in Key : \E p \in Pairs : BearsOn({k}, p)}
MCSymmetry == Permutations(Drains)

VARIABLES
  part,      \* which of them this behaviour is of
  changes    \* how many there have been

MCAlone ==
  /\ \/ Environment
     \/ \E t \in Topics : Sync(t)
     \/ \E d \in Drains : Running(d)
     \/ \E d \in Drains, keys \in SUBSET MCJobs :
          (\A e \in Drains : At(e, "idle")) /\ Claim(d, keys)
  /\ UNCHANGED changes

MCCrossing ==
  \/ /\ Environment /\ changes < MaxChanges
     /\ changes' = changes + 1 /\ remembered' = 0
  \/ /\ \/ \E t \in Topics : Sync(t)
        \/ \E d \in Drains : Running(d)
        \/ \E d \in Drains, keys \in SUBSET MCJobs : Claim(d, keys)
     /\ UNCHANGED changes
  \/ changes = MaxChanges /\ UNCHANGED <<vars, changes>>

MCInit ==
  /\ Init /\ EdgesInit /\ changes = 0
  /\ live = Node /\ search = NoSearch
  /\ \/ part = "walk" /\ WalkInit
     \/ part = "search" /\ graph \in MCSearched /\ Unasked
     \/ /\ part \in {"alone", "crossing", "edges"}
        /\ graph = {} /\ Unasked

MCNext ==
  /\ UNCHANGED part
  /\ \/ /\ \/ part = "alone" /\ MCAlone
           \/ part = "crossing" /\ MCCrossing
        /\ UNCHANGED <<edgeVars, walkVars, searchVars>>
     \/ part = "edges" /\ EdgesNext /\ UNCHANGED <<vars, walkVars, searchVars, changes>>
     \/ part = "walk" /\ WalkNext /\ UNCHANGED <<vars, edgeVars, searchVars, changes>>
     \/ /\ part = "search" /\ UNCHANGED <<vars, edgeVars, changes>>
        /\ SearchNext
        /\ live' = Node \/ live = Node \/ live' = live

MCSpec == MCInit /\ [][MCNext]_<<vars, edgeVars, walkVars, searchVars, part, changes>>

=============================================================================
