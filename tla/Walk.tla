-------------------------------- MODULE Walk ---------------------------------
(***************************************************************************)
(* Recall over the relationship graph: the seeds a query makes             *)
(* (recall_graph, best_first and seed_relevance of                         *)
(* crates/engine/src/engine.rs), and the walk from them, hop by hop, as    *)
(* crates/store/src/graph.rs makes it in full (expand) and reading only    *)
(* the strongest edges of each topic (expand_reading), side by side.       *)
(*                                                                         *)
(* Nodes are topics in the order of their identifiers.  Confidences are    *)
(* the floats there are, numbered: next_down takes one.  The graph stands  *)
(* still during a walk, only live edges are asked about, and of any kind.  *)
(***************************************************************************)
EXTENDS Integers, Sequences, FiniteSets, SequencesExt

CONSTANTS
  Nodes,        \* a number: topics are 1 .. Nodes
  Graphs,       \* the sets of live edges a walk may meet
  Questions,    \* the questions asked
  PerTopic,     \* edges a bounded read takes each way of a topic
  MaxFrontier,  \* MAX_FRONTIER
  MaxSeeds,     \* MAX_SEEDS
  Discount      \* what a candidate is worth by its rank, (k + 1) / (k + rank)

VARIABLES
  graph,     \* the live edges
  question,  \* what was asked last
  bounded,   \* the walk of expand_reading
  full       \* the walk of expand

walkVars == <<graph, question, bounded, full>>

Node == 1 .. Nodes
GraphEdge == [from : Node, to : Node, kind : Nat, confidence : Nat]

-----------------------------------------------------------------------------
(* The seeds of a question.                                                *)

Once(seq) == FoldLeft(LAMBDA done, x : IF Contains(done, x) THEN done ELSE Append(done, x),
                      <<>>, seq)
FirstFew(seq, n) == SubSeq(seq, 1, IF Len(seq) < n THEN Len(seq) ELSE n)

\* Each list's first, then each list's second...
BestFirst(lists) ==
  LET At(rank) == FlattenSeq([l \in DOMAIN lists |->
                    IF rank \in DOMAIN lists[l] THEN <<lists[l][rank]>> ELSE <<>>])
  IN Once(FlattenSeq([rank \in DOMAIN Discount |-> At(rank)]))

\* What the question names comes first, then what its channels ranked, of what
\* stands for anything.
Seeds(q) ==
  FirstFew(SelectSeq(Once(q.named \o BestFirst(q.lists)), LAMBDA node : node \in q.standing),
           MaxSeeds)

Relevance(q, node) ==
  LET ranks == {r \in DOMAIN Discount :
                  \E l \in DOMAIN q.lists : r <= Len(q.lists[l]) /\ q.lists[l][r] = node}
  IN IF Contains(q.named, node) THEN Discount[1]
     ELSE IF ranks = {} THEN 0
     ELSE Discount[CHOOSE r \in ranks : \A other \in ranks : r <= other]

\* worth, of a path of `hops` from `origin`: it halves with every hop, and rounds.
Worth(q, confidence, hops, origin) ==
  (confidence * Relevance(q, origin)) \div 2 ^ (hops - 1)

-----------------------------------------------------------------------------
(* What a hop reads.                                                       *)

\* Edges are walked both ways.
Touches(edge, node) == node \in {edge.from, edge.to}
OtherEnd(edge, node) == IF edge.from = node THEN edge.to ELSE edge.from

\* The order of what ORDER BY and Unread know: most confident, then the other end.
Stronger(confidence, end, confidence2, end2) ==
  confidence > confidence2 \/ (confidence = confidence2 /\ end < end2)

\* crossing_order, of two edges as `node` sees them.
Before(node, e, f) ==
  LET Key(x) == <<OtherEnd(x, node), x.kind, x.from>>
  IN \/ e.confidence > f.confidence
     \/ /\ e.confidence = f.confidence
        /\ \E i \in 1 .. 3 : /\ Key(e)[i] < Key(f)[i]
                             /\ \A j \in 1 .. i - 1 : Key(e)[j] = Key(f)[j]

InOrder(set, Less(_, _)) ==
  [i \in 1 .. Cardinality(set) |->
     CHOOSE x \in set : Cardinality({y \in set : Less(y, x)}) = i - 1]

Crossings(edges, node) ==
  InOrder({e \in edges : Touches(e, node)}, LAMBDA e, f : Before(node, e, f))

EveryEdge(positions) == {e \in graph : \E node \in positions : Touches(e, node)}

\* One side of a topic, outward or inward: its edges that way, and the strongest of
\* them.  ORDER BY stops at the other end, so of two kinds to it either comes first.
Side(node, outward) == {e \in graph : node = IF outward THEN e.from ELSE e.to}
Strongest(node, outward, ascending) ==
  LET Less(e, f) ==
        LET there == OtherEnd(e, node)
        IN \/ Stronger(e.confidence, there, f.confidence, OtherEnd(f, node))
           \/ /\ e.confidence = f.confidence /\ there = OtherEnd(f, node)
              /\ IF ascending THEN e.kind < f.kind ELSE e.kind > f.kind
  IN FirstFew(InOrder(Side(node, outward), Less), PerTopic)

\* Where a topic's read stopped: the last crossing of a side that was cut, the
\* earlier one when both were.
CutOf(node, sides) ==
  LET lasts == {[confidence |-> Last(side).confidence, after |-> OtherEnd(Last(side), node)] :
                  side \in {s \in sides : Len(s) >= PerTopic}}
  IN {last \in lasts : \A other \in lasts :
        ~Stronger(other.confidence, other.after, last.confidence, last.after)}

\* A mutant: the pairs are not read.
BetweenNothing(some, others) == {}

Between(some, others) ==
  {e \in graph : \/ e.from \in some /\ e.to \in others
                 \/ e.to \in some /\ e.from \in others}

\* strongest_edges: the strongest of each topic, every edge between a topic that
\* was cut and any topic read, and the cuts.
StrongestEdges(positions, ascending) ==
  LET sides(node) == {Strongest(node, outward, ascending) : outward \in BOOLEAN}
      read == UNION {ToSet(side) : side \in UNION {sides(node) : node \in positions}}
      cut == {node \in positions : CutOf(node, sides(node)) # {}}
      touched == UNION {{e.from, e.to} : e \in read}
  IN [edges |-> read \cup Between(cut, touched),
      cuts |-> [node \in cut |-> CHOOSE c \in CutOf(node, sides(node)) : TRUE]]

-----------------------------------------------------------------------------
(* A walk.                                                                 *)

Arrival(step, edge, hop) ==
  LET there == OtherEnd(edge, step.topic)
  IN [topic |-> there, origin |-> step.origin, via |-> step.topic, hops |-> hop,
      kind |-> edge.kind, confidence |-> edge.confidence, outbound |-> edge.to = there]

\* Never back to the start, nor straight back along the edge just taken.
Arrivals(step, edges, hop) ==
  SelectSeq([i \in DOMAIN Crossings(edges, step.topic) |->
               Arrival(step, Crossings(edges, step.topic)[i], hop)],
            LAMBDA a : hop = 1 \/ a.topic \notin {step.origin, step.via})

\* The first arrival stays, unless one of the same hop is more confident.
Settle(reached, arrival) ==
  IF \E held \in reached : /\ held.topic = arrival.topic
                           /\ held.hops < arrival.hops \/ held.confidence >= arrival.confidence
    THEN reached
    ELSE {held \in reached : held.topic # arrival.topic} \cup {arrival}

\* cross: every arrival in order, once for each topic and start.
Cross(walk, edges) ==
  LET Take(w, a) ==
        IF <<a.topic, a.origin>> \in w.seen THEN w
        ELSE [w EXCEPT !.seen = @ \cup {<<a.topic, a.origin>>},
                       !.reached = Settle(@, a),
                       !.frontier = Append(@, a)]
  IN FoldLeft(Take, [walk EXCEPT !.frontier = <<>>],
              FlattenSeq([i \in DOMAIN walk.frontier |->
                            Arrivals(walk.frontier[i], edges, walk.hop + 1)]))

Enough(walk) == Cardinality(walk.reached) >= question.keep

\* The next frontier, the most confident of it first and no more than it may hold.
Onwards(walk) ==
  LET most == {walk.frontier[i].confidence : i \in DOMAIN walk.frontier}
      levels == InOrder(most, LAMBDA c, d : c > d)
      sorted == FlattenSeq([i \in DOMAIN levels |->
                   SelectSeq(walk.frontier, LAMBDA a : a.confidence = levels[i])])
  IN [walk EXCEPT
        !.hop = @ + 1,
        !.frontier = FirstFew(sorted, MaxFrontier),
        !.over = walk.frontier = <<>> \/ Enough(walk) \/ walk.hop + 1 = question.depth]

Standing(walk) == {walk.frontier[i].topic : i \in DOMAIN walk.frontier}

UnreadAfter(walk, cuts) ==
  {[hops |-> walk.hop + 1, via |-> node, confidence |-> cuts[node].confidence,
    after |-> cuts[node].after,
    origins |-> {walk.frontier[i].origin :
                   i \in {j \in DOMAIN walk.frontier : walk.frontier[j].topic = node}}]
   : node \in DOMAIN cuts}

HopInFull(walk) == Onwards(Cross(walk, EveryEdge(Standing(walk))))

\* A cut hop stands only if the walk stops there: past it, the hop is read again
\* in full.
HopBounded(walk, ascending) ==
  LET read == StrongestEdges(Standing(walk), ascending)
      crossed == Cross(walk, read.edges)
      stops == walk.hop + 1 = question.depth \/ Enough(crossed)
  IN IF DOMAIN read.cuts = {} \/ stops
       THEN Onwards([crossed EXCEPT !.unread = @ \cup UnreadAfter(walk, read.cuts)])
       ELSE HopInFull(walk)

-----------------------------------------------------------------------------
(* Questions and hops.                                                     *)

WalkFrom(q) ==
  [hop |-> 0, reached |-> {}, seen |-> {}, unread |-> {},
   frontier |-> [i \in DOMAIN Seeds(q) |->
                   [topic |-> Seeds(q)[i], origin |-> Seeds(q)[i], via |-> Seeds(q)[i]]],
   over |-> Seeds(q) = <<>> \/ q.depth = 0]

NoQuestion == [named |-> <<>>, lists |-> <<>>, standing |-> {}, depth |-> 0, keep |-> 0]

Unasked == question = NoQuestion /\ bounded = WalkFrom(NoQuestion) /\ full = bounded

WalkInit == graph \in Graphs /\ Unasked

Asking(q) ==
  /\ question' = q
  /\ bounded' = WalkFrom(q)
  /\ full' = WalkFrom(q)
  /\ UNCHANGED graph

Ask == question = NoQuestion /\ \E q \in Questions : Asking(q)
Answer == question # NoQuestion /\ bounded.over /\ full.over /\ Asking(NoQuestion)

Hop ==
  /\ ~(bounded.over /\ full.over)
  /\ \E ascending \in BOOLEAN :
       bounded' = IF bounded.over THEN bounded ELSE HopBounded(bounded, ascending)
  /\ full' = IF full.over THEN full ELSE HopInFull(full)
  /\ UNCHANGED <<graph, question>>

WalkNext == Ask \/ Hop \/ Answer
WalkSpec == WalkInit /\ [][WalkNext]_walkVars

-----------------------------------------------------------------------------
(* What the caller keeps.                                                  *)

Rate(a) == Worth(question, a.confidence, a.hops, a.origin)

Best(walk) ==
  LET Better(one, other) == Stronger(Rate(one), one.topic, Rate(other), other.topic)
  IN FirstFew(InOrder(walk.reached, Better), question.keep)

\* A mutant: what is left unread cannot tie with the last kept from further on.
SettledAtTheFloor(walk) ==
  \/ walk.unread = {} \/ question.keep = 0
  \/ /\ Cardinality(walk.reached) >= question.keep
     /\ \A u \in walk.unread : \A origin \in u.origins :
          LET last == Last(Best(walk))
              bound == Worth(question, u.confidence, u.hops, origin)
          IN Rate(last) > bound \/ (Rate(last) = bound /\ last.topic <= u.after)

\* Walk::strongest, whether what was left unread cannot change what is kept.
Settled(walk) ==
  \/ walk.unread = {} \/ question.keep = 0
  \/ /\ Cardinality(walk.reached) >= question.keep
     /\ LET last == Last(Best(walk))
            floor == Rate(last)
        IN \A u \in walk.unread : \A origin \in u.origins :
             LET bound == Worth(question, u.confidence, u.hops, origin)
                 below == Worth(question, u.confidence - 1, u.hops, origin)
             IN floor > bound \/ (floor = bound /\ last.topic <= u.after /\ below < floor)

-----------------------------------------------------------------------------
(* Properties.                                                             *)

\* Every topic the bounded walk reached it reached as the full walk does (the same
\* hop, start and last edge), and every topic it missed lies behind a cut it
\* reports: at that hop, through that topic, from one of those starts, after the
\* last crossing read (the claims of Walk and Unread in graph.rs).
BoundedIsExact ==
  bounded.over /\ full.over =>
    /\ bounded.reached \subseteq full.reached
    /\ \A missed \in full.reached \ bounded.reached :
         \E u \in bounded.unread :
           /\ u.hops = missed.hops /\ u.via = missed.via /\ missed.origin \in u.origins
           /\ Stronger(u.confidence, u.after, missed.confidence, missed.topic)

\* What recall keeps of a bounded walk it calls settled is what it would have kept
\* of the full one: a hub's unread edges never change an answer (Walk::strongest).
RecallIsExact ==
  bounded.over /\ full.over /\ Settled(bounded) => Best(bounded) = Best(full)

=============================================================================
