------------------------------- MODULE Search --------------------------------
(***************************************************************************)
(* One search (ranked and fused of crates/engine/src/engine.rs): the       *)
(* channels' recall (crates/index/src/projection.rs), what the ledger says *)
(* of their candidates, the walk over the graph (Walk), fusion             *)
(* (crates/core/src/fusion.rs), the reranker's pass over the head, and the *)
(* hits.  Topics are retired meanwhile: every lookup is a statement of its *)
(* own.                                                                    *)
(*                                                                         *)
(* Scores are whole numbers, a fused one rounded down to a Unit-th.  What  *)
(* a model makes of a text is any score.                                   *)
(***************************************************************************)
EXTENDS Walk

CONSTANTS
  Asks,          \* the searches: what the index holds for a query, Depths.rerank, its limit
  ChannelDepth,  \* Depths.channel
  GraphDepth,    \* Depths.graph
  Deepest,       \* DEEPEST
  Rescore,       \* RESCORE
  K,             \* DEFAULT_K
  Unit,          \* a fused score of one
  Weight,        \* of each channel
  FullWorth,     \* the worth of an edge of confidence one from a seed of relevance one
  ShownFrom,     \* GRAPH_SHOWN_FROM
  ShownAtMost,   \* GRAPH_SHOWN_AT_MOST
  FusionShare,   \* RERANK_FUSION, in Shares
  Shares,
  Ratings,       \* the scores a reranker gives
  Tokens,        \* what each topic is cut into now: the tokens of its spans
  ViewTokens,    \* VIEW_TOKENS
  Limits         \* the limits a caller may give

VARIABLES
  live,    \* the topics that stand for something
  search   \* the search

searchVars == <<live, search>>

IndexChannel == {"segmented", "ngram", "vector"}
Channel == IndexChannel \cup {"graph"}

Least(one, other) == IF one < other THEN one ELSE other

\* `seq` in the order `Earlier` puts its positions.
Ordered(seq, Earlier(_, _)) ==
  LET at == InOrder(DOMAIN seq, Earlier) IN [i \in DOMAIN seq |-> seq[at[i]]]

Listed(list) == {list[i].topic : i \in DOMAIN list}

-----------------------------------------------------------------------------
(* Recall.                                                                 *)

\* Each topic once, by the best of its spans.
Collapse(spans) ==
  FoldLeft(LAMBDA done, s : IF s.topic \in Listed(done) THEN done ELSE Append(done, s),
           <<>>, spans)

\* recall_fts: equal scores in the order of their keys.
RankedText(ranking, depth) ==
  LET docs == FirstFew(ranking, depth)
      Earlier(i, j) ==
        LET Key(d) == <<-d.score, d.topic, d.span>>
        IN \E n \in 1 .. 3 : /\ Key(docs[i])[n] < Key(docs[j])[n]
                             /\ \A m \in 1 .. n - 1 : Key(docs[i])[m] = Key(docs[j])[m]
  IN Collapse(Ordered(docs, Earlier))

\* recall_dense: scored again exactly, and what the cosine cannot tell apart stays
\* as it was proposed.
RankedDense(proposed, depth) ==
  LET docs == FirstFew(proposed, depth * Rescore)
      Earlier(i, j) == docs[i].score > docs[j].score \/ (docs[i].score = docs[j].score /\ i < j)
  IN Collapse(Ordered(docs, Earlier))

\* deepening: twice as deep while topics crowd the list and the index has more.
DeepestAsk(spans, perAsk, Ranked(_, _)) ==
  LET depth(i) == ChannelDepth * 2 ^ i
      stops(i) == \/ Len(Ranked(spans, depth(i))) >= ChannelDepth
                  \/ Len(spans) < depth(i) * perAsk
                  \/ depth(i) >= ChannelDepth * Deepest
  IN depth(CHOOSE i \in 0 .. Deepest : stops(i) /\ \A j \in 0 .. i - 1 : ~stops(j))

RecallDense(proposed) ==
  FirstFew(RankedDense(proposed, DeepestAsk(proposed, Rescore, RankedDense)), ChannelDepth)

\* A mutant: as deep as it is asked, whatever the grain.
RecallTextShallow(ranking, cut) == FirstFew(RankedText(ranking, ChannelDepth), ChannelDepth)

\* deepest: one ask, as deep as deepening goes where memories are cut.
RecallText(ranking, cut) ==
  FirstFew(RankedText(ranking, IF cut THEN ChannelDepth * Deepest ELSE ChannelDepth),
           ChannelDepth)

-----------------------------------------------------------------------------
(* Fusion.                                                                 *)

\* Only the graph's scores mean the same on every query.
Calibrated(c) == c = "graph"

\* rescale: the scale of a channel's scores.  It has no width where they cannot tell.
Scale(c, list) ==
  LET scores == {list[i].score : i \in DOMAIN list}
  IN IF Calibrated(c) THEN [low |-> 0, width |-> FullWorth]
     ELSE [low |-> Min(scores), width |-> Max(scores) - Min(scores)]

\* A mutant: the scores on their scale, from nothing.
ShareUnbanded(c, list, i) ==
  LET scale == Scale(c, list)
  IN IF scale.width = 0 THEN Unit \div (K + i)
     ELSE (Unit * (list[i].score - scale.low)) \div ((K + 1) * scale.width)

\* share: where a score falls in the band rank fusion spans over as many candidates,
\* or its rank where the scores cannot tell.
Share(c, list, i) ==
  LET scale == Scale(c, list)
      n == Len(list)
  IN IF scale.width = 0 THEN Unit \div (K + i)
     ELSE (Unit * ((K + 1) * scale.width + (n - 1) * (list[i].score - scale.low)))
            \div ((K + n) * (K + 1) * scale.width)

Contribution(lists, c, topic) ==
  MapThenSumSet(LAMBDA i : IF lists[c][i].topic = topic
                             THEN Weight[c] * Share(c, lists[c], i) ELSE 0,
                DOMAIN lists[c])
FusedScore(lists, topic) ==
  MapThenSumSet(LAMBDA c : Contribution(lists, c, topic), Channel)

\* The channels that name a topic: one worth nothing names none.
NamedBy(lists, topic) == {c \in Channel : Weight[c] > 0 /\ topic \in Listed(lists[c])}

\* best_span: the most weight, the earlier on a tie, 0 when none voted.
BestSpan(lists, topic) ==
  LET votes == {<<c, i>> \in IndexChannel \X (1 .. ChannelDepth) :
                  Weight[c] > 0 /\ i \in DOMAIN lists[c] /\ lists[c][i].topic = topic}
      spanOf(v) == lists[v[1]][v[2]].span
      weight(s) == MapThenSumSet(LAMBDA v : IF spanOf(v) = s THEN Contribution(lists, v[1], topic)
                                                             ELSE 0, votes)
      spans == {spanOf(v) : v \in votes}
  IN IF spans = {} THEN 0
     ELSE CHOOSE s \in spans : \A other \in spans :
            weight(s) > weight(other) \/ (weight(s) = weight(other) /\ s <= other)

\* fuse and sort_results.
Fuse(lists) ==
  LET topics == {t \in Node : NamedBy(lists, t) # {}}
      order == InOrder(topics, LAMBDA t, u : Stronger(FusedScore(lists, t), t,
                                                      FusedScore(lists, u), u))
  IN [i \in DOMAIN order |->
        [topic |-> order[i], score |-> FusedScore(lists, order[i]),
         span |-> BestSpan(lists, order[i]), by |-> NamedBy(lists, order[i])]]

-----------------------------------------------------------------------------
(* The reranker's pass.                                                    *)

\* The walk's arrival at a topic the graph channel kept.
PathTo(paths, topic) == CHOOSE p \in paths : p.topic = topic

\* rerankable: the whole head, and the strongest finds of the graph alone below it,
\* each weaker for every other that came through the same topic.
Rerankable(results, paths) ==
  LET head == Least(search.ask.head, Len(results))
      path(at) == PathTo(paths, results[at].topic)
      eligible == {at \in head + 1 .. Len(results) :
                     results[at].by = {"graph"} /\ Rate(path(at)) >= ShownFrom}
      sharing(at) == Cardinality({other \in eligible : path(other).via = path(at).via})
      strength(at, other) == Rate(path(at)) * Rate(path(at)) * sharing(other)
      finds == InOrder(eligible, LAMBDA i, j : \/ strength(i, j) > strength(j, i)
                                               \/ strength(i, j) = strength(j, i) /\ i < j)
  IN InOrder((1 .. head) \cup ToSet(FirstFew(finds, ShownAtMost)), LAMBDA i, j : i < j)

CanBeSeen(shown, limit) == Len(shown) >= 2 /\ Head(shown) <= limit

\* score_blend_order: both scores on the scale of this shortlist, ties as they stood.
BlendOrder(fusedScores, model) ==
  LET spread(values) == Max(Range(values)) - Min(Range(values))
      above(values, i) == values[i] - Min(Range(values))
      \* over spread(fusedScores) * spread(model), a flat list being worth nothing
      blended(i) ==
        LET f == spread(fusedScores)  m == spread(model)
        IN FusionShare * above(fusedScores, i) * (IF m = 0 THEN 1 ELSE m)
             + (Shares - FusionShare) * above(model, i) * (IF f = 0 THEN 1 ELSE f)
  IN InOrder(DOMAIN model,
             LAMBDA i, j : blended(i) > blended(j) \/ (blended(i) = blended(j) /\ i < j))

\* A mutant: every one shown goes to a place one of them held.
PlaceInPlace(list, shown, best) ==
  [slot \in DOMAIN list |->
     IF Contains(shown, slot)
       THEN list[shown[best[CHOOSE i \in DOMAIN shown : shown[i] = slot]]]
       ELSE list[slot]]

\* place: the shown fill the head's slots and, after it, one slot for each find from
\* below, best first; nothing else changes its order.
Place(list, shown, best) ==
  LET head == Least(search.ask.head, Len(list))
      below == SelectSeq(shown, LAMBDA at : at > head)
      rest == SelectSeq([i \in 1 .. Len(list) - head |-> head + i],
                        LAMBDA at : ~Contains(shown, at))
      slots == SelectSeq(shown, LAMBDA at : at <= head) \o [i \in DOMAIN below |-> head + i]
  IN [slot \in DOMAIN list |->
        IF Contains(slots, slot)
          THEN list[shown[best[CHOOSE i \in DOMAIN slots : slots[i] = slot]]]
        ELSE IF slot <= head THEN list[slot]
        ELSE list[rest[slot - head - Len(below)]]]

\* What a caller who asked for `limit` is given, had the model rated so.
Reranked(results, paths, ratings, limit) ==
  LET shown == Rerankable(results, paths)
      scores == [i \in DOMAIN shown |-> results[shown[i]].score]
  IN IF CanBeSeen(shown, limit)
       THEN Place(results, shown, BlendOrder(scores, ratings))
       ELSE results

-----------------------------------------------------------------------------
(* Windows.                                                                *)

RunTokens(spans, run) == MapThenSumSet(LAMBDA i : spans[i], run[1] .. run[2])

\* A mutant: stops at the first neighbour that does not fit.
GrowUntilOneDoesNot(spans, at) ==
  LET Grown(run) ==
        LET before == [ok |-> run[1] > 1, run |-> <<run[1] - 1, run[2]>>]
            after == [ok |-> run[2] < Len(spans), run |-> <<run[1], run[2] + 1>>]
            tries == SelectSeq(IF at - run[1] <= run[2] - at THEN <<before, after>>
                                                             ELSE <<after, before>>,
                               LAMBDA t : t.ok)
        IN IF tries = <<>> \/ RunTokens(spans, Head(tries).run) > ViewTokens THEN run
           ELSE Head(tries).run
  IN FoldLeft(LAMBDA run, step : Grown(run), <<at, at>>, spans)

\* grow: one span at a time, the nearer side first, while it fits.
Grow(spans, at) ==
  LET Grown(run) ==
        LET before == [ok |-> run[1] > 1, run |-> <<run[1] - 1, run[2]>>]
            after == [ok |-> run[2] < Len(spans), run |-> <<run[1], run[2] + 1>>]
            tries == SelectSeq(IF at - run[1] <= run[2] - at THEN <<before, after>>
                                                             ELSE <<after, before>>,
                               LAMBDA t : t.ok /\ RunTokens(spans, t.run) <= ViewTokens)
        IN IF tries = <<>> THEN run ELSE Head(tries).run
  IN FoldLeft(LAMBDA run, step : Grown(run), <<at, at>>, spans)

\* Window::view: nothing of a memory of one span, or of a span the ledger no longer has.
View(topic, span) ==
  IF Len(Tokens[topic]) = 1 \/ span + 1 > Len(Tokens[topic]) THEN <<>>
  ELSE Grow(Tokens[topic], span + 1)

-----------------------------------------------------------------------------
(* The search, statement by statement.                                     *)

NoAsk == [segmented |-> <<>>, ngram |-> <<>>, vector |-> <<>>, cut |-> FALSE,
          named |-> <<>>, head |-> 1, limit |-> 0]
NoSearch == [at |-> "idle", ask |-> NoAsk, lists |-> <<>>, working |-> {}, paths |-> {},
          results |-> <<>>, ratings |-> <<>>, hits |-> <<>>]

SearchInit ==
  /\ graph \in Graphs /\ Unasked
  /\ live = Node
  /\ search = NoSearch

\* A write elsewhere: the topic stands for nothing any more.
RetireAny == \E topic \in live : live' = live \ {topic} /\ UNCHANGED <<search, walkVars>>

\* The index is read under one lock: the three lists are of one state of it.
Recall ==
  /\ search.at = "idle"
  /\ \E ask \in Asks :
       search' = [search EXCEPT
         !.at = "recalled", !.ask = ask,
         !.lists = [segmented |-> RecallText(ask.segmented, ask.cut),
                    ngram |-> RecallText(ask.ngram, ask.cut),
                    vector |-> RecallDense(ask.vector),
                    graph |-> <<>>]]
  /\ UNCHANGED <<live, walkVars>>

Candidates ==
  BestFirst([i \in 1 .. 3 |->
    LET list == search.lists[<<"segmented", "ngram", "vector">>[i]]
    IN [rank \in DOMAIN list |-> list[rank].topic]])

Resolve ==
  /\ search.at = "recalled"
  /\ search' = [search EXCEPT !.at = "resolved", !.working = ToSet(Candidates) \cap live]
  /\ UNCHANGED <<live, walkVars>>

\* recall_graph: what the query names is looked up too, and seeds the walk first.
Expand ==
  /\ search.at = "resolved"
  /\ LET working == search.working \cup (ToSet(search.ask.named) \cap live)
         TopicsIn(c) == [rank \in DOMAIN search.lists[c] |-> search.lists[c][rank].topic]
     IN /\ search' = [search EXCEPT !.at = "walking", !.working = working]
        /\ Asking([named |-> search.ask.named,
                   lists |-> <<TopicsIn("segmented"), TopicsIn("ngram"), TopicsIn("vector")>>,
                   standing |-> working, depth |-> GraphDepth, keep |-> ChannelDepth])
  /\ UNCHANGED live

WalkOn == search.at = "walking" /\ Hop /\ UNCHANGED searchVars

\* What the walk kept and still stands is the graph's list; what was never resolved
\* is not ranked.
Gather ==
  /\ search.at = "walking"
  /\ bounded.over /\ full.over
  /\ LET kept == SelectSeq(Best(IF Settled(bounded) THEN bounded ELSE full),
                           LAMBDA a : a.topic \in live)
         lists == [search.lists EXCEPT
                     !["graph"] = [i \in DOMAIN kept |->
                                     [topic |-> kept[i].topic, score |-> Rate(kept[i]), span |-> 0]]]
         working == search.working \cup Listed(kept)
     IN search' = [search EXCEPT
          !.at = "fused", !.lists = lists, !.working = working, !.paths = ToSet(kept),
          !.results = SelectSeq(Fuse(lists), LAMBDA r : r.topic \in working)]
  /\ UNCHANGED <<live, walkVars>>

\* The first `limit` as hits, a find with the memory its walk started from.
HitsOf(results, limit) ==
  [i \in 1 .. Least(limit, Len(results)) |->
     LET r == results[i]
         paths == {p \in search.paths : p.topic = r.topic /\ p.origin \in search.working}
     IN [topic |-> r.topic, window |-> View(r.topic, r.span),
         seed |-> {p.origin : p \in paths}]]

Rerank ==
  /\ search.at = "fused"
  /\ \E ratings \in [DOMAIN Rerankable(search.results, search.paths) -> Ratings] :
       search' = [search EXCEPT
         !.at = "answered", !.ratings = ratings,
         !.hits = HitsOf(Reranked(search.results, search.paths, ratings, search.ask.limit),
                         search.ask.limit)]
  /\ UNCHANGED <<live, walkVars>>

\* Answered, or failed: an embedding, a statement or the reranker returned an error.
Return ==
  /\ search.at # "idle"
  /\ search' = NoSearch
  /\ Asking(NoQuestion)
  /\ UNCHANGED live

SearchNext == RetireAny \/ Recall \/ Resolve \/ Expand \/ WalkOn \/ Gather \/ Rerank \/ Return
SearchSpec == SearchInit /\ [][SearchNext]_<<searchVars, walkVars>>

-----------------------------------------------------------------------------
(* Properties.                                                             *)

Untied(ranking) == \A i, j \in DOMAIN ranking : i # j => ranking[i].score # ranking[j].score

\* One deep lexical ask finds what deepening until enough topics collapsed out would
\* have found, unless scores tie (deepest's comment); the vector channel comes back
\* short only when it has looked at all the index has or as deep as it ever looks;
\* and each topic it keeps is ranked by the best of its spans that were proposed.
RecallsAreDeep ==
  search.at = "recalled" =>
    LET ask == search.ask
        lookedAt == FirstFew(ask.vector, ChannelDepth * Deepest * Rescore)
    IN /\ \A c \in {"segmented", "ngram"} :
            Untied(ask[c]) /\ (ask.cut \/ Cardinality(Listed(ask[c])) = Len(ask[c])) =>
              search.lists[c] =
                FirstFew(RankedText(ask[c], DeepestAsk(ask[c], 1, RankedText)), ChannelDepth)
       /\ Len(search.lists.vector) >= Least(ChannelDepth, Cardinality(Listed(lookedAt)))

\* A topic every channel puts level with another or ahead of it, and some channel
\* ahead, is ahead of it once fused: no scale of scores and no channel's width turns
\* agreement around (Combine::Banded).
AgreementWins ==
  search.at = "fused" =>
    LET lists == search.lists
        RankIn(c, t) == IF t \in Listed(lists[c])
                          THEN CHOOSE i \in DOMAIN lists[c] : lists[c][i].topic = t ELSE 0
        Score(c, t) == lists[c][RankIn(c, t)].score
        Ahead(c, t, u) == /\ RankIn(c, t) > 0
                          /\ \/ RankIn(c, u) = 0 
                             \/ Score(c, t) > Score(c, u)
        Level(c, t, u) == \/ RankIn(c, t) = 0 /\ RankIn(c, u) = 0
                          \/ /\ RankIn(c, t) > 0 /\ RankIn(c, u) > 0
                             /\ Score(c, t) = Score(c, u)
                             /\ c = "graph" \/ RankIn(c, t) < RankIn(c, u)
    IN \A i, j \in DOMAIN search.results :
         LET t == search.results[i].topic
             u == search.results[j].topic
         IN (/\ \A c \in Channel : Ahead(c, t, u) \/ Level(c, t, u)
             /\ \E c \in Channel : Ahead(c, t, u)) => i < j

\* The pass loses and repeats nothing, keeps the order of what it was not shown, and
\* carries nothing of the head past the finds it lets in; and a caller who asks for
\* fewer hits is given the first of those a caller who asks for more is given, though
\* the pass is skipped for one of them (can_be_seen).
PassIsContained ==
  search.at = "answered" =>
    LET old == search.results
        shown == Rerankable(old, search.paths)
        new(limit) == Reranked(old, search.paths, search.ratings, limit)
        whole == new(Max(Limits))
        head == Least(search.ask.head, Len(old))
        finds == Cardinality({i \in DOMAIN shown : shown[i] > head})
        at(r) == CHOOSE i \in DOMAIN whole : whole[i] = r
        unshown == ToSet(old) \ {old[shown[i]] : i \in DOMAIN shown}
    IN /\ ToSet(whole) = ToSet(old) /\ Len(whole) = Len(old)
       /\ SelectSeq(whole, LAMBDA r : r \in unshown) = SelectSeq(old, LAMBDA r : r \in unshown)
       /\ \A i \in 1 .. head : at(old[i]) <= head + finds
       /\ \A i \in head + 1 .. Len(old) :
            old[i] \in unshown => at(old[i]) \in i .. i + finds
       /\ \A limit \in Limits : FirstFew(new(limit), limit) = FirstFew(whole, limit)

\* A window holds the span it is about, and is either that span alone or within the
\* budget, with no room for the next span of either side.
WindowsFit ==
  \A h \in ToSet(search.hits) :
    h.window # <<>> =>
      LET spans == Tokens[h.topic]
          fits(run) == RunTokens(spans, run) <= ViewTokens
          wider == {run \in {<<h.window[1] - 1, h.window[2]>>, <<h.window[1], h.window[2] + 1>>} :
                      run[1] >= 1 /\ run[2] <= Len(spans)}
      IN /\ fits(h.window) \/ h.window[1] = h.window[2]
         /\ \A run \in wider : ~fits(run)

\* A caller is given the first of what the pass made of the results, however few were
\* asked for, each with a window that fits.
HitsAreSound == PassIsContained /\ WindowsFit

=============================================================================
