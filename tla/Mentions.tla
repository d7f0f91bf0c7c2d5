------------------------------ MODULE Mentions ------------------------------
(***************************************************************************)
(* The edges the engine derives from what memories say: restate_mentions   *)
(* and backfill_all of crates/engine/src/engine.rs, the edge statements of *)
(* crates/store/src/graph.rs they run, and run_reads of                    *)
(* crates/engine/src/cascade.rs, which runs them for the jobs of a round.  *)
(*                                                                         *)
(* A text is the set of topics whose names occur in it.  A topic's edge to *)
(* another follows from two things that change apart, its text and which   *)
(* names are filed, so two jobs make edges: the restatement a changed text *)
(* owes, and the backfill a new name owes.  Each is a row of statements    *)
(* with no transaction and no lock around them.                            *)
(*                                                                         *)
(* Only edges of the kind `mentions` are kept here, each as its live       *)
(* version: none, one derived, or one somebody linked.  An owed job is     *)
(* asked for, or claimed by a drain, and a request takes the claim away;   *)
(* the rest of the outbox is Outbox and Cascade.                           *)
(***************************************************************************)
EXTENDS Integers, FiniteSets, FiniteSetsExt

CONSTANTS
  Topics,
  Texts,     \* [Topics -> SUBSET SUBSET Topics]: what each topic can say
  Pairs,     \* the pairs of topics whose edges are followed
  Width,     \* [Topics -> Nat]: how many tokens its name has
  Gone,      \* a topic whose every state is deleted
  Absent,    \* a topic that does not exist yet
  Drains,    \* the drains, and the upkeep loop
  MaxBatch   \* how many jobs a round takes at most: BATCH, 64 in the source

Text == UNION {Texts[t] : t \in Topics}
Says == Text \cup {Gone, Absent}

Key == [kind : {"Derive", "Backfill"}, topic : Topics]
DeriveOf(t) == [kind |-> "Derive", topic |-> t]
BackfillOf(t) == [kind |-> "Backfill", topic |-> t]
TopicsOf(keys, kind) == {k.topic : k \in {j \in keys : j.kind = kind}}

ASSUME MentionsAssumption ==
  /\ IsFiniteSet(Topics)
  /\ Texts \in [Topics -> SUBSET SUBSET Topics]
  /\ Pairs \subseteq {p \in Topics \X Topics : p[1] # p[2]}
  /\ Width \in [Topics -> Nat \ {0}]
  /\ Gone # Absent /\ {Gone, Absent} \cap Text = {}
  /\ {"no", "asked"} \cap Drains = {}
  /\ MaxBatch \in Nat \ {0}

VARIABLES
  says,        \* [Topics -> Says]: what each topic currently says
  filed,       \* SUBSET Topics: topic_name_tokens
  edge,        \* [Pairs -> {"none", "derived", "linked"}]
  held,        \* [Topics -> SUBSET Topics]: the names in the text the index holds
  owed,        \* [Key -> {"no", "asked"} \cup Drains]
  remembered,  \* Engine::widest_name, 0 when it has not been asked for
  drain,       \* where each drain has got to
  overlooked,  \* pairs a probe missed or somebody unlinked
  crossed      \* pairs whose edge a drain changed after it was overtaken

\* The last two are history: no action reads them, only the properties do.
vars == <<says, filed, edge, held, owed, remembered, drain, overlooked, crossed>>
ledgerVars == <<says, filed, held, remembered>>
history == <<overlooked, crossed>>

Widest(topics) == Max({Width[t] : t \in topics} \cup {0})
Widths == {Widest(topics) : topics \in SUBSET Topics}

Resolves(text) == text \notin {Gone, Absent}
NamesIn(text) == IF Resolves(text) THEN text ELSE {}

\* The pairs of a text and one of `names` that occurs in it.
Naming(texts, names) == {p \in Pairs : p[2] \in NamesIn(texts[p[1]]) \cap names}

Phases == {"idle", "read", "widest", "names", "live", "assert", "retract", "gone",
           "probe", "states", "liveNames", "assertNames", "record"}

\* `jobs` are those of the batch and `left` those to run alone after it failed;
\* `texts` what it read of the topics it restates or backfills from, `claims`
\* the edges it asserts, and `pending` those that were not live already.  A pair
\* is `overtaken` (history too) once another drain has claimed a job that bears
\* on it since this batch began: what the batch has read of it may be stale.
Drain == [phase : Phases, jobs : SUBSET Key, left : SUBSET Key, alone : BOOLEAN,
          texts : [Topics -> Says], widest : Widths,
          claims : SUBSET Pairs, pending : SUBSET Pairs, overtaken : SUBSET Pairs]

Unread == [t \in Topics |-> Absent]
Idle == [phase |-> "idle", jobs |-> {}, left |-> {}, alone |-> FALSE,
         texts |-> Unread, widest |-> 0, claims |-> {}, pending |-> {}, overtaken |-> {}]

TypeOK ==
  /\ says \in [Topics -> Says] /\ held \in [Topics -> SUBSET Topics]
  /\ filed \subseteq Topics
  /\ edge \in [Pairs -> {"none", "derived", "linked"}]
  /\ owed \in [Key -> {"no", "asked"} \cup Drains]
  /\ remembered \in Widths
  /\ drain \in [Drains -> Drain]
  /\ \A d \in Drains : drain[d].alone => Cardinality(drain[d].jobs) <= 1
  /\ overlooked \subseteq Pairs /\ crossed \subseteq Pairs

Init ==
  /\ says = [t \in Topics |-> Absent] /\ held = [t \in Topics |-> {}]
  /\ filed = {}
  /\ edge = [p \in Pairs |-> "none"]
  /\ owed = [k \in Key |-> "no"]
  /\ remembered = 0
  /\ drain = [d \in Drains |-> Idle]
  /\ overlooked = {} /\ crossed = {}

\* What the ledger implies: an edge to each filed name a text contains.
Implied == Naming(says, filed)

-----------------------------------------------------------------------------
(* Transactions on the ledger, by any request or any other process.        *)

\* A request takes the claim away, and whatever went wrong with the pairs of a
\* topic to be restated is put right by the restatement.
Request(keys) ==
  /\ owed' = [k \in Key |-> IF k \in keys THEN "asked" ELSE owed[k]]
  /\ overlooked' = {p \in overlooked : DeriveOf(p[1]) \notin keys}
  /\ crossed' = {p \in crossed : DeriveOf(p[1]) \notin keys}

\* A name is filed once, and owes a backfill.
Files(t) == {BackfillOf(t)} \ {k \in Key : k.topic \in filed}

\* The engine that files a name raises what it remembers; another process's
\* does not.
Remember(widths) ==
  \E width \in widths : remembered' = Max({remembered, width})

\* `write`, promoted: the text, its jobs and, the first time, its name.
WriteByHand(t, text) ==
  /\ text # says[t]
  /\ says' = [says EXCEPT ![t] = text]
  /\ filed' = filed \cup {t}
  /\ Request({DeriveOf(t)} \cup Files(t))
  /\ IF t \in filed THEN UNCHANGED remembered ELSE Remember({0, Width[t]})
  /\ UNCHANGED <<edge, held, drain>>

\* A write by hand the filter holds files the name of a topic an ingest made.
WriteHeld(t) ==
  /\ says[t] # Absent /\ t \notin filed
  /\ filed' = filed \cup {t}
  /\ Request({BackfillOf(t)})
  /\ Remember({0, Width[t]})
  /\ UNCHANGED <<says, edge, held, drain>>

\* A section of a file: its name is not filed.
WriteSection(t, text) ==
  /\ text # says[t]
  /\ says' = [says EXCEPT ![t] = text]
  /\ Request({DeriveOf(t)})
  /\ UNCHANGED <<filed, edge, held, remembered, drain>>

\* A section its file no longer has, if nobody wrote it by hand.
RetireSection(t) ==
  /\ Resolves(says[t]) /\ t \notin filed
  /\ says' = [says EXCEPT ![t] = Gone]
  /\ Request({DeriveOf(t)})
  /\ UNCHANGED <<filed, edge, held, remembered, drain>>

\* `link`: supersedes whatever version is live.
Link(t, u) ==
  /\ {says[t], says[u]} \cap {Absent} = {}
  /\ edge[<<t, u>>] # "linked"
  /\ edge' = [edge EXCEPT ![<<t, u>>] = "linked"]
  /\ UNCHANGED <<ledgerVars, owed, drain, history>>

\* `unlink`: closes whatever version is live.
Unlink(t, u) ==
  /\ edge[<<t, u>>] # "none"
  /\ edge' = [edge EXCEPT ![<<t, u>>] = "none"]
  /\ overlooked' = overlooked \cup ({<<t, u>>} \cap Implied)
  /\ UNCHANGED <<ledgerVars, owed, drain, crossed>>

\* The sync a changed text owes, whole, whenever it comes: Cascade and Spans.
Sync(t) ==
  /\ held[t] # NamesIn(says[t])
  /\ held' = [held EXCEPT ![t] = NamesIn(says[t])]
  /\ UNCHANGED <<says, filed, edge, owed, remembered, drain, history>>

\* A search asks how wide a name can be once, and remembers.
SearchAsksWidest ==
  /\ remembered = 0
  /\ remembered' = Widest(filed)
  /\ UNCHANGED <<says, filed, edge, held, owed, drain, history>>

-----------------------------------------------------------------------------
(* The jobs of one round, as run_reads runs them.                          *)

At(d, phase) == drain[d].phase = phase
Has(d, kind) == TopicsOf(drain[d].jobs, kind) # {}

\* The jobs of a batch start over with these.
Batch(keys, left, alone) ==
  [Idle EXCEPT !.phase = IF TopicsOf(keys, "Derive") # {} THEN "read" ELSE "probe",
               !.jobs = keys, !.left = left, !.alone = alone]

Step(d, changes) ==
  /\ drain' = [drain EXCEPT ![d] = changes]
  /\ UNCHANGED <<ledgerVars, owed>>

\* The jobs that make, or close, the edge of a pair.
BearsOn(keys, p) == DeriveOf(p[1]) \in keys \/ BackfillOf(p[2]) \in keys

\* Claims what is asked for, or was claimed so long ago that the lease ran out,
\* whoever is still at work on what was read before.
Claim(d, keys) ==
  /\ At(d, "idle")
  /\ keys # {} /\ Cardinality(keys) <= MaxBatch
  /\ \A k \in keys : owed[k] # "no"
  /\ owed' = [k \in Key |-> IF k \in keys THEN d ELSE owed[k]]
  /\ drain' = [e \in Drains |->
       IF e = d THEN Batch(keys, {}, FALSE)
       ELSE [drain[e] EXCEPT
               !.overtaken = @ \cup {p \in Pairs : /\ BearsOn(keys, p)
                                                   /\ BearsOn(drain[e].jobs, p)}]]
  /\ UNCHANGED <<ledgerVars, edge, history>>

\* The states to restate, as the ledger has them now.
ReadStates(d) ==
  /\ At(d, "read")
  /\ Step(d, [drain[d] EXCEPT
       !.phase = "widest",
       !.texts = [t \in Topics |-> IF t \in TopicsOf(drain[d].jobs, "Derive")
                                   THEN says[t] ELSE Absent]])
  /\ UNCHANGED <<edge, history>>

\* Mutant: the widest name as the search path remembers it.
ReadWidestRemembered(d) ==
  /\ At(d, "widest")
  /\ Step(d, [drain[d] EXCEPT
       !.phase = "names",
       !.widest = IF remembered > 0 THEN remembered ELSE Widest(filed)])
  /\ UNCHANGED <<edge, history>>

\* The widest name, asked afresh.
ReadWidest(d) ==
  /\ At(d, "widest")
  /\ Step(d, [drain[d] EXCEPT !.phase = "names", !.widest = Widest(filed)])
  /\ UNCHANGED <<edge, history>>

\* The names that are runs of the texts, no wider than that.
ReadNames(d) ==
  /\ At(d, "names")
  /\ Step(d, [drain[d] EXCEPT
       !.phase = "live",
       !.widest = 0,
       !.claims = Naming(drain[d].texts,
                         {t \in filed : Width[t] <= drain[d].widest})])
  /\ UNCHANGED <<edge, history>>

\* assert_edges reads, outside its transaction, which claims are live already.
ReadLive(d) ==
  \E from \in {"live", "liveNames"} :
    /\ At(d, from)
    /\ Step(d, [drain[d] EXCEPT
         !.phase = IF from = "live" THEN "assert" ELSE "assertNames",
         !.pending = {p \in drain[d].claims : edge[p] # "derived"}])
    /\ UNCHANGED <<edge, history>>

AfterReads(d) == IF Has(d, "Backfill") THEN "probe" ELSE "record"

\* A drain that has been overtaken on a pair and changes its edge crosses.
CrossIfLate(d) == crossed' = crossed \cup {p \in drain[d].overtaken : edge'[p] # edge[p]}

\* assert_within: under the identities' locks, a version is appended for each
\* claim still not live, over whatever version is.
AssertEdges(d) ==
  \E from \in {"assert", "assertNames"} :
    /\ At(d, from)
    /\ edge' = [p \in Pairs |-> IF p \in drain[d].pending THEN "derived" ELSE edge[p]]
    /\ Step(d, [drain[d] EXCEPT
         !.phase = IF from = "assert" THEN "retract" ELSE "record",
         !.claims = IF from = "assert" THEN @ ELSE {},
         !.pending = {}])
    /\ CrossIfLate(d)
    /\ UNCHANGED overlooked

\* Closes the derived edges out of these topics that are not claimed.
Retract(d, topics) ==
  edge' = [p \in Pairs |->
             IF p[1] \in topics /\ p \notin drain[d].claims /\ edge[p] = "derived"
             THEN "none" ELSE edge[p]]

RestatedBy(d) == {t \in TopicsOf(drain[d].jobs, "Derive") : Resolves(drain[d].texts[t])}

\* Mutant: edges are asserted and never closed.
RetractUnclaimedNever(d) ==
  /\ At(d, "retract")
  /\ Step(d, [drain[d] EXCEPT !.phase = "gone"])
  /\ UNCHANGED <<edge, history>>

RetractUnclaimed(d) ==
  /\ At(d, "retract")
  /\ Retract(d, RestatedBy(d))
  /\ Step(d, [drain[d] EXCEPT !.phase = "gone"])
  /\ CrossIfLate(d)
  /\ UNCHANGED overlooked

\* A topic that resolves to nothing claims nothing.
RetractGone(d) ==
  /\ At(d, "gone")
  /\ Retract(d, TopicsOf(drain[d].jobs, "Derive") \ RestatedBy(d))
  /\ Step(d, [drain[d] EXCEPT !.phase = AfterReads(d),
                                !.texts = Unread, !.claims = {}])
  /\ CrossIfLate(d)
  /\ UNCHANGED overlooked

\* The index proposes who names each new topic.  A memory it does not hold yet,
\* or holds under another text, it does not propose.
Probe(d) ==
  /\ At(d, "probe")
  /\ LET names == TopicsOf(drain[d].jobs, "Backfill")
         candidates == {p \in Pairs : p[2] \in held[p[1]] \cap names}
     IN  /\ Step(d, [drain[d] EXCEPT !.phase = "states", !.claims = candidates])
         /\ overlooked' = overlooked \cup (Naming(says, names) \ candidates)
  /\ UNCHANGED <<edge, crossed>>

\* The candidates' current states dispose: only a text that names the topic.
ReadCandidates(d) ==
  /\ At(d, "states")
  /\ Step(d, [drain[d] EXCEPT
       !.phase = "liveNames",
       !.claims = @ \cap Naming(says, TopicsOf(drain[d].jobs, "Backfill"))])
  /\ UNCHANGED <<edge, history>>

\* The next job of a batch that failed, or the end of the round.
Onward(d) ==
  IF drain[d].left = {}
  THEN drain' = [drain EXCEPT ![d] = Idle]
  ELSE \E k \in drain[d].left :
         drain' = [drain EXCEPT ![d] = Batch({k}, drain[d].left \ {k}, TRUE)]

\* Completes each job whose claim nobody has taken since.  The code records the
\* whole round in one statement; recording a job alone is recording it earlier.
Record(d) ==
  /\ At(d, "record")
  /\ owed' = [k \in Key |-> IF k \in drain[d].jobs /\ owed[k] = d THEN "no" ELSE owed[k]]
  /\ Onward(d)
  /\ UNCHANGED <<ledgerVars, edge, history>>

\* Mutant: a batch that failed is not taken apart.
FailWhole(d) ==
  /\ drain[d].phase \notin {"idle", "record"}
  /\ drain' = [drain EXCEPT ![d] = [Batch(drain[d].jobs, {}, FALSE) EXCEPT !.alone = TRUE]]
  /\ UNCHANGED <<ledgerVars, owed, edge, history>>

\* A statement fails: the jobs of a batch run again one at a time, and a job
\* that fails alone goes back to the outbox, whoever claims it by then.
Fail(d) ==
  /\ drain[d].phase \notin {"idle", "record"}
  /\ IF drain[d].alone
     THEN /\ owed' = [k \in Key |-> IF k \in drain[d].jobs /\ owed[k] \in Drains
                                    THEN "asked" ELSE owed[k]]
          /\ Onward(d)
     ELSE /\ \E k \in drain[d].jobs :
               drain' = [drain EXCEPT ![d] = Batch({k}, drain[d].jobs \ {k}, TRUE)]
          /\ UNCHANGED owed
  /\ UNCHANGED <<ledgerVars, edge, history>>

\* The process dies; what it claimed stays claimed until the lease runs out.
Kill ==
  /\ drain' = [d \in Drains |-> Idle]
  /\ remembered' = 0
  /\ UNCHANGED <<says, filed, edge, held, owed, history>>

-----------------------------------------------------------------------------

Environment ==
  \/ \E t \in Topics, text \in Text :
       /\ text \in Texts[t]
       /\ WriteByHand(t, text) \/ WriteSection(t, text)
  \/ \E t \in Topics : WriteHeld(t) \/ RetireSection(t)
  \/ \E p \in Pairs : Link(p[1], p[2]) \/ Unlink(p[1], p[2])
  \/ SearchAsksWidest
  \/ \E d \in Drains : Fail(d)
  \/ Kill

Running(d) ==
  \/ ReadStates(d) \/ ReadWidest(d) \/ ReadNames(d) \/ ReadLive(d)
  \/ AssertEdges(d) \/ RetractUnclaimed(d) \/ RetractGone(d)
  \/ Probe(d) \/ ReadCandidates(d) \/ Record(d)

Claims == \E d \in Drains, keys \in SUBSET Key : Claim(d, keys)

Next ==
  \/ Environment
  \/ \E t \in Topics : Sync(t)
  \/ Claims
  \/ \E d \in Drains : Running(d)

Spec == Init /\ [][Next]_vars

-----------------------------------------------------------------------------

\* A derived edge stands only while its memory says so, or while a restatement
\* of that memory is owed: a text changing between any two statements, drains
\* whose claims take turns, a batch failing half way or the process dying leaves
\* no edge that nothing will close.  The code can leave one in a single way, and
\* `crossed` names it: a drain at work on what it read before another claimed
\* the topic's jobs (nothing is locked between the two) asserts its edge late.
OnlyWhatIsSaid ==
  \A p \in Pairs :
    edge[p] = "derived" /\ owed[DeriveOf(p[1])] = "no" => p \in Implied \/ p \in crossed

\* A memory that names a topic points at it once neither its restatement nor
\* the backfill of the name is owed: of the name filed while the memory was
\* being restated and the memory written while the name was being backfilled,
\* one sees the other, even by two drains.  What is missing is what the index did
\* not propose when the backfill asked, what somebody unlinked, and what a drain
\* closed late, by what it had read before another claimed the jobs.
NothingUnnamed ==
  \A p \in Implied :
    \/ edge[p] # "none"
    \/ owed[DeriveOf(p[1])] # "no" \/ owed[BackfillOf(p[2])] # "no"
    \/ p \in overlooked \cup crossed

-----------------------------------------------------------------------------
(* Why they hold: what a drain has read and nobody has overtaken is so, or  *)
(* has been asked for again; and what it would now record is so, whoever    *)
(* has overtaken it.                                                        *)

\* The jobs a drain would complete if it recorded them now.
Completes(d, k) == k \in drain[d].jobs /\ owed[k] = d

Asked(k) == owed[k] = "asked"

\* A job that will see the pair afresh: asked for, claimed by a drain that has
\* died or has yet to start it, or by one that nobody has overtaken.
Due(k, p) ==
  owed[k] # "no" /\ \A d \in Drains : Completes(d, k) => p \notin drain[d].overtaken

\* What a drain has not seen of the pair is left to the other job that bears on it.
LeftTo(d, k, p) == Asked(k) \/ (p \in drain[d].overtaken /\ Due(k, p))

\* What each phase still has of a batch's reads.
WithTexts == {"widest", "names", "live", "assert", "retract", "gone"}
WithClaims == {"live", "assert", "retract", "gone"}
AfterRestating == {"probe", "states", "liveNames", "assertNames", "record"}
WithNames == {"states", "liveNames", "assertNames"}

\* The part of the types that what follows needs.
Kept ==
  /\ says \in [Topics -> Says] /\ filed \subseteq Topics
  /\ edge \in [Pairs -> {"none", "derived", "linked"}]
  /\ owed \in [Key -> {"no", "asked"} \cup Drains]
  /\ drain \in [Drains -> Drain]

\* Only a filed name is backfilled.
NamesAreFiled == \A t \in Topics : owed[BackfillOf(t)] # "no" => t \in filed

\* A claim is a job's.
JobsAreKnown(d) ==
  /\ \A t \in Topics : BackfillOf(t) \in drain[d].jobs \cup drain[d].left => t \in filed
  /\ drain[d].pending \subseteq drain[d].claims
  /\ drain[d].phase \notin {"assert", "assertNames"} => drain[d].pending = {}
  /\ drain[d].phase \in WithClaims => drain[d].claims \subseteq Naming(drain[d].texts, filed)
  /\ drain[d].phase \in WithNames => \A p \in drain[d].claims : BackfillOf(p[2]) \in drain[d].jobs

\* The texts a drain restates are current, but for what is to be restated again
\* and what another has since restated.
TextsAreCurrent(d) ==
  drain[d].phase \in WithTexts =>
    /\ \A t \in Topics :
         /\ Completes(d, DeriveOf(t)) => drain[d].texts[t] = says[t]
         /\ DeriveOf(t) \notin drain[d].jobs => drain[d].texts[t] = Absent
    /\ \A p \in Pairs : DeriveOf(p[1]) \in drain[d].jobs =>
         \/ drain[d].texts[p[1]] = says[p[1]]
         \/ Asked(DeriveOf(p[1])) \/ p \in drain[d].overtaken

\* No filed name is wider than the widest it asked for, nor missing from the
\* claims it made of the names, but for those to be backfilled.
NamesAreAllSeen(d) ==
  \A p \in Pairs :
    p[2] \in filed /\ DeriveOf(p[1]) \in drain[d].jobs /\ p \notin drain[d].overtaken =>
      /\ drain[d].phase = "names" =>
           Width[p[2]] <= drain[d].widest \/ Asked(BackfillOf(p[2]))
      /\ drain[d].phase \in WithClaims /\ p \in Naming(drain[d].texts, filed) =>
           p \in drain[d].claims \/ Asked(BackfillOf(p[2]))

\* The memories a backfill found do name the topic.
CandidatesNameIt(d) ==
  drain[d].phase \in {"liveNames", "assertNames"} =>
    \A p \in drain[d].claims :
      p \in Implied \/ Asked(DeriveOf(p[1])) \/ p \in drain[d].overtaken

Stands(d, k, p) == edge[p] # "none" \/ p \in overlooked \/ LeftTo(d, k, p)

\* A topic whose restatement a drain would record has no edge its text does not
\* imply, once those are closed.
RestatedIsSaid(d) ==
  \A p \in Pairs :
    Completes(d, DeriveOf(p[1])) /\ p \notin crossed /\ edge[p] = "derived" =>
      \/ p \in Implied
      \/ drain[d].phase \notin {"gone"} \cup AfterRestating
      \/ drain[d].phase = "gone" /\ ~ Resolves(drain[d].texts[p[1]])

\* Each edge its text implies is on its way, then stands.
RestatedIsLinked(d) ==
  \A p \in Implied : Completes(d, DeriveOf(p[1])) /\ p \notin crossed =>
    \/ Stands(d, BackfillOf(p[2]), p)
    \/ drain[d].phase \in {"read", "widest"}
    \/ drain[d].phase = "names" /\ Width[p[2]] <= drain[d].widest
    \/ drain[d].phase = "live" /\ p \in drain[d].claims
    \/ drain[d].phase = "assert" /\ p \in drain[d].pending

\* So is each edge to a topic whose backfill it would record.
BackfilledIsLinked(d) ==
  \A p \in Implied : Completes(d, BackfillOf(p[2])) /\ p \notin crossed =>
    \/ Stands(d, DeriveOf(p[1]), p)
    \/ drain[d].phase \notin WithNames \cup {"record"}
    \/ drain[d].phase \in {"states", "liveNames"} /\ p \in drain[d].claims
    \/ drain[d].phase = "assertNames" /\ p \in drain[d].pending

Sound(d) ==
  /\ JobsAreKnown(d) /\ TextsAreCurrent(d) /\ NamesAreAllSeen(d) /\ CandidatesNameIt(d)
  /\ RestatedIsSaid(d) /\ RestatedIsLinked(d) /\ BackfilledIsLinked(d)

MentionsInv ==
  /\ Kept /\ NamesAreFiled /\ \A d \in Drains : Sound(d)
  /\ OnlyWhatIsSaid /\ NothingUnnamed

=============================================================================
