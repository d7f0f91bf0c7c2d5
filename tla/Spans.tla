-------------------------------- MODULE Spans -------------------------------
(***************************************************************************)
(* How one round's topics are written to the index, span by span:          *)
(* Projection::replace and Projection::delete of                           *)
(* crates/index/src/projection.rs, as sync_indexes of                      *)
(* crates/engine/src/cascade.rs calls them.                                *)
(*                                                                         *)
(* A memory is cut into spans, each a document of its own, numbered from   *)
(* 0.  The index has no transaction over a topic's spans: a topic is       *)
(* written by upserts of WriteBatch spans each, and cut short, or removed, *)
(* by a delete for each ordinal in turn.  Any of these calls can fail, and *)
(* the process can die between any two of them.                            *)
(*                                                                         *)
(* Cascade takes the writing of a topic for one step, and keeps of its     *)
(* document what the index reads back, which is all the code looks at.     *)
(* Here is what a search can match besides.                                *)
(***************************************************************************)
EXTENDS Integers, FiniteSets

CONSTANTS
  Topics,
  Texts,       \* a span: its text, and the header it is embedded under
  None,        \* no span
  MaxSpans,    \* how many spans a memory is cut into at most
  WriteBatch   \* how many documents one write takes: WRITE_BATCH, 1024

Ordinals == 0 .. MaxSpans - 1

\* A memory as it is cut, with no gap.  A topic that is gone is cut into none.
Cut == UNION {[0 .. n - 1 -> Texts] : n \in 0 .. MaxSpans}
NoSpans == [o \in {} |-> None]

Spans == Topics \X Ordinals

ASSUME SpansAssumption ==
  /\ None \notin Texts
  /\ MaxSpans \in Nat \ {0}
  /\ WriteBatch \in Nat \ {0}

VARIABLES
  wanted,   \* [Topics -> Cut]: what the ledger says of each topic
  held,     \* [Topics -> [Ordinals -> Texts \cup {None}]]: the index
  owed,     \* each topic's sync: "no", "requested" or "claimed"
  round     \* where the one round that holds Engine::syncing has got to

vars == <<wanted, held, owed, round>>

\* `reading` is what the round read, `left` the topics without a verdict and
\* `failed` those whose verdict is an error.  A call writes or removes the
\* topics of `batch`: every topic the index does not hold already or, once that
\* failed, a single one.  `next` is what is left to write in this call, or the
\* spans to look for and delete in this turn, and `after` those to look for in
\* the turn after it.
Round == [phase : {"idle", "write", "truncate", "delete", "done"},
          reading : [Topics -> Cut], left : SUBSET Topics,
          failed : SUBSET Topics, batch : SUBSET Topics, single : BOOLEAN,
          next : SUBSET Spans, after : SUBSET Spans]

Idle == [phase |-> "idle", reading |-> [t \in Topics |-> NoSpans], left |-> {},
         failed |-> {}, batch |-> {}, single |-> FALSE, next |-> {}, after |-> {}]

TypeOK ==
  /\ wanted \in [Topics -> Cut]
  /\ held \in [Topics -> [Ordinals -> Texts \cup {None}]]
  /\ owed \in [Topics -> {"no", "requested", "claimed"}]
  /\ round \in Round

Init ==
  /\ wanted = [t \in Topics |-> NoSpans]
  /\ held = [t \in Topics |-> [o \in Ordinals |-> None]]
  /\ owed = [t \in Topics |-> "no"]
  /\ round = Idle

-----------------------------------------------------------------------------

\* `fetch`: a topic's spans, up to the first ordinal it does not hold.
ReadsBack(t) ==
  [o \in {p \in Ordinals : \A q \in 0 .. p : held[t][q] # None} |-> held[t][o]]

\* `holds`: never of a topic that is gone.
Holds(t, cut) == DOMAIN cut # {} /\ ReadsBack(t) = cut

Gone(t) == DOMAIN round.reading[t] = {}

SpansOf(reading, topics) ==
  {span \in Spans : span[1] \in topics /\ span[2] \in DOMAIN reading[span[1]]}

\* The first ordinal past each topic a replace wrote, if there can be one, and
\* the first of each topic to remove.
Ends(topics) ==
  {<<t, Cardinality(DOMAIN round.reading[t])>> : t \in {u \in topics : ~Gone(u)}}
    \cap Spans

Starts(topics) == {<<t, 0>> : t \in {u \in topics : Gone(u)}}

\* A topic says something else, and its sync is owed.
Change(t, cut) ==
  /\ cut # wanted[t]
  /\ wanted' = [wanted EXCEPT ![t] = cut]
  /\ owed' = [owed EXCEPT ![t] = "requested"]
  /\ UNCHANGED <<held, round>>

\* A round claims some syncs and reads what their topics say.  It leaves out of
\* its batch only topics the index holds; not those it holds under another
\* plan, and none when the index cannot answer.
Begin(topics) ==
  /\ round.phase = "idle"
  /\ topics # {} /\ \A t \in topics : owed[t] = "requested"
  /\ owed' = [t \in Topics |-> IF t \in topics THEN "claimed" ELSE owed[t]]
  /\ \E batch \in SUBSET topics :
       /\ \A t \in topics \ batch : Holds(t, wanted[t])
       /\ round' = [Idle EXCEPT
                      !.phase = "write",
                      !.reading = [t \in Topics |-> IF t \in topics THEN wanted[t]
                                                    ELSE NoSpans],
                      !.left = topics, !.batch = batch,
                      !.next = SpansOf(wanted, batch)]
  /\ UNCHANGED <<wanted, held>>

\* One upsert: as many spans as it takes, each topic's in order and one topic
\* after another.
Chunk(spans) ==
  /\ spans \subseteq round.next
  /\ Cardinality(spans) <= WriteBatch
  /\ spans # round.next => Cardinality(spans) = WriteBatch
  /\ \A span \in spans : \A before \in round.next :
       before[1] = span[1] /\ before[2] < span[2] => before \in spans
  /\ Cardinality({t \in Topics :
       /\ \E span \in spans : span[1] = t
       /\ \E span \in round.next \ spans : span[1] = t}) <= 1

\* write_spans, an upsert at a time, and then what is to be cut short.
Write ==
  /\ round.phase = "write"
  /\ \E spans \in SUBSET round.next :
       /\ Chunk(spans)
       /\ held' = [t \in Topics |-> [o \in Ordinals |->
            IF <<t, o>> \in spans THEN round.reading[t][o] ELSE held[t][o]]]
       /\ round' =
            IF spans # round.next
            THEN [round EXCEPT !.next = @ \ spans]
            ELSE [round EXCEPT !.phase = "truncate", !.next = Ends(round.batch)]
  /\ UNCHANGED <<wanted, owed>>

\* What this turn of truncate still has to delete: the ordinals it looked for
\* and found.  Those it did not find it looks no further for.
Found == {span \in round.next : held[span[1]][span[2]] # None}

\* Deletes some of what it found.  When the turn is over the ordinals after
\* those it deleted are the next to look for, and when there are none what
\* follows is one of `onwards`.
Shorten(onwards) ==
  \E spans \in SUBSET Found :
    /\ Cardinality(spans) <= WriteBatch
    /\ spans # Found => Cardinality(spans) = WriteBatch
    /\ held' = [t \in Topics |-> [o \in Ordinals |->
                  IF <<t, o>> \in spans THEN None ELSE held[t][o]]]
    /\ LET after == round.after \cup
                      ({<<span[1], span[2] + 1>> : span \in spans} \cap Spans)
       IN  CASE spans # Found ->
                  round' = [round EXCEPT !.next = Found \ spans, !.after = after]
             [] spans = Found /\ after # {} ->
                  round' = [round EXCEPT !.next = after, !.after = {}]
             [] OTHER ->
                  round' \in onwards

\* On to the topics to remove.
Removing == [round EXCEPT !.phase = "delete", !.next = Starts(round.batch),
                          !.after = {}]

\* The model moved to another plan in the pass over the batch: what was left
\* out of it is written too, with all of it.
WritingEvery == [round EXCEPT !.phase = "write", !.batch = round.left,
                              !.next = SpansOf(round.reading, round.left),
                              !.after = {}]

\* The spans past the ones written.
Truncate ==
  /\ round.phase = "truncate"
  /\ Shorten({Removing} \cup
       IF \/ round.single \/ round.batch = round.left
          \/ \A t \in round.batch : Gone(t)
       THEN {} ELSE {WritingEvery})
  /\ UNCHANGED <<wanted, owed>>

\* The topics that are gone, every span of each.
Delete ==
  /\ round.phase = "delete"
  /\ Shorten({[round EXCEPT !.phase = "done", !.next = {}, !.after = {}]})
  /\ UNCHANGED <<wanted, owed>>

\* A topic written, or removed, by itself: whatever the index holds of it.
Alone(t, left, failed) ==
  [round EXCEPT !.phase = "write", !.left = left, !.failed = failed,
                !.batch = {t}, !.single = TRUE,
                !.next = SpansOf(round.reading, {t}), !.after = {}]

\* Mutant: one topic that could not be written passed over.
SettleAll(failed) ==
  /\ owed' = [t \in Topics |-> IF owed[t] = "claimed" THEN "no" ELSE owed[t]]
  /\ round' = Idle
  /\ UNCHANGED <<wanted, held>>

\* The round records what it claimed: done, or to be done again.
Settle(failed) ==
  /\ owed' = [t \in Topics |->
       CASE owed[t] = "claimed" /\ t \in failed -> "requested"
         [] owed[t] = "claimed" /\ t \notin failed -> "no"
         [] OTHER -> owed[t]]
  /\ round' = Idle
  /\ UNCHANGED <<wanted, held>>

\* The next topic by itself, or the end of the round.
GoOn(left, failed) ==
  IF left = {}
  THEN Settle(failed)
  ELSE /\ \E t \in left : round' = Alone(t, left, failed)
       /\ UNCHANGED <<wanted, held, owed>>

\* The call succeeded.
Done ==
  /\ round.phase = "done"
  /\ IF round.single
     THEN GoOn(round.left \ round.batch, round.failed)
     ELSE Settle({})

\* A call on the index fails.  The batch is tried again topic by topic, and a
\* topic by itself has failed.
CallFails ==
  /\ round.phase \in {"write", "truncate", "delete"}
  /\ IF round.single
     THEN GoOn(round.left \ round.batch, round.failed \cup round.batch)
     ELSE GoOn(round.left, {})

\* The process dies, and what it had claimed comes round again.
Kill ==
  /\ round.phase # "idle"
  /\ round' = Idle
  /\ owed' = [t \in Topics |-> IF owed[t] = "claimed" THEN "requested" ELSE owed[t]]
  /\ UNCHANGED <<wanted, held>>

Next ==
  \/ \E t \in Topics, cut \in Cut : Change(t, cut)
  \/ \E topics \in SUBSET Topics : Begin(topics)
  \/ Write \/ Truncate \/ Delete \/ Done
  \/ CallFails \/ Kill

Spec == Init /\ [][Next]_vars

-----------------------------------------------------------------------------
(* Properties.                                                             *)

\* A topic whose sync is recorded reads back as it was cut, whatever calls
\* failed on the way and wherever a process died: what Cascade takes for a
\* document written.
ReadsBackAsCut ==
  \A t \in Topics : owed[t] = "no" => ReadsBack(t) = wanted[t]

\* What makes it inductive.  A claim that stands is the round's, which read what
\* the ledger says now; a topic with its verdict, or left out of the batch as
\* held, reads back as the round read it.
ClaimsAreTheRounds ==
  \A t \in Topics : owed[t] = "claimed" =>
    /\ round.phase # "idle"
    /\ round.reading[t] = wanted[t]
    /\ t \in round.left \cup round.failed \/ ReadsBack(t) = wanted[t]

SkippedIsHeld ==
  ~round.single =>
    \A t \in round.left \ round.batch : ReadsBack(t) = round.reading[t]

\* A round writes no topic nothing is owed for, and gives none up before it has
\* tried it by itself.
OnlyOwedIsWritten ==
  /\ round.batch \subseteq round.left
  /\ \A t \in round.left \cup round.failed : owed[t] # "no"
  /\ ~round.single => round.failed = {}

\* A call touches nothing but what it is for: it writes the spans of its topics,
\* cuts off what is past them, and removes those of the topics that are gone.
CallKeepsToItsBatch ==
  /\ round.phase = "write" => round.after = {}
  /\ \A span \in round.next \cup round.after :
       /\ span[1] \in round.batch
       /\ \/ round.phase = "write" /\ span[2] \in DOMAIN round.reading[span[1]]
          \/ round.phase = "truncate" /\ ~Gone(span[1])
               /\ span[2] \notin DOMAIN round.reading[span[1]]
          \/ round.phase = "delete" /\ Gone(span[1])

\* What a call has written of a topic stays, and what stands past its end is
\* still to be looked for.
CallGoesForward ==
  \A t \in round.batch :
    LET reading == round.reading[t]
        end == Cardinality(DOMAIN reading)
    IN  /\ \A o \in DOMAIN reading :
             \/ held[t][o] = reading[o]
             \/ round.phase = "write" /\ <<t, o>> \in round.next
        /\ end \in Ordinals /\ held[t][end] # None =>
             \/ round.phase = "write"
             \/ round.phase = "truncate" /\ (Gone(t) \/ <<t, end>> \in round.next)
             \/ round.phase = "delete" /\ Gone(t) /\ <<t, end>> \in round.next

SpansInv ==
  /\ TypeOK
  /\ ReadsBackAsCut
  /\ ClaimsAreTheRounds
  /\ SkippedIsHeld
  /\ OnlyOwedIsWritten
  /\ CallKeepsToItsBatch
  /\ CallGoesForward

\* And the index holds nothing else of it.  replace says that whatever spans
\* an earlier write left behind are removed (crates/index/src/projection.rs:189)
\* and delete that it removes every span (projection.rs:289); both look no
\* further than the first ordinal missing, and an interrupted truncate leaves
\* spans past one.
HoldsNothingElse ==
  \A t \in Topics : owed[t] = "no" =>
    \A o \in Ordinals \ DOMAIN wanted[t] : held[t][o] = None

=============================================================================
