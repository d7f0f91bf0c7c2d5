----------------------------- MODULE SpansProofs -----------------------------
(***************************************************************************)
(* A topic recorded done reads back as it was cut, for any topics, any     *)
(* texts, any number of spans and any size of batch: SpansInv is inductive. *)
(***************************************************************************)
EXTENDS Spans, FiniteSetTheorems, TLAPS

Column == [Ordinals -> Texts \cup {None}]

\* What is read back of one topic's column.
Prefix(spans) ==
  [o \in {p \in Ordinals : \A q \in 0 .. p : spans[q] # None} |-> spans[o]]

EndOf(cut) == Cardinality(DOMAIN cut)

LEMMA CutShape ==
  ASSUME NEW cut \in Cut
  PROVE  /\ EndOf(cut) \in 0 .. MaxSpans
         /\ DOMAIN cut = 0 .. EndOf(cut) - 1
         /\ \A o \in DOMAIN cut : cut[o] \in Texts /\ o \in Ordinals
         /\ cut = [o \in DOMAIN cut |-> cut[o]]
<1>1. PICK n \in 0 .. MaxSpans : cut \in [0 .. n - 1 -> Texts]
  BY DEF Cut
<1>2. n \in Nat /\ MaxSpans \in Nat
  BY SpansAssumption DEF SpansAssumption
<1>3. DOMAIN cut = 0 .. n - 1
  BY <1>1
<1>4. Cardinality(0 .. n - 1) = n
  <2>1. Cardinality(0 .. n - 1) = IF 0 > n - 1 THEN 0 ELSE (n - 1) - 0 + 1
    BY <1>2, FS_Interval
  <2> QED
    BY <2>1, <1>2
<1> QED
  BY <1>1, <1>2, <1>3, <1>4 DEF EndOf, Ordinals

\* A topic that is gone is cut into nothing.
LEMMA GoneCut ==
  ASSUME NEW cut \in Cut, DOMAIN cut = {}
  PROVE  EndOf(cut) = 0
<1>1. EndOf(cut) \in Nat /\ DOMAIN cut = 0 .. EndOf(cut) - 1
  BY CutShape
<1>2. \A n \in Nat : n > 0 => 0 \in 0 .. n - 1
  OBVIOUS
<1> QED
  BY <1>1, <1>2

\* A column reads back as a cut if it holds all of it and nothing right after.
LEMMA ReadsAsCut ==
  ASSUME NEW spans \in Column, NEW cut \in Cut
  PROVE  Prefix(spans) = cut <=>
           /\ \A o \in DOMAIN cut : spans[o] = cut[o]
           /\ EndOf(cut) \in Ordinals => spans[EndOf(cut)] = None
<1> DEFINE n == EndOf(cut)
           read == {p \in Ordinals : \A q \in 0 .. p : spans[q] # None}
<1>1. /\ n \in Nat /\ MaxSpans \in Nat /\ n <= MaxSpans
      /\ DOMAIN cut = 0 .. n - 1
      /\ \A o \in DOMAIN cut : cut[o] \in Texts /\ o \in Ordinals
  BY CutShape, SpansAssumption DEF SpansAssumption
<1>2. ASSUME Prefix(spans) = cut
      PROVE  /\ \A o \in DOMAIN cut : spans[o] = cut[o]
             /\ n \in Ordinals => spans[n] = None
  <2>1. read = DOMAIN cut
    BY <1>2 DEF Prefix
  <2>2. \A o \in DOMAIN cut : spans[o] = cut[o]
    BY <1>2 DEF Prefix
  <2>3. ASSUME n \in Ordinals PROVE spans[n] = None
    <3>1. n \notin read
      BY <2>1, <1>1
    <3>2. PICK q \in 0 .. n : spans[q] = None
      BY <3>1, <2>3
    <3>3. CASE q = n
      BY <3>2, <3>3
    <3>4. CASE q < n
      <4>1. q \in DOMAIN cut
        BY <3>4, <1>1
      <4> QED
        BY <4>1, <3>2, <2>2, <1>1, SpansAssumption DEF SpansAssumption
    <3> QED
      BY <3>3, <3>4, <1>1
  <2> QED
    BY <2>2, <2>3
<1>3. ASSUME \A o \in DOMAIN cut : spans[o] = cut[o],
             n \in Ordinals => spans[n] = None
      PROVE  Prefix(spans) = cut
  <2>1. read = DOMAIN cut
    <3>1. ASSUME NEW p \in DOMAIN cut PROVE p \in read
      <4>1. \A q \in 0 .. p : q \in DOMAIN cut
        BY <1>1
      <4> QED
        BY <4>1, <1>1, <1>3, SpansAssumption DEF SpansAssumption
    <3>2. ASSUME NEW p \in read PROVE p \in DOMAIN cut
      <4>1. p \in Nat /\ p < MaxSpans /\ \A q \in 0 .. p : spans[q] # None
        BY <1>1 DEF Ordinals
      <4>2. CASE n <= p
        <5>1. n \in Ordinals /\ n \in 0 .. p
          BY <4>1, <4>2, <1>1 DEF Ordinals
        <5> QED
          BY <5>1, <4>1, <1>3
      <4>3. CASE p < n
        BY <4>1, <4>3, <1>1
      <4> QED
        BY <4>1, <4>2, <4>3, <1>1
    <3> QED
      BY <3>1, <3>2
  <2>2. Prefix(spans) = [o \in DOMAIN cut |-> spans[o]]
    BY <2>1 DEF Prefix
  <2>3. cut = [o \in DOMAIN cut |-> cut[o]]
    BY CutShape
  <2> QED
    BY <2>2, <2>3, <1>3
<1> QED
  BY <1>2, <1>3

\* The same of a topic, when the invariant holds or is to hold.
LEMMA TopicReadsAsCut ==
  ASSUME TypeOK, NEW t \in Topics, NEW cut \in Cut
  PROVE  ReadsBack(t) = cut <=>
           /\ \A o \in DOMAIN cut : held[t][o] = cut[o]
           /\ EndOf(cut) \in Ordinals => held[t][EndOf(cut)] = None
<1>1. held[t] \in Column
  BY DEF TypeOK, Column
<1>2. ReadsBack(t) = Prefix(held[t])
  BY DEF ReadsBack, Prefix
<1> QED
  BY <1>1, <1>2, ReadsAsCut

LEMMA NothingIsACut == NoSpans \in Cut
<1>1. 0 \in 0 .. MaxSpans /\ NoSpans \in [0 .. 0 - 1 -> Texts]
  BY SpansAssumption DEF SpansAssumption, NoSpans
<1> QED
  BY <1>1 DEF Cut

LEMMA IdleIsARound == Idle \in Round
BY NothingIsACut DEF Idle, Round

LEMMA SpansInvInit == Init => SpansInv
<1> SUFFICES ASSUME Init PROVE SpansInv
  OBVIOUS
<1>1. TypeOK
  BY NothingIsACut, IdleIsARound DEF Init, TypeOK
<1>2. ReadsBackAsCut
  <2> SUFFICES ASSUME NEW t \in Topics PROVE ReadsBack(t) = NoSpans
    BY DEF ReadsBackAsCut, Init
  <2>1. {p \in Ordinals : \A q \in 0 .. p : held[t][q] # None} = {}
    BY DEF Init, Ordinals
  <2> QED
    BY <2>1 DEF ReadsBack, NoSpans
<1> QED
  BY <1>1, <1>2 DEF Init, Idle, SpansInv, ClaimsAreTheRounds, SkippedIsHeld, OnlyOwedIsWritten,
                    CallKeepsToItsBatch, CallGoesForward

-----------------------------------------------------------------------------
(* The steps that leave the index alone.                                   *)

\* What such a step does not change.
LEMMA SameIndexReads ==
  ASSUME held' = held, NEW t \in Topics
  PROVE  ReadsBack(t)' = ReadsBack(t)
BY DEF ReadsBack

\* A topic says something else: its claim, if it had one, is nobody's.
LEMMA ChangeKeeps ==
  ASSUME SpansInv, NEW t \in Topics, NEW cut \in Cut, Change(t, cut)
  PROVE  SpansInv'
<1> USE DEF Change
<1>1. TypeOK'
  BY DEF SpansInv, TypeOK
<1>2. ReadsBackAsCut'
  BY SameIndexReads DEF SpansInv, ReadsBackAsCut, TypeOK
<1>3. ClaimsAreTheRounds'
  BY SameIndexReads DEF SpansInv, ClaimsAreTheRounds, TypeOK
<1>4. SkippedIsHeld' /\ CallGoesForward' /\ CallKeepsToItsBatch'
  BY SameIndexReads
  DEF SpansInv, SkippedIsHeld, CallGoesForward, CallKeepsToItsBatch, Gone, TypeOK, Round
<1>5. OnlyOwedIsWritten'
  BY DEF SpansInv, OnlyOwedIsWritten, TypeOK, Round
<1> QED
  BY <1>1, <1>2, <1>3, <1>4, <1>5 DEF SpansInv

\* A round begins over topics nobody has claimed, and leaves out only what it
\* reads back.
LEMMA BeginKeeps ==
  ASSUME SpansInv, NEW topics \in SUBSET Topics, Begin(topics)
  PROVE  SpansInv'
<1>0. PICK batch \in SUBSET topics :
        /\ \A t \in topics \ batch : Holds(t, wanted[t])
        /\ round' = [Idle EXCEPT
             !.phase = "write",
             !.reading = [t \in Topics |-> IF t \in topics THEN wanted[t] ELSE NoSpans],
             !.left = topics, !.batch = batch, !.next = SpansOf(wanted, batch)]
  BY DEF Begin
<1>1. /\ round'.phase = "write" /\ round'.left = topics /\ round'.batch = batch
      /\ round'.failed = {} /\ round'.single = FALSE
      /\ round'.next = SpansOf(wanted, batch) /\ round'.after = {}
      /\ round'.reading = [t \in Topics |-> IF t \in topics THEN wanted[t] ELSE NoSpans]
  BY <1>0 DEF Idle
<1>2. /\ held' = held /\ wanted' = wanted
      /\ owed' = [t \in Topics |-> IF t \in topics THEN "claimed" ELSE owed[t]]
      /\ \A t \in topics : owed[t] = "requested"
      /\ round.phase = "idle"
  BY DEF Begin
<1>3. \A t \in Topics : owed[t] # "claimed"
  BY <1>2 DEF SpansInv, ClaimsAreTheRounds
<1>4. TypeOK'
  <2>1. SpansOf(wanted, batch) \subseteq Spans
    BY DEF SpansOf
  <2>2. round' \in Round
    BY <1>0, <2>1, NothingIsACut, IdleIsARound DEF Round, SpansInv, TypeOK
  <2> QED
    BY <1>2, <2>2 DEF SpansInv, TypeOK
<1>5. ReadsBackAsCut' /\ ClaimsAreTheRounds'
  BY <1>1, <1>2, <1>3, SameIndexReads DEF SpansInv, ReadsBackAsCut, ClaimsAreTheRounds, TypeOK
<1>6. SkippedIsHeld'
  BY <1>0, <1>1, <1>2, SameIndexReads DEF SkippedIsHeld, Holds
<1>7. OnlyOwedIsWritten'
  BY <1>1, <1>2 DEF OnlyOwedIsWritten
<1>8. CallKeepsToItsBatch'
  BY <1>1 DEF CallKeepsToItsBatch, SpansOf
<1>9. CallGoesForward'
  <2>1. \A t \in batch : \A o \in DOMAIN wanted[t] : <<t, o>> \in SpansOf(wanted, batch)
    BY CutShape DEF SpansOf, Spans, SpansInv, TypeOK
  <2> QED
    BY <1>1, <2>1 DEF CallGoesForward
<1> QED
  BY <1>4, <1>5, <1>6, <1>7, <1>8, <1>9 DEF SpansInv

\* The round records its verdicts, nothing of it is left claimed, and what it
\* records as done reads back.
LEMMA SettleKeeps ==
  ASSUME SpansInv, NEW failed \in SUBSET Topics, Settle(failed),
         \A t \in Topics \ failed : owed[t] = "claimed" => ReadsBack(t) = wanted[t]
  PROVE  SpansInv'
<1> USE DEF Settle
<1>1. TypeOK'
  BY IdleIsARound DEF SpansInv, TypeOK
<1>2. ReadsBackAsCut'
  BY SameIndexReads DEF SpansInv, ReadsBackAsCut, TypeOK
<1>3. ClaimsAreTheRounds'
  BY DEF ClaimsAreTheRounds, SpansInv, TypeOK
<1>4. SkippedIsHeld' /\ OnlyOwedIsWritten' /\ CallKeepsToItsBatch' /\ CallGoesForward'
  BY DEF Idle, SkippedIsHeld, OnlyOwedIsWritten, CallKeepsToItsBatch, CallGoesForward
<1> QED
  BY <1>1, <1>2, <1>3, <1>4 DEF SpansInv

\* A topic is begun by itself, once those without a verdict any more read back or
\* have failed.
LEMMA AloneKeeps ==
  ASSUME SpansInv, NEW left \in SUBSET Topics, NEW failed \in SUBSET Topics, NEW t \in left,
         round' = Alone(t, left, failed), UNCHANGED <<wanted, held, owed>>,
         round.phase # "idle",
         \A u \in left \cup failed : owed[u] # "no",
         \A u \in Topics \ (left \cup failed) : owed[u] = "claimed" => ReadsBack(u) = wanted[u]
  PROVE  SpansInv'
<1>1. /\ round'.phase = "write" /\ round'.left = left /\ round'.batch = {t}
      /\ round'.failed = failed /\ round'.single = TRUE /\ round'.after = {}
      /\ round'.next = SpansOf(round.reading, {t}) /\ round'.reading = round.reading
  BY DEF Alone, SpansInv, TypeOK, Round
<1>2. TypeOK'
  BY DEF Alone, SpansOf, SpansInv, TypeOK, Round
<1>3. ReadsBackAsCut' /\ ClaimsAreTheRounds'
  BY <1>1, SameIndexReads DEF SpansInv, ReadsBackAsCut, ClaimsAreTheRounds
<1>4. SkippedIsHeld' /\ OnlyOwedIsWritten' /\ CallKeepsToItsBatch'
  BY <1>1 DEF SkippedIsHeld, OnlyOwedIsWritten, CallKeepsToItsBatch, SpansOf
<1>5. CallGoesForward'
  <2>1. \A o \in DOMAIN round.reading[t] : <<t, o>> \in SpansOf(round.reading, {t})
    <3>1. round.reading[t] \in Cut
      BY DEF SpansInv, TypeOK, Round
    <3> QED
      BY <3>1, CutShape DEF SpansOf, Spans
  <2> QED
    BY <1>1, <2>1 DEF CallGoesForward
<1> QED
  BY <1>2, <1>3, <1>4, <1>5 DEF SpansInv

LEMMA GoOnKeeps ==
  ASSUME SpansInv, NEW left \in SUBSET Topics, NEW failed \in SUBSET Topics, GoOn(left, failed),
         round.phase # "idle",
         \A u \in left \cup failed : owed[u] # "no",
         \A u \in Topics \ (left \cup failed) : owed[u] = "claimed" => ReadsBack(u) = wanted[u]
  PROVE  SpansInv'
<1>1. CASE left = {}
  BY <1>1, SettleKeeps DEF GoOn
<1>2. CASE left # {}
  BY <1>2, AloneKeeps DEF GoOn
<1> QED
  BY <1>1, <1>2

\* What a call that is done was for reads back as the round read it.
LEMMA DoneReadsBack ==
  ASSUME SpansInv, round.phase = "done", NEW t \in round.batch
  PROVE  ReadsBack(t) = round.reading[t]
<1>1. t \in Topics /\ round.reading[t] \in Cut
  BY DEF SpansInv, TypeOK, Round
<1> QED
  BY <1>1, TopicReadsAsCut DEF SpansInv, CallGoesForward, EndOf

LEMMA DoneKeeps ==
  ASSUME SpansInv, Done
  PROVE  SpansInv'
<1>0. /\ round.phase = "done" /\ round.batch \subseteq round.left
      /\ round.left \in SUBSET Topics /\ round.failed \in SUBSET Topics
  BY DEF Done, SpansInv, OnlyOwedIsWritten, TypeOK, Round
<1>1. CASE round.single
  <2> DEFINE left == round.left \ round.batch
  <2>1. GoOn(left, round.failed) /\ left \in SUBSET Topics
    BY <1>0, <1>1 DEF Done
  <2>2. \A t \in left \cup round.failed : owed[t] # "no"
    BY DEF SpansInv, OnlyOwedIsWritten
  <2>3. \A t \in Topics \ (left \cup round.failed) :
          owed[t] = "claimed" => ReadsBack(t) = wanted[t]
    BY <1>0, DoneReadsBack DEF SpansInv, ClaimsAreTheRounds
  <2> HIDE DEF left
  <2> QED
    BY <1>0, <2>1, <2>2, <2>3, GoOnKeeps
<1>2. CASE ~round.single
  <2>1. \A t \in Topics : owed[t] = "claimed" => ReadsBack(t) = wanted[t]
    BY <1>0, <1>2, DoneReadsBack
    DEF SpansInv, OnlyOwedIsWritten, ClaimsAreTheRounds, SkippedIsHeld
  <2> QED
    BY <1>2, <2>1, SettleKeeps DEF Done
<1> QED
  BY <1>1, <1>2

LEMMA CallFailsKeeps ==
  ASSUME SpansInv, CallFails
  PROVE  SpansInv'
<1>0. /\ round.phase # "idle" /\ round.batch \subseteq round.left
      /\ round.left \in SUBSET Topics /\ round.failed \in SUBSET Topics
  BY DEF CallFails, SpansInv, OnlyOwedIsWritten, TypeOK, Round
<1>1. CASE round.single
  BY <1>0, <1>1, GoOnKeeps
  DEF CallFails, SpansInv, OnlyOwedIsWritten, ClaimsAreTheRounds
<1>2. CASE ~round.single
  BY <1>0, <1>2, GoOnKeeps
  DEF CallFails, SpansInv, OnlyOwedIsWritten, ClaimsAreTheRounds
<1> QED
  BY <1>1, <1>2

\* A death settles nothing: what was claimed is to be done again.
LEMMA KillKeeps ==
  ASSUME SpansInv, Kill
  PROVE  SpansInv'
<1> USE DEF Kill
<1>1. TypeOK'
  BY IdleIsARound DEF SpansInv, TypeOK
<1>2. ReadsBackAsCut' /\ ClaimsAreTheRounds'
  BY SameIndexReads DEF SpansInv, ReadsBackAsCut, ClaimsAreTheRounds, TypeOK
<1>3. SkippedIsHeld' /\ OnlyOwedIsWritten' /\ CallKeepsToItsBatch' /\ CallGoesForward'
  BY DEF Idle, SkippedIsHeld, OnlyOwedIsWritten, CallKeepsToItsBatch, CallGoesForward
<1> QED
  BY <1>1, <1>2, <1>3 DEF SpansInv

-----------------------------------------------------------------------------
(* The steps that write the index.                                         *)

\* A call touches no topic out of its batch, and so none that has its verdict or
\* that nothing is owed for; once the batch is every topic without a verdict,
\* there is none left to skip.
LEMMA OnlyTheBatch ==
  ASSUME SpansInv, round.phase # "idle", round'.phase # "idle", UNCHANGED <<wanted, owed>>,
         \A t \in Topics \ round.batch : held'[t] = held[t],
         round'.reading = round.reading, round'.left = round.left,
         round'.failed = round.failed, round'.single = round.single,
         round'.batch \in {round.batch, round.left}
  PROVE  /\ ReadsBackAsCut' /\ ClaimsAreTheRounds'
         /\ SkippedIsHeld' /\ OnlyOwedIsWritten'
<1>1. \A t \in Topics \ round.batch : ReadsBack(t)' = ReadsBack(t)
  BY DEF ReadsBack
<1>2. round.batch \subseteq round.left /\ round.left \subseteq Topics
  BY DEF SpansInv, OnlyOwedIsWritten, TypeOK, Round
<1>3. ReadsBackAsCut' /\ ClaimsAreTheRounds'
  BY <1>1, <1>2 DEF SpansInv, ReadsBackAsCut, ClaimsAreTheRounds, OnlyOwedIsWritten
<1>4. SkippedIsHeld'
  BY <1>1, <1>2 DEF SpansInv, SkippedIsHeld
<1>5. OnlyOwedIsWritten'
  BY <1>2 DEF SpansInv, OnlyOwedIsWritten
<1> QED
  BY <1>3, <1>4, <1>5

LEMMA WriteKeeps ==
  ASSUME SpansInv, Write
  PROVE  SpansInv'
<1>1. PICK spans \in SUBSET round.next :
        /\ held' = [t \in Topics |-> [o \in Ordinals |->
             IF <<t, o>> \in spans THEN round.reading[t][o] ELSE held[t][o]]]
        /\ round' = IF spans # round.next
                    THEN [round EXCEPT !.next = @ \ spans]
                    ELSE [round EXCEPT !.phase = "truncate", !.next = Ends(round.batch)]
  BY DEF Write
<1>2. /\ round.phase = "write" /\ UNCHANGED <<wanted, owed>>
      /\ round \in Round /\ held \in [Topics -> [Ordinals -> Texts \cup {None}]]
      /\ round.reading \in [Topics -> Cut] /\ round.batch \subseteq Topics
      /\ round.next \subseteq Spans
  BY DEF Write, SpansInv, TypeOK, Round
<1>3. \A span \in round.next \cup round.after :
        span[1] \in round.batch /\ span[2] \in DOMAIN round.reading[span[1]]
  BY <1>2 DEF SpansInv, CallKeepsToItsBatch
<1>4. round.after = {}
  BY <1>2 DEF SpansInv, CallKeepsToItsBatch
<1>5. TypeOK'
  <2>1. held' \in [Topics -> [Ordinals -> Texts \cup {None}]]
    <3>1. \A t \in Topics, o \in Ordinals : <<t, o>> \in spans =>
            round.reading[t][o] \in Texts
      BY <1>2, <1>3, CutShape
    <3> QED
      BY <1>1, <1>2, <3>1
  <2>2. round' \in Round
    BY <1>1, <1>2 DEF Round, Ends
  <2> QED
    BY <1>2, <2>1, <2>2 DEF SpansInv, TypeOK
<1>6. ReadsBackAsCut' /\ ClaimsAreTheRounds' /\ SkippedIsHeld' /\ OnlyOwedIsWritten'
  <2>1. \A t \in Topics \ round.batch : held'[t] = held[t]
    BY <1>1, <1>2, <1>3
  <2> QED
    BY <1>1, <1>2, <2>1, OnlyTheBatch DEF Round
<1>7. CallKeepsToItsBatch'
  <2>1. CASE spans # round.next
    BY <1>1, <1>2, <1>3, <1>4, <2>1 DEF CallKeepsToItsBatch, Round
  <2>2. CASE spans = round.next
    <3>1. \A t \in Topics : EndOf(round.reading[t]) \notin DOMAIN round.reading[t]
      BY <1>2, CutShape
    <3> QED
      BY <1>1, <1>2, <1>4, <2>2, <3>1 DEF CallKeepsToItsBatch, Round, Ends, Gone, EndOf
  <2> QED
    BY <2>1, <2>2
<1>8. CallGoesForward'
  <2> SUFFICES ASSUME NEW t \in round.batch
               PROVE  LET reading == round.reading[t]
                          end == Cardinality(DOMAIN reading)
                      IN  /\ \A o \in DOMAIN reading :
                               \/ held'[t][o] = reading[o]
                               \/ round'.phase = "write" /\ <<t, o>> \in round'.next
                          /\ end \in Ordinals /\ held'[t][end] # None =>
                               \/ round'.phase = "write"
                               \/ /\ round'.phase = "truncate"
                                  /\ Gone(t) \/ <<t, end>> \in round'.next
    BY <1>1, <1>2 DEF CallGoesForward, Gone, Round
  <2>1. t \in Topics /\ round.reading[t] \in Cut
    BY <1>2
  <2>2. \A o \in DOMAIN round.reading[t] :
          o \in Ordinals /\ (held[t][o] = round.reading[t][o] \/ <<t, o>> \in round.next)
    BY <2>1, <1>2, CutShape DEF SpansInv, CallGoesForward
  <2>3. \A o \in DOMAIN round.reading[t] :
          held'[t][o] = round.reading[t][o] \/ <<t, o>> \in round.next \ spans
    BY <1>1, <2>1, <2>2
  <2>4. CASE spans # round.next
    BY <1>1, <1>2, <2>3, <2>4 DEF Round
  <2>5. CASE spans = round.next
    <3>1. EndOf(round.reading[t]) \in Ordinals /\ ~Gone(t) => <<t, EndOf(round.reading[t])>> \in Ends(round.batch)
      BY <2>1 DEF Ends, EndOf, Spans
    <3> QED
      BY <1>1, <1>2, <2>3, <2>5, <3>1 DEF Round, EndOf
  <2> QED
    BY <2>4, <2>5
<1> QED
  BY <1>5, <1>6, <1>7, <1>8 DEF SpansInv

\* A turn of deletions, which ends in one of `onwards`: what it looked for and did
\* not delete yet is what it goes on with, and what is next to be looked for
\* follows what it deleted.
LEMMA ShortenGoesOn ==
  ASSUME SpansInv, NEW onwards, Shorten(onwards), round.phase \in {"truncate", "delete"}
  PROVE  \E spans \in SUBSET Found :
           /\ held' = [t \in Topics |-> [o \in Ordinals |->
                        IF <<t, o>> \in spans THEN None ELSE held[t][o]]]
           /\ held' \in [Topics -> [Ordinals -> Texts \cup {None}]]
           /\ \A t \in Topics \ round.batch : held'[t] = held[t]
           /\ \/ spans = Found /\ round' \in onwards
              \/ \E next, after \in SUBSET Spans :
                   /\ Found \ spans \subseteq next
                   /\ next \cup after \subseteq
                        round.next \cup round.after
                          \cup {<<span[1], span[2] + 1>> : span \in spans}
                   /\ round' = [round EXCEPT !.next = next, !.after = after]
<1>1. PICK spans \in SUBSET Found :
        /\ held' = [t \in Topics |-> [o \in Ordinals |->
                     IF <<t, o>> \in spans THEN None ELSE held[t][o]]]
        /\ LET after == round.after \cup
                          ({<<span[1], span[2] + 1>> : span \in spans} \cap Spans)
           IN  CASE spans # Found ->
                      round' = [round EXCEPT !.next = Found \ spans, !.after = after]
                 [] spans = Found /\ after # {} ->
                      round' = [round EXCEPT !.next = after, !.after = {}]
                 [] OTHER ->
                      round' \in onwards
  BY DEF Shorten
<1>2. /\ round \in Round /\ held \in [Topics -> [Ordinals -> Texts \cup {None}]]
      /\ round.next \subseteq Spans /\ round.after \subseteq Spans
  BY DEF SpansInv, TypeOK, Round
<1>3. held' \in [Topics -> [Ordinals -> Texts \cup {None}]]
  BY <1>1, <1>2
<1>4. \A t \in Topics \ round.batch : held'[t] = held[t]
  <2>1. \A span \in spans : span[1] \in round.batch
    BY DEF Found, SpansInv, CallKeepsToItsBatch
  <2> QED
    BY <1>1, <1>2, <2>1
<1> DEFINE after == round.after \cup
                      ({<<span[1], span[2] + 1>> : span \in spans} \cap Spans)
<1>5. /\ after \in SUBSET Spans /\ Found \subseteq round.next
      /\ after \subseteq round.after \cup {<<span[1], span[2] + 1>> : span \in spans}
  BY <1>2 DEF Found
<1>6. CASE spans # Found
  <2>1. round' = [round EXCEPT !.next = Found \ spans, !.after = after]
    BY <1>1, <1>6
  <2>2. Found \ spans \in SUBSET Spans
    BY <1>2, <1>5
  <2> HIDE DEF after
  <2> QED
    BY <1>1, <1>3, <1>4, <1>5, <2>1, <2>2
<1>7. CASE spans = Found /\ after # {}
  <2>1. round' = [round EXCEPT !.next = after, !.after = {}]
    BY <1>1, <1>7
  <2> HIDE DEF after
  <2> QED
    BY <1>1, <1>3, <1>4, <1>5, <1>7, <2>1
<1>8. CASE spans = Found /\ after = {}
  BY <1>1, <1>3, <1>4, <1>8
<1> QED
  BY <1>6, <1>7, <1>8

\* What is past a cut stays past it.
LEMMA PastTheEnd ==
  ASSUME NEW cut \in Cut, NEW o \in Ordinals \ DOMAIN cut
  PROVE  o + 1 \notin DOMAIN cut
BY CutShape, SpansAssumption DEF Ordinals, SpansAssumption

LEMMA TruncateKeeps ==
  ASSUME SpansInv, Truncate
  PROVE  SpansInv'
<1> DEFINE onwards == {Removing} \cup
             IF \/ round.single \/ round.batch = round.left
                \/ \A t \in round.batch : Gone(t)
             THEN {} ELSE {WritingEvery}
<1>1. PICK spans \in SUBSET Found :
        /\ held' = [t \in Topics |-> [o \in Ordinals |->
                     IF <<t, o>> \in spans THEN None ELSE held[t][o]]]
        /\ held' \in [Topics -> [Ordinals -> Texts \cup {None}]]
        /\ \A t \in Topics \ round.batch : held'[t] = held[t]
        /\ \/ spans = Found /\ round' \in onwards
           \/ \E next, after \in SUBSET Spans :
                /\ Found \ spans \subseteq next
                /\ next \cup after \subseteq
                     round.next \cup round.after
                       \cup {<<span[1], span[2] + 1>> : span \in spans}
                /\ round' = [round EXCEPT !.next = next, !.after = after]
  BY ShortenGoesOn DEF Truncate
<1>2. /\ round.phase = "truncate" /\ UNCHANGED <<wanted, owed>>
      /\ round \in Round /\ round.reading \in [Topics -> Cut]
      /\ round.batch \subseteq round.left /\ round.left \subseteq Topics
      /\ Found \subseteq round.next /\ round.next \subseteq Spans
      /\ round.after \subseteq Spans
  BY DEF Truncate, SpansInv, TypeOK, Round, OnlyOwedIsWritten, Found
<1>3. \A span \in round.next \cup round.after :
        span[1] \in round.batch /\ ~Gone(span[1]) /\ span[2] \notin DOMAIN round.reading[span[1]]
  BY <1>2 DEF SpansInv, CallKeepsToItsBatch
\* Nothing of a cut goes, and what stands past one is looked for until it is gone.
<1>4. ASSUME NEW t \in round.batch
      PROVE  /\ \A o \in DOMAIN round.reading[t] : held'[t][o] = round.reading[t][o]
             /\ LET end == EndOf(round.reading[t])
                IN  end \in Ordinals /\ ~Gone(t) /\ held'[t][end] # None =>
                      <<t, end>> \in Found \ spans
  <2>1. t \in Topics /\ round.reading[t] \in Cut
    BY <1>2
  <2>2. ASSUME NEW o \in DOMAIN round.reading[t]
        PROVE  o \in Ordinals /\ held[t][o] = round.reading[t][o] /\ <<t, o>> \notin spans
    <3>1. o \in Ordinals
      BY <2>1, CutShape
    <3>2. held[t][o] = round.reading[t][o]
      BY <1>2 DEF SpansInv, CallGoesForward
    <3>3. <<t, o>> \notin spans
      BY <1>2, <1>3
    <3> QED
      BY <3>1, <3>2, <3>3
  <2>3. ASSUME EndOf(round.reading[t]) \in Ordinals, ~Gone(t),
               held'[t][EndOf(round.reading[t])] # None
        PROVE  <<t, EndOf(round.reading[t])>> \in Found \ spans
    <3>1. /\ <<t, EndOf(round.reading[t])>> \notin spans
          /\ held[t][EndOf(round.reading[t])] # None
      BY <1>1, <2>1, <2>3
    <3>2. <<t, EndOf(round.reading[t])>> \in round.next
      BY <1>2, <2>3, <3>1 DEF SpansInv, CallGoesForward, EndOf
    <3> QED
      BY <3>1, <3>2 DEF Found
  <2> QED
    BY <1>1, <2>1, <2>2, <2>3
<1>5. CASE spans = Found /\ round' = Removing
  <2>1. /\ round'.phase = "delete" /\ round'.next = Starts(round.batch) /\ round'.after = {}
        /\ round'.batch = round.batch /\ round'.reading = round.reading
        /\ round'.left = round.left /\ round'.failed = round.failed
        /\ round'.single = round.single
    BY <1>2, <1>5 DEF Removing, Round
  <2>2. \A t \in Topics : Gone(t) => EndOf(round.reading[t]) = 0
    BY <1>2, GoneCut DEF Gone
  <2>3. 0 \in Ordinals
    BY SpansAssumption DEF SpansAssumption, Ordinals
  <2>4. TypeOK'
    <3>1. Starts(round.batch) \subseteq Spans
      BY <1>2, <2>3 DEF Starts, Spans
    <3> QED
      BY <1>1, <1>2, <1>5, <3>1 DEF SpansInv, TypeOK, Removing, Round
  <2>5. CallKeepsToItsBatch'
    BY <2>1 DEF CallKeepsToItsBatch, Starts, Gone
  <2>6. CallGoesForward'
    <3>1. ASSUME NEW t \in round.batch PROVE Gone(t) => <<t, EndOf(round.reading[t])>> \in Starts(round.batch)
      BY <1>2, <2>2 DEF Starts
    <3> QED
      BY <1>4, <1>5, <2>1, <3>1 DEF CallGoesForward, Gone, EndOf
  <2> QED
    BY <1>1, <1>2, <2>1, <2>4, <2>5, <2>6, OnlyTheBatch DEF SpansInv
<1>6. CASE round' = WritingEvery
  <2>1. /\ round'.phase = "write" /\ round'.next = SpansOf(round.reading, round.left)
        /\ round'.batch = round.left /\ round'.reading = round.reading
        /\ round'.left = round.left /\ round'.failed = round.failed
        /\ round'.single = round.single /\ round'.after = {}
    BY <1>2, <1>6 DEF WritingEvery, Round
  <2>2. TypeOK'
    BY <1>1, <1>2, <1>6 DEF SpansInv, TypeOK, WritingEvery, Round, SpansOf
  <2>3. CallKeepsToItsBatch'
    BY <2>1 DEF CallKeepsToItsBatch, SpansOf
  <2>4. CallGoesForward'
    <3>1. \A t \in round.left : \A o \in DOMAIN round.reading[t] :
            <<t, o>> \in SpansOf(round.reading, round.left)
      BY <1>2, CutShape DEF SpansOf, Spans
    <3> QED
      BY <2>1, <3>1 DEF CallGoesForward
  <2> QED
    BY <1>1, <1>2, <2>1, <2>2, <2>3, <2>4, OnlyTheBatch DEF SpansInv
<1>7. ASSUME NEW next \in SUBSET Spans, NEW after \in SUBSET Spans,
             Found \ spans \subseteq next,
             next \cup after \subseteq round.next \cup round.after
                                     \cup {<<span[1], span[2] + 1>> : span \in spans},
             round' = [round EXCEPT !.next = next, !.after = after]
      PROVE  SpansInv'
  <2>1. /\ round'.phase = "truncate" /\ round'.next = next /\ round'.after = after
        /\ round'.batch = round.batch /\ round'.reading = round.reading
        /\ round'.left = round.left /\ round'.failed = round.failed
        /\ round'.single = round.single
    BY <1>2, <1>7 DEF Round
  <2>2. TypeOK'
    BY <1>1, <1>2, <1>7 DEF SpansInv, TypeOK, Round
  <2>3. CallKeepsToItsBatch'
    <3>1. ASSUME NEW span \in spans
          PROVE  LET p == <<span[1], span[2] + 1>>
                 IN  /\ p[1] \in round.batch /\ ~Gone(p[1])
                     /\ p[2] \notin DOMAIN round.reading[p[1]]
      <4>1. span[1] \in Topics /\ span[2] \in Ordinals
        BY <1>2 DEF Spans
      <4> QED
        BY <4>1, <1>2, <1>3, PastTheEnd
    <3> QED
      BY <1>3, <1>7, <2>1, <3>1 DEF CallKeepsToItsBatch, Gone
  <2>4. CallGoesForward'
    BY <1>4, <1>7, <2>1 DEF CallGoesForward, Gone, EndOf
  <2> QED
    BY <1>1, <1>2, <2>1, <2>2, <2>3, <2>4, OnlyTheBatch DEF SpansInv
<1> QED
  BY <1>1, <1>5, <1>6, <1>7

LEMMA DeleteKeeps ==
  ASSUME SpansInv, Delete
  PROVE  SpansInv'
<1> DEFINE done == [round EXCEPT !.phase = "done", !.next = {}, !.after = {}]
<1>1. PICK spans \in SUBSET Found :
        /\ held' = [t \in Topics |-> [o \in Ordinals |->
                     IF <<t, o>> \in spans THEN None ELSE held[t][o]]]
        /\ held' \in [Topics -> [Ordinals -> Texts \cup {None}]]
        /\ \A t \in Topics \ round.batch : held'[t] = held[t]
        /\ \/ spans = Found /\ round' \in {done}
           \/ \E next, after \in SUBSET Spans :
                /\ Found \ spans \subseteq next
                /\ next \cup after \subseteq
                     round.next \cup round.after
                       \cup {<<span[1], span[2] + 1>> : span \in spans}
                /\ round' = [round EXCEPT !.next = next, !.after = after]
  BY ShortenGoesOn DEF Delete
<1>2. /\ round.phase = "delete" /\ UNCHANGED <<wanted, owed>>
      /\ round \in Round /\ round.reading \in [Topics -> Cut]
      /\ round.batch \subseteq round.left /\ round.left \subseteq Topics
      /\ Found \subseteq round.next /\ round.next \subseteq Spans
  BY DEF Delete, SpansInv, TypeOK, Round, OnlyOwedIsWritten, Found
<1>3. \A span \in round.next \cup round.after : span[1] \in round.batch /\ Gone(span[1])
  BY <1>2 DEF SpansInv, CallKeepsToItsBatch
\* Of a topic that is there nothing goes; of one that is gone, its first span.
<1>4. ASSUME NEW t \in round.batch
      PROVE  /\ \A o \in DOMAIN round.reading[t] : held'[t][o] = round.reading[t][o]
             /\ LET end == EndOf(round.reading[t])
                IN  end \in Ordinals /\ held'[t][end] # None =>
                      Gone(t) /\ <<t, end>> \in Found \ spans
  <2>1. t \in Topics /\ round.reading[t] \in Cut
    BY <1>2
  <2>2. ASSUME NEW o \in DOMAIN round.reading[t]
        PROVE  o \in Ordinals /\ held[t][o] = round.reading[t][o] /\ <<t, o>> \notin spans
    <3>1. o \in Ordinals
      BY <2>1, CutShape
    <3>2. held[t][o] = round.reading[t][o]
      BY <1>2 DEF SpansInv, CallGoesForward
    <3>3. <<t, o>> \notin spans
      BY <1>2, <1>3 DEF Gone
    <3> QED
      BY <3>1, <3>2, <3>3
  <2>3. ASSUME EndOf(round.reading[t]) \in Ordinals, held'[t][EndOf(round.reading[t])] # None
        PROVE  Gone(t) /\ <<t, EndOf(round.reading[t])>> \in Found \ spans
    <3>1. /\ <<t, EndOf(round.reading[t])>> \notin spans
          /\ held[t][EndOf(round.reading[t])] # None
      BY <1>1, <2>1, <2>3
    <3>2. Gone(t) /\ <<t, EndOf(round.reading[t])>> \in round.next
      BY <1>2, <2>3, <3>1 DEF SpansInv, CallGoesForward, EndOf
    <3> QED
      BY <3>1, <3>2 DEF Found
  <2> QED
    BY <1>1, <2>1, <2>2, <2>3
<1>5. CASE spans = Found /\ round' = done
  <2>1. /\ round'.phase = "done" /\ round'.next = {} /\ round'.after = {}
        /\ round'.batch = round.batch /\ round'.reading = round.reading
        /\ round'.left = round.left /\ round'.failed = round.failed
        /\ round'.single = round.single
    BY <1>2, <1>5 DEF Round
  <2>2. TypeOK'
    BY <1>1, <1>2, <1>5 DEF SpansInv, TypeOK, Round
  <2>3. CallKeepsToItsBatch'
    BY <2>1 DEF CallKeepsToItsBatch
  <2>4. CallGoesForward'
    <3>1. Found \ spans = {}
      BY <1>5
    <3>2. \A t \in round.batch :
            EndOf(round.reading[t]) \in Ordinals => held'[t][EndOf(round.reading[t])] = None
      BY <1>4, <3>1
    <3>3. \A t \in round.batch :
            \A o \in DOMAIN round.reading[t] : held'[t][o] = round.reading[t][o]
      BY <1>4
    <3> QED
      BY <2>1, <3>2, <3>3 DEF CallGoesForward, Gone, EndOf
  <2> QED
    BY <1>1, <1>2, <2>1, <2>2, <2>3, <2>4, OnlyTheBatch DEF SpansInv
<1>6. ASSUME NEW next \in SUBSET Spans, NEW after \in SUBSET Spans,
             Found \ spans \subseteq next,
             next \cup after \subseteq round.next \cup round.after
                                     \cup {<<span[1], span[2] + 1>> : span \in spans},
             round' = [round EXCEPT !.next = next, !.after = after]
      PROVE  SpansInv'
  <2>1. /\ round'.phase = "delete" /\ round'.next = next /\ round'.after = after
        /\ round'.batch = round.batch /\ round'.reading = round.reading
        /\ round'.left = round.left /\ round'.failed = round.failed
        /\ round'.single = round.single
    BY <1>2, <1>6 DEF Round
  <2>2. TypeOK'
    BY <1>1, <1>2, <1>6 DEF SpansInv, TypeOK, Round
  <2>3. CallKeepsToItsBatch'
    <3>1. \A span \in next \cup after : span[1] \in round.batch /\ Gone(span[1])
      BY <1>2, <1>3, <1>6
    <3> QED
      BY <2>1, <3>1 DEF CallKeepsToItsBatch, Gone
  <2>4. CallGoesForward'
    BY <1>4, <1>6, <2>1 DEF CallGoesForward, Gone, EndOf
  <2> QED
    BY <1>1, <1>2, <2>1, <2>2, <2>3, <2>4, OnlyTheBatch DEF SpansInv
<1> QED
  BY <1>1, <1>5, <1>6

-----------------------------------------------------------------------------

LEMMA SpansInvNext == SpansInv /\ [Next]_vars => SpansInv'
<1> SUFFICES ASSUME SpansInv, [Next]_vars PROVE SpansInv'
  OBVIOUS
<1>1. CASE Next
  BY <1>1, ChangeKeeps, BeginKeeps, WriteKeeps, TruncateKeeps, DeleteKeeps, DoneKeeps,
     CallFailsKeeps, KillKeeps DEF Next
<1>2. CASE UNCHANGED vars
  <2>1. UNCHANGED <<wanted, held, owed, round>>
    BY <1>2 DEF vars
  <2>2. TypeOK' /\ ReadsBackAsCut' /\ ClaimsAreTheRounds' /\ SkippedIsHeld'
    <3>1. TypeOK'
      BY <2>1 DEF SpansInv, TypeOK
    <3>2. round.left \subseteq Topics
      BY DEF SpansInv, TypeOK, Round
    <3> QED
      BY <2>1, <3>1, <3>2, SameIndexReads
      DEF SpansInv, ReadsBackAsCut, ClaimsAreTheRounds, SkippedIsHeld
  <2>3. OnlyOwedIsWritten' /\ CallKeepsToItsBatch' /\ CallGoesForward'
    BY <2>1 DEF SpansInv, OnlyOwedIsWritten, CallKeepsToItsBatch, CallGoesForward, Gone
  <2> QED
    BY <2>2, <2>3 DEF SpansInv
<1> QED
  BY <1>1, <1>2

\* Everything the invariant says holds of every state: the types, that a claim that
\* stands is of a topic as the round read it, and that a call writes and deletes
\* nothing but what it is for (Projection::replace and delete, sync_indexes).
THEOREM SpansAreConsistent == Spec => []SpansInv
<1>1. Init => SpansInv
  BY SpansInvInit
<1>2. SpansInv /\ [Next]_vars => SpansInv'
  BY SpansInvNext
<1> QED
  BY <1>1, <1>2, PTL DEF Spec

\* A topic whose sync is recorded done reads back as it was cut, whatever call on
\* the index failed and wherever the process died (write_spans, truncate, holds).
THEOREM RecordedReadsBack == Spec => []ReadsBackAsCut
<1>1. SpansInv => ReadsBackAsCut
  BY DEF SpansInv
<1> QED
  BY <1>1, SpansAreConsistent, PTL

=============================================================================
