----------------------------- MODULE EdgesProofs -----------------------------
(***************************************************************************)
(* However many edges and callers there are, and whatever they claim, an   *)
(* edge has one live version, and no transactions wait for each other in a *)
(* circle: EdgesInv is inductive, and whoever is waited for waits further  *)
(* on in the one order of identities.                                      *)
(*                                                                         *)
(* Then what memories say: for any topics, texts, names and drains         *)
(* MentionsInv is inductive, and the derived edges are those of the texts  *)
(* but where a drain that was overtaken wrote late.  One lemma a           *)
(* transaction or a statement of a drain.                                  *)
(***************************************************************************)
EXTENDS Edges, Mentions, FiniteSetTheorems, SequenceTheorems, WellFoundedInduction, TLAPS

\* A step of one caller that leaves the versions alone.
LEMMA GoesTypes ==
  ASSUME EdgesTypeOK, NEW c \in Callers, NEW record \in Call, Goes(c, record),
         record.at \in {"idle", "insert", "read", "append"} => record.does = "assert",
         record.does = "assert" => \A e \in DOMAIN record.want : record.want[e] \in EdgeClaims
  PROVE  /\ EdgesTypeOK'
         /\ call'[c] = record /\ \A d \in Callers \ {c} : call'[d] = call[d]
         /\ versions' = versions
BY DEF Goes, EdgesTypeOK

\* The locks stay apart if this caller takes none, or one that nobody has.
LEMMA GoesKeeps ==
  ASSUME EdgesInv, NEW c \in Callers, NEW record \in Call, Goes(c, record),
         record.at \in {"idle", "insert", "read", "append"} => record.does = "assert",
         record.does = "assert" => \A e \in DOMAIN record.want : record.want[e] \in EdgeClaims,
         \A e \in record.held \ call[c].held : HeldBy(c, e) = {},
         LET before(done) == done \subseteq DOMAIN record.want
                               /\ \A a \in done, b \in DOMAIN record.want \ done : a < b
         IN  /\ record.at \in {"idle", "insert"} => record.held = {}
             /\ record.at = "idle" => record.made = {}
             /\ record.at = "insert" => before(record.passed) /\ record.made \subseteq record.passed
             /\ record.at = "lock" => before(record.held)
             /\ record.at \in {"read", "append", "close"} => record.held = DOMAIN record.want,
         record.at = "append" =>
           record.seen = {p \in LiveVersions : p[1] \in DOMAIN record.want}
  PROVE  EdgesInv'
<1>1. /\ EdgesTypeOK'
      /\ call'[c] = record /\ \A d \in Callers \ {c} : call'[d] = call[d]
      /\ versions' = versions
  BY GoesTypes DEF EdgesInv
<1>2. DOMAIN record.want \subseteq Edge
  BY DEF Call
<1>3. OrderIsKept'
  <2>1. ASSUME NEW d \in Callers, NEW f \in Callers, d # f
        PROVE  call'[d].held \cap call'[f].held = {}
    <3>1. CASE d = c
      BY <1>1, <2>1, <3>1 DEF EdgesInv, OrderIsKept, HeldBy
    <3>2. CASE f = c
      BY <1>1, <2>1, <3>2 DEF EdgesInv, OrderIsKept, HeldBy
    <3>3. CASE d # c /\ f # c
      BY <1>1, <2>1, <3>3 DEF EdgesInv, OrderIsKept
    <3> QED
      BY <3>1, <3>2, <3>3
  <2>2. ASSUME NEW d \in Callers
        PROVE  LET t == call'[d]
                   before(done) == done \subseteq DOMAIN t.want
                                     /\ \A a \in done, b \in DOMAIN t.want \ done : a < b
               IN  /\ DOMAIN t.want \subseteq Edge
                   /\ t.at \in {"idle", "insert"} => t.held = {}
                   /\ t.at = "idle" => t.made = {}
                   /\ t.at = "insert" => before(t.passed) /\ t.made \subseteq t.passed
                   /\ t.at = "lock" => before(t.held)
                   /\ t.at \in {"read", "append", "close"} => t.held = DOMAIN t.want
    <3>1. CASE d = c
      BY <1>1, <1>2, <3>1
    <3>2. CASE d # c
      <4>1. call'[d] = call[d]
        BY <1>1, <3>2
      <4> QED
        BY <4>1 DEF EdgesInv, OrderIsKept, Wanted
    <3> QED
      BY <3>1, <3>2
  <2> QED
    BY <2>1, <2>2 DEF OrderIsKept, Wanted
<1>4. ReadIsTrue' /\ OneLiveVersion'
  <2>1. LiveVersions' = LiveVersions /\ \A e \in Edge : LiveOf(e)' = LiveOf(e)
    BY <1>1 DEF LiveVersions, LiveOf
  <2>2. OneLiveVersion'
    BY <1>1, <2>1 DEF EdgesInv, OneLiveVersion
  <2>3. ReadIsTrue'
    BY <1>1, <2>1 DEF EdgesInv, ReadIsTrue, Is, Wanted
  <2> QED
    BY <2>2, <2>3
<1> QED
  BY <1>1, <1>3, <1>4 DEF EdgesInv

LEMMA RestingIsACall ==
  /\ Resting \in Call /\ DOMAIN Resting.want = {} /\ Resting.does = "assert"
  /\ Resting.held = {} /\ Resting.made = {} /\ Resting.passed = {} /\ Resting.at = "idle"
<1>1. <<>> \in [{} -> EdgeClaims \cup {NoClaim}]
  OBVIOUS
<1>2. <<>> \in UNION {[edges -> EdgeClaims \cup {NoClaim}] : edges \in SUBSET Edge}
  BY <1>1
<1> QED
  BY <1>2 DEF Resting, Call

LEMMA EdgesInvInit == EdgesInit => EdgesInv
<1> SUFFICES ASSUME EdgesInit PROVE EdgesInv
  OBVIOUS
<1>1. EdgesTypeOK
  BY RestingIsACall DEF EdgesInit, EdgesTypeOK
<1>2. OrderIsKept
  BY RestingIsACall DEF EdgesInit, OrderIsKept, Wanted
<1>3. ReadIsTrue
  BY RestingIsACall DEF EdgesInit, ReadIsTrue, Is
<1>4. OneLiveVersion
  BY DEF EdgesInit, OneLiveVersion, LiveOf
<1> QED
  BY <1>1, <1>2, <1>3, <1>4 DEF EdgesInv

\* What a caller's record is made of.
LEMMA CallTypes ==
  ASSUME EdgesInv, NEW c \in Callers
  PROVE  /\ call[c] \in Call /\ Wanted(c) \subseteq Edge
         /\ call[c].at \in {"idle", "insert", "read", "append"} => call[c].does = "assert"
         /\ call[c].does = "assert" =>
              \A e \in DOMAIN call[c].want : call[c].want[e] \in EdgeClaims
BY DEF EdgesInv, EdgesTypeOK, OrderIsKept

LEMMA LiveVersionsType ==
  ASSUME EdgesInv
  PROVE  LiveVersions \subseteq Edge \X Nat
BY DEF EdgesInv, EdgesTypeOK, LiveVersions, LiveOf

-----------------------------------------------------------------------------
(* The steps that leave the versions alone.                                *)

LEMMA BeginAssertKeeps ==
  ASSUME EdgesInv, NEW c \in Callers, BeginAssert(c)
  PROVE  EdgesInv'
<1>1. PICK edges \in SUBSET Edge : \E claims \in [edges -> EdgeClaims] :
        LET pending == {e \in edges : ~\E p \in LiveVersions : p[1] = e /\ ClaimOf(p) = claims[e]}
        IN Goes(c, [Resting EXCEPT !.at = "insert", !.want = [e \in pending |-> claims[e]]])
  BY DEF BeginAssert
<1>5. PICK claims \in [edges -> EdgeClaims] :
        LET pending == {e \in edges : ~\E p \in LiveVersions : p[1] = e /\ ClaimOf(p) = claims[e]}
        IN Goes(c, [Resting EXCEPT !.at = "insert", !.want = [e \in pending |-> claims[e]]])
  BY <1>1
<1>6. PICK pending \in SUBSET edges :
        Goes(c, [Resting EXCEPT !.at = "insert", !.want = [e \in pending |-> claims[e]]])
  <2> DEFINE doubtful == {e \in edges : ~\E p \in LiveVersions : p[1] = e /\ ClaimOf(p) = claims[e]}
  <2>1. doubtful \in SUBSET edges
    OBVIOUS
  <2> QED
    BY <1>5, <2>1
<1> DEFINE want == [e \in pending |-> claims[e]]
           record == [Resting EXCEPT !.at = "insert", !.want = want]
<1>2. /\ want \in UNION {[es -> EdgeClaims \cup {NoClaim}] : es \in SUBSET Edge}
      /\ DOMAIN want = pending /\ \A e \in pending : want[e] \in EdgeClaims
  <2>1. want \in [pending -> EdgeClaims \cup {NoClaim}] /\ pending \in SUBSET Edge
    OBVIOUS
  <2> QED
    BY <2>1
<1> HIDE DEF want
<1>3. /\ record \in Call /\ record.want = want /\ record.at = "insert" /\ record.does = "assert"
      /\ record.held = {} /\ record.made = {} /\ record.passed = {}
  BY <1>2, RestingIsACall DEF Call, Resting
<1> HIDE DEF record
<1>4. Goes(c, record)
  BY <1>6 DEF record, want
<1> QED
  BY <1>2, <1>3, <1>4, GoesKeeps

LEMMA CloseBegins ==
  ASSUME EdgesInv, NEW c \in Callers, NEW seen \in SUBSET LiveVersions, NEW edges \in SUBSET Edge,
         Goes(c, [Resting EXCEPT !.at = "lock", !.does = "close", !.seen = seen,
                                 !.want = [e \in edges |-> NoClaim]])
  PROVE  EdgesInv'
<1> DEFINE want == [e \in edges |-> NoClaim]
           record == [Resting EXCEPT !.at = "lock", !.does = "close", !.seen = seen, !.want = want]
<1>1. want \in UNION {[es -> EdgeClaims \cup {NoClaim}] : es \in SUBSET Edge} /\ DOMAIN want = edges
  <2>1. want \in [edges -> EdgeClaims \cup {NoClaim}]
    OBVIOUS
  <2> QED
    BY <2>1
<1> HIDE DEF want
<1>2. /\ record \in Call /\ record.want = want /\ record.at = "lock" /\ record.does = "close"
      /\ record.held = {}
  BY <1>1, RestingIsACall, LiveVersionsType DEF Call, Resting
<1>3. Goes(c, record)
  BY DEF record, want
<1> HIDE DEF record
<1> QED
  BY <1>1, <1>2, <1>3, GoesKeeps

LEMMA BeginCloseKeeps ==
  ASSUME EdgesInv, NEW c \in Callers, BeginRetract(c) \/ CloseEdge(c)
  PROVE  EdgesInv'
<1>1. CASE BeginRetract(c)
  <2>1. PICK edges \in SUBSET Edge :
          LET doomed == {p \in LiveVersions : p[1] \in edges /\ ClaimOf(p) \in Derived}
          IN Goes(c, [Resting EXCEPT !.at = "lock", !.does = "close", !.seen = doomed,
                                     !.want = [e \in {p[1] : p \in doomed} |-> NoClaim]])
    BY <1>1 DEF BeginRetract
  <2> DEFINE doomed == {p \in LiveVersions : p[1] \in edges /\ ClaimOf(p) \in Derived}
  <2>2. doomed \in SUBSET LiveVersions /\ {p[1] : p \in doomed} \in SUBSET Edge
    BY LiveVersionsType
  <2> HIDE DEF doomed
  <2> QED
    BY <2>1, <2>2, CloseBegins DEF doomed
<1>2. CASE CloseEdge(c)
  <2>1. PICK e \in Edge :
          Goes(c, [Resting EXCEPT !.at = "lock", !.does = "close",
                                  !.seen = {p \in LiveVersions : p[1] = e},
                                  !.want = [x \in {e} |-> NoClaim]])
    BY <1>2 DEF CloseEdge, Existing
  <2>2. {p \in LiveVersions : p[1] = e} \in SUBSET LiveVersions /\ {e} \in SUBSET Edge
    OBVIOUS
  <2> QED
    BY <2>1, <2>2, CloseBegins
<1> QED
  BY <1>1, <1>2

\* The first of what is left comes after what has been passed, and before the rest.
LEMMA FirstIsNext ==
  ASSUME NEW wanted \in SUBSET Edge, NEW done \in SUBSET wanted,
         \A a \in done, b \in wanted \ done : a < b,
         NEW e \in First(wanted \ done)
  PROVE  /\ done \cup {e} \subseteq wanted
         /\ \A a \in done \cup {e}, b \in wanted \ (done \cup {e}) : a < b
<1>1. e \in wanted \ done /\ \A d \in wanted \ done : e <= d
  BY DEF First
<1>2. \A d \in wanted : d \in Int
  BY EdgesAssumption DEF Edge, EdgesAssumption
<1> QED
  BY <1>1, <1>2

LEMMA InsertNextKeeps ==
  ASSUME EdgesInv, NEW c \in Callers, InsertNext(c)
  PROVE  EdgesInv'
<1>1. PICK e \in First(Wanted(c) \ call[c].passed) :
        Goes(c, [call[c] EXCEPT !.passed = @ \cup {e},
                                !.made = IF e \in Existing THEN @ ELSE @ \cup {e}])
  BY DEF InsertNext
<1> DEFINE made == IF e \in Existing THEN call[c].made ELSE call[c].made \cup {e}
           record == [call[c] EXCEPT !.passed = @ \cup {e}, !.made = made]
<1>2. /\ call[c].at = "insert" /\ call[c].held = {} /\ call[c].made \subseteq call[c].passed
      /\ call[c].passed \subseteq Wanted(c)
      /\ \A a \in call[c].passed, b \in Wanted(c) \ call[c].passed : a < b
  BY DEF InsertNext, Is, EdgesInv, OrderIsKept
<1>3. /\ call[c].passed \cup {e} \subseteq Wanted(c)
      /\ \A a \in call[c].passed \cup {e}, b \in Wanted(c) \ (call[c].passed \cup {e}) : a < b
  <2> DEFINE wanted == Wanted(c)
             done == call[c].passed
  <2>1. /\ wanted \in SUBSET Edge /\ done \in SUBSET wanted /\ e \in First(wanted \ done)
        /\ \A a \in done, b \in wanted \ done : a < b
    BY <1>2, CallTypes
  <2> HIDE DEF wanted, done
  <2>2. /\ done \cup {e} \subseteq wanted
        /\ \A a \in done \cup {e}, b \in wanted \ (done \cup {e}) : a < b
    BY <2>1, FirstIsNext
  <2> QED
    BY <2>2 DEF wanted, done
<1>4. /\ record \in Call /\ record.at = "insert" /\ record.does = "assert" /\ record.held = {}
      /\ record.want = call[c].want /\ record.passed = call[c].passed \cup {e}
      /\ record.made \subseteq record.passed
  BY <1>2, <1>3, CallTypes DEF Call
<1>5. Goes(c, record)
  BY <1>1
<1> HIDE DEF record
<1> QED
  BY <1>2, <1>3, <1>4, <1>5, CallTypes, GoesKeeps DEF Wanted

LEMMA InsertedKeeps ==
  ASSUME EdgesInv, NEW c \in Callers, Inserted(c)
  PROVE  EdgesInv'
<1> DEFINE record == [call[c] EXCEPT !.at = "lock", !.passed = {}]
<1>1. call[c].at = "insert" /\ call[c].held = {} /\ Goes(c, record)
  BY DEF Inserted, Is, EdgesInv, OrderIsKept
<1>2. /\ record \in Call /\ record.at = "lock" /\ record.does = "assert" /\ record.held = {}
      /\ record.want = call[c].want
  BY <1>1, CallTypes DEF Call
<1> HIDE DEF record
<1> QED
  BY <1>1, <1>2, CallTypes, GoesKeeps DEF Wanted

LEMMA LockNextKeeps ==
  ASSUME EdgesInv, NEW c \in Callers, LockNext(c)
  PROVE  EdgesInv'
<1>1. PICK e \in First(Wanted(c) \ call[c].held) :
        HeldBy(c, e) = {} /\ Goes(c, [call[c] EXCEPT !.held = @ \cup {e}])
  BY DEF LockNext
<1> DEFINE record == [call[c] EXCEPT !.held = @ \cup {e}]
<1>2. /\ call[c].at = "lock" /\ call[c].held \subseteq Wanted(c)
      /\ \A a \in call[c].held, b \in Wanted(c) \ call[c].held : a < b
  BY DEF LockNext, Is, EdgesInv, OrderIsKept
<1>3. /\ call[c].held \cup {e} \subseteq Wanted(c)
      /\ \A a \in call[c].held \cup {e}, b \in Wanted(c) \ (call[c].held \cup {e}) : a < b
  <2> DEFINE wanted == Wanted(c)
             done == call[c].held
  <2>1. /\ wanted \in SUBSET Edge /\ done \in SUBSET wanted /\ e \in First(wanted \ done)
        /\ \A a \in done, b \in wanted \ done : a < b
    BY <1>2, CallTypes
  <2> HIDE DEF wanted, done
  <2>2. /\ done \cup {e} \subseteq wanted
        /\ \A a \in done \cup {e}, b \in wanted \ (done \cup {e}) : a < b
    BY <2>1, FirstIsNext
  <2> QED
    BY <2>2 DEF wanted, done
<1>4. /\ record \in Call /\ record.at = "lock" /\ record.does = call[c].does
      /\ record.want = call[c].want /\ record.held = call[c].held \cup {e}
  BY <1>2, <1>3, CallTypes DEF Call
<1>5. Goes(c, record)
  BY <1>1
<1> HIDE DEF record
<1> QED
  BY <1>1, <1>2, <1>3, <1>4, <1>5, CallTypes, GoesKeeps DEF Wanted

LEMMA LockedKeeps ==
  ASSUME EdgesInv, NEW c \in Callers, Locked(c)
  PROVE  EdgesInv'
<1> DEFINE next == IF call[c].does = "close" THEN "close" ELSE "read"
           record == [call[c] EXCEPT !.at = next]
<1>1. call[c].at = "lock" /\ call[c].held = Wanted(c) /\ Goes(c, record)
  BY DEF Locked, Is
<1>2. /\ record \in Call /\ record.at = next /\ record.does = call[c].does
      /\ record.want = call[c].want /\ record.held = call[c].held
  BY <1>1, CallTypes DEF Call
<1>3. next = "close" \/ (next = "read" /\ call[c].does = "assert")
  BY CallTypes DEF Call
<1> HIDE DEF record, next
<1> QED
  BY <1>1, <1>2, <1>3, CallTypes, GoesKeeps DEF Wanted

LEMMA ReadVersionsKeeps ==
  ASSUME EdgesInv, NEW c \in Callers, ReadVersions(c)
  PROVE  EdgesInv'
<1> DEFINE seen == {p \in LiveVersions : p[1] \in Wanted(c)}
           record == [call[c] EXCEPT !.at = "append", !.seen = seen]
<1>1. call[c].at = "read" /\ call[c].held = Wanted(c) /\ Goes(c, record)
  BY DEF ReadVersions, Is, EdgesInv, OrderIsKept
<1>2. seen \in SUBSET (Edge \X Nat)
  BY LiveVersionsType
<1> HIDE DEF seen
<1>3. /\ record \in Call /\ record.at = "append" /\ record.does = "assert"
      /\ record.want = call[c].want /\ record.held = call[c].held /\ record.seen = seen
  BY <1>1, <1>2, CallTypes DEF Call
<1> HIDE DEF record
<1> QED
  BY <1>1, <1>3, CallTypes, GoesKeeps DEF Wanted, seen

LEMMA RollBackKeeps ==
  ASSUME EdgesInv, NEW c \in Callers, RollBack(c)
  PROVE  EdgesInv'
BY RestingIsACall, GoesKeeps DEF RollBack

-----------------------------------------------------------------------------
(* The steps that write versions, of edges the caller has locked.          *)

LEMMA ClosedType ==
  ASSUME EdgesTypeOK, NEW e \in Edge, NEW seen
  PROVE  /\ Closed(e, seen) \in Seq(Version) /\ Len(Closed(e, seen)) = Len(versions[e])
         /\ \A v \in DOMAIN versions[e] :
              Closed(e, seen)[v].live <=> versions[e][v].live /\ <<e, v>> \notin seen
<1>1. versions[e] \in Seq(Version) /\ DOMAIN versions[e] = 1 .. Len(versions[e])
  BY DEF EdgesTypeOK
<1>2. \A v \in 1 .. Len(versions[e]) :
        /\ Closed(e, seen)[v] = [versions[e][v] EXCEPT !.live = @ /\ <<e, v>> \notin seen]
        /\ versions[e][v] \in Version
  BY <1>1 DEF Closed
<1>3. \A v \in 1 .. Len(versions[e]) :
        /\ Closed(e, seen)[v] \in Version
        /\ Closed(e, seen)[v].live <=> versions[e][v].live /\ <<e, v>> \notin seen
  BY <1>2 DEF Version
<1>4. Closed(e, seen) = [v \in 1 .. Len(versions[e]) |-> Closed(e, seen)[v]]
  BY <1>1 DEF Closed
<1>5. Closed(e, seen) \in Seq(Version)
  <2> DEFINE closed == Closed(e, seen)
             n == Len(versions[e])
  <2>2. n \in Nat
    BY <1>1
  <2>3. closed = [v \in 1 .. n |-> closed[v]] /\ \A v \in 1 .. n : closed[v] \in Version
    BY <1>3, <1>4
  <2> HIDE DEF closed, n
  <2>1. closed \in [1 .. n -> Version]
    BY <2>3
  <2>4. closed \in Seq(Version)
    BY <2>1, <2>2, SeqDef
  <2> QED
    BY <2>4 DEF closed
<1>6. Len(Closed(e, seen)) = Len(versions[e])
  BY <1>1, <1>4, <1>5
<1> QED
  BY <1>1, <1>3, <1>5, <1>6

\* A transaction that commits lets its locks go, and changed only what it had
\* locked: what others read under theirs stays true.
LEMMA CommitKeeps ==
  ASSUME EdgesInv, NEW c \in Callers, call[c].at \in {"append", "close"},
         call' = [call EXCEPT ![c] = Resting],
         versions' \in [Edge -> Seq(Version)],
         \A e \in Edge \ Wanted(c) : versions'[e] = versions[e],
         \A e \in Edge : {v \in DOMAIN versions'[e] : versions'[e][v].live} \subseteq {Len(versions'[e])}
  PROVE  EdgesInv'
<1>1. call'[c] = Resting /\ \A d \in Callers \ {c} : call'[d] = call[d]
  BY DEF EdgesInv, EdgesTypeOK
<1>2. EdgesTypeOK'
  BY <1>1, RestingIsACall DEF EdgesInv, EdgesTypeOK
<1>3. OneLiveVersion'
  BY DEF OneLiveVersion, LiveOf
<1>4. OrderIsKept'
  <2>1. ASSUME NEW d \in Callers, NEW f \in Callers, d # f
        PROVE  call'[d].held \cap call'[f].held = {}
    BY <1>1, <2>1, RestingIsACall DEF EdgesInv, OrderIsKept
  <2>2. ASSUME NEW d \in Callers
        PROVE  LET t == call'[d]
                   before(done) == done \subseteq DOMAIN t.want
                                     /\ \A a \in done, b \in DOMAIN t.want \ done : a < b
               IN  /\ DOMAIN t.want \subseteq Edge
                   /\ t.at \in {"idle", "insert"} => t.held = {}
                   /\ t.at = "idle" => t.made = {}
                   /\ t.at = "insert" => before(t.passed) /\ t.made \subseteq t.passed
                   /\ t.at = "lock" => before(t.held)
                   /\ t.at \in {"read", "append", "close"} => t.held = DOMAIN t.want
    <3>1. CASE d = c
      BY <1>1, <3>1, RestingIsACall
    <3>2. CASE d # c
      <4>1. call'[d] = call[d]
        BY <1>1, <3>2
      <4> QED
        BY <4>1 DEF EdgesInv, OrderIsKept, Wanted
    <3> QED
      BY <3>1, <3>2
  <2> QED
    BY <2>1, <2>2 DEF OrderIsKept, Wanted
<1>5. ReadIsTrue'
  <2> SUFFICES ASSUME NEW d \in Callers, call'[d].at = "append"
               PROVE  call'[d].seen = {p \in LiveVersions' : p[1] \in DOMAIN call'[d].want}
    BY DEF ReadIsTrue, Is, Wanted
  <2>1. d # c /\ call'[d] = call[d]
    BY <1>1, RestingIsACall
  <2>2. call[d].seen = {p \in LiveVersions : p[1] \in Wanted(d)}
    BY <2>1 DEF EdgesInv, ReadIsTrue, Is
  <2>3. Wanted(c) \cap Wanted(d) = {}
    BY <2>1 DEF EdgesInv, OrderIsKept
  <2>4. \A e \in Wanted(d) : versions'[e] = versions[e] /\ e \in Edge
    BY <2>3, CallTypes
  <2>5. \A e \in Wanted(d) : LiveOf(e)' = LiveOf(e)
    BY <2>4 DEF LiveOf
  <2>6. {p \in LiveVersions' : p[1] \in Wanted(d)} = {p \in LiveVersions : p[1] \in Wanted(d)}
    BY <2>5 DEF LiveVersions
  <2> QED
    BY <2>1, <2>2, <2>6 DEF Wanted
<1> QED
  BY <1>2, <1>3, <1>4, <1>5 DEF EdgesInv

LEMMA CloseVersionsKeeps ==
  ASSUME EdgesInv, NEW c \in Callers, CloseVersions(c)
  PROVE  EdgesInv'
<1>1. /\ call[c].at = "close" /\ call' = [call EXCEPT ![c] = Resting]
      /\ versions' = [e \in Edge |-> IF e \in Wanted(c) THEN Closed(e, call[c].seen) ELSE versions[e]]
  BY DEF CloseVersions, Is
<1>2. versions' \in [Edge -> Seq(Version)]
  BY <1>1, ClosedType DEF EdgesInv, EdgesTypeOK
<1>3. ASSUME NEW e \in Edge
      PROVE  {v \in DOMAIN versions'[e] : versions'[e][v].live} \subseteq {Len(versions'[e])}
  <2>1. {v \in DOMAIN versions[e] : versions[e][v].live} \subseteq {Len(versions[e])}
    BY DEF EdgesInv, OneLiveVersion, LiveOf
  <2>2. CASE e \in Wanted(c)
    <3>1. versions'[e] = Closed(e, call[c].seen)
      BY <1>1, <2>2
    <3>2. DOMAIN versions'[e] = DOMAIN versions[e] /\ Len(versions'[e]) = Len(versions[e])
      BY <3>1, ClosedType DEF EdgesInv, EdgesTypeOK
    <3>3. \A v \in DOMAIN versions[e] : versions'[e][v].live => versions[e][v].live
      BY <3>1, ClosedType DEF EdgesInv
    <3> QED
      BY <2>1, <3>2, <3>3
  <2>3. CASE e \notin Wanted(c)
    BY <1>1, <2>1, <2>3
  <2> QED
    BY <2>2, <2>3
<1> QED
  BY <1>1, <1>2, <1>3, CommitKeeps

LEMMA AppendVersionsKeeps ==
  ASSUME EdgesInv, NEW c \in Callers, AppendVersions(c)
  PROVE  EdgesInv'
<1> DEFINE t == call[c]
           unchanged == {e \in Wanted(c) : \E p \in t.seen : p[1] = e /\ ClaimOf(p) = t.want[e]}
           new(e) == [claim |-> t.want[e], live |-> TRUE]
<1>1. /\ t.at = "append" /\ call' = [call EXCEPT ![c] = Resting]
      /\ versions' = [e \in Edge |-> IF e \in Wanted(c) \ unchanged
                                     THEN Append(Closed(e, t.seen), new(e)) ELSE versions[e]]
  BY DEF AppendVersions, Is
<1>2. t.seen = {p \in LiveVersions : p[1] \in Wanted(c)}
  BY <1>1 DEF EdgesInv, ReadIsTrue, Is
<1>3. \A e \in Wanted(c) : new(e) \in Version /\ new(e).live
  BY <1>1, CallTypes DEF Version, Wanted
<1> HIDE DEF unchanged, new
<1>4. versions' \in [Edge -> Seq(Version)]
  BY <1>1, <1>3, ClosedType DEF EdgesInv, EdgesTypeOK
<1>5. ASSUME NEW e \in Edge
      PROVE  {v \in DOMAIN versions'[e] : versions'[e][v].live} \subseteq {Len(versions'[e])}
  <2>1. {v \in DOMAIN versions[e] : versions[e][v].live} \subseteq {Len(versions[e])}
    BY DEF EdgesInv, OneLiveVersion, LiveOf
  <2>2. CASE e \in Wanted(c) \ unchanged
    <3>1. versions'[e] = Append(Closed(e, t.seen), new(e))
      BY <1>1, <2>2
    <3>2. \A v \in DOMAIN versions[e] : versions[e][v].live => <<e, v>> \in t.seen
      BY <1>2, <2>2 DEF LiveVersions, LiveOf
    <3>3. \A v \in DOMAIN versions[e] : ~Closed(e, t.seen)[v].live
      BY <3>2, ClosedType DEF EdgesInv
    <3>4. /\ Closed(e, t.seen) \in Seq(Version) /\ versions[e] \in Seq(Version)
          /\ Len(Closed(e, t.seen)) = Len(versions[e])
      BY ClosedType DEF EdgesInv, EdgesTypeOK
    <3>5. \A v \in DOMAIN versions'[e] :
            v = Len(versions'[e]) \/ (v \in DOMAIN versions[e] /\ versions'[e][v] = Closed(e, t.seen)[v])
      BY <1>3, <2>2, <3>1, <3>4
    <3> QED
      BY <3>3, <3>5
  <2>3. CASE e \notin Wanted(c) \ unchanged
    BY <1>1, <2>1, <2>3
  <2> QED
    BY <2>2, <2>3
<1>6. \A e \in Edge \ Wanted(c) : versions'[e] = versions[e]
  BY <1>1
<1> QED
  BY <1>1, <1>4, <1>5, <1>6, CommitKeeps

LEMMA EdgesInvNext == EdgesInv /\ [EdgesNext]_edgeVars => EdgesInv'
<1> SUFFICES ASSUME EdgesInv, [EdgesNext]_edgeVars PROVE EdgesInv'
  OBVIOUS
<1>1. ASSUME NEW c \in Callers,
             \/ BeginAssert(c) \/ BeginRetract(c) \/ CloseEdge(c)
             \/ InsertNext(c) \/ Inserted(c) \/ LockNext(c) \/ Locked(c)
             \/ ReadVersions(c) \/ AppendVersions(c) \/ CloseVersions(c) \/ RollBack(c)
      PROVE  EdgesInv'
  BY <1>1, BeginAssertKeeps, BeginCloseKeeps, InsertNextKeeps, InsertedKeeps, LockNextKeeps,
     LockedKeeps, ReadVersionsKeeps, AppendVersionsKeeps, CloseVersionsKeeps, RollBackKeeps
<1>2. CASE UNCHANGED edgeVars
  BY <1>2 DEF edgeVars, EdgesInv, EdgesTypeOK, OrderIsKept, ReadIsTrue, OneLiveVersion, Is, Wanted,
              LiveVersions, LiveOf
<1> QED
  BY <1>1, <1>2 DEF EdgesNext

\* Everything the invariant says holds of every state: the types, that locks are
\* apart and taken in order, and that what a call read under its locks stays true
\* until it commits (assert_within, retract_derived_all, close_edge).
THEOREM EdgesAreConsistent == EdgesSpec => []EdgesInv
BY EdgesInvInit, EdgesInvNext, PTL DEF EdgesSpec

\* Two assertions of an edge make one live version of it, the newest, whatever
\* other calls come between their statements (assert_within, close_edge).
THEOREM EdgesHaveOneLiveVersion == EdgesSpec => []OneLiveVersion
<1>1. EdgesInv => OneLiveVersion
  BY DEF EdgesInv
<1> QED
  BY <1>1, EdgesAreConsistent, PTL

-----------------------------------------------------------------------------
(* Who waits for whom.                                                     *)

\* The identity a call waits at, if it does.
Awaited(c) ==
  CASE Is(c, "insert") -> First(Wanted(c) \ call[c].passed)
    [] Is(c, "lock") -> First(Wanted(c) \ call[c].held)
    [] OTHER -> {}

\* How far a call that waits has got: every insert comes before every lock, and
\* either goes through the identities in order.
Progress(c, e) == IF Is(c, "lock") THEN MaxEdge + e ELSE e

LEMMA FirstIsOne ==
  ASSUME NEW edges \in SUBSET Edge, NEW a \in First(edges), NEW b \in First(edges)
  PROVE  a = b
BY EdgesAssumption DEF First, Edge, EdgesAssumption

\* Whom a call waits for has got further, if it waits as well.
LEMMA WaitingClimbs ==
  ASSUME EdgesInv, NEW c \in Callers, NEW d \in WaitsFor(c), NEW a \in Awaited(c),
         NEW b \in Awaited(d)
  PROVE  d \in Callers /\ Progress(c, a) < Progress(d, b)
<1>1. a \in Edge /\ d \in Callers
  BY CallTypes DEF Awaited, WaitsFor, MadeBy, HeldBy, First
<1>2. b \in Edge
  BY <1>1, CallTypes DEF Awaited, First
<1>3. \A e \in Edge : e \in Nat /\ e <= MaxEdge /\ 1 <= e
  BY EdgesAssumption DEF Edge, EdgesAssumption
<1>4. MaxEdge \in Nat
  BY EdgesAssumption DEF EdgesAssumption
<1>5. CASE Is(c, "insert")
  <2>1. a \in call[d].made
    <3>1. PICK e \in First(Wanted(c) \ call[c].passed) : d \in MadeBy(c, e)
      BY <1>5 DEF WaitsFor, Is
    <3>2. a = e
      BY <1>5, <3>1, CallTypes, FirstIsOne DEF Awaited, Is
    <3> QED
      BY <3>1, <3>2 DEF MadeBy
  <2>2. CASE Is(d, "insert")
    <3>1. a \in call[d].passed /\ b \in Wanted(d) \ call[d].passed
      BY <1>1, <2>1, <2>2 DEF EdgesInv, OrderIsKept, Is, Awaited, First
    <3>2. a < b
      BY <1>1, <2>2, <3>1 DEF EdgesInv, OrderIsKept, Is
    <3> QED
      BY <1>1, <1>5, <2>2, <3>2 DEF Progress, Is
  <2>3. CASE Is(d, "lock")
    BY <1>1, <1>2, <1>3, <1>4, <1>5, <2>3 DEF Progress, Is
  <2> QED
    BY <2>2, <2>3 DEF Awaited
<1>6. CASE Is(c, "lock")
  <2>1. a \in call[d].held
    <3>1. PICK e \in First(Wanted(c) \ call[c].held) : d \in HeldBy(c, e)
      BY <1>6 DEF WaitsFor, Is
    <3>2. a = e
      BY <1>6, <3>1, CallTypes, FirstIsOne DEF Awaited, Is
    <3> QED
      BY <3>1, <3>2 DEF HeldBy
  <2>2. Is(d, "lock")
    BY <1>1, <2>1 DEF Awaited, EdgesInv, OrderIsKept, Is
  <2>3. a < b
    <3>1. b \in Wanted(d) \ call[d].held
      BY <2>2 DEF Awaited, Is, First
    <3> QED
      BY <1>1, <2>1, <2>2, <3>1 DEF EdgesInv, OrderIsKept, Is
  <2> QED
    BY <1>1, <1>2, <1>3, <1>4, <1>6, <2>2, <2>3 DEF Progress
<1> QED
  BY <1>5, <1>6 DEF Awaited

\* Whoever waits for somebody waits at an identity.
LEMMA WaitingIsAwaiting ==
  ASSUME NEW c, WaitsFor(c) # {}
  PROVE  Awaited(c) # {}
BY DEF WaitsFor, Awaited

LEMMA ProgressIsANumber ==
  ASSUME EdgesInv, NEW c \in Callers, NEW e \in Awaited(c)
  PROVE  Progress(c, e) \in Nat
<1>1. e \in Edge
  BY CallTypes DEF Awaited, First
<1> QED
  BY <1>1, EdgesAssumption DEF Progress, Edge, EdgesAssumption

\* No two transactions wait for each other, directly or through a third, for every
\* statement that locks or inserts identities takes them in one order (the ORDER BY
\* of assert_within, retract_derived_all and close_edge).
THEOREM NobodyWaits == EdgesSpec => []NobodyWaitsInACircle
<1>1. ASSUME EdgesInv PROVE NobodyWaitsInACircle
  <2> SUFFICES ASSUME NEW c \in Callers, NEW d \in WaitsFor(c)
               PROVE  /\ c \notin WaitsFor(d)
                      /\ \A f \in WaitsFor(d) : c \notin WaitsFor(f)
    BY DEF NobodyWaitsInACircle
  <2>1. PICK a \in Awaited(c) : TRUE
    BY WaitingIsAwaiting
  <2>2. ASSUME NEW f \in WaitsFor(d) PROVE c \notin {f} \cup WaitsFor(f)
    <3>1. PICK b \in Awaited(d) : TRUE
      BY WaitingIsAwaiting
    <3>2. d \in Callers /\ Progress(c, a) < Progress(d, b)
      BY <1>1, WaitingClimbs
    <3>3. Progress(c, a) \in Nat /\ Progress(d, b) \in Nat
      BY <1>1, <3>2, ProgressIsANumber
    <3>4. ASSUME f = c PROVE FALSE
      <4>1. Progress(d, b) < Progress(c, a)
        BY <1>1, <3>2, <3>4, WaitingClimbs
      <4> QED
        BY <3>2, <3>3, <4>1
    <3>5. ASSUME c \in WaitsFor(f) PROVE FALSE
      <4>1. PICK e \in Awaited(f) : TRUE
        BY <3>5, WaitingIsAwaiting
      <4>2. f \in Callers /\ Progress(d, b) < Progress(f, e)
        BY <1>1, <3>2, WaitingClimbs
      <4>3. Progress(f, e) < Progress(c, a) /\ Progress(f, e) \in Nat
        BY <1>1, <3>5, <4>2, WaitingClimbs, ProgressIsANumber
      <4> QED
        BY <3>2, <3>3, <4>2, <4>3
    <3> QED
      BY <3>4, <3>5
  <2> QED
    BY <2>2
<1> QED
  BY <1>1, EdgesAreConsistent, PTL

(***************************************************************************)
(* Mentions: topics, their jobs, and the widest of them.                   *)
(***************************************************************************)
LEMMA KeysApart ==
  /\ \A t \in Topics : DeriveOf(t) \in Key /\ BackfillOf(t) \in Key
  /\ \A t, u \in Topics : DeriveOf(t) # BackfillOf(u)
  /\ \A t, u \in Topics : DeriveOf(t) = DeriveOf(u) => t = u
  /\ \A t, u \in Topics : BackfillOf(t) = BackfillOf(u) => t = u
  /\ \A k \in Key : k = DeriveOf(k.topic) \/ k = BackfillOf(k.topic)
  /\ \A k \in Key : k.topic \in Topics
BY DEF Key, DeriveOf, BackfillOf

\* The topics of a batch's jobs of a kind.
LEMMA TopicsOfJobs ==
  ASSUME NEW keys \in SUBSET Key
  PROVE  /\ TopicsOf(keys, "Derive") = {t \in Topics : DeriveOf(t) \in keys}
         /\ TopicsOf(keys, "Backfill") = {t \in Topics : BackfillOf(t) \in keys}
BY DEF Key, DeriveOf, BackfillOf, TopicsOf

LEMMA EndsOfPairs ==
  \A p \in Pairs : p[1] \in Topics /\ p[2] \in Topics /\ p = <<p[1], p[2]>>
BY MentionsAssumption DEF MentionsAssumption

\* Of finitely many topics one is as wide as any.
LEMMA OneIsWidest ==
  ASSUME NEW topics \in SUBSET Topics, topics # {}
  PROVE  \E t \in topics : \A u \in topics : Width[u] <= Width[t]
<1> DEFINE wider(t) == {u \in topics : Width[u] > Width[t]}
           above == {wider(t) : t \in topics}
<1>1. IsFiniteSet(Topics) /\ \A t \in Topics : Width[t] \in Nat
  BY MentionsAssumption DEF MentionsAssumption
<1>2. above \subseteq FiniteSubsetsOf(Topics) /\ above # {}
  <2>1. ASSUME NEW t \in topics PROVE wider(t) \in SUBSET Topics /\ IsFiniteSet(wider(t))
    BY <1>1, FS_Subset
  <2> QED
    BY <2>1 DEF FiniteSubsetsOf
<1>3. IsWellFoundedOn(StrictSubsetOrdering(Topics), FiniteSubsetsOf(Topics))
  BY FS_StrictSubsetOrderingWellFounded
<1>4. \E A \in above : \A B \in above : ~ (<<B, A>> \in StrictSubsetOrdering(Topics))
  <2> HIDE DEF above
  <2> QED
    BY <1>2, <1>3, WFMin
<1>5. PICK t \in topics : \A u \in topics : ~ (<<wider(u), wider(t)>> \in StrictSubsetOrdering(Topics))
  BY <1>4
<1>6. ASSUME NEW u \in topics, Width[u] > Width[t] PROVE FALSE
  <2>1. wider(u) \subseteq wider(t) /\ u \in wider(t) /\ u \notin wider(u)
    BY <1>1, <1>6
  <2>2. wider(u) \in SUBSET Topics /\ wider(t) \in SUBSET Topics /\ wider(u) # wider(t)
    BY <2>1
  <2>3. <<wider(u), wider(t)>> \in StrictSubsetOrdering(Topics)
    BY <2>1, <2>2, Zenon DEF StrictSubsetOrdering
  <2> QED
    BY <1>5, <2>3
<1>7. ASSUME NEW u \in topics PROVE Width[u] <= Width[t]
  BY <1>1, <1>6
<1> QED
  BY <1>7

LEMMA WidestIsWidest ==
  ASSUME NEW topics \in SUBSET Topics
  PROVE  /\ Widest(topics) \in Widths
         /\ \A t \in topics : Width[t] <= Widest(topics)
<1> DEFINE widths == {Width[t] : t \in topics} \cup {0}
<1>1. \A t \in Topics : Width[t] \in Nat
  BY MentionsAssumption DEF MentionsAssumption
<1>2. \E m \in widths : \A n \in widths : m >= n
  <2>1. CASE topics = {}
    BY <2>1
  <2>2. CASE topics # {}
    <3>1. PICK t \in topics : \A u \in topics : Width[u] <= Width[t]
      BY <2>2, OneIsWidest
    <3>2. \A n \in widths : Width[t] >= n
      BY <1>1, <3>1
    <3> QED
      BY <3>2
  <2> QED
    BY <2>1, <2>2
<1>3. \A n \in widths : Max(widths) >= n
  BY <1>2 DEF Max
<1>4. Max(widths) \in widths
  BY <1>2 DEF Max
<1>5. ASSUME NEW t \in topics PROVE Width[t] <= Widest(topics)
  <2>1. Width[t] \in widths /\ Width[t] \in Nat /\ Max(widths) \in Nat
    BY <1>1, <1>4
  <2>2. Max(widths) >= Width[t]
    BY <1>3, <2>1
  <2> QED
    BY <2>1, <2>2 DEF Widest
<1> QED
  BY <1>5 DEF Widths

LEMMA IdleIs ==
  /\ Idle \in Drain
  /\ Idle.phase = "idle" /\ Idle.pending = {} /\ Idle.jobs = {} /\ Idle.left = {}
  /\ Idle.overtaken = {}
<1>1. Widest({}) \in Widths /\ 0 = Widest({})
  <2>1. {Width[t] : t \in {}} \cup {0} = {0} /\ Max({0}) = 0
    BY DEF Max
  <2> QED
    BY <2>1 DEF Widths, Widest
<1> QED
  BY <1>1 DEF Drain, Idle, Unread, Says, Phases

\* A batch that starts, whole or one job of it alone.
LEMMA BatchIs ==
  ASSUME NEW keys \in SUBSET Key
  PROVE  LET batch == Batch(keys, {}, FALSE)
         IN  /\ batch \in Drain
             /\ batch.phase \in {"read", "probe"} /\ batch.pending = {}
             /\ batch.jobs = keys /\ batch.left = {} /\ batch.overtaken = {}
             /\ batch.phase = "probe" => \A t \in Topics : DeriveOf(t) \notin keys
<1>1. TopicsOf(keys, "Derive") = {} => \A t \in Topics : DeriveOf(t) \notin keys
  BY TopicsOfJobs
<1> QED
  BY IdleIs, <1>1 DEF Batch, Drain, Phases, Idle

LEMMA AloneIs ==
  ASSUME NEW k \in Key, NEW left \in SUBSET Key
  PROVE  LET batch == Batch({k}, left, TRUE)
         IN  /\ batch \in Drain
             /\ batch.phase \in {"read", "probe"} /\ batch.pending = {}
             /\ batch.jobs = {k} /\ batch.left = left /\ batch.overtaken = {}
             /\ batch.phase = "probe" => \A t \in Topics : DeriveOf(t) # k
<1>1. {k} \in SUBSET Key
  OBVIOUS
<1>2. TopicsOf({k}, "Derive") = {} => \A t \in Topics : DeriveOf(t) # k
  BY <1>1, TopicsOfJobs
<1> QED
  BY IdleIs, <1>1, <1>2 DEF Batch, Drain, Phases, Idle

LEMMA NamingIs ==
  ASSUME NEW texts, NEW names, NEW p \in Pairs
  PROVE  p \in Naming(texts, names) <=> p[2] \in NamesIn(texts[p[1]]) /\ p[2] \in names
BY DEF Naming

LEMMA ImpliedIs ==
  /\ Implied \subseteq Pairs
  /\ \A p \in Pairs : p \in Implied <=> p[2] \in NamesIn(says[p[1]]) /\ p[2] \in filed
BY DEF Implied, Naming

\* What is asked for is no drain's.
LEMMA AskedIsNobodys ==
  \A d \in Drains : \A k : Completes(d, k) => ~ Asked(k) /\ owed[k] # "no"
BY MentionsAssumption DEF Completes, Asked, MentionsAssumption

\* The two jobs that bear on a pair.
LEMMA JobsOfPairs ==
  \A p \in Pairs :
    /\ DeriveOf(p[1]) \in Key /\ BackfillOf(p[2]) \in Key
    /\ DeriveOf(p[1]) # BackfillOf(p[2])
BY KeysApart, EndsOfPairs

LEMMA SoundIs ==
  ASSUME MentionsInv, NEW d \in Drains
  PROVE  /\ drain[d] \in Drain /\ filed \subseteq Topics /\ says \in [Topics -> Says]
         /\ edge \in [Pairs -> {"none", "derived", "linked"}]
         /\ JobsAreKnown(d) /\ TextsAreCurrent(d) /\ NamesAreAllSeen(d) /\ CandidatesNameIt(d)
         /\ RestatedIsSaid(d) /\ RestatedIsLinked(d) /\ BackfilledIsLinked(d)
BY DEF MentionsInv, Kept, Sound

\* A drain that starts over has read nothing that could be stale.
LEMMA StartsOver ==
  ASSUME NEW d \in Drains,
         drain'[d].phase \in {"idle", "read", "probe"}, drain'[d].pending = {},
         drain'[d].phase # "read" => \A t \in Topics : DeriveOf(t) \notin drain'[d].jobs,
         \A t \in Topics : BackfillOf(t) \in drain'[d].jobs \cup drain'[d].left => t \in filed'
  PROVE  Sound(d)'
<1>1. JobsAreKnown(d)' /\ TextsAreCurrent(d)' /\ NamesAreAllSeen(d)' /\ CandidatesNameIt(d)'
  BY DEF JobsAreKnown, TextsAreCurrent, NamesAreAllSeen, CandidatesNameIt, WithTexts, WithClaims, WithNames
<1>2. drain'[d].phase # "read" => \A p \in Pairs : ~ Completes(d, DeriveOf(p[1]))'
  BY EndsOfPairs DEF Completes
<1>3. RestatedIsSaid(d)'
  BY <1>2 DEF RestatedIsSaid, AfterRestating
<1>4. RestatedIsLinked(d)'
  BY <1>2 DEF RestatedIsLinked, Implied, Naming
<1>5. BackfilledIsLinked(d)'
  BY DEF BackfilledIsLinked, WithNames
<1> QED
  BY <1>1, <1>3, <1>4, <1>5 DEF Sound

LEMMA MentionsInit == Init => MentionsInv
<1> SUFFICES ASSUME Init PROVE MentionsInv
  OBVIOUS
<1>1. Kept
  BY IdleIs DEF Init, Kept, Says
<1>2. Implied = {}
  BY EndsOfPairs DEF Init, Implied, Naming, NamesIn, Resolves
<1>3. NamesAreFiled
  BY KeysApart DEF Init, NamesAreFiled
<1>4. ASSUME NEW d \in Drains PROVE Sound(d)
  <2>1. drain[d] = Idle /\ edge = [p \in Pairs |-> "none"]
    BY DEF Init
  <2>2. JobsAreKnown(d) /\ TextsAreCurrent(d) /\ NamesAreAllSeen(d) /\ CandidatesNameIt(d)
    BY <2>1 DEF JobsAreKnown, TextsAreCurrent, NamesAreAllSeen, CandidatesNameIt, Idle, WithTexts,
                WithClaims, WithNames
  <2>3. RestatedIsSaid(d) /\ RestatedIsLinked(d) /\ BackfilledIsLinked(d)
    BY <1>2, <2>1 DEF RestatedIsSaid, RestatedIsLinked, BackfilledIsLinked
  <2> QED
    BY <2>2, <2>3 DEF Sound
<1>5. OnlyWhatIsSaid /\ NothingUnnamed
  BY <1>2 DEF OnlyWhatIsSaid, NothingUnnamed, Init
<1> QED
  BY <1>1, <1>3, <1>4, <1>5 DEF MentionsInv

\* What other drains have read stands while jobs are claimed, recorded or fail:
\* `late` are the pairs on which this overtakes them.
LEMMA OnlookersAreSound ==
  ASSUME MentionsInv, NEW e \in Drains,
         UNCHANGED <<says, filed, edge, overlooked, crossed>>,
         NEW late \in SUBSET Pairs, drain'[e] = [drain[e] EXCEPT !.overtaken = @ \cup late],
         \A k \in Key : Completes(e, k)' => Completes(e, k),
         \A p \in Pairs : BearsOn(drain[e].jobs, p) =>
           /\ Asked(DeriveOf(p[1])) => Asked(DeriveOf(p[1]))' \/ p \in late
           /\ Asked(BackfillOf(p[2])) => Asked(BackfillOf(p[2]))' \/ p \in late,
         \A p \in Implied : p \notin crossed =>
           /\ Completes(e, DeriveOf(p[1]))' /\ LeftTo(e, BackfillOf(p[2]), p) =>
                edge[p] # "none" \/ p \in overlooked \/ LeftTo(e, BackfillOf(p[2]), p)'
           /\ Completes(e, BackfillOf(p[2]))' /\ LeftTo(e, DeriveOf(p[1]), p) =>
                edge[p] # "none" \/ p \in overlooked \/ LeftTo(e, DeriveOf(p[1]), p)'
  PROVE  Sound(e)'
<1>1. /\ drain'[e].phase = drain[e].phase /\ drain'[e].jobs = drain[e].jobs
      /\ drain'[e].left = drain[e].left /\ drain'[e].texts = drain[e].texts
      /\ drain'[e].widest = drain[e].widest /\ drain'[e].claims = drain[e].claims
      /\ drain'[e].pending = drain[e].pending
      /\ drain'[e].overtaken = drain[e].overtaken \cup late
  BY SoundIs DEF Drain
<1>2. Implied' = Implied
  BY DEF Implied, Naming
<1>3. \A p \in Pairs : /\ DeriveOf(p[1]) \in drain[e].jobs => BearsOn(drain[e].jobs, p)
                       /\ BackfillOf(p[2]) \in drain[e].jobs => BearsOn(drain[e].jobs, p)
  BY DEF BearsOn
<1>4. JobsAreKnown(e)'
  BY <1>1, SoundIs DEF JobsAreKnown, Naming
<1>5. TextsAreCurrent(e)'
  BY <1>1, <1>3, SoundIs, KeysApart DEF TextsAreCurrent
<1>6. NamesAreAllSeen(e)'
  BY <1>1, <1>3, SoundIs DEF NamesAreAllSeen, Naming
<1>7. CandidatesNameIt(e)'
  <2> SUFFICES ASSUME drain[e].phase \in {"liveNames", "assertNames"}, NEW p \in drain[e].claims
               PROVE  p \in Implied \/ Asked(DeriveOf(p[1]))' \/ p \in drain[e].overtaken \cup late
    BY <1>1, <1>2 DEF CandidatesNameIt
  <2>1. p \in Pairs /\ BackfillOf(p[2]) \in drain[e].jobs
    BY SoundIs DEF JobsAreKnown, WithNames, Drain
  <2> QED
    BY <1>3, <2>1, SoundIs DEF CandidatesNameIt
<1>8. RestatedIsSaid(e)'
  BY <1>1, <1>2, SoundIs, JobsOfPairs DEF RestatedIsSaid
<1>9. RestatedIsLinked(e)'
  <2> SUFFICES ASSUME NEW p \in Implied, Completes(e, DeriveOf(p[1]))', p \notin crossed
               PROVE  \/ Stands(e, BackfillOf(p[2]), p)'
                      \/ drain[e].phase \in {"read", "widest"}
                      \/ drain[e].phase = "names" /\ Width[p[2]] <= drain[e].widest
                      \/ drain[e].phase = "live" /\ p \in drain[e].claims
                      \/ drain[e].phase = "assert" /\ p \in drain[e].pending
    BY <1>1, <1>2 DEF RestatedIsLinked
  <2>1. Completes(e, DeriveOf(p[1]))
    BY ImpliedIs, JobsOfPairs
  <2>2. Stands(e, BackfillOf(p[2]), p) => Stands(e, BackfillOf(p[2]), p)'
    BY DEF Stands
  <2> QED
    BY <2>1, <2>2, SoundIs DEF RestatedIsLinked
<1>10. BackfilledIsLinked(e)'
  <2> SUFFICES ASSUME NEW p \in Implied, Completes(e, BackfillOf(p[2]))', p \notin crossed
               PROVE  \/ Stands(e, DeriveOf(p[1]), p)'
                      \/ drain[e].phase \notin WithNames \cup {"record"}
                      \/ drain[e].phase \in {"states", "liveNames"} /\ p \in drain[e].claims
                      \/ drain[e].phase = "assertNames" /\ p \in drain[e].pending
    BY <1>1, <1>2 DEF BackfilledIsLinked
  <2>1. Completes(e, BackfillOf(p[2]))
    BY ImpliedIs, JobsOfPairs
  <2>2. Stands(e, DeriveOf(p[1]), p) => Stands(e, DeriveOf(p[1]), p)'
    BY DEF Stands
  <2> QED
    BY <2>1, <2>2, SoundIs DEF BackfilledIsLinked
<1> QED
  BY <1>4, <1>5, <1>6, <1>7, <1>8, <1>9, <1>10 DEF Sound

\* What a statement may do to the edges: assert what a text says, or close what
\* another job will see, except where it has been overtaken.
MayChange(d) ==
  \A p \in Pairs : p \notin drain[d].overtaken =>
    /\ edge'[p] = "derived" => edge[p] = "derived" \/ p \in Implied \/ Asked(DeriveOf(p[1]))
    /\ edge'[p] = "none" /\ p \in Implied =>
         edge[p] = "none" \/ Asked(DeriveOf(p[1])) \/ Asked(BackfillOf(p[2]))

\* What every statement of a drain leaves true, of the others and of itself.
LEMMA StepIs ==
  ASSUME MentionsInv, NEW d \in Drains, NEW r \in Drain, Step(d, r),
         r.jobs = drain[d].jobs, r.left = drain[d].left, r.overtaken = drain[d].overtaken,
         edge' \in [Pairs -> {"none", "derived", "linked"}], MayChange(d),
         overlooked \subseteq overlooked', CrossIfLate(d)
  PROVE  /\ drain'[d] = r /\ UNCHANGED <<says, filed, owed>> /\ Implied' = Implied
         /\ \A k : Asked(k)' <=> Asked(k)
         /\ \A e \in Drains : \A k : Completes(e, k)' <=> Completes(e, k)
         /\ \A p \in Pairs : Completes(d, DeriveOf(p[1])) /\ p \notin crossed' /\ edge'[p] = "derived" =>
              edge[p] = "derived" \/ p \in Implied
         /\ \A p \in Implied : p \notin crossed' =>
              /\ Completes(d, DeriveOf(p[1])) /\ Stands(d, BackfillOf(p[2]), p) =>
                   Stands(d, BackfillOf(p[2]), p)'
              /\ Completes(d, BackfillOf(p[2])) /\ Stands(d, DeriveOf(p[1]), p) =>
                   Stands(d, DeriveOf(p[1]), p)'
         /\ crossed \subseteq crossed'
         /\ Sound(d)' => MentionsInv'
<1>1. drain' = [drain EXCEPT ![d] = r] /\ UNCHANGED <<says, filed, owed>>
  BY DEF Step, ledgerVars
<1>2. drain \in [Drains -> Drain] /\ drain'[d] = r /\ \A e \in Drains : e # d => drain'[e] = drain[e]
  BY <1>1 DEF MentionsInv, Kept
<1>3. Implied' = Implied
  BY <1>1 DEF Implied, Naming
<1>4. \A e \in Drains : drain'[e].jobs = drain[e].jobs /\ drain'[e].overtaken = drain[e].overtaken
  BY <1>2
<1>5. \A k : Asked(k)' <=> Asked(k)
  BY <1>1 DEF Asked
<1>6. \A e \in Drains : \A k : Completes(e, k)' <=> Completes(e, k)
  BY <1>1, <1>4 DEF Completes
<1>7. \A k, p : Due(k, p)' <=> Due(k, p)
  BY <1>1, <1>4, <1>6 DEF Due
<1>8. \A e \in Drains : \A k, p : LeftTo(e, k, p)' <=> LeftTo(e, k, p)
  BY <1>4, <1>5, <1>7 DEF LeftTo
<1>9. \A p : p \in crossed' <=> p \in crossed \/ (p \in drain[d].overtaken /\ edge'[p] # edge[p])
  BY DEF CrossIfLate
<1>10. ASSUME NEW e \in Drains, NEW p \in Pairs, Completes(e, DeriveOf(p[1])), p \notin crossed',
              edge'[p] = "derived"
       PROVE  edge[p] = "derived" \/ p \in Implied
  BY <1>9, <1>10, AskedIsNobodys DEF MayChange
<1>11. ASSUME NEW e \in Drains, NEW p \in Implied, p \notin crossed', Completes(e, DeriveOf(p[1])),
              Stands(e, BackfillOf(p[2]), p)
       PROVE  Stands(e, BackfillOf(p[2]), p)'
  <2>1. edge'[p] = "none" => edge[p] = "none" \/ Asked(BackfillOf(p[2]))
    BY <1>9, <1>11, ImpliedIs, AskedIsNobodys DEF MayChange
  <2> QED
    BY <1>8, <1>11, <2>1 DEF Stands, LeftTo
<1>12. ASSUME NEW e \in Drains, NEW p \in Implied, p \notin crossed', Completes(e, BackfillOf(p[2])),
              Stands(e, DeriveOf(p[1]), p)
       PROVE  Stands(e, DeriveOf(p[1]), p)'
  <2>1. edge'[p] = "none" => edge[p] = "none" \/ Asked(DeriveOf(p[1]))
    BY <1>9, <1>12, ImpliedIs, AskedIsNobodys DEF MayChange
  <2> QED
    BY <1>8, <1>12, <2>1 DEF Stands, LeftTo
<1>13. ASSUME NEW e \in Drains, e # d PROVE Sound(e)'
  <2>1. drain'[e] = drain[e]
    BY <1>2, <1>13
  <2>2. JobsAreKnown(e)' /\ TextsAreCurrent(e)' /\ NamesAreAllSeen(e)' /\ CandidatesNameIt(e)'
    BY <1>1, <1>3, <1>5, <1>6, <2>1, SoundIs
    DEF JobsAreKnown, TextsAreCurrent, NamesAreAllSeen, CandidatesNameIt, Naming
  <2>3. RestatedIsSaid(e)'
    BY <1>3, <1>6, <1>9, <1>10, <2>1, SoundIs DEF RestatedIsSaid
  <2>4. RestatedIsLinked(e)'
    BY <1>3, <1>6, <1>9, <1>11, <2>1, SoundIs DEF RestatedIsLinked
  <2>5. BackfilledIsLinked(e)'
    BY <1>3, <1>6, <1>9, <1>12, <2>1, SoundIs DEF BackfilledIsLinked
  <2> QED
    BY <2>2, <2>3, <2>4, <2>5 DEF Sound
<1>14. Kept' /\ NamesAreFiled'
  BY <1>1 DEF MentionsInv, Kept, NamesAreFiled
<1>15. OnlyWhatIsSaid'
  <2> SUFFICES ASSUME NEW p \in Pairs, edge'[p] = "derived", owed[DeriveOf(p[1])] = "no",
                      p \notin crossed'
               PROVE  p \in Implied
    BY <1>1, <1>3 DEF OnlyWhatIsSaid
  <2>1. edge[p] = "derived" \/ p \in Implied
    BY <1>9 DEF MayChange, Asked
  <2> QED
    BY <1>9, <2>1 DEF MentionsInv, OnlyWhatIsSaid
<1>16. NothingUnnamed'
  <2> SUFFICES ASSUME NEW p \in Implied, edge'[p] = "none", owed[DeriveOf(p[1])] = "no",
                      owed[BackfillOf(p[2])] = "no", p \notin overlooked', p \notin crossed'
               PROVE  FALSE
    BY <1>1, <1>3 DEF NothingUnnamed
  <2>1. edge[p] = "none"
    BY <1>9, ImpliedIs DEF MayChange, Asked
  <2> QED
    BY <1>9, <2>1 DEF MentionsInv, NothingUnnamed
<1>17. Sound(d)' => MentionsInv'
  BY <1>13, <1>14, <1>15, <1>16 DEF MentionsInv
<1> QED
  BY <1>1, <1>2, <1>3, <1>5, <1>6, <1>9, <1>10, <1>11, <1>12, <1>17

\* A statement that only reads.
LEMMA ReadingIs ==
  ASSUME MentionsInv, NEW d \in Drains, NEW r \in Drain, Step(d, r), UNCHANGED <<edge, history>>,
         r.jobs = drain[d].jobs, r.left = drain[d].left, r.overtaken = drain[d].overtaken
  PROVE  /\ drain'[d] = r /\ UNCHANGED <<says, filed, owed, edge, overlooked, crossed>>
         /\ Implied' = Implied
         /\ \A k : Asked(k)' <=> Asked(k)
         /\ \A k : Completes(d, k)' <=> Completes(d, k)
         /\ \A p \in Implied : p \notin crossed =>
              /\ Completes(d, DeriveOf(p[1])) /\ Stands(d, BackfillOf(p[2]), p) =>
                   Stands(d, BackfillOf(p[2]), p)'
              /\ Completes(d, BackfillOf(p[2])) /\ Stands(d, DeriveOf(p[1]), p) =>
                   Stands(d, DeriveOf(p[1]), p)'
         /\ Sound(d)' => MentionsInv'
<1>1. UNCHANGED <<edge, overlooked, crossed>>
  BY DEF history
<1>2. CrossIfLate(d) /\ MayChange(d) /\ edge' \in [Pairs -> {"none", "derived", "linked"}]
  BY <1>1, SoundIs DEF CrossIfLate, MayChange
<1> QED
  BY <1>1, <1>2, StepIs

LEMMA ReadStatesKeeps ==
  ASSUME MentionsInv, NEW d \in Drains, ReadStates(d)
  PROVE  MentionsInv'
<1> DEFINE r == [drain[d] EXCEPT
       !.phase = "widest",
       !.texts = [t \in Topics |-> IF t \in TopicsOf(drain[d].jobs, "Derive")
                                   THEN says[t] ELSE Absent]]
<1>1. /\ drain[d] \in Drain /\ says \in [Topics -> Says] /\ Absent \in Says
      /\ drain[d].phase = "read" /\ drain[d].pending = {}
  BY SoundIs DEF JobsAreKnown, Says, ReadStates, At
<1>2. /\ r \in Drain /\ r.phase = "widest" /\ r.jobs = drain[d].jobs /\ r.left = drain[d].left
      /\ r.overtaken = drain[d].overtaken /\ r.pending = {}
      /\ \A t \in Topics : r.texts[t] = IF DeriveOf(t) \in drain[d].jobs THEN says[t] ELSE Absent
  BY <1>1, TopicsOfJobs DEF Drain, Phases
<1>3. Step(d, r) /\ UNCHANGED <<edge, history>>
  BY DEF ReadStates
<1> HIDE DEF r
<1>4. /\ drain'[d] = r /\ UNCHANGED <<says, filed>>
      /\ Sound(d)' => MentionsInv'
  BY <1>2, <1>3, ReadingIs
<1>5. JobsAreKnown(d)'
  BY <1>2, <1>4, SoundIs DEF JobsAreKnown, WithClaims, WithNames
<1>6. TextsAreCurrent(d)'
  BY <1>2, <1>4, EndsOfPairs DEF TextsAreCurrent, Completes
<1>7. NamesAreAllSeen(d)' /\ CandidatesNameIt(d)'
  BY <1>2, <1>4 DEF NamesAreAllSeen, CandidatesNameIt, WithClaims
<1>8. RestatedIsSaid(d)' /\ RestatedIsLinked(d)' /\ BackfilledIsLinked(d)'
  BY <1>2, <1>4 DEF RestatedIsSaid, RestatedIsLinked, BackfilledIsLinked, AfterRestating, WithNames
<1> QED
  BY <1>4, <1>5, <1>6, <1>7, <1>8 DEF Sound

LEMMA ReadWidestKeeps ==
  ASSUME MentionsInv, NEW d \in Drains, ReadWidest(d)
  PROVE  MentionsInv'
<1> DEFINE r == [drain[d] EXCEPT !.phase = "names", !.widest = Widest(filed)]
<1>1. drain[d] \in Drain /\ filed \in SUBSET Topics /\ drain[d].phase = "widest"
  BY SoundIs DEF ReadWidest, At
<1>2. /\ r \in Drain /\ r.phase = "names" /\ r.jobs = drain[d].jobs /\ r.left = drain[d].left
      /\ r.texts = drain[d].texts /\ r.claims = drain[d].claims /\ r.pending = drain[d].pending
      /\ r.overtaken = drain[d].overtaken /\ r.widest = Widest(filed)
  BY <1>1, WidestIsWidest DEF Drain, Phases
<1>3. Step(d, r) /\ UNCHANGED <<edge, history>>
  BY DEF ReadWidest
<1> HIDE DEF r
<1>4. /\ drain'[d] = r /\ UNCHANGED <<says, filed>> /\ Implied' = Implied
      /\ \A k : (Asked(k)' <=> Asked(k)) /\ (Completes(d, k)' <=> Completes(d, k))
      /\ Sound(d)' => MentionsInv'
  BY <1>2, <1>3, ReadingIs
<1>5. JobsAreKnown(d)' /\ CandidatesNameIt(d)'
  BY <1>1, <1>2, <1>4, SoundIs DEF JobsAreKnown, CandidatesNameIt, WithClaims, WithNames
<1>6. TextsAreCurrent(d)'
  BY <1>1, <1>2, <1>4, SoundIs DEF TextsAreCurrent, WithTexts
<1>7. NamesAreAllSeen(d)'
  BY <1>1, <1>2, <1>4, WidestIsWidest DEF NamesAreAllSeen, WithClaims
<1>8. RestatedIsLinked(d)'
  BY <1>1, <1>2, <1>4, WidestIsWidest, ImpliedIs DEF RestatedIsLinked
<1>9. RestatedIsSaid(d)' /\ BackfilledIsLinked(d)'
  BY <1>2, <1>4 DEF RestatedIsSaid, BackfilledIsLinked, AfterRestating, WithNames
<1> QED
  BY <1>4, <1>5, <1>6, <1>7, <1>8, <1>9 DEF Sound

LEMMA ReadNamesKeeps ==
  ASSUME MentionsInv, NEW d \in Drains, ReadNames(d)
  PROVE  MentionsInv'
<1> DEFINE names == {t \in filed : Width[t] <= drain[d].widest}
           r == [drain[d] EXCEPT !.phase = "live", !.widest = 0,
                                 !.claims = Naming(drain[d].texts, names)]
<1>1. /\ drain[d] \in Drain /\ filed \in SUBSET Topics
      /\ drain[d].phase = "names" /\ drain[d].pending = {}
  BY SoundIs DEF JobsAreKnown, ReadNames, At
<1>2. Naming(drain[d].texts, names) \subseteq Pairs
  BY DEF Naming
<1>3. 0 \in Widths
  BY IdleIs DEF Idle, Drain
<1>4. /\ r \in Drain /\ r.phase = "live" /\ r.jobs = drain[d].jobs /\ r.left = drain[d].left
      /\ r.texts = drain[d].texts /\ r.pending = {} /\ r.overtaken = drain[d].overtaken
      /\ r.claims = Naming(drain[d].texts, names)
  BY <1>1, <1>2, <1>3 DEF Drain, Phases
<1>5. Step(d, r) /\ UNCHANGED <<edge, history>>
  BY DEF ReadNames
<1> HIDE DEF r
<1>6. /\ drain'[d] = r /\ UNCHANGED <<says, filed, crossed>> /\ Implied' = Implied
      /\ \A k : (Asked(k)' <=> Asked(k)) /\ (Completes(d, k)' <=> Completes(d, k))
      /\ \A p \in Implied : p \notin crossed =>
           (Completes(d, DeriveOf(p[1])) /\ Stands(d, BackfillOf(p[2]), p) =>
              Stands(d, BackfillOf(p[2]), p)')
      /\ Sound(d)' => MentionsInv'
  BY <1>4, <1>5, ReadingIs
<1>7. \A p \in Pairs : p \in Naming(drain[d].texts, filed) /\ Width[p[2]] <= drain[d].widest
        => p \in r.claims
  BY <1>4, NamingIs
<1>8. JobsAreKnown(d)' /\ CandidatesNameIt(d)'
  <2>1. r.claims \subseteq Naming(r.texts, filed)
    BY <1>4 DEF Naming
  <2> QED
    BY <1>1, <1>4, <1>6, <2>1, SoundIs DEF JobsAreKnown, CandidatesNameIt, WithNames
<1>9. TextsAreCurrent(d)'
  BY <1>1, <1>4, <1>6, SoundIs DEF TextsAreCurrent, WithTexts
<1>10. NamesAreAllSeen(d)'
  BY <1>1, <1>4, <1>6, <1>7, SoundIs DEF NamesAreAllSeen
<1>11. RestatedIsLinked(d)'
  <2>1. ASSUME NEW p \in Implied, Completes(d, DeriveOf(p[1])), Width[p[2]] <= drain[d].widest
        PROVE  p \in r.claims
    <3>1. drain[d].texts[p[1]] = says[p[1]]
      BY <1>1, <2>1, ImpliedIs, EndsOfPairs, SoundIs DEF TextsAreCurrent, WithTexts
    <3> QED
      BY <1>7, <2>1, <3>1, ImpliedIs, NamingIs
  <2> QED
    BY <1>1, <1>4, <1>6, <2>1, SoundIs DEF RestatedIsLinked
<1>12. RestatedIsSaid(d)' /\ BackfilledIsLinked(d)'
  BY <1>4, <1>6 DEF RestatedIsSaid, BackfilledIsLinked, AfterRestating, WithNames
<1> QED
  BY <1>6, <1>8, <1>9, <1>10, <1>11, <1>12 DEF Sound

LEMMA ReadLiveKeeps ==
  ASSUME MentionsInv, NEW d \in Drains, ReadLive(d)
  PROVE  MentionsInv'
<1> PICK from \in {"live", "liveNames"} :
      /\ At(d, from)
      /\ Step(d, [drain[d] EXCEPT
           !.phase = IF from = "live" THEN "assert" ELSE "assertNames",
           !.pending = {p \in drain[d].claims : edge[p] # "derived"}])
      /\ UNCHANGED <<edge, history>>
  BY DEF ReadLive
<1> DEFINE r == [drain[d] EXCEPT !.phase = IF from = "live" THEN "assert" ELSE "assertNames",
                                 !.pending = {p \in drain[d].claims : edge[p] # "derived"}]
<1>1. drain[d] \in Drain /\ drain[d].phase = from
  BY SoundIs DEF At
<1>2. /\ r \in Drain /\ r.phase = (IF from = "live" THEN "assert" ELSE "assertNames")
      /\ r.jobs = drain[d].jobs /\ r.left = drain[d].left
      /\ r.texts = drain[d].texts /\ r.claims = drain[d].claims
      /\ r.overtaken = drain[d].overtaken
      /\ r.pending = {p \in drain[d].claims : edge[p] # "derived"}
  BY <1>1 DEF Drain, Phases
<1> HIDE DEF r
<1>3. /\ drain'[d] = r /\ UNCHANGED <<says, filed, edge, crossed>> /\ Implied' = Implied
      /\ \A k : (Asked(k)' <=> Asked(k)) /\ (Completes(d, k)' <=> Completes(d, k))
      /\ \A p \in Implied : p \notin crossed =>
           /\ Completes(d, DeriveOf(p[1])) /\ Stands(d, BackfillOf(p[2]), p) =>
                Stands(d, BackfillOf(p[2]), p)'
           /\ Completes(d, BackfillOf(p[2])) /\ Stands(d, DeriveOf(p[1]), p) =>
                Stands(d, DeriveOf(p[1]), p)'
      /\ Sound(d)' => MentionsInv'
  BY <1>2, ReadingIs DEF r
<1>4. JobsAreKnown(d)' /\ CandidatesNameIt(d)'
  BY <1>1, <1>2, <1>3, SoundIs DEF JobsAreKnown, CandidatesNameIt, WithClaims, WithNames
<1>5. TextsAreCurrent(d)' /\ NamesAreAllSeen(d)'
  BY <1>1, <1>2, <1>3, SoundIs DEF TextsAreCurrent, NamesAreAllSeen, WithTexts, WithClaims
<1>6. RestatedIsSaid(d)'
  BY <1>1, <1>2, <1>3, SoundIs DEF RestatedIsSaid, AfterRestating
<1>7. \A p \in drain[d].claims \cap Implied : \A k : p \in r.pending \/ Stands(d, k, p)'
  BY <1>2, <1>3 DEF Stands
<1>8. RestatedIsLinked(d)'
  BY <1>1, <1>2, <1>3, <1>7, SoundIs DEF RestatedIsLinked
<1>9. BackfilledIsLinked(d)'
  BY <1>1, <1>2, <1>3, <1>7, SoundIs DEF BackfilledIsLinked, WithNames
<1> QED
  BY <1>3, <1>4, <1>5, <1>6, <1>8, <1>9 DEF Sound

\* A text that names a topic is one that a drain restates.
LEMMA ClaimsAreSaid ==
  ASSUME MentionsInv, NEW d \in Drains, drain[d].phase \in WithClaims, NEW p \in drain[d].claims
  PROVE  /\ p \in Pairs /\ p \in Naming(drain[d].texts, filed)
         /\ DeriveOf(p[1]) \in drain[d].jobs
         /\ p \in Implied \/ Asked(DeriveOf(p[1])) \/ p \in drain[d].overtaken
         /\ Completes(d, DeriveOf(p[1])) => p \in Implied
<1>1. p \in Pairs /\ p \in Naming(drain[d].texts, filed)
  BY SoundIs DEF JobsAreKnown, Naming
<1>2. p[2] \in NamesIn(drain[d].texts[p[1]]) /\ p[2] \in filed
  BY <1>1, NamingIs
<1>3. drain[d].texts[p[1]] # Absent
  BY <1>2 DEF NamesIn, Resolves
<1>4. DeriveOf(p[1]) \in drain[d].jobs
  BY <1>1, <1>3, EndsOfPairs, SoundIs DEF TextsAreCurrent, WithTexts, WithClaims
<1>5. drain[d].texts[p[1]] = says[p[1]] => p \in Implied
  BY <1>1, <1>2, ImpliedIs
<1>6. \/ drain[d].texts[p[1]] = says[p[1]]
      \/ Asked(DeriveOf(p[1])) \/ p \in drain[d].overtaken
  BY <1>1, <1>4, SoundIs DEF TextsAreCurrent, WithTexts, WithClaims
<1>7. Completes(d, DeriveOf(p[1])) => drain[d].texts[p[1]] = says[p[1]]
  BY <1>1, EndsOfPairs, SoundIs DEF TextsAreCurrent, WithTexts, WithClaims
<1> QED
  BY <1>1, <1>4, <1>5, <1>6, <1>7

LEMMA AssertEdgesKeeps ==
  ASSUME MentionsInv, NEW d \in Drains, AssertEdges(d)
  PROVE  MentionsInv'
<1> PICK from \in {"assert", "assertNames"} :
      /\ At(d, from)
      /\ edge' = [p \in Pairs |-> IF p \in drain[d].pending THEN "derived" ELSE edge[p]]
      /\ Step(d, [drain[d] EXCEPT
           !.phase = IF from = "assert" THEN "retract" ELSE "record",
           !.claims = IF from = "assert" THEN @ ELSE {},
           !.pending = {}])
      /\ CrossIfLate(d)
      /\ UNCHANGED overlooked
  BY DEF AssertEdges
<1> DEFINE r == [drain[d] EXCEPT !.phase = IF from = "assert" THEN "retract" ELSE "record",
                                 !.claims = IF from = "assert" THEN @ ELSE {},
                                 !.pending = {}]
<1>1. drain[d] \in Drain /\ drain[d].phase = from /\ drain[d].pending \subseteq drain[d].claims
  BY SoundIs DEF At, JobsAreKnown
<1>2. /\ r \in Drain /\ r.phase = (IF from = "assert" THEN "retract" ELSE "record")
      /\ r.jobs = drain[d].jobs /\ r.left = drain[d].left
      /\ r.texts = drain[d].texts /\ r.pending = {} /\ r.overtaken = drain[d].overtaken
      /\ r.claims = (IF from = "assert" THEN drain[d].claims ELSE {})
  BY <1>1 DEF Drain, Phases
<1> HIDE DEF r
<1>3. /\ edge' \in [Pairs -> {"none", "derived", "linked"}]
      /\ \A p \in Pairs : edge'[p] = IF p \in drain[d].pending THEN "derived" ELSE edge[p]
  BY SoundIs
<1>4. \A p \in drain[d].pending :
        p \in Implied \/ Asked(DeriveOf(p[1])) \/ p \in drain[d].overtaken
  <2>1. CASE from = "assert"
    BY <1>1, <2>1, ClaimsAreSaid DEF WithClaims
  <2>2. CASE from = "assertNames"
    BY <1>1, <2>2, SoundIs DEF CandidatesNameIt
  <2> QED
    BY <2>1, <2>2
<1>5. MayChange(d)
  BY <1>3, <1>4 DEF MayChange
<1>6. Step(d, r) /\ overlooked \subseteq overlooked'
  BY DEF r
<1>7. /\ drain'[d] = r /\ UNCHANGED <<says, filed>> /\ Implied' = Implied
      /\ \A k : Asked(k)' <=> Asked(k)
      /\ \A k : Completes(d, k)' <=> Completes(d, k)
      /\ \A p \in Pairs : Completes(d, DeriveOf(p[1])) /\ p \notin crossed' /\ edge'[p] = "derived" =>
           edge[p] = "derived" \/ p \in Implied
      /\ \A p \in Implied : p \notin crossed' =>
           /\ Completes(d, DeriveOf(p[1])) /\ Stands(d, BackfillOf(p[2]), p) =>
                Stands(d, BackfillOf(p[2]), p)'
           /\ Completes(d, BackfillOf(p[2])) /\ Stands(d, DeriveOf(p[1]), p) =>
                Stands(d, DeriveOf(p[1]), p)'
      /\ crossed \subseteq crossed' /\ (Sound(d)' => MentionsInv')
  BY <1>2, <1>3, <1>5, <1>6, StepIs
<1>8. \A p \in Implied : \A k : p \in drain[d].pending => Stands(d, k, p)'
  BY <1>3, ImpliedIs DEF Stands
<1>9. JobsAreKnown(d)' /\ CandidatesNameIt(d)'
  BY <1>1, <1>2, <1>7, SoundIs DEF JobsAreKnown, CandidatesNameIt, WithClaims, WithNames
<1>10. TextsAreCurrent(d)' /\ NamesAreAllSeen(d)'
  BY <1>1, <1>2, <1>7, SoundIs DEF TextsAreCurrent, NamesAreAllSeen, WithTexts, WithClaims
<1>11. RestatedIsSaid(d)'
  BY <1>1, <1>2, <1>7, SoundIs DEF RestatedIsSaid, AfterRestating
<1>12. RestatedIsLinked(d)'
  BY <1>1, <1>2, <1>7, <1>8, SoundIs DEF RestatedIsLinked
<1>13. BackfilledIsLinked(d)'
  BY <1>1, <1>2, <1>7, <1>8, SoundIs DEF BackfilledIsLinked, WithNames
<1> QED
  BY <1>7, <1>9, <1>10, <1>11, <1>12, <1>13 DEF Sound

LEMMA RestatedAre ==
  ASSUME MentionsInv, NEW d \in Drains
  PROVE  /\ TopicsOf(drain[d].jobs, "Derive") = {t \in Topics : DeriveOf(t) \in drain[d].jobs}
         /\ RestatedBy(d) = {t \in Topics : DeriveOf(t) \in drain[d].jobs
                                             /\ Resolves(drain[d].texts[t])}
<1>1. drain[d].jobs \in SUBSET Key
  BY SoundIs DEF Drain
<1> QED
  BY <1>1, TopicsOfJobs DEF RestatedBy

\* Closing the edges out of restated topics that their texts do not claim.
LEMMA RetractIs ==
  ASSUME MentionsInv, NEW d \in Drains, drain[d].phase \in {"retract", "gone"},
         NEW topics \in SUBSET TopicsOf(drain[d].jobs, "Derive"), Retract(d, topics)
  PROVE  /\ edge' \in [Pairs -> {"none", "derived", "linked"}]
         /\ \A p \in Pairs : edge'[p] = "derived" /\ p[1] \in topics => p \in drain[d].claims
         /\ MayChange(d)
<1>1. edge' \in [Pairs -> {"none", "derived", "linked"}]
  BY SoundIs DEF Retract
<1>2. \A p \in Pairs : edge'[p] = IF p[1] \in topics /\ p \notin drain[d].claims /\ edge[p] = "derived"
                                  THEN "none" ELSE edge[p]
  BY DEF Retract
<1>3. ASSUME NEW p \in Implied, p \notin drain[d].overtaken, p[1] \in topics, p \notin drain[d].claims
      PROVE  Asked(DeriveOf(p[1])) \/ Asked(BackfillOf(p[2]))
  <2>1. p \in Pairs /\ DeriveOf(p[1]) \in drain[d].jobs /\ p[2] \in filed
    BY <1>3, RestatedAre, ImpliedIs
  <2>2. drain[d].texts[p[1]] = says[p[1]] \/ Asked(DeriveOf(p[1]))
    BY <1>3, <2>1, SoundIs DEF TextsAreCurrent, WithTexts
  <2>3. drain[d].texts[p[1]] = says[p[1]] => p \in Naming(drain[d].texts, filed)
    BY <2>1, ImpliedIs, NamingIs
  <2> QED
    BY <1>3, <2>1, <2>2, <2>3, SoundIs DEF NamesAreAllSeen, WithClaims
<1>4. MayChange(d)
  BY <1>2, <1>3, ImpliedIs DEF MayChange
<1> QED
  BY <1>1, <1>2, <1>4

LEMMA RetractUnclaimedKeeps ==
  ASSUME MentionsInv, NEW d \in Drains, RetractUnclaimed(d)
  PROVE  MentionsInv'
<1> DEFINE r == [drain[d] EXCEPT !.phase = "gone"]
<1>1. drain[d] \in Drain /\ drain[d].phase = "retract" /\ drain[d].pending = {}
  BY SoundIs DEF JobsAreKnown, RetractUnclaimed, At
<1>2. /\ r \in Drain /\ r.phase = "gone" /\ r.jobs = drain[d].jobs /\ r.left = drain[d].left
      /\ r.texts = drain[d].texts /\ r.claims = drain[d].claims /\ r.pending = {}
      /\ r.overtaken = drain[d].overtaken
  BY <1>1 DEF Drain, Phases
<1>3. /\ Step(d, r) /\ Retract(d, RestatedBy(d)) /\ CrossIfLate(d)
      /\ overlooked \subseteq overlooked'
  BY DEF RetractUnclaimed
<1> HIDE DEF r
<1>4. RestatedBy(d) \in SUBSET TopicsOf(drain[d].jobs, "Derive")
  BY RestatedAre
<1>5. /\ edge' \in [Pairs -> {"none", "derived", "linked"}]
      /\ \A p \in Pairs : edge'[p] = "derived" /\ p[1] \in RestatedBy(d) => p \in drain[d].claims
      /\ MayChange(d)
  BY <1>1, <1>3, <1>4, RetractIs
<1>6. /\ drain'[d] = r /\ UNCHANGED <<says, filed>> /\ Implied' = Implied
      /\ \A k : Asked(k)' <=> Asked(k)
      /\ \A k : Completes(d, k)' <=> Completes(d, k)
      /\ \A p \in Implied : p \notin crossed' =>
           (Completes(d, DeriveOf(p[1])) /\ Stands(d, BackfillOf(p[2]), p) =>
              Stands(d, BackfillOf(p[2]), p)')
      /\ crossed \subseteq crossed' /\ (Sound(d)' => MentionsInv')
  BY <1>2, <1>3, <1>5, StepIs
<1>7. JobsAreKnown(d)' /\ CandidatesNameIt(d)'
  BY <1>1, <1>2, <1>6, SoundIs DEF JobsAreKnown, CandidatesNameIt, WithClaims, WithNames
<1>8. TextsAreCurrent(d)' /\ NamesAreAllSeen(d)'
  BY <1>1, <1>2, <1>6, SoundIs DEF TextsAreCurrent, NamesAreAllSeen, WithTexts, WithClaims
<1>9. RestatedIsSaid(d)'
  <2> SUFFICES ASSUME NEW p \in Pairs, Completes(d, DeriveOf(p[1])), edge'[p] = "derived",
                      Resolves(drain[d].texts[p[1]])
               PROVE  p \in Implied
    BY <1>2, <1>6, JobsOfPairs DEF RestatedIsSaid, AfterRestating
  <2>1. p[1] \in RestatedBy(d)
    BY RestatedAre, EndsOfPairs DEF Completes
  <2> QED
    BY <1>1, <1>5, <2>1, ClaimsAreSaid DEF WithClaims
<1>10. RestatedIsLinked(d)'
  BY <1>1, <1>2, <1>6, SoundIs DEF RestatedIsLinked
<1>11. BackfilledIsLinked(d)'
  BY <1>2, <1>6 DEF BackfilledIsLinked, WithNames
<1> QED
  BY <1>6, <1>7, <1>8, <1>9, <1>10, <1>11 DEF Sound

LEMMA RetractGoneKeeps ==
  ASSUME MentionsInv, NEW d \in Drains, RetractGone(d)
  PROVE  MentionsInv'
<1> DEFINE gone == TopicsOf(drain[d].jobs, "Derive") \ RestatedBy(d)
           r == [drain[d] EXCEPT !.phase = AfterReads(d), !.texts = Unread, !.claims = {}]
<1>1. drain[d] \in Drain /\ drain[d].phase = "gone" /\ drain[d].pending = {}
  BY SoundIs DEF JobsAreKnown, RetractGone, At
<1>2. /\ r \in Drain /\ r.phase \in {"probe", "record"}
      /\ r.jobs = drain[d].jobs /\ r.left = drain[d].left
      /\ r.claims = {} /\ r.pending = {} /\ r.overtaken = drain[d].overtaken
      /\ r.phase = "record" => \A t \in Topics : BackfillOf(t) \notin drain[d].jobs
  <2>1. drain[d].jobs \in SUBSET Key
    BY <1>1 DEF Drain
  <2>2. AfterReads(d) \in {"probe", "record"}
    BY DEF AfterReads
  <2>3. AfterReads(d) = "record" => \A t \in Topics : BackfillOf(t) \notin drain[d].jobs
    BY <2>1, TopicsOfJobs DEF AfterReads, Has
  <2> QED
    BY <1>1, <2>2, <2>3 DEF Drain, Phases, Unread, Says
<1>3. /\ Step(d, r) /\ Retract(d, gone) /\ CrossIfLate(d)
      /\ overlooked \subseteq overlooked'
  BY DEF RetractGone
<1> HIDE DEF r
<1>4. /\ edge' \in [Pairs -> {"none", "derived", "linked"}]
      /\ \A p \in Pairs : edge'[p] = "derived" /\ p[1] \in gone => p \in drain[d].claims
      /\ MayChange(d)
  BY <1>1, <1>3, RetractIs
<1>5. /\ drain'[d] = r /\ UNCHANGED <<says, filed>> /\ Implied' = Implied
      /\ \A k : Completes(d, k)' <=> Completes(d, k)
      /\ \A p \in Pairs : Completes(d, DeriveOf(p[1])) /\ p \notin crossed' /\ edge'[p] = "derived" =>
           edge[p] = "derived" \/ p \in Implied
      /\ \A p \in Implied : p \notin crossed' =>
           (Completes(d, DeriveOf(p[1])) /\ Stands(d, BackfillOf(p[2]), p) =>
              Stands(d, BackfillOf(p[2]), p)')
      /\ crossed \subseteq crossed' /\ (Sound(d)' => MentionsInv')
  BY <1>2, <1>3, <1>4, StepIs
<1>6. JobsAreKnown(d)' /\ CandidatesNameIt(d)'
  BY <1>2, <1>5, SoundIs DEF JobsAreKnown, CandidatesNameIt, WithClaims
<1>7. TextsAreCurrent(d)' /\ NamesAreAllSeen(d)'
  BY <1>2, <1>5 DEF TextsAreCurrent, NamesAreAllSeen, WithTexts, WithClaims
<1>8. RestatedIsSaid(d)'
  <2> SUFFICES ASSUME NEW p \in Pairs, Completes(d, DeriveOf(p[1])), p \notin crossed',
                      edge'[p] = "derived"
               PROVE  p \in Implied
    BY <1>5, JobsOfPairs DEF RestatedIsSaid
  <2>1. CASE Resolves(drain[d].texts[p[1]])
    BY <1>1, <1>5, <2>1, SoundIs DEF RestatedIsSaid
  <2>2. CASE ~ Resolves(drain[d].texts[p[1]])
    <3>1. p[1] \in gone
      BY <2>2, RestatedAre, EndsOfPairs DEF Completes
    <3> QED
      BY <1>1, <1>4, <3>1, ClaimsAreSaid DEF WithClaims
  <2> QED
    BY <2>1, <2>2
<1>9. RestatedIsLinked(d)'
  BY <1>1, <1>2, <1>5, SoundIs DEF RestatedIsLinked
<1>10. BackfilledIsLinked(d)'
  BY <1>2, <1>5, ImpliedIs, EndsOfPairs DEF BackfilledIsLinked, WithNames, Completes
<1> QED
  BY <1>5, <1>6, <1>7, <1>8, <1>9, <1>10 DEF Sound

\* The names being backfilled are those of its jobs, and filed.
LEMMA BackfilledAre ==
  ASSUME MentionsInv, NEW d \in Drains
  PROVE  /\ TopicsOf(drain[d].jobs, "Backfill") = {t \in Topics : BackfillOf(t) \in drain[d].jobs}
         /\ TopicsOf(drain[d].jobs, "Backfill") \subseteq filed
<1>1. drain[d].jobs \in SUBSET Key
  BY SoundIs DEF Drain
<1>2. TopicsOf(drain[d].jobs, "Backfill") = {t \in Topics : BackfillOf(t) \in drain[d].jobs}
  BY <1>1, TopicsOfJobs
<1> QED
  BY <1>2, SoundIs DEF JobsAreKnown

LEMMA ProbeKeeps ==
  ASSUME MentionsInv, NEW d \in Drains, Probe(d)
  PROVE  MentionsInv'
<1> DEFINE names == TopicsOf(drain[d].jobs, "Backfill")
           candidates == {p \in Pairs : p[2] \in held[p[1]] \cap names}
           r == [drain[d] EXCEPT !.phase = "states", !.claims = candidates]
<1>1. drain[d] \in Drain /\ drain[d].phase = "probe" /\ drain[d].pending = {}
  BY SoundIs DEF JobsAreKnown, Probe, At
<1>2. /\ r \in Drain /\ r.phase = "states" /\ r.jobs = drain[d].jobs /\ r.left = drain[d].left
      /\ r.claims = candidates /\ r.pending = {} /\ r.overtaken = drain[d].overtaken
  BY <1>1 DEF Drain, Phases
<1>3. \A p \in candidates : BackfillOf(p[2]) \in drain[d].jobs
  BY BackfilledAre
<1>4. /\ Step(d, r) /\ UNCHANGED <<edge, crossed>>
      /\ overlooked' = overlooked \cup (Naming(says, names) \ candidates)
  BY DEF Probe
<1> HIDE DEF r, candidates
<1>5. /\ edge' \in [Pairs -> {"none", "derived", "linked"}] /\ MayChange(d) /\ CrossIfLate(d)
      /\ overlooked \subseteq overlooked'
  BY <1>4, SoundIs DEF MayChange, CrossIfLate
<1>6. /\ drain'[d] = r /\ UNCHANGED <<says, filed>> /\ Implied' = Implied
      /\ \A k : Completes(d, k)' <=> Completes(d, k)
      /\ \A p \in Implied : p \notin crossed' =>
           (Completes(d, DeriveOf(p[1])) /\ Stands(d, BackfillOf(p[2]), p) =>
              Stands(d, BackfillOf(p[2]), p)')
      /\ Sound(d)' => MentionsInv'
  BY <1>2, <1>4, <1>5, StepIs
<1>7. JobsAreKnown(d)' /\ CandidatesNameIt(d)'
  BY <1>2, <1>3, <1>6, SoundIs DEF JobsAreKnown, CandidatesNameIt, WithClaims
<1>8. TextsAreCurrent(d)' /\ NamesAreAllSeen(d)'
  BY <1>2, <1>6 DEF TextsAreCurrent, NamesAreAllSeen, WithTexts, WithClaims
<1>9. RestatedIsSaid(d)'
  BY <1>1, <1>2, <1>4, <1>6, SoundIs DEF RestatedIsSaid, AfterRestating
<1>10. RestatedIsLinked(d)'
  BY <1>1, <1>2, <1>4, <1>6, SoundIs DEF RestatedIsLinked
<1>11. \A p \in Implied : Completes(d, BackfillOf(p[2])) => p \in candidates \/ p \in overlooked'
  BY <1>4, BackfilledAre, EndsOfPairs DEF Implied, Naming, Completes
<1>12. BackfilledIsLinked(d)'
  BY <1>2, <1>6, <1>11 DEF BackfilledIsLinked, Stands
<1> QED
  BY <1>6, <1>7, <1>8, <1>9, <1>10, <1>12 DEF Sound

LEMMA ReadCandidatesKeeps ==
  ASSUME MentionsInv, NEW d \in Drains, ReadCandidates(d)
  PROVE  MentionsInv'
<1> DEFINE names == TopicsOf(drain[d].jobs, "Backfill")
           r == [drain[d] EXCEPT !.phase = "liveNames", !.claims = @ \cap Naming(says, names)]
<1>1. drain[d] \in Drain /\ drain[d].phase = "states" /\ drain[d].pending = {}
  BY SoundIs DEF JobsAreKnown, ReadCandidates, At
<1>2. /\ r \in Drain /\ r.phase = "liveNames" /\ r.jobs = drain[d].jobs /\ r.left = drain[d].left
      /\ r.claims = drain[d].claims \cap Naming(says, names) /\ r.pending = {}
      /\ r.overtaken = drain[d].overtaken
  BY <1>1 DEF Drain, Phases
<1>3. Step(d, r) /\ UNCHANGED <<edge, history>>
  BY DEF ReadCandidates
<1> HIDE DEF r
<1>4. /\ drain'[d] = r /\ UNCHANGED <<says, filed, edge, crossed>> /\ Implied' = Implied
      /\ \A k : Completes(d, k)' <=> Completes(d, k)
      /\ \A p \in Implied : p \notin crossed =>
           /\ Completes(d, DeriveOf(p[1])) /\ Stands(d, BackfillOf(p[2]), p) =>
                Stands(d, BackfillOf(p[2]), p)'
           /\ Completes(d, BackfillOf(p[2])) /\ Stands(d, DeriveOf(p[1]), p) =>
                Stands(d, DeriveOf(p[1]), p)'
      /\ Sound(d)' => MentionsInv'
  BY <1>2, <1>3, ReadingIs
<1>5. JobsAreKnown(d)'
  BY <1>1, <1>2, <1>4, SoundIs DEF JobsAreKnown, WithClaims, WithNames
<1>6. \A p \in r.claims : p \in Implied
  BY <1>2, BackfilledAre DEF Implied, Naming
<1>7. TextsAreCurrent(d)' /\ NamesAreAllSeen(d)' /\ CandidatesNameIt(d)'
  BY <1>2, <1>4, <1>6 DEF TextsAreCurrent, NamesAreAllSeen, CandidatesNameIt, WithTexts, WithClaims
<1>8. RestatedIsSaid(d)'
  BY <1>1, <1>2, <1>4, SoundIs DEF RestatedIsSaid, AfterRestating
<1>9. RestatedIsLinked(d)'
  BY <1>1, <1>2, <1>4, SoundIs DEF RestatedIsLinked
<1>10. \A p \in Implied : Completes(d, BackfillOf(p[2])) /\ p \in drain[d].claims => p \in r.claims
  BY <1>2, BackfilledAre, EndsOfPairs DEF Implied, Naming, Completes
<1>11. BackfilledIsLinked(d)'
  BY <1>1, <1>2, <1>4, <1>10, SoundIs DEF BackfilledIsLinked, WithNames
<1> QED
  BY <1>4, <1>5, <1>7, <1>8, <1>9, <1>11 DEF Sound

\* Whoever claims jobs sees their pairs afresh, and overtakes who saw them before.
LEMMA ClaimKeeps ==
  ASSUME MentionsInv, NEW d \in Drains, NEW keys \in SUBSET Key, Claim(d, keys)
  PROVE  MentionsInv'
<1> DEFINE r == Batch(keys, {}, FALSE)
           late(e) == {p \in Pairs : BearsOn(keys, p) /\ BearsOn(drain[e].jobs, p)}
<1>1. /\ r \in Drain /\ r.phase \in {"read", "probe"} /\ r.pending = {}
      /\ r.jobs = keys /\ r.left = {} /\ r.overtaken = {}
      /\ r.phase = "probe" => \A t \in Topics : DeriveOf(t) \notin keys
  BY BatchIs
<1> HIDE DEF r
<1>2. /\ \A k \in keys : owed[k] # "no"
      /\ owed' = [k \in Key |-> IF k \in keys THEN d ELSE owed[k]]
      /\ UNCHANGED <<says, filed, edge, overlooked, crossed>>
  BY DEF Claim, ledgerVars, history
<1>3. /\ drain'[d] = r
      /\ \A e \in Drains : e # d => drain'[e] = [drain[e] EXCEPT !.overtaken = @ \cup late(e)]
      /\ drain' \in [Drains -> Drain]
  <2>1. drain' = [e \in Drains |-> IF e = d THEN r
                                   ELSE [drain[e] EXCEPT !.overtaken = @ \cup late(e)]]
    BY DEF Claim, r
  <2>2. \A e \in Drains : [drain[e] EXCEPT !.overtaken = @ \cup late(e)] \in Drain
    BY SoundIs DEF Drain
  <2> QED
    BY <1>1, <2>1, <2>2
<1>4. \A k \in Key : owed'[k] # "no" <=> owed[k] # "no"
  BY <1>2, MentionsAssumption DEF MentionsAssumption
<1>5. Kept' /\ NamesAreFiled'
  BY <1>2, <1>3, <1>4, KeysApart DEF MentionsInv, Kept, NamesAreFiled
<1>6. Implied' = Implied
  BY <1>2 DEF Implied, Naming
<1>7. OnlyWhatIsSaid' /\ NothingUnnamed'
  BY <1>2, <1>4, <1>6, JobsOfPairs, ImpliedIs DEF MentionsInv, OnlyWhatIsSaid, NothingUnnamed
<1>8. Sound(d)'
  BY <1>1, <1>2, <1>3, StartsOver, KeysApart DEF MentionsInv, NamesAreFiled
<1>9. ASSUME NEW e \in Drains, e # d PROVE Sound(e)'
  <2>1. /\ drain'[e] = [drain[e] EXCEPT !.overtaken = @ \cup late(e)]
        /\ late(e) \in SUBSET Pairs
        /\ drain'[e].jobs = drain[e].jobs
        /\ drain'[e].overtaken = drain[e].overtaken \cup late(e)
    BY <1>3, <1>9, SoundIs DEF Drain
  <2>2. \A k \in Key : Completes(e, k)' => Completes(e, k) /\ k \notin keys
    BY <1>2, <1>9, <2>1 DEF Completes
  <2>3. \A k \in Key : k \notin keys => owed'[k] = owed[k] /\ (Asked(k) => Asked(k)')
    BY <1>2 DEF Asked
  <2>4. ASSUME NEW p \in Pairs, NEW k \in {DeriveOf(p[1]), BackfillOf(p[2])}, k \in keys,
               BearsOn(drain[e].jobs, p)
        PROVE  p \in late(e)
    BY <2>4 DEF BearsOn
  <2>5. \A p \in Pairs : BearsOn(drain[e].jobs, p) =>
          /\ Asked(DeriveOf(p[1])) => Asked(DeriveOf(p[1]))' \/ p \in late(e)
          /\ Asked(BackfillOf(p[2])) => Asked(BackfillOf(p[2]))' \/ p \in late(e)
    BY <2>3, <2>4, JobsOfPairs
  <2>6. ASSUME NEW p \in Pairs, NEW k \in {DeriveOf(p[1]), BackfillOf(p[2])},
               NEW j \in {DeriveOf(p[1]), BackfillOf(p[2])}, k # j,
               Completes(e, k)', LeftTo(e, j, p)
        PROVE  LeftTo(e, j, p)'
    <3>1. j \in Key /\ k \in Key /\ k \notin keys /\ k \in drain[e].jobs
      BY <2>2, <2>6, JobsOfPairs DEF Completes
    <3>2. BearsOn(drain[e].jobs, p)
      BY <3>1, <2>6 DEF BearsOn
    <3>3. CASE j \in keys
      <4>1. p \in drain'[e].overtaken
        BY <2>1, <2>4, <3>2, <3>3
      <4>2. owed'[j] = d /\ owed'[j] # "no"
        BY <1>2, <1>4, <3>1, <3>3
      <4>3. \A f \in Drains : Completes(f, j)' => p \notin drain'[f].overtaken
        BY <1>1, <1>3, <4>2 DEF Completes
      <4> QED
        BY <4>1, <4>2, <4>3 DEF LeftTo, Due
    <3>4. CASE j \notin keys
      <4>1. ~ BearsOn(keys, p)
        BY <2>6, <3>1, <3>4 DEF BearsOn
      <4>2. ASSUME NEW f \in Drains, Completes(f, j)'
            PROVE  Completes(f, j) /\ drain'[f].overtaken \cap {p} = drain[f].overtaken \cap {p}
        <5>1. f # d
          BY <1>1, <1>3, <3>4, <4>2 DEF Completes
        <5>2. /\ drain'[f].jobs = drain[f].jobs
              /\ drain'[f].overtaken = drain[f].overtaken \cup late(f)
          BY <1>3, <5>1, SoundIs DEF Drain
        <5> QED
          BY <2>3, <3>1, <3>4, <4>1, <4>2, <5>2 DEF Completes
      <4>3. Due(j, p) => Due(j, p)'
        BY <2>3, <3>1, <3>4, <4>2 DEF Due
      <4> QED
        BY <2>1, <2>3, <2>6, <3>1, <3>4, <4>3 DEF LeftTo
    <3> QED
      BY <3>3, <3>4
  <2>7. \A p \in Implied : p \notin crossed =>
          /\ Completes(e, DeriveOf(p[1]))' /\ LeftTo(e, BackfillOf(p[2]), p) =>
               LeftTo(e, BackfillOf(p[2]), p)'
          /\ Completes(e, BackfillOf(p[2]))' /\ LeftTo(e, DeriveOf(p[1]), p) =>
               LeftTo(e, DeriveOf(p[1]), p)'
    BY <2>6, ImpliedIs, JobsOfPairs
  <2> HIDE DEF late
  <2> QED
    BY <1>2, <2>1, <2>2, <2>5, <2>7, OnlookersAreSound
<1> QED
  BY <1>5, <1>7, <1>8, <1>9 DEF MentionsInv

\* A drain records its jobs or fails, and goes on with those it has left: whom it
\* was to see a pair for still finds the pair seen, or to be seen.
LEMMA GoingOnKeeps ==
  ASSUME MentionsInv, NEW d \in Drains, UNCHANGED <<says, filed, edge, overlooked, crossed>>,
         drain' \in [Drains -> Drain], \A e \in Drains : e # d => drain'[e] = drain[e],
         drain'[d].phase \in {"idle", "read", "probe"}, drain'[d].pending = {},
         drain'[d].overtaken = {},
         drain'[d].phase # "read" => \A t \in Topics : DeriveOf(t) \notin drain'[d].jobs,
         drain'[d].jobs \cup drain'[d].left \subseteq drain[d].jobs \cup drain[d].left,
         owed' \in [Key -> {"no", "asked"} \cup Drains],
         \A k \in Key :
           \/ owed'[k] = owed[k]
           \/ owed'[k] = "asked" /\ owed[k] # "no"
           \/ owed'[k] = "no" /\ Completes(d, k) /\ drain[d].phase = "record"
  PROVE  MentionsInv'
<1>1. Implied' = Implied
  BY DEF Implied, Naming
<1>2. Kept' /\ NamesAreFiled'
  BY KeysApart DEF MentionsInv, Kept, NamesAreFiled
<1>3. \A k \in Key : Asked(k) => Asked(k)'
  BY AskedIsNobodys DEF Asked
<1>4. \A k \in Key : owed[k] # "no" => owed'[k] # "no" \/ (Completes(d, k) /\ drain[d].phase = "record")
  OBVIOUS
<1>5. \A e \in Drains, k \in Key : e # d /\ Completes(e, k)' => Completes(e, k)
  BY MentionsAssumption DEF Completes, MentionsAssumption
<1>6. ASSUME NEW p \in Implied, p \notin crossed, edge[p] = "none", p \notin overlooked,
             drain[d].phase = "record",
             NEW k \in {DeriveOf(p[1]), BackfillOf(p[2])}, NEW j \in {DeriveOf(p[1]), BackfillOf(p[2])},
             k # j, Completes(d, j)
      PROVE  LeftTo(d, k, p)
  BY <1>6, SoundIs DEF RestatedIsLinked, BackfilledIsLinked, Stands
<1>7. ASSUME NEW e \in Drains, e # d, NEW p \in Implied, p \notin crossed,
             NEW k \in {DeriveOf(p[1]), BackfillOf(p[2])}, NEW j \in {DeriveOf(p[1]), BackfillOf(p[2])},
             k # j, Completes(e, k)', LeftTo(e, j, p)
      PROVE  edge[p] # "none" \/ p \in overlooked \/ LeftTo(e, j, p)'
  <2>1. j \in Key /\ k \in Key /\ Completes(e, k) /\ drain'[e] = drain[e]
    BY <1>5, <1>7, ImpliedIs, JobsOfPairs
  <2>2. CASE Asked(j) \/ owed'[j] = "asked"
    BY <1>3, <2>1, <2>2 DEF LeftTo, Asked
  <2>3. CASE ~ Asked(j) /\ owed'[j] = owed[j]
    <3>1. p \in drain[e].overtaken /\ Due(j, p)
      BY <1>7, <2>3 DEF LeftTo
    <3>2. ASSUME NEW f \in Drains, Completes(f, j)' PROVE p \notin drain'[f].overtaken
      BY <1>5, <2>1, <3>1, <3>2 DEF Due
    <3> QED
      BY <2>1, <2>3, <3>1, <3>2 DEF LeftTo, Due
  <2>4. CASE ~ Asked(j) /\ owed'[j] = "no" /\ Completes(d, j) /\ drain[d].phase = "record"
    <3>1. p \notin drain[d].overtaken
      BY <1>7, <2>4 DEF LeftTo, Due
    <3>2. ~ Asked(k)
      BY <2>1, AskedIsNobodys
    <3> QED
      BY <1>6, <1>7, <2>4, <3>1, <3>2 DEF LeftTo
  <2> QED
    BY <2>1, <2>2, <2>3, <2>4
<1>8. Sound(d)'
  BY StartsOver, SoundIs DEF JobsAreKnown
<1>9. ASSUME NEW e \in Drains, e # d PROVE Sound(e)'
  <2> DEFINE late == {}
  <2>1. late \in SUBSET Pairs /\ drain'[e] = [drain[e] EXCEPT !.overtaken = @ \cup late]
    BY <1>9, SoundIs DEF Drain
  <2>2. \A k \in Key : Completes(e, k)' => Completes(e, k)
    BY <1>5, <1>9
  <2>3. \A p \in Pairs : /\ Asked(DeriveOf(p[1])) => Asked(DeriveOf(p[1]))'
                         /\ Asked(BackfillOf(p[2])) => Asked(BackfillOf(p[2]))'
    BY <1>3, JobsOfPairs
  <2>4. \A p \in Implied : p \notin crossed =>
          /\ Completes(e, DeriveOf(p[1]))' /\ LeftTo(e, BackfillOf(p[2]), p) =>
               edge[p] # "none" \/ p \in overlooked \/ LeftTo(e, BackfillOf(p[2]), p)'
          /\ Completes(e, BackfillOf(p[2]))' /\ LeftTo(e, DeriveOf(p[1]), p) =>
               edge[p] # "none" \/ p \in overlooked \/ LeftTo(e, DeriveOf(p[1]), p)'
    BY <1>7, <1>9, ImpliedIs, JobsOfPairs
  <2> HIDE DEF late
  <2> QED
    BY <2>1, <2>2, <2>3, <2>4, OnlookersAreSound
<1>10. OnlyWhatIsSaid'
  <2> SUFFICES ASSUME NEW p \in Pairs, edge[p] = "derived", owed'[DeriveOf(p[1])] = "no",
                      p \notin crossed
               PROVE  p \in Implied
    BY <1>1 DEF OnlyWhatIsSaid
  <2>1. DeriveOf(p[1]) \in Key
    BY JobsOfPairs
  <2>2. CASE owed[DeriveOf(p[1])] = "no"
    BY <2>2 DEF MentionsInv, OnlyWhatIsSaid
  <2>3. CASE Completes(d, DeriveOf(p[1])) /\ drain[d].phase = "record"
    BY <2>3, SoundIs DEF RestatedIsSaid, AfterRestating
  <2> QED
    BY <1>4, <2>1, <2>2, <2>3
<1>11. NothingUnnamed'
  <2> SUFFICES ASSUME NEW p \in Implied, edge[p] = "none", p \notin overlooked, p \notin crossed,
                      owed'[DeriveOf(p[1])] = "no", owed'[BackfillOf(p[2])] = "no"
               PROVE  FALSE
    BY <1>1 DEF NothingUnnamed
  <2>1. ASSUME NEW k \in {DeriveOf(p[1]), BackfillOf(p[2])}, NEW j \in {DeriveOf(p[1]), BackfillOf(p[2])},
               k # j, Completes(d, j), drain[d].phase = "record"
        PROVE  FALSE
    <3>1. k \in Key /\ owed'[k] = "no"
      BY <2>1, ImpliedIs, JobsOfPairs
    <3>2. ~ Asked(k)
      BY <1>3, <3>1 DEF Asked
    <3>3. p \in drain[d].overtaken /\ Due(k, p)
      BY <1>6, <2>1, <3>2 DEF LeftTo
    <3>4. Completes(d, k)
      BY <1>4, <3>1, <3>3 DEF Due
    <3> QED
      BY <3>3, <3>4 DEF Due
  <2>2. DeriveOf(p[1]) \in Key /\ BackfillOf(p[2]) \in Key /\ DeriveOf(p[1]) # BackfillOf(p[2])
    BY ImpliedIs, JobsOfPairs
  <2>3. owed[DeriveOf(p[1])] = "no" /\ owed[BackfillOf(p[2])] = "no"
    BY <1>4, <2>1, <2>2
  <2> QED
    BY <2>3 DEF MentionsInv, NothingUnnamed
<1> QED
  BY <1>2, <1>8, <1>9, <1>10, <1>11 DEF MentionsInv

\* A job of a batch that failed, by itself.
LEMMA RunsAlone ==
  ASSUME MentionsInv, NEW d \in Drains, NEW jobs \in SUBSET Key, NEW k \in jobs,
         drain' = [drain EXCEPT ![d] = Batch({k}, jobs \ {k}, TRUE)]
  PROVE  /\ drain' \in [Drains -> Drain] /\ \A e \in Drains : e # d => drain'[e] = drain[e]
         /\ drain'[d].phase \in {"idle", "read", "probe"} /\ drain'[d].pending = {}
         /\ drain'[d].overtaken = {}
         /\ drain'[d].phase # "read" => \A t \in Topics : DeriveOf(t) \notin drain'[d].jobs
         /\ drain'[d].jobs \cup drain'[d].left \subseteq jobs
<1> DEFINE r == Batch({k}, jobs \ {k}, TRUE)
<1>1. k \in Key /\ jobs \ {k} \in SUBSET Key
  OBVIOUS
<1>2. /\ r \in Drain
      /\ r.phase \in {"read", "probe"} /\ r.pending = {}
      /\ r.jobs = {k} /\ r.left = jobs \ {k} /\ r.overtaken = {}
      /\ r.phase = "probe" => \A t \in Topics : DeriveOf(t) # k
  <2>1. k \in Key /\ jobs \ {k} \in SUBSET Key
    BY <1>1
  <2> QED
    BY <2>1, AloneIs, Zenon
<1>3. drain' = [drain EXCEPT ![d] = r]
  OBVIOUS
<1> HIDE DEF r
<1>4. /\ drain' \in [Drains -> Drain] /\ drain'[d] = r
      /\ \A e \in Drains : e # d => drain'[e] = drain[e]
  BY <1>2, <1>3 DEF MentionsInv, Kept
<1> QED
  BY <1>2, <1>4

\* The next job of a batch that failed, or the end of the round.
LEMMA OnwardIs ==
  ASSUME MentionsInv, NEW d \in Drains, Onward(d)
  PROVE  /\ drain' \in [Drains -> Drain] /\ \A e \in Drains : e # d => drain'[e] = drain[e]
         /\ drain'[d].phase \in {"idle", "read", "probe"} /\ drain'[d].pending = {}
         /\ drain'[d].overtaken = {}
         /\ drain'[d].phase # "read" => \A t \in Topics : DeriveOf(t) \notin drain'[d].jobs
         /\ drain'[d].jobs \cup drain'[d].left \subseteq drain[d].jobs \cup drain[d].left
<1>1. drain \in [Drains -> Drain] /\ drain[d].left \in SUBSET Key
  BY DEF MentionsInv, Kept, Drain
<1>2. CASE drain[d].left = {}
  BY <1>1, <1>2, IdleIs DEF Onward
<1>3. CASE drain[d].left # {}
  <2>1. PICK k \in drain[d].left : drain' = [drain EXCEPT ![d] = Batch({k}, drain[d].left \ {k}, TRUE)]
    BY <1>3 DEF Onward
  <2>2. /\ drain' \in [Drains -> Drain] /\ \A e \in Drains : e # d => drain'[e] = drain[e]
        /\ drain'[d].phase \in {"idle", "read", "probe"} /\ drain'[d].pending = {}
        /\ drain'[d].overtaken = {}
        /\ drain'[d].phase # "read" => \A t \in Topics : DeriveOf(t) \notin drain'[d].jobs
        /\ drain'[d].jobs \cup drain'[d].left \subseteq drain[d].left
    BY <1>1, <2>1, RunsAlone
  <2> QED
    BY <2>2
<1> QED
  BY <1>2, <1>3

LEMMA RecordKeeps ==
  ASSUME MentionsInv, NEW d \in Drains, Record(d)
  PROVE  MentionsInv'
<1>1. /\ drain[d].phase = "record" /\ Onward(d)
      /\ owed' = [k \in Key |-> IF k \in drain[d].jobs /\ owed[k] = d THEN "no" ELSE owed[k]]
      /\ UNCHANGED <<says, filed, edge, overlooked, crossed>>
  BY DEF Record, At, ledgerVars, history
<1>2. owed' \in [Key -> {"no", "asked"} \cup Drains]
  BY <1>1 DEF MentionsInv, Kept
<1>3. \A k \in Key : owed'[k] = owed[k] \/ (owed'[k] = "no" /\ Completes(d, k))
  BY <1>1 DEF Completes
<1> QED
  BY <1>1, <1>2, <1>3, OnwardIs, GoingOnKeeps

LEMMA FailKeeps ==
  ASSUME MentionsInv, NEW d \in Drains, Fail(d)
  PROVE  MentionsInv'
<1>1. UNCHANGED <<says, filed, edge, overlooked, crossed>>
  BY DEF Fail, ledgerVars, history
<1>2. CASE drain[d].alone
  <2>1. /\ owed' = [k \in Key |-> IF k \in drain[d].jobs /\ owed[k] \in Drains
                                  THEN "asked" ELSE owed[k]]
        /\ Onward(d)
    BY <1>2 DEF Fail
  <2>2. owed' \in [Key -> {"no", "asked"} \cup Drains]
    BY <2>1 DEF MentionsInv, Kept
  <2>3. \A k \in Key : owed'[k] = owed[k] \/ (owed'[k] = "asked" /\ owed[k] # "no")
    BY <2>1, MentionsAssumption DEF MentionsAssumption
  <2> QED
    BY <1>1, <2>1, <2>2, <2>3, OnwardIs, GoingOnKeeps
<1>3. CASE ~ drain[d].alone
  <2>1. PICK k \in drain[d].jobs :
          drain' = [drain EXCEPT ![d] = Batch({k}, drain[d].jobs \ {k}, TRUE)]
    BY <1>3 DEF Fail
  <2>2. owed' = owed
    BY <1>3 DEF Fail
  <2>3. drain[d].jobs \in SUBSET Key /\ drain[d].jobs \cup drain[d].left \subseteq Key
    BY DEF MentionsInv, Kept, Drain
  <2>4. owed' \in [Key -> {"no", "asked"} \cup Drains] /\ \A j \in Key : owed'[j] = owed[j]
    BY <2>2 DEF MentionsInv, Kept
  <2>5. /\ drain' \in [Drains -> Drain] /\ \A e \in Drains : e # d => drain'[e] = drain[e]
        /\ drain'[d].phase \in {"idle", "read", "probe"} /\ drain'[d].pending = {}
        /\ drain'[d].overtaken = {}
        /\ drain'[d].phase # "read" => \A t \in Topics : DeriveOf(t) \notin drain'[d].jobs
        /\ drain'[d].jobs \cup drain'[d].left \subseteq drain[d].jobs
    BY <2>1, <2>3, RunsAlone
  <2> QED
    BY <1>1, <2>4, <2>5, GoingOnKeeps
<1> QED
  BY <1>2, <1>3

LEMMA KillKeeps ==
  ASSUME MentionsInv, Kill
  PROVE  MentionsInv'
<1>1. UNCHANGED <<says, filed, edge, owed, overlooked, crossed>>
  BY DEF Kill, history
<1>2. drain' \in [Drains -> Drain] /\ \A d \in Drains : drain'[d] = Idle
  BY IdleIs DEF Kill
<1>3. Kept' /\ NamesAreFiled' /\ OnlyWhatIsSaid' /\ NothingUnnamed'
  BY <1>1, <1>2 DEF MentionsInv, Kept, NamesAreFiled, OnlyWhatIsSaid, NothingUnnamed, Implied, Naming
<1>4. ASSUME NEW d \in Drains PROVE Sound(d)'
  BY <1>2, IdleIs, StartsOver
<1> QED
  BY <1>3, <1>4 DEF MentionsInv

\* A request is seen by whoever runs it, and by nobody who runs already: what the
\* write changes of a pair, one of the jobs it asks for will see.
LEMMA RequestKeeps ==
  ASSUME MentionsInv, NEW keys \in SUBSET Key, Request(keys), UNCHANGED <<edge, drain>>,
         says' \in [Topics -> Says], \A u \in Topics : says'[u] # says[u] => DeriveOf(u) \in keys,
         filed \subseteq filed', filed' \subseteq Topics,
         \A u \in filed' \ filed : BackfillOf(u) \in keys,
         \A u \in Topics : BackfillOf(u) \in keys => u \in filed'
  PROVE  MentionsInv'
<1>1. /\ owed' \in [Key -> {"no", "asked"} \cup Drains]
      /\ \A k \in Key : owed'[k] = IF k \in keys THEN "asked" ELSE owed[k]
  BY DEF Request, MentionsInv, Kept
<1>2. \A k \in Key : Asked(k) \/ k \in keys => Asked(k)'
  BY <1>1 DEF Asked
<1>3. \A e \in Drains, k \in Key : Completes(e, k)' => Completes(e, k) /\ k \notin keys
  BY <1>1, MentionsAssumption DEF Completes, MentionsAssumption
<1>4. \A e \in Drains, k \in Key : \A p : LeftTo(e, k, p) => LeftTo(e, k, p)'
  <2>1. \A k \in Key : \A p : Due(k, p) => Due(k, p)'
    BY <1>1, <1>3 DEF Due
  <2> QED
    BY <1>2, <2>1 DEF LeftTo
<1>5. ASSUME NEW p \in Pairs, DeriveOf(p[1]) \notin keys
      PROVE  /\ says'[p[1]] = says[p[1]]
             /\ (p \in overlooked' <=> p \in overlooked) /\ (p \in crossed' <=> p \in crossed)
             /\ p \in Implied => p \in Implied'
             /\ p \in Implied' => p \in Implied \/ Asked(BackfillOf(p[2]))'
             /\ \A e \in Drains, k \in Key : Stands(e, k, p) => Stands(e, k, p)'
  <2>1. says'[p[1]] = says[p[1]] /\ (p \in overlooked' <=> p \in overlooked)
        /\ (p \in crossed' <=> p \in crossed)
    BY <1>5, EndsOfPairs DEF Request
  <2>2. p \in Implied' => p[2] \in filed' /\ p[2] \in NamesIn(says'[p[1]])
    BY DEF Implied, Naming
  <2>3. p[2] \in filed' \ filed => Asked(BackfillOf(p[2]))'
    BY <1>2, JobsOfPairs
  <2>4. p \in Implied => p \in Implied'
    BY <2>1, ImpliedIs DEF Implied, Naming
  <2>5. p \in Implied' => p \in Implied \/ Asked(BackfillOf(p[2]))'
    BY <2>1, <2>2, <2>3, ImpliedIs
  <2>6. \A e \in Drains, k \in Key : Stands(e, k, p) => Stands(e, k, p)'
    BY <1>4, <2>1 DEF Stands
  <2> QED
    BY <2>1, <2>4, <2>5, <2>6
<1>6. Implied' \subseteq Pairs
  BY DEF Implied, Naming
<1>7. Kept' /\ NamesAreFiled'
  BY <1>1, KeysApart DEF MentionsInv, Kept, NamesAreFiled
<1>8. OnlyWhatIsSaid'
  <2> SUFFICES ASSUME NEW p \in Pairs, edge[p] = "derived", owed'[DeriveOf(p[1])] = "no",
                      p \notin crossed'
               PROVE  p \in Implied'
    BY DEF OnlyWhatIsSaid
  <2>1. DeriveOf(p[1]) \notin keys /\ owed[DeriveOf(p[1])] = "no"
    BY <1>1, JobsOfPairs
  <2> QED
    BY <1>5, <2>1 DEF MentionsInv, OnlyWhatIsSaid
<1>9. NothingUnnamed'
  <2> SUFFICES ASSUME NEW p \in Implied', edge[p] = "none",
                      owed'[DeriveOf(p[1])] = "no", owed'[BackfillOf(p[2])] = "no",
                      p \notin overlooked', p \notin crossed'
               PROVE  FALSE
    BY DEF NothingUnnamed
  <2>1. p \in Pairs
    BY <1>6
  <2>2. /\ DeriveOf(p[1]) \notin keys /\ owed[DeriveOf(p[1])] = "no"
        /\ BackfillOf(p[2]) \notin keys /\ owed[BackfillOf(p[2])] = "no"
        /\ ~ Asked(BackfillOf(p[2]))'
    BY <1>1, <2>1, JobsOfPairs DEF Asked
  <2> QED
    BY <1>5, <2>1, <2>2 DEF MentionsInv, NothingUnnamed
<1>10. ASSUME NEW d \in Drains PROVE Sound(d)'
  <2>1. JobsAreKnown(d)'
    BY SoundIs DEF JobsAreKnown, Naming
  <2>2. TextsAreCurrent(d)'
    <3> SUFFICES ASSUME drain[d].phase \in WithTexts
                 PROVE  /\ \A t \in Topics :
                             /\ Completes(d, DeriveOf(t))' => drain[d].texts[t] = says'[t]
                             /\ DeriveOf(t) \notin drain[d].jobs => drain[d].texts[t] = Absent
                        /\ \A p \in Pairs : DeriveOf(p[1]) \in drain[d].jobs =>
                             \/ drain[d].texts[p[1]] = says'[p[1]]
                             \/ Asked(DeriveOf(p[1]))' \/ p \in drain[d].overtaken
      BY DEF TextsAreCurrent
    <3>1. ASSUME NEW t \in Topics
          PROVE  /\ Completes(d, DeriveOf(t))' => drain[d].texts[t] = says'[t]
                 /\ DeriveOf(t) \notin drain[d].jobs => drain[d].texts[t] = Absent
      BY <1>3, KeysApart, SoundIs DEF TextsAreCurrent
    <3>2. ASSUME NEW p \in Pairs, DeriveOf(p[1]) \in drain[d].jobs
          PROVE  \/ drain[d].texts[p[1]] = says'[p[1]]
                 \/ Asked(DeriveOf(p[1]))' \/ p \in drain[d].overtaken
      BY <1>2, <1>5, <3>2, JobsOfPairs, SoundIs DEF TextsAreCurrent
    <3> QED
      BY <3>1, <3>2
  <2>3. NamesAreAllSeen(d)'
    <3> SUFFICES ASSUME NEW p \in Pairs, p[2] \in filed', DeriveOf(p[1]) \in drain[d].jobs,
                        p \notin drain[d].overtaken, ~ Asked(BackfillOf(p[2]))'
                 PROVE  /\ drain[d].phase = "names" => Width[p[2]] <= drain[d].widest
                        /\ drain[d].phase \in WithClaims /\ p \in Naming(drain[d].texts, filed') =>
                             p \in drain[d].claims
      BY DEF NamesAreAllSeen
    <3>1. p[2] \in filed /\ ~ Asked(BackfillOf(p[2]))
      BY <1>2, JobsOfPairs
    <3>2. p \in Naming(drain[d].texts, filed') => p \in Naming(drain[d].texts, filed)
      BY <3>1 DEF Naming
    <3> QED
      BY <3>1, <3>2, SoundIs DEF NamesAreAllSeen
  <2>4. CandidatesNameIt(d)'
    <3> SUFFICES ASSUME drain[d].phase \in {"liveNames", "assertNames"}, NEW p \in drain[d].claims
                 PROVE  p \in Implied' \/ Asked(DeriveOf(p[1]))' \/ p \in drain[d].overtaken
      BY DEF CandidatesNameIt
    <3>1. p \in Pairs
      BY SoundIs DEF Drain
    <3> QED
      BY <1>2, <1>5, <3>1, JobsOfPairs, SoundIs DEF CandidatesNameIt
  <2>5. RestatedIsSaid(d)'
    <3> SUFFICES ASSUME NEW p \in Pairs, Completes(d, DeriveOf(p[1]))', p \notin crossed',
                        edge[p] = "derived"
                 PROVE  \/ p \in Implied'
                        \/ drain[d].phase \notin {"gone"} \cup AfterRestating
                        \/ drain[d].phase = "gone" /\ ~ Resolves(drain[d].texts[p[1]])
      BY DEF RestatedIsSaid
    <3>1. Completes(d, DeriveOf(p[1])) /\ DeriveOf(p[1]) \notin keys
      BY <1>3, JobsOfPairs
    <3> QED
      BY <1>5, <3>1, SoundIs DEF RestatedIsSaid
  <2>6. RestatedIsLinked(d)'
    <3> SUFFICES ASSUME NEW p \in Implied', Completes(d, DeriveOf(p[1]))', p \notin crossed'
                 PROVE  \/ Stands(d, BackfillOf(p[2]), p)'
                        \/ drain[d].phase \in {"read", "widest"}
                        \/ drain[d].phase = "names" /\ Width[p[2]] <= drain[d].widest
                        \/ drain[d].phase = "live" /\ p \in drain[d].claims
                        \/ drain[d].phase = "assert" /\ p \in drain[d].pending
      BY DEF RestatedIsLinked
    <3>1. p \in Pairs /\ BackfillOf(p[2]) \in Key
      BY <1>6, JobsOfPairs
    <3>2. Completes(d, DeriveOf(p[1])) /\ DeriveOf(p[1]) \notin keys
      BY <1>3, <3>1, JobsOfPairs
    <3>3. CASE p \in Implied
      BY <1>5, <3>1, <3>2, <3>3, SoundIs DEF RestatedIsLinked
    <3>4. CASE p \notin Implied
      BY <1>5, <3>1, <3>2, <3>4 DEF Stands, LeftTo
    <3> QED
      BY <3>3, <3>4
  <2>7. BackfilledIsLinked(d)'
    <3> SUFFICES ASSUME NEW p \in Implied', Completes(d, BackfillOf(p[2]))', p \notin crossed'
                 PROVE  \/ Stands(d, DeriveOf(p[1]), p)'
                        \/ drain[d].phase \notin WithNames \cup {"record"}
                        \/ drain[d].phase \in {"states", "liveNames"} /\ p \in drain[d].claims
                        \/ drain[d].phase = "assertNames" /\ p \in drain[d].pending
      BY DEF BackfilledIsLinked
    <3>1. p \in Pairs /\ DeriveOf(p[1]) \in Key /\ BackfillOf(p[2]) \in Key
      BY <1>6, JobsOfPairs
    <3>2. Completes(d, BackfillOf(p[2])) /\ ~ Asked(BackfillOf(p[2]))'
      <4>1. Completes(d, BackfillOf(p[2]))
        BY <1>3, <3>1
      <4>2. owed'[BackfillOf(p[2])] = d
        BY DEF Completes
      <4> QED
        BY <4>1, <4>2, MentionsAssumption DEF Asked, MentionsAssumption
    <3>3. CASE DeriveOf(p[1]) \in keys
      BY <1>2, <3>1, <3>3 DEF Stands, LeftTo
    <3>4. CASE DeriveOf(p[1]) \notin keys
      BY <1>5, <3>1, <3>2, <3>4, SoundIs DEF BackfilledIsLinked
    <3> QED
      BY <3>3, <3>4
  <2> QED
    BY <2>1, <2>2, <2>3, <2>4, <2>5, <2>6, <2>7 DEF Sound
<1> QED
  BY <1>7, <1>8, <1>9, <1>10 DEF MentionsInv

\* Nobody's linking and unlinking adds a derived edge, and what it takes away is
\* overlooked.
LEMMA LinkingKeeps ==
  ASSUME MentionsInv, UNCHANGED <<says, filed, owed, drain, crossed>>,
         edge' \in [Pairs -> {"none", "derived", "linked"}],
         \A q \in Pairs : \/ edge'[q] = edge[q] \/ edge'[q] = "linked"
                          \/ edge'[q] = "none" /\ (q \in overlooked' \/ q \notin Implied),
         overlooked \subseteq overlooked'
  PROVE  MentionsInv'
<1>1. Implied' = Implied /\ Implied \subseteq Pairs
  BY DEF Implied, Naming
<1>2. Kept' /\ NamesAreFiled'
  BY DEF MentionsInv, Kept, NamesAreFiled
<1>3. \A q \in Pairs : edge'[q] = "derived" => edge[q] = "derived"
  OBVIOUS
<1>4. \A q \in Implied : edge'[q] = "none" => edge[q] = "none" \/ q \in overlooked'
  BY <1>1
<1>5. OnlyWhatIsSaid' /\ NothingUnnamed'
  BY <1>1, <1>3, <1>4 DEF MentionsInv, OnlyWhatIsSaid, NothingUnnamed
<1>6. /\ \A k : Asked(k)' <=> Asked(k)
      /\ \A e \in Drains : \A k : Completes(e, k)' <=> Completes(e, k)
  BY DEF Asked, Completes
<1>7. \A e \in Drains, q \in Implied : \A k : Stands(e, k, q) => Stands(e, k, q)'
  BY <1>4 DEF Stands, LeftTo, Due, Asked, Completes
<1>8. ASSUME NEW d \in Drains PROVE Sound(d)'
  <2>1. JobsAreKnown(d)' /\ TextsAreCurrent(d)' /\ NamesAreAllSeen(d)' /\ CandidatesNameIt(d)'
    BY <1>1, <1>6, SoundIs
       DEF JobsAreKnown, TextsAreCurrent, NamesAreAllSeen, CandidatesNameIt, Naming
  <2>2. RestatedIsSaid(d)'
    BY <1>1, <1>3, <1>6, SoundIs DEF RestatedIsSaid
  <2>3. RestatedIsLinked(d)'
    BY <1>1, <1>6, <1>7, SoundIs DEF RestatedIsLinked
  <2>4. BackfilledIsLinked(d)'
    BY <1>1, <1>6, <1>7, SoundIs DEF BackfilledIsLinked
  <2> QED
    BY <2>1, <2>2, <2>3, <2>4 DEF Sound
<1> QED
  BY <1>2, <1>5, <1>8 DEF MentionsInv

LEMMA EnvironmentKeeps ==
  ASSUME MentionsInv, Environment
  PROVE  MentionsInv'
<1>1. ASSUME NEW t \in Topics, NEW text \in Text, WriteByHand(t, text) \/ WriteSection(t, text)
      PROVE  MentionsInv'
  <2>1. text \in Says /\ says' = [says EXCEPT ![t] = text]
    BY <1>1 DEF Says, WriteByHand, WriteSection
  <2>2. says' \in [Topics -> Says] /\ \A u \in Topics : says'[u] # says[u] => u = t
    BY <2>1 DEF MentionsInv, Kept
  <2>3. CASE WriteByHand(t, text)
    <3> DEFINE keys == {DeriveOf(t)} \cup Files(t)
    <3>1. Request(keys) /\ filed' = filed \cup {t} /\ UNCHANGED <<edge, drain>>
      BY <2>3 DEF WriteByHand
    <3>2. keys \in SUBSET Key /\ \A u \in Topics : BackfillOf(u) \in keys => u = t
      BY KeysApart DEF Files
    <3>3. \A u \in filed' \ filed : BackfillOf(u) \in keys
      <4>1. ASSUME t \notin filed PROVE BackfillOf(t) \in keys
        BY <4>1 DEF Files, BackfillOf
      <4> QED
        BY <3>1, <4>1
    <3>4. DeriveOf(t) \in keys
      OBVIOUS
    <3>5. filed \subseteq filed' /\ filed' \subseteq Topics
      BY <3>1 DEF MentionsInv, Kept
    <3> HIDE DEF keys
    <3> QED
      BY <2>2, <3>1, <3>2, <3>3, <3>4, <3>5, RequestKeeps
  <2>4. CASE WriteSection(t, text)
    <3>1. Request({DeriveOf(t)}) /\ UNCHANGED <<filed, edge, drain>>
      BY <2>4 DEF WriteSection
    <3>2. {DeriveOf(t)} \in SUBSET Key /\ \A u \in Topics : BackfillOf(u) \notin {DeriveOf(t)}
      BY KeysApart
    <3>3. filed \subseteq filed' /\ filed' \subseteq Topics
      BY <3>1 DEF MentionsInv, Kept
    <3> QED
      BY <2>2, <3>1, <3>2, <3>3, RequestKeeps
  <2> QED
    BY <1>1, <2>3, <2>4
<1>2. ASSUME NEW t \in Topics, WriteHeld(t) PROVE MentionsInv'
  <2>1. Request({BackfillOf(t)}) /\ filed' = filed \cup {t} /\ UNCHANGED <<says, edge, drain>>
    BY <1>2 DEF WriteHeld
  <2>2. /\ {BackfillOf(t)} \in SUBSET Key
        /\ \A u \in Topics : BackfillOf(u) \in {BackfillOf(t)} => u = t
    BY KeysApart
  <2>3. says' \in [Topics -> Says] /\ filed \subseteq filed' /\ filed' \subseteq Topics
    BY <2>1 DEF MentionsInv, Kept
  <2>4. \A u \in filed' \ filed : BackfillOf(u) \in {BackfillOf(t)}
    BY <2>1
  <2> QED
    BY <2>1, <2>2, <2>3, <2>4, RequestKeeps
<1>3. ASSUME NEW t \in Topics, RetireSection(t) PROVE MentionsInv'
  <2>1. /\ Request({DeriveOf(t)}) /\ UNCHANGED <<filed, edge, drain>>
        /\ says' = [says EXCEPT ![t] = Gone]
    BY <1>3 DEF RetireSection
  <2>2. {DeriveOf(t)} \in SUBSET Key /\ \A u \in Topics : BackfillOf(u) \notin {DeriveOf(t)}
    BY KeysApart
  <2>3. /\ says' \in [Topics -> Says] /\ filed \subseteq filed' /\ filed' \subseteq Topics
        /\ \A u \in Topics : says'[u] # says[u] => u = t
    BY <2>1 DEF MentionsInv, Kept, Says
  <2> QED
    BY <2>1, <2>2, <2>3, RequestKeeps
<1>4. ASSUME NEW p \in Pairs, Link(p[1], p[2]) PROVE MentionsInv'
  <2>1. edge' = [edge EXCEPT ![p] = "linked"] /\ UNCHANGED <<says, filed, owed, drain, overlooked, crossed>>
    BY <1>4, EndsOfPairs DEF Link, ledgerVars, history
  <2>2. edge' \in [Pairs -> {"none", "derived", "linked"}]
    BY <2>1 DEF MentionsInv, Kept
  <2>3. \A q \in Pairs : edge'[q] = IF q = p THEN "linked" ELSE edge[q]
    BY <2>1 DEF MentionsInv, Kept
  <2> QED
    BY <2>1, <2>2, <2>3, LinkingKeeps
<1>5. ASSUME NEW p \in Pairs, Unlink(p[1], p[2]) PROVE MentionsInv'
  <2>1. /\ edge' = [edge EXCEPT ![p] = "none"] /\ UNCHANGED <<says, filed, owed, drain, crossed>>
        /\ overlooked' = overlooked \cup ({p} \cap Implied)
    BY <1>5, EndsOfPairs DEF Unlink, ledgerVars
  <2>2. edge' \in [Pairs -> {"none", "derived", "linked"}]
    BY <2>1 DEF MentionsInv, Kept
  <2>3. \A q \in Pairs : edge'[q] = IF q = p THEN "none" ELSE edge[q]
    BY <2>1 DEF MentionsInv, Kept
  <2>4. overlooked \subseteq overlooked' /\ (p \in overlooked' \/ p \notin Implied)
    BY <2>1
  <2> QED
    BY <2>1, <2>2, <2>3, <2>4, LinkingKeeps
<1>6. CASE SearchAsksWidest
  <2>1. UNCHANGED <<says, filed, edge, owed, drain, overlooked, crossed>>
    BY <1>6 DEF SearchAsksWidest, history
  <2>2. edge' \in [Pairs -> {"none", "derived", "linked"}]
    BY <2>1 DEF MentionsInv, Kept
  <2> QED
    BY <2>1, <2>2, LinkingKeeps
<1>7. CASE \E d \in Drains : Fail(d)
  BY <1>7, FailKeeps
<1>8. CASE Kill
  BY <1>8, KillKeeps
<1> QED
  BY <1>1, <1>2, <1>3, <1>4, <1>5, <1>6, <1>7, <1>8 DEF Environment

LEMMA RunningKeeps ==
  ASSUME MentionsInv, NEW d \in Drains, Running(d)
  PROVE  MentionsInv'
<1>1. CASE ReadStates(d)
  BY <1>1, ReadStatesKeeps
<1>2. CASE ReadWidest(d)
  BY <1>2, ReadWidestKeeps
<1>3. CASE ReadNames(d)
  BY <1>3, ReadNamesKeeps
<1>4. CASE ReadLive(d)
  BY <1>4, ReadLiveKeeps
<1>5. CASE AssertEdges(d)
  BY <1>5, AssertEdgesKeeps
<1>6. CASE RetractUnclaimed(d)
  BY <1>6, RetractUnclaimedKeeps
<1>7. CASE RetractGone(d)
  BY <1>7, RetractGoneKeeps
<1>8. CASE Probe(d)
  BY <1>8, ProbeKeeps
<1>9. CASE ReadCandidates(d)
  BY <1>9, ReadCandidatesKeeps
<1>10. CASE Record(d)
  BY <1>10, RecordKeeps
<1> QED
  BY <1>1, <1>2, <1>3, <1>4, <1>5, <1>6, <1>7, <1>8, <1>9, <1>10 DEF Running

LEMMA MentionsStep ==
  ASSUME MentionsInv, [Next]_vars
  PROVE  MentionsInv'
<1>1. ASSUME UNCHANGED <<says, filed, edge, owed, drain, overlooked, crossed>> PROVE MentionsInv'
  <2>1. edge' \in [Pairs -> {"none", "derived", "linked"}]
    BY <1>1 DEF MentionsInv, Kept
  <2> QED
    BY <1>1, <2>1, LinkingKeeps
<1>2. CASE Environment
  BY <1>2, EnvironmentKeeps
<1>3. CASE \E t \in Topics : Sync(t)
  BY <1>1, <1>3 DEF Sync, history
<1>4. CASE Claims
  BY <1>4, ClaimKeeps DEF Claims
<1>5. CASE \E d \in Drains : Running(d)
  BY <1>5, RunningKeeps
<1>6. CASE UNCHANGED vars
  BY <1>1, <1>6 DEF vars
<1> QED
  BY <1>2, <1>3, <1>4, <1>5, <1>6 DEF Next

\* However many drains run at once and whoever overtakes whom, whatever changes
\* between their statements, and wherever they fail or die, they keep what
\* MentionsInv says of run_reads, restate_mentions and backfill_all.
THEOREM MentionsAreConsistent == Spec => []MentionsInv
<1>1. ASSUME MentionsInv, [Next]_vars PROVE MentionsInv'
  BY <1>1, MentionsStep
<1> QED
  BY <1>1, MentionsInit, PTL DEF Spec

\* However many drains there are, a derived edge stands only while its memory says
\* so or while a restatement of that memory is owed (retract_derived_all closes
\* the others), unless an overtaken drain wrote it late.
THEOREM EdgesAreWhatIsSaid == Spec => []OnlyWhatIsSaid
<1>1. MentionsInv => OnlyWhatIsSaid
  BY DEF MentionsInv
<1> QED
  BY <1>1, MentionsAreConsistent, PTL

\* However many drains there are, a memory that names a topic points at it once
\* neither its restatement nor the name's backfill is owed (restate_mentions,
\* backfill_all), but for what the probe missed, what somebody unlinked, and what
\* an overtaken drain closed late.
THEOREM NamersAreLinked == Spec => []NothingUnnamed
<1>1. MentionsInv => NothingUnnamed
  BY DEF MentionsInv
<1> QED
  BY <1>1, MentionsAreConsistent, PTL

=============================================================================
