---------------------------- MODULE LedgerProofs ----------------------------
(***************************************************************************)
(* The ledger numbers every write rightly, points at the newest version    *)
(* that survives, and retires nothing somebody wrote by hand, for any      *)
(* names, texts, writers and bounds: LedgerInv is inductive.               *)
(***************************************************************************)
EXTENDS Ledger, FiniteSetTheorems, SequenceTheorems, WellFoundedInduction, TLAPS

(***************************************************************************)
(* Least and greatest numbers.                                             *)
(***************************************************************************)
LEMMA HasLeast ==
  ASSUME NEW S \in SUBSET Nat, S # {}
  PROVE  \E m \in S : \A x \in S : m <= x
<1> DEFINE upTo == {0 .. x : x \in S}
<1>1. upTo \subseteq FiniteSubsetsOf(Nat) /\ upTo # {}
  <2>1. ASSUME NEW x \in S PROVE IsFiniteSet(0 .. x) /\ 0 .. x \in SUBSET Nat
    BY FS_Interval
  <2> QED
    BY <2>1 DEF FiniteSubsetsOf
<1>2. IsWellFoundedOn(StrictSubsetOrdering(Nat), FiniteSubsetsOf(Nat))
  BY FS_StrictSubsetOrderingWellFounded
<1>3. \E T \in upTo : \A U \in upTo : ~ (<<U, T>> \in StrictSubsetOrdering(Nat))
  <2> HIDE DEF upTo
  <2> QED
    BY <1>1, <1>2, WFMin
<1>4. PICK m \in S : \A x \in S : ~ (<<0 .. x, 0 .. m>> \in StrictSubsetOrdering(Nat))
  BY <1>3
<1>5. ASSUME NEW x \in S, x < m PROVE FALSE
  <2>1. 0 .. x \subseteq 0 .. m /\ m \in 0 .. m /\ m \notin 0 .. x
    BY <1>5
  <2>2. 0 .. x \in SUBSET Nat /\ 0 .. m \in SUBSET Nat /\ 0 .. x # 0 .. m
    BY <2>1
  <2>3. <<0 .. x, 0 .. m>> \in StrictSubsetOrdering(Nat)
    BY <2>1, <2>2, Zenon DEF StrictSubsetOrdering
  <2> QED
    BY <1>4, <2>3
<1> QED
  BY <1>4, <1>5

LEMMA MinIsLeast ==
  ASSUME NEW S \in SUBSET Nat, S # {}
  PROVE  Min(S) \in S /\ \A x \in S : Min(S) <= x
BY HasLeast DEF Min

LEMMA HasGreatest ==
  ASSUME NEW n \in Nat, NEW S \in SUBSET (1 .. n), S # {}
  PROVE  \E m \in S : \A x \in S : x <= m
<1> DEFINE below == {n - x : x \in S}
<1>1. \A x \in S : x \in Nat /\ x <= n /\ n - x \in Nat
  OBVIOUS
<1>2. PICK d \in below : \A e \in below : d <= e
  <2>1. below \in SUBSET Nat /\ below # {}
    BY <1>1
  <2> HIDE DEF below
  <2> QED
    BY <2>1, HasLeast
<1>3. PICK m \in S : d = n - m
  OBVIOUS
<1>4. ASSUME NEW x \in S PROVE x <= m
  BY <1>1, <1>2, <1>3
<1> QED
  BY <1>4

LEMMA VersionsAreFinite ==
  ASSUME NEW n \in Nat, NEW S \in SUBSET (1 .. n)
  PROVE  Cardinality(S) \in Nat
<1>1. IsFiniteSet(1 .. n)
  BY FS_Interval
<1> QED
  BY <1>1, FS_Subset, FS_CardinalityType

LEMMA NewestIsGreatest ==
  ASSUME NEW n \in Nat, NEW S \in SUBSET (1 .. n)
  PROVE  IF S = {} THEN Newest(S) = 0
         ELSE Newest(S) \in S /\ \A x \in S : x <= Newest(S)
<1>1. CASE S = {}
  BY <1>1 DEF Newest
<1>2. CASE S # {}
  <2>1. \E m \in S : \A x \in S : m >= x
    BY <1>2, HasGreatest
  <2> QED
    BY <1>2, <2>1 DEF Newest, Max
<1> QED
  BY <1>1, <1>2

LEMMA NewestBounds ==
  ASSUME NEW n \in Nat, NEW S \in SUBSET (1 .. n)
  PROVE  /\ Newest(S) \in Nat /\ Newest(S) < n + 1
         /\ \A u \in 1 .. n : Newest(S) < u => u \notin S
<1> DEFINE m == Newest(S)
<1>1. IF S = {} THEN m = 0 ELSE m \in S /\ \A x \in S : x <= m
  BY NewestIsGreatest
<1> HIDE DEF m
<1>2. CASE S = {}
  BY <1>1, <1>2 DEF m
<1>3. CASE S # {}
  <2>1. \A x \in S : x \in Nat /\ x <= n
    OBVIOUS
  <2>2. m \in Nat /\ m <= n
    BY <1>1, <1>3, <2>1
  <2>3. ASSUME NEW u \in 1 .. n, m < u, u \in S PROVE FALSE
    <3>1. u <= m /\ u \in Nat
      BY <1>1, <2>3
    <3> QED
      BY <2>2, <2>3, <3>1
  <2> QED
    BY <2>2, <2>3 DEF m
<1> QED
  BY <1>2, <1>3

LEMMA NewestIs ==
  ASSUME NEW n \in Nat, NEW S \in SUBSET (1 .. n), NEW m \in S, \A x \in S : x <= m
  PROVE  Newest(S) = m
<1>1. Newest(S) \in S /\ \A x \in S : x <= Newest(S)
  BY NewestIsGreatest
<1>2. \A x \in S : x \in Nat
  OBVIOUS
<1>3. m <= Newest(S) /\ Newest(S) <= m
  BY <1>1
<1>4. m \in Nat /\ Newest(S) \in Nat
  BY <1>1, <1>2
<1> QED
  BY <1>3, <1>4

(***************************************************************************)
(* The survivors, counted from the newest.                                 *)
(***************************************************************************)
Newer(S, v) == {u \in S : u > v}

LEMMA NewerShrinks ==
  ASSUME NEW S \in SUBSET Nat, NEW u \in S, NEW v \in S, u < v
  PROVE  Newer(S, v) \subseteq Newer(S, u) /\ v \in Newer(S, u) /\ v \notin Newer(S, v)
<1>1. u \in Nat /\ v \in Nat
  OBVIOUS
<1>2. ASSUME NEW x \in Newer(S, v) PROVE x \in Newer(S, u)
  <2>1. x \in S /\ x \in Nat /\ x > v
    BY DEF Newer
  <2> QED
    BY <1>1, <2>1 DEF Newer
<1>3. v > u /\ ~ (v > v)
  BY <1>1
<1> QED
  BY <1>2, <1>3 DEF Newer

LEMMA SomeVersionIsThatFarBack ==
  ASSUME NEW n \in Nat, NEW S \in SUBSET (1 .. n), NEW offset \in Nat,
         offset < Cardinality(S)
  PROVE  \E v \in S : Cardinality(Newer(S, v)) = offset
<1>0. S \in SUBSET Nat /\ \A x \in S : x \in Nat
  OBVIOUS
<1>1. IsFiniteSet(S) /\ Cardinality(S) \in Nat
  <2>1. IsFiniteSet(1 .. n)
    BY FS_Interval
  <2> QED
    BY <2>1, FS_Subset, FS_CardinalityType
<1> DEFINE k == Cardinality(S)
           f == [v \in S |-> Cardinality(Newer(S, v))]
<1>2. \A v \in S : /\ IsFiniteSet(Newer(S, v)) /\ Cardinality(Newer(S, v)) \in 0 .. k - 1
  <2> SUFFICES ASSUME NEW v \in S
               PROVE  IsFiniteSet(Newer(S, v)) /\ Cardinality(Newer(S, v)) \in 0 .. k - 1
    OBVIOUS
  <2>1. Newer(S, v) \subseteq S /\ v \notin Newer(S, v)
    BY DEF Newer
  <2>2. Newer(S, v) # S
    BY <2>1
  <2>3. /\ IsFiniteSet(Newer(S, v)) /\ Cardinality(Newer(S, v)) \in Nat
        /\ Cardinality(Newer(S, v)) < k
    BY <1>1, <2>1, <2>2, FS_Subset, FS_CardinalityType
  <2> QED
    BY <1>1, <2>3
<1>3. ASSUME NEW u \in S, NEW v \in S, u < v
      PROVE  f[u] # f[v]
  <2>1. Newer(S, v) \subseteq Newer(S, u) /\ v \in Newer(S, u) /\ v \notin Newer(S, v)
    BY <1>0, <1>3, NewerShrinks
  <2>2. Cardinality(Newer(S, v)) < Cardinality(Newer(S, u))
    BY <1>2, <2>1, FS_Subset
  <2>3. Cardinality(Newer(S, v)) \in Nat /\ Cardinality(Newer(S, u)) \in Nat
    BY <1>2, FS_CardinalityType
  <2> QED
    BY <2>2, <2>3
<1>4. f \in Injection(S, 0 .. k - 1)
  <2>1. f \in [S -> 0 .. k - 1]
    BY <1>2
  <2>2. \A u, v \in S : u # v => f[u] # f[v]
    <3>1. \A u, v \in S : u # v => u < v \/ v < u
      BY <1>0
    <3> QED
      BY <1>3, <3>1
  <2> QED
    BY <2>1, <2>2 DEF Injection, IsInjective
<1>5. IsFiniteSet(0 .. k - 1) /\ Cardinality(0 .. k - 1) = k
  <2>1. 0 \in Int /\ k - 1 \in Int /\ k \in Nat
    BY <1>1
  <2> HIDE DEF k
  <2>2. /\ IsFiniteSet(0 .. k - 1)
        /\ Cardinality(0 .. k - 1) = IF 0 > k - 1 THEN 0 ELSE (k - 1) - 0 + 1
    BY <2>1, FS_Interval
  <2> QED
    BY <2>1, <2>2
<1>6. f \in Surjection(S, 0 .. k - 1)
  <2> HIDE DEF f, k
  <2> QED
    BY <1>4, <1>5, FS_Injection DEF k
<1>7. offset \in 0 .. k - 1
  BY <1>1
<1>8. \E v \in S : f[v] = offset
  <2> HIDE DEF f, k
  <2> QED
    BY <1>6, <1>7 DEF Surjection
<1> QED
  BY <1>8

LEMMA OneFurtherBack ==
  ASSUME NEW n \in Nat, NEW S \in SUBSET (1 .. n), NEW v \in S, NEW w \in S,
         Cardinality(Newer(S, w)) = Cardinality(Newer(S, v)) + 1
  PROVE  w < v /\ \A u \in S : u < v => u <= w
<1>0. S \in SUBSET Nat /\ \A x \in S : x \in Nat
  OBVIOUS
<1>1. \A u \in S : IsFiniteSet(Newer(S, u)) /\ Cardinality(Newer(S, u)) \in Nat
  <2>1. IsFiniteSet(1 .. n)
    BY FS_Interval
  <2>2. \A u \in S : Newer(S, u) \subseteq 1 .. n
    BY DEF Newer
  <2> QED
    BY <2>1, <2>2, FS_Subset, FS_CardinalityType
<1>2. w < v
  <2>1. CASE v < w
    <3>1. Newer(S, w) \subseteq Newer(S, v)
      BY <1>0, <2>1, NewerShrinks
    <3>2. Cardinality(Newer(S, w)) <= Cardinality(Newer(S, v))
      BY <1>1, <3>1, FS_Subset
    <3> QED
      BY <1>1, <3>2
  <2>2. v # w
    BY <1>1
  <2> QED
    BY <1>0, <2>1, <2>2
<1>3. ASSUME NEW u \in S, u < v, ~ (u <= w) PROVE FALSE
  <2>1. Newer(S, v) \subseteq Newer(S, u) /\ v \in Newer(S, u) /\ v \notin Newer(S, v)
    BY <1>0, <1>3, NewerShrinks
  <2>2. Newer(S, u) \subseteq Newer(S, w) /\ u \in Newer(S, w) /\ u \notin Newer(S, u)
    BY <1>0, <1>3, NewerShrinks
  <2>3. Cardinality(Newer(S, v)) < Cardinality(Newer(S, u))
    BY <1>1, <2>1, FS_Subset
  <2>4. Cardinality(Newer(S, u)) < Cardinality(Newer(S, w))
    BY <1>1, <2>2, FS_Subset
  <2> QED
    BY <1>1, <2>3, <2>4
<1> QED
  BY <1>2, <1>3

(***************************************************************************)
(* Types.                                                                  *)
(***************************************************************************)
LEMMA NoRowIsNothing ==
  /\ \A i \in TopicId : i \in Nat /\ i # 0
  /\ \A row \in Topic : row # NoRow
  /\ \A row \in Source : row # NoRow
  /\ \A l \in Locator : l # NoRow
  /\ \A n \in Names : n # NoRow
BY LedgerAssumption DEF LedgerAssumption, TopicId

LEMMA NoCallIsOne == NoCall \in Transaction
BY DEF NoCall, Transaction, Statements, Kinds, Contents

LEMMA SurvivingAreVersions ==
  ASSUME LedgerTypeOK, NEW i \in Live
  PROVE  /\ topic[i] \in Topic
         /\ Len(topic[i].states) \in Nat
         /\ DOMAIN topic[i].states = 1 .. Len(topic[i].states)
         /\ Surviving(i) \in SUBSET (1 .. Len(topic[i].states))
         /\ Newest(Surviving(i)) \in Nat
<1>1. topic[i] \in Topic
  BY NoRowIsNothing DEF LedgerTypeOK, Live
<1>2. topic[i].states \in Seq(State)
  BY <1>1 DEF Topic
<1>3. /\ Len(topic[i].states) \in Nat
      /\ DOMAIN topic[i].states = 1 .. Len(topic[i].states)
  BY <1>2, LenProperties
<1>4. Surviving(i) \in SUBSET (1 .. Len(topic[i].states))
  BY <1>3 DEF Surviving
<1>5. Newest(Surviving(i)) \in Nat
  BY <1>3, <1>4, NewestBounds
<1> QED
  BY <1>1, <1>3, <1>4, <1>5

LEMMA FiledIsANumber ==
  ASSUME LedgerTypeOK, NEW l \in Locator
  PROVE  Filed(l) \in Nat
BY DEF LedgerTypeOK, Filed, Source

LEMMA LedgerInvInit == LedgerInit => LedgerInv
<1> SUFFICES ASSUME LedgerInit PROVE LedgerInv
  OBVIOUS
<1>1. LedgerTypeOK
  BY NoCallIsOne DEF LedgerInit, LedgerTypeOK
<1>2. Live = {}
  BY DEF LedgerInit, Live
<1>3. \A w \in Writers : txn[w] = NoCall
  BY DEF LedgerInit
<1>4. RowsAreLocked
  BY <1>3 DEF RowsAreLocked, Apart, NoCall
<1>5. \A w \in Writers : WriteHolds(txn[w]) /\ SectionHolds(txn[w]) /\ DeleteHolds(txn[w])
  BY <1>3 DEF WriteHolds, SectionHolds, DeleteHolds, NoCall
<1> QED
  BY <1>1, <1>2, <1>3, <1>4, <1>5
  DEF LedgerInv, HandHasSource, SupersedesTheNewest, PointsAtTheNewest

(***************************************************************************)
(* Steps that change no row: it is enough to look at the call that moves.  *)
(***************************************************************************)
Holds(t) ==
  /\ t.at = "idle" => t = NoCall
  /\ WriteHolds(t) /\ SectionHolds(t) /\ DeleteHolds(t)

LEMMA StaysKeepsInv ==
  ASSUME LedgerInv, NEW w \in Writers, NEW t \in Transaction, Stays(w, t), Holds(t),
         \A v \in Writers \ {w} : Apart(t, txn[v]) /\ Apart(txn[v], t)
  PROVE  LedgerInv'
<1>1. /\ topic' = topic /\ source' = source /\ alias' = alias
      /\ txn' = [txn EXCEPT ![w] = t]
  BY DEF Stays
<1>2. txn \in [Writers -> Transaction]
  BY DEF LedgerInv, LedgerTypeOK
<1>3. txn'[w] = t /\ \A v \in Writers \ {w} : txn'[v] = txn[v]
  BY <1>1, <1>2
<1>4. LedgerTypeOK'
  BY <1>1, <1>2 DEF LedgerInv, LedgerTypeOK
<1>5. RowsAreLocked'
  BY <1>3 DEF LedgerInv, RowsAreLocked, Apart, Moves
<1>6. \A v \in Writers : Holds(txn'[v])
  BY <1>3 DEF LedgerInv, Holds
<1>7. \A v \in Writers : Holds(txn[v])'
  <2> SUFFICES ASSUME NEW v \in Writers PROVE Holds(txn[v])'
    OBVIOUS
  <2>1. Live' = Live
    BY <1>1 DEF Live
  <2>2. (txn[v].at = "idle" => txn[v] = NoCall)'
    BY <1>6 DEF Holds, NoCall
  <2>3. WriteHolds(txn[v])'
    BY <1>1, <1>6, <2>1 DEF Holds, WriteHolds, Filed, States
  <2>4. SectionHolds(txn[v])'
    BY <1>1, <1>6 DEF Holds, SectionHolds, ByFile
  <2>5. DeleteHolds(txn[v])'
    BY <1>6, <2>1 DEF Holds, DeleteHolds
  <2> QED
    BY <2>2, <2>3, <2>4, <2>5 DEF Holds
<1>8. HandHasSource' /\ SupersedesTheNewest' /\ PointsAtTheNewest'
  BY <1>1
     DEF LedgerInv, HandHasSource, SupersedesTheNewest, PointsAtTheNewest, Live, ByFile,
         Surviving, Newest, Max
<1> QED
  BY <1>4, <1>5, <1>7, <1>8 DEF LedgerInv, Holds

LEMMA EndKeepsInv ==
  ASSUME LedgerInv, NEW w \in Writers, End(w)
  PROVE  LedgerInv'
<1>1. Holds(NoCall)
  BY DEF Holds, WriteHolds, SectionHolds, DeleteHolds, NoCall
<1>2. \A v \in Writers \ {w} : Apart(NoCall, txn[v]) /\ Apart(txn[v], NoCall)
  BY LedgerAssumption DEF LedgerInv, LedgerTypeOK, Transaction, Apart, Moves, NoCall
<1> QED
  BY <1>1, <1>2, NoCallIsOne, StaysKeepsInv DEF End

LEMMA WhatIsKnown ==
  ASSUME LedgerInv, NEW w \in Writers
  PROVE  /\ txn[w] \in Transaction /\ Holds(txn[w])
         /\ \A v \in Writers \ {w} : /\ Apart(txn[w], txn[v]) /\ Apart(txn[v], txn[w])
                                     /\ txn[v] \in Transaction
BY DEF LedgerInv, LedgerTypeOK, RowsAreLocked, Holds

\* The calls, from none.
LEMMA RememberTextKeepsInv ==
  ASSUME LedgerInv, NEW w \in Writers, RememberText(w)
  PROVE  LedgerInv'
<1>1. PICK kind \in Kinds, n \in Names, text \in Contents :
        Stays(w, [NoCall EXCEPT !.at = "source", !.kind = kind, !.name = n,
                                !.text = text, !.promoted = Judge(text, n)])
  BY DEF RememberText
<1> DEFINE t == [NoCall EXCEPT !.at = "source", !.kind = kind, !.name = n,
                               !.text = text, !.promoted = Judge(text, n)]
<1>2. t \in Transaction /\ t.at = "source" /\ t.does = "write" /\ t.source = NoRow
      /\ t.topic = 0 /\ ~t.made /\ t.after = 0 /\ t.name = n /\ t.text = text /\ t.promoted = Judge(text, n)
  BY NoCallIsOne DEF NoCall, Transaction, Statements, Judge
<1>3. t.promoted => t.text \in Promotable
  BY <1>2 DEF Judge, Contents
<1> HIDE DEF t
<1>4. Holds(t)
  BY <1>2, <1>3 DEF Holds, WriteHolds, SectionHolds, DeleteHolds
<1>5. \A v \in Writers \ {w} : Apart(t, txn[v]) /\ Apart(txn[v], t)
  BY <1>2, WhatIsKnown DEF Apart, Moves
<1> QED
  BY <1>1, <1>2, <1>4, <1>5, StaysKeepsInv DEF t

LEMMA LookUpKeepsInv ==
  ASSUME LedgerInv, NEW w \in Writers, LookUp(w)
  PROVE  LedgerInv'
<1>1. PICK n \in Names, to \in Names \cup {NoRow} :
        \E seen \in Current(n) :
          Stays(w, [NoCall EXCEPT !.at = "lock", !.kind = "file", !.name = n, !.to = to,
                                  !.does = IF to = NoRow THEN "retire" ELSE "rename",
                                  !.seen = seen])
  BY DEF LookUp
<1>2. PICK seen \in Current(n) :
        Stays(w, [NoCall EXCEPT !.at = "lock", !.kind = "file", !.name = n, !.to = to,
                                !.does = IF to = NoRow THEN "retire" ELSE "rename",
                                !.seen = seen])
  BY <1>1
<1>3. seen \in Nat \X Nat
  <2>1. PICK i \in Live : seen = <<i, topic[i].current>>
    BY DEF Current, Called
  <2>2. topic[i] \in Topic
    BY SurvivingAreVersions DEF LedgerInv
  <2> QED
    BY <2>1, <2>2, NoRowIsNothing DEF Topic, Live
<1> DEFINE does == IF to = NoRow THEN "retire" ELSE "rename"
           t == [NoCall EXCEPT !.at = "lock", !.kind = "file", !.name = n, !.to = to,
                               !.does = does, !.seen = seen]
<1>4. does \in {"retire", "rename"} /\ (does = "rename" => to \in Names)
  OBVIOUS
<1>5. Stays(w, t)
  BY <1>2
<1> HIDE DEF does
<1>6. /\ t \in Transaction /\ t.at = "lock" /\ t.kind = "file" /\ t.source = NoRow
      /\ t.topic = 0 /\ ~t.made /\ t.name = n
      /\ t.does \in {"retire", "rename"} /\ (t.does = "rename" => t.to \in Names)
  BY <1>3, <1>4, NoCallIsOne DEF NoCall, Transaction, Statements, Kinds
<1> HIDE DEF t
<1>7. Holds(t)
  BY <1>6 DEF Holds, WriteHolds, SectionHolds, DeleteHolds
<1>8. \A v \in Writers \ {w} : Apart(t, txn[v]) /\ Apart(txn[v], t)
  BY <1>6, WhatIsKnown DEF Apart, Moves
<1> QED
  BY <1>5, <1>6, <1>7, <1>8, StaysKeepsInv

LEMMA ForgetKeepsInv ==
  ASSUME LedgerInv, NEW w \in Writers, Forget(w)
  PROVE  LedgerInv'
<1>1. PICK i \in Live : \E n \in DOMAIN topic[i].states :
        Stays(w, [NoCall EXCEPT !.at = "lock", !.does = "delete", !.seen = <<i, n>>])
  BY DEF Forget
<1>2. PICK n \in DOMAIN topic[i].states :
        Stays(w, [NoCall EXCEPT !.at = "lock", !.does = "delete", !.seen = <<i, n>>])
  BY <1>1
<1>3. i \in Nat /\ n \in Nat
  BY SurvivingAreVersions, NoRowIsNothing DEF LedgerInv, Live
<1> DEFINE t == [NoCall EXCEPT !.at = "lock", !.does = "delete", !.seen = <<i, n>>]
<1>4. /\ t \in Transaction /\ t.at = "lock" /\ t.does = "delete" /\ t.source = NoRow
      /\ t.topic = 0 /\ ~t.made /\ t.seen[1] = i
  BY <1>3, NoCallIsOne DEF NoCall, Transaction, Statements, Kinds
<1> HIDE DEF t
<1>5. Holds(t)
  BY <1>4 DEF Holds, WriteHolds, SectionHolds, DeleteHolds
<1>6. \A v \in Writers \ {w} : Apart(t, txn[v]) /\ Apart(txn[v], t)
  BY <1>4, WhatIsKnown DEF Apart, Moves
<1> QED
  BY <1>2, <1>4, <1>5, <1>6, StaysKeepsInv DEF t

\* The statements of a write.
LEMMA EnsureSourceKeepsInv ==
  ASSUME LedgerInv, NEW w \in Writers, EnsureSource(w)
  PROVE  LedgerInv'
<1> DEFINE next == IF txn[w].promoted THEN "topic" ELSE "append"
           first == source[Locate(w)] = NoRow
           t == [txn[w] EXCEPT !.source = Locate(w), !.first = first, !.at = next]
<1>1. /\ txn[w] \in Transaction /\ txn[w].at = "source" /\ txn[w].does = "write"
      /\ Holds(txn[w]) /\ Stays(w, t) /\ Filers(w, Locate(w)) = {}
  BY WhatIsKnown DEF EnsureSource, Doing, Holds, SectionHolds, DeleteHolds, Transaction
<1>2. /\ txn[w].name \in Names /\ txn[w].topic = 0 /\ ~txn[w].made /\ txn[w].after = 0
      /\ txn[w].promoted => txn[w].text \in Promotable
  BY <1>1 DEF Holds, WriteHolds, Transaction
<1>3. Locate(w) \in Locator /\ Locate(w) = <<txn[w].kind, txn[w].name>>
  BY <1>1, <1>2 DEF Locate, Locator, Transaction
<1>4. next \in {"topic", "append"} /\ (next = "topic" <=> txn[w].promoted) /\ first \in BOOLEAN
  BY <1>1 DEF Transaction
<1> HIDE DEF next, first
<1>5. /\ t \in Transaction /\ t.at = next /\ t.does = "write" /\ t.source = Locate(w)
      /\ t.topic = 0 /\ ~t.made /\ t.after = 0 /\ t.name = txn[w].name /\ t.text = txn[w].text
      /\ t.promoted = txn[w].promoted /\ t.kind = txn[w].kind
  BY <1>1, <1>2, <1>3, <1>4 DEF Transaction, Statements
<1> HIDE DEF t
<1>6. Holds(t)
  BY <1>2, <1>3, <1>4, <1>5 DEF Holds, WriteHolds, SectionHolds, DeleteHolds
<1>7. \A v \in Writers \ {w} : Apart(t, txn[v]) /\ Apart(txn[v], t)
  <2> SUFFICES ASSUME NEW v \in Writers \ {w} PROVE Apart(t, txn[v]) /\ Apart(txn[v], t)
    OBVIOUS
  <2>1. txn[v].source # Locate(w) /\ (Moves(txn[v]) => Locate(w) # <<"file", txn[v].to>>)
    BY <1>1 DEF Filers, Renamed, Moves
  <2>2. Apart(txn[v], txn[w])
    BY WhatIsKnown
  <2> QED
    BY <1>5, <2>1, <2>2 DEF Apart, Moves
<1> QED
  BY <1>1, <1>5, <1>6, <1>7, StaysKeepsInv

\* A write takes a topic that is there, under its lock.
LEMMA TakingATopicKeepsInv ==
  ASSUME LedgerInv, NEW w \in Writers, txn[w].at \in {"topic", "create"},
         NEW i \in Called(txn[w].name), Lockers(w, i) = {},
         Stays(w, [txn[w] EXCEPT !.topic = i, !.after = topic[i].current, !.at = "append"])
  PROVE  LedgerInv'
<1> DEFINE t == [txn[w] EXCEPT !.topic = i, !.after = topic[i].current, !.at = "append"]
<1>1. /\ txn[w] \in Transaction /\ txn[w].does = "write" /\ Holds(txn[w])
  BY WhatIsKnown DEF Holds, SectionHolds, DeleteHolds, Transaction
<1>2. /\ txn[w].name \in Names /\ txn[w].topic = 0 /\ ~txn[w].made /\ txn[w].promoted
      /\ txn[w].text \in Promotable /\ txn[w].source = <<txn[w].kind, txn[w].name>>
  BY <1>1 DEF Holds, WriteHolds, Transaction
<1>3. i \in TopicId /\ i # 0 /\ topic[i] # NoRow /\ topic[i].name = txn[w].name
  BY NoRowIsNothing DEF Called, Live
<1>4. topic[i].current \in Nat
  BY <1>3, SurvivingAreVersions DEF LedgerInv, Live, Topic
<1>5. /\ t \in Transaction /\ t.at = "append" /\ t.does = "write" /\ t.topic = i
      /\ ~t.made /\ t.promoted /\ t.after = topic[i].current
      /\ t.name = txn[w].name /\ t.text = txn[w].text
      /\ t.source = txn[w].source /\ t.kind = txn[w].kind
  BY <1>1, <1>2, <1>3, <1>4 DEF Transaction, Statements
<1> HIDE DEF t
<1>6. Holds(t)
  BY <1>2, <1>3, <1>5 DEF Holds, WriteHolds, SectionHolds, DeleteHolds
<1>7. \A v \in Writers \ {w} : Apart(t, txn[v]) /\ Apart(txn[v], t)
  <2> SUFFICES ASSUME NEW v \in Writers \ {w} PROVE Apart(t, txn[v]) /\ Apart(txn[v], t)
    OBVIOUS
  <2>1. txn[v].topic # i
    BY DEF Lockers
  <2>2. Apart(txn[v], txn[w]) /\ Apart(txn[w], txn[v])
    BY WhatIsKnown
  <2> QED
    BY <1>5, <2>1, <2>2 DEF Apart, Moves
<1> QED
  BY <1>5, <1>6, <1>7, StaysKeepsInv DEF t

LEMMA LockTopicKeepsInv ==
  ASSUME LedgerInv, NEW w \in Writers, LockTopic(w)
  PROVE  LedgerInv'
<1>1. txn[w].at = "topic"
  BY DEF LockTopic, Doing
<1>2. CASE \E i \in Called(txn[w].name) :
             /\ Lockers(w, i) = {}
             /\ Stays(w, [txn[w] EXCEPT !.topic = i, !.after = topic[i].current,
                                       !.at = "append"])
  BY <1>1, <1>2, TakingATopicKeepsInv
<1>3. CASE Stays(w, [txn[w] EXCEPT !.at = "create", !.created = txn[w].kind = "manual"])
  <2> DEFINE created == txn[w].kind = "manual"
             t == [txn[w] EXCEPT !.at = "create", !.created = created]
  <2>1. /\ txn[w] \in Transaction /\ txn[w].does = "write" /\ Holds(txn[w])
    BY <1>1, WhatIsKnown DEF Holds, SectionHolds, DeleteHolds, Transaction
  <2>2. created \in BOOLEAN
    OBVIOUS
  <2> HIDE DEF created
  <2>3. /\ t \in Transaction /\ t.at = "create" /\ t.does = "write"
        /\ t.topic = txn[w].topic /\ t.made = txn[w].made /\ t.promoted = txn[w].promoted
        /\ t.after = txn[w].after
        /\ t.name = txn[w].name /\ t.text = txn[w].text
        /\ t.source = txn[w].source /\ t.kind = txn[w].kind
    BY <2>1, <2>2 DEF Transaction, Statements
  <2> HIDE DEF t
  <2>4. Holds(t)
    BY <1>1, <2>1, <2>3 DEF Holds, WriteHolds, SectionHolds, DeleteHolds
  <2>5. \A v \in Writers \ {w} : Apart(t, txn[v]) /\ Apart(txn[v], t)
    BY <2>3, WhatIsKnown DEF Apart, Moves
  <2> QED
    BY <1>3, <2>3, <2>4, <2>5, StaysKeepsInv DEF t, created
<1> QED
  BY <1>2, <1>3 DEF LockTopic

LEMMA CreateTopicKeepsInv ==
  ASSUME LedgerInv, NEW w \in Writers, CreateTopic(w)
  PROVE  LedgerInv'
<1>1. txn[w].at = "create"
  BY DEF CreateTopic, Doing
<1>2. CASE \E i \in Called(txn[w].name) :
             /\ Lockers(w, i) = {}
             /\ Stays(w, [txn[w] EXCEPT !.topic = i, !.after = topic[i].current,
                                       !.at = "append"])
  BY <1>1, <1>2, TakingATopicKeepsInv
<1>3. CASE /\ Unused # {}
           /\ Stays(w, [txn[w] EXCEPT !.topic = Min(Unused), !.made = TRUE, !.at = "append"])
  <2> DEFINE i == Min(Unused)
             t == [txn[w] EXCEPT !.topic = i, !.made = TRUE, !.at = "append"]
  <2>1. /\ txn[w] \in Transaction /\ txn[w].does = "write" /\ Holds(txn[w])
    BY <1>1, WhatIsKnown DEF Holds, SectionHolds, DeleteHolds, Transaction
  <2>2. /\ txn[w].name \in Names /\ txn[w].topic = 0 /\ txn[w].promoted /\ txn[w].after = 0
        /\ txn[w].text \in Promotable /\ txn[w].source = <<txn[w].kind, txn[w].name>>
    BY <1>1, <2>1 DEF Holds, WriteHolds, Transaction
  <2>3. Unused \in SUBSET Nat
    BY NoRowIsNothing DEF Unused
  <2>4. i \in Unused
    BY <1>3, <2>3, MinIsLeast
  <2>5. /\ i \in TopicId /\ i # 0 /\ topic[i] = NoRow
        /\ \A v \in Writers : txn[v].topic # i
    BY <2>4, NoRowIsNothing DEF Unused, Live
  <2> HIDE DEF i
  <2>6. /\ t \in Transaction /\ t.at = "append" /\ t.does = "write" /\ t.topic = i
        /\ t.made /\ t.promoted /\ t.after = 0
        /\ t.name = txn[w].name /\ t.text = txn[w].text
        /\ t.source = txn[w].source /\ t.kind = txn[w].kind
    BY <2>1, <2>2, <2>5 DEF Transaction, Statements
  <2> HIDE DEF t
  <2>7. Holds(t)
    BY <2>2, <2>5, <2>6 DEF Holds, WriteHolds, SectionHolds, DeleteHolds
  <2>8. \A v \in Writers \ {w} : Apart(t, txn[v]) /\ Apart(txn[v], t)
    BY <2>5, <2>6, WhatIsKnown DEF Apart, Moves
  <2> QED
    BY <1>3, <2>6, <2>7, <2>8, StaysKeepsInv DEF t, i
<1> QED
  BY <1>2, <1>3 DEF CreateTopic

LEMMA NamedByIsATopic ==
  ASSUME NEW w \in Writers
  PROVE  NamedBy(w) \in TopicId \cup {0}
<1> DEFINE S == {i \in Called(txn[w].name) : ~topic[i].named}
<1>1. S \in SUBSET (1 .. MaxTopics) /\ MaxTopics \in Nat
  BY LedgerAssumption DEF LedgerAssumption, Called, Live, TopicId
<1>2. S = {} \/ Newest(S) \in S
  <2> HIDE DEF S
  <2> QED
    BY <1>1, NewestIsGreatest
<1>3. S = {} => Newest(S) = 0
  BY DEF Newest
<1> QED
  BY <1>1, <1>2, <1>3 DEF NamedBy, TopicId

LEMMA NumberKeepsInv ==
  ASSUME LedgerInv, NEW w \in Writers, Number(w)
  PROVE  LedgerInv'
<1> DEFINE version == Filed(Locate(w)) + 1
           number == IF txn[w].promoted THEN Len(States(txn[w].topic)) + 1 ELSE 0
           t == [txn[w] EXCEPT !.version = version, !.number = number,
                               !.naming = NamedBy(w), !.at = "commit"]
<1>1. /\ txn[w] \in Transaction /\ txn[w].at = "append" /\ txn[w].does = "write"
      /\ Holds(txn[w]) /\ Stays(w, t)
  BY WhatIsKnown DEF Number, Doing, Holds, SectionHolds, DeleteHolds, Transaction
<1>2. /\ txn[w].name \in Names /\ txn[w].source = Locate(w) /\ Locate(w) \in Locator
      /\ txn[w].promoted => txn[w].topic # 0
  BY <1>1 DEF Holds, WriteHolds, Transaction, Locate, Locator
<1>3. version \in Nat
  BY <1>2, FiledIsANumber DEF LedgerInv
<1>4. number \in Nat
  <2>1. CASE txn[w].topic \in Live
    BY <2>1, SurvivingAreVersions DEF LedgerInv, States
  <2>2. CASE txn[w].topic \notin Live
    BY <2>2 DEF States
  <2> QED
    BY <2>1, <2>2
<1>5. txn[w].promoted => number = Len(States(txn[w].topic)) + 1
  OBVIOUS
<1>6. version = Filed(txn[w].source) + 1
  BY <1>2
<1> HIDE DEF version, number
<1>7. /\ t \in Transaction /\ t.at = "commit" /\ t.does = "write" /\ t.topic = txn[w].topic
      /\ t.made = txn[w].made /\ t.promoted = txn[w].promoted /\ t.after = txn[w].after
      /\ t.name = txn[w].name /\ t.text = txn[w].text
      /\ t.source = txn[w].source /\ t.kind = txn[w].kind
      /\ t.version = version /\ t.number = number
  BY <1>1, <1>3, <1>4, NamedByIsATopic DEF Transaction, Statements
<1> HIDE DEF t
<1>8. Holds(t)
  BY <1>1, <1>5, <1>6, <1>7 DEF Holds, WriteHolds, SectionHolds, DeleteHolds
<1>9. \A v \in Writers \ {w} : Apart(t, txn[v]) /\ Apart(txn[v], t)
  BY <1>7, WhatIsKnown DEF Apart, Moves
<1> QED
  BY <1>1, <1>7, <1>8, <1>9, StaysKeepsInv

\* The statements of a retirement, a rename and a deletion.
LEMMA LockKeepsInv ==
  ASSUME LedgerInv, NEW w \in Writers, Lock(w)
  PROVE  LedgerInv'
<1> DEFINE rows == IF txn[w].does = "delete" THEN {txn[w].seen[1]} ELSE Called(txn[w].name)
           next == IF txn[w].does = "delete" THEN "commit" ELSE "check"
<1>1. /\ txn[w] \in Transaction /\ txn[w].at = "lock" /\ Holds(txn[w])
      /\ txn[w].does \in {"retire", "rename", "delete"}
  BY WhatIsKnown DEF Lock, Doing, Holds, WriteHolds, Transaction
<1>2. CASE End(w)
  BY <1>2, EndKeepsInv
<1>3. CASE \E i \in rows : /\ txn[w].does = "delete" \/ <<i, topic[i].current>> = txn[w].seen
                          /\ Lockers(w, i) = {}
                          /\ Stays(w, [txn[w] EXCEPT !.topic = i, !.at = next])
  <2>1. PICK i \in rows : /\ txn[w].does = "delete" \/ <<i, topic[i].current>> = txn[w].seen
                          /\ Lockers(w, i) = {}
                          /\ Stays(w, [txn[w] EXCEPT !.topic = i, !.at = next])
    BY <1>3
  <2>2. i \in Live
    BY <1>1 DEF Called, Holds, DeleteHolds
  <2>3. i \in TopicId /\ i # 0 /\ topic[i] # NoRow
    BY <2>2, NoRowIsNothing DEF Live
  <2>4. txn[w].does = "delete" => i = txn[w].seen[1]
    OBVIOUS
  <2>5. txn[w].does # "delete" => topic[i].name = txn[w].name /\ topic[i].current = txn[w].seen[2]
    BY <2>1 DEF Called
  <2>6. next \in {"commit", "check"} /\ (next = "commit" <=> txn[w].does = "delete")
    OBVIOUS
  <2> DEFINE t == [txn[w] EXCEPT !.topic = i, !.at = next]
  <2> HIDE DEF next
  <2>7. /\ t \in Transaction /\ t.at = next /\ t.topic = i /\ t.does = txn[w].does
        /\ t.made = txn[w].made /\ t.kind = txn[w].kind /\ t.name = txn[w].name
        /\ t.to = txn[w].to /\ t.source = txn[w].source /\ t.seen = txn[w].seen
    BY <1>1, <2>3, <2>6 DEF Transaction, Statements
  <2> HIDE DEF t, rows
  <2>8. t.source = NoRow
    BY <1>1, <2>7 DEF Holds, SectionHolds, DeleteHolds
  <2>9. SectionHolds(t)
    BY <1>1, <2>3, <2>5, <2>6, <2>7, <2>8 DEF Holds, SectionHolds
  <2>10. WriteHolds(t) /\ DeleteHolds(t)
    BY <1>1, <2>4, <2>6, <2>7, <2>8 DEF Holds, WriteHolds, DeleteHolds
  <2>11. Holds(t)
    BY <2>6, <2>7, <2>9, <2>10 DEF Holds
  <2>12. \A v \in Writers \ {w} : Apart(t, txn[v]) /\ Apart(txn[v], t)
    <3> SUFFICES ASSUME NEW v \in Writers \ {w} PROVE Apart(t, txn[v]) /\ Apart(txn[v], t)
      OBVIOUS
    <3>1. txn[v].topic # i
      BY <2>1 DEF Lockers
    <3>2. Apart(txn[v], txn[w]) /\ Apart(txn[w], txn[v])
      BY WhatIsKnown
    <3> QED
      BY <2>7, <2>8, <3>1, <3>2 DEF Apart, Moves
  <2> QED
    BY <2>1, <2>7, <2>11, <2>12, StaysKeepsInv DEF t
<1> QED
  BY <1>2, <1>3 DEF Lock

\* A section's call goes on, with the same rows.
LEMMA SectionGoesOn ==
  ASSUME LedgerInv, NEW w \in Writers, txn[w].does \in {"retire", "rename"},
         txn[w].at # "lock", txn[w].source = NoRow,
         NEW next \in {"commit", "move", "refile"}, next # "commit" => txn[w].does = "rename",
         ByFile(txn[w].topic), Stays(w, [txn[w] EXCEPT !.at = next])
  PROVE  LedgerInv'
<1> DEFINE t == [txn[w] EXCEPT !.at = next]
<1>1. txn[w] \in Transaction /\ Holds(txn[w])
  BY WhatIsKnown
<1>2. /\ t \in Transaction /\ t.at = next /\ t.topic = txn[w].topic /\ t.does = txn[w].does
      /\ t.made = txn[w].made /\ t.kind = txn[w].kind /\ t.name = txn[w].name
      /\ t.to = txn[w].to /\ t.source = txn[w].source /\ t.seen = txn[w].seen
  BY <1>1 DEF Transaction, Statements
<1> HIDE DEF t
<1>3. Holds(t)
  BY <1>1, <1>2 DEF Holds, SectionHolds, WriteHolds, DeleteHolds
<1>4. \A v \in Writers \ {w} : Apart(t, txn[v]) /\ Apart(txn[v], t)
  BY <1>2, WhatIsKnown DEF Apart, Moves
<1> QED
  BY <1>2, <1>3, <1>4, StaysKeepsInv DEF t

LEMMA CheckSourceKeepsInv ==
  ASSUME LedgerInv, NEW w \in Writers, CheckSource(w)
  PROVE  LedgerInv'
<1>1. /\ txn[w] \in Transaction /\ txn[w].at = "check" /\ Holds(txn[w])
      /\ txn[w].does \in {"retire", "rename"}
  BY WhatIsKnown DEF CheckSource, Doing, Holds, WriteHolds, DeleteHolds, Transaction
<1>2. /\ txn[w].topic \in Live /\ topic[txn[w].topic].name = txn[w].name
      /\ txn[w].source = NoRow
  BY <1>1 DEF Holds, SectionHolds, Live, Transaction
<1>3. CASE source[<<"manual", txn[w].name>>] # NoRow
  BY <1>3, EndKeepsInv DEF CheckSource
<1>4. CASE source[<<"manual", txn[w].name>>] = NoRow
  <2>1. ByFile(txn[w].topic)
    BY <1>2, <1>4 DEF LedgerInv, HandHasSource
  <2>2. \E next \in {"commit", "move"} :
          /\ next # "commit" => txn[w].does = "rename"
          /\ Stays(w, [txn[w] EXCEPT !.at = next])
    BY <1>1, <1>4 DEF CheckSource, Does
  <2> QED
    BY <1>1, <1>2, <2>1, <2>2, SectionGoesOn
<1> QED
  BY <1>3, <1>4

LEMMA MoveTopicKeepsInv ==
  ASSUME LedgerInv, NEW w \in Writers, MoveTopic(w)
  PROVE  LedgerInv'
<1>1. /\ txn[w] \in Transaction /\ txn[w].at = "move" /\ Holds(txn[w])
      /\ txn[w].does = "rename"
  BY WhatIsKnown DEF MoveTopic, Doing, Holds, WriteHolds, SectionHolds, DeleteHolds, Transaction
<1>2. ByFile(txn[w].topic) /\ txn[w].source = NoRow
  BY <1>1 DEF Holds, SectionHolds
<1>3. End(w) \/ Stays(w, [txn[w] EXCEPT !.at = "refile"])
  BY DEF MoveTopic
<1> QED
  BY <1>1, <1>2, <1>3, EndKeepsInv, SectionGoesOn

LEMMA MoveSourceKeepsInv ==
  ASSUME LedgerInv, NEW w \in Writers, MoveSource(w)
  PROVE  LedgerInv'
<1> DEFINE to == <<"file", txn[w].to>>
           moved == IF source[Locate(w)] # NoRow THEN Locate(w) ELSE NoRow
           t == [txn[w] EXCEPT !.at = "commit", !.source = moved]
<1>1. /\ txn[w] \in Transaction /\ txn[w].at = "refile" /\ Holds(txn[w])
      /\ txn[w].does = "rename" /\ Stays(w, t)
  BY WhatIsKnown DEF MoveSource, Doing, Holds, WriteHolds, SectionHolds, DeleteHolds, Transaction
<1>2. /\ txn[w].name \in Names /\ txn[w].kind = "file" /\ txn[w].to \in Names
      /\ Locate(w) = <<"file", txn[w].name>> /\ Locate(w) \in Locator /\ txn[w].source = NoRow
  BY <1>1 DEF Holds, SectionHolds, Locate, Locator, Kinds
<1>3. /\ moved \in Locator \cup {NoRow} /\ (moved # NoRow => moved = Locate(w))
      /\ moved # NoRow => Filers(w, Locate(w)) = {} /\ Filers(w, to) = {}
  BY <1>2 DEF MoveSource
<1> HIDE DEF moved
<1>4. /\ t \in Transaction /\ t.at = "commit" /\ t.topic = txn[w].topic /\ t.does = "rename"
      /\ t.made = txn[w].made /\ t.kind = txn[w].kind /\ t.name = txn[w].name
      /\ t.to = txn[w].to /\ t.source = moved /\ t.seen = txn[w].seen
  BY <1>1, <1>3 DEF Transaction, Statements
<1> HIDE DEF t
<1>5. Holds(t)
  BY <1>1, <1>2, <1>3, <1>4 DEF Holds, SectionHolds, WriteHolds, DeleteHolds
<1>6. \A v \in Writers \ {w} : Apart(t, txn[v]) /\ Apart(txn[v], t)
  <2> SUFFICES ASSUME NEW v \in Writers \ {w} PROVE Apart(t, txn[v]) /\ Apart(txn[v], t)
    OBVIOUS
  <2>1. Apart(txn[v], txn[w]) /\ Apart(txn[w], txn[v])
    BY WhatIsKnown
  <2>2. ASSUME moved # NoRow
        PROVE  /\ txn[v].source # Locate(w) /\ txn[v].source # to
               /\ Moves(txn[v]) => Locate(w) # <<"file", txn[v].to>>
    BY <1>3, <2>2 DEF Filers, Renamed, Moves
  <2> QED
    BY <1>3, <1>4, <2>1, <2>2 DEF Apart, Moves
<1> QED
  BY <1>1, <1>4, <1>5, <1>6, StaysKeepsInv

LEMMA AbortKeepsInv ==
  ASSUME LedgerInv, NEW w \in Writers, Abort(w)
  PROVE  LedgerInv'
BY EndKeepsInv DEF Abort

(***************************************************************************)
(* A commit changes the rows its transaction has: what the others have     *)
(* found out stays true.                                                   *)
(***************************************************************************)
LEMMA OthersHold ==
  ASSUME LedgerInv, NEW w \in Writers, txn' = [txn EXCEPT ![w] = NoCall],
         \A i \in TopicId \ {txn[w].topic} :
           /\ topic'[i] = NoRow <=> topic[i] = NoRow
           /\ topic[i] # NoRow => /\ topic'[i].name = topic[i].name
                                 /\ topic'[i].states = topic[i].states
                                 /\ topic'[i].current = topic[i].current,
         \A i \in Live : topic'[i] # NoRow,
         \A l \in Locator :
           \/ source'[l] = source[l]
           \/ l = txn[w].source
           \/ Moves(txn[w]) /\ l = <<"file", txn[w].to>>
  PROVE  /\ txn' \in [Writers -> Transaction]
         /\ RowsAreLocked'
         /\ \A v \in Writers : Holds(txn[v])'
<1>1. txn \in [Writers -> Transaction]
  BY DEF LedgerInv, LedgerTypeOK
<1>2. txn' \in [Writers -> Transaction]
  BY <1>1, NoCallIsOne
<1>3. txn'[w] = NoCall /\ \A v \in Writers \ {w} : txn'[v] = txn[v]
  BY <1>1
<1>4. \A v \in Writers : Apart(NoCall, txn[v]) /\ Apart(txn[v], NoCall)
  BY <1>1, NoRowIsNothing DEF Transaction, Apart, Moves, NoCall
<1>5. RowsAreLocked'
  BY <1>3, <1>4, WhatIsKnown DEF RowsAreLocked, Apart, Moves
<1>6. Holds(txn[w])'
  BY <1>3 DEF Holds, WriteHolds, SectionHolds, DeleteHolds, NoCall
<1>7. ASSUME NEW v \in Writers \ {w} PROVE Holds(txn[v])'
  <2>1. /\ txn'[v] = txn[v] /\ txn[v] \in Transaction /\ Holds(txn[v])
        /\ Apart(txn[v], txn[w])
    BY <1>1, <1>3, WhatIsKnown
  <2> DEFINE i == txn[v].topic
             l == txn[v].source
  <2>2. i \in TopicId \cup {0} /\ l \in Locator \cup {NoRow}
    BY <2>1 DEF Transaction
  <2>3. i # 0 =>
          /\ topic'[i] = NoRow <=> topic[i] = NoRow
          /\ topic[i] # NoRow => /\ topic'[i].name = topic[i].name
                                /\ topic'[i].states = topic[i].states
                                /\ topic'[i].current = topic[i].current
    BY <2>1, <2>2 DEF Apart
  <2>4. l # NoRow => source'[l] = source[l]
    BY <2>1, <2>2 DEF Apart
  <2>5. WriteHolds(txn[v])'
    <3> SUFFICES ASSUME txn[v].does = "write", txn[v].at # "idle" PROVE WriteHolds(txn[v])'
      BY <2>1 DEF WriteHolds
    <3>1. WriteHolds(txn[v])
      BY <2>1 DEF Holds
    <3>2. l # NoRow => Filed(l)' = Filed(l)
      BY <2>4 DEF Filed
    <3>3. i # 0 => States(i)' = States(i)
      BY <2>2, <2>3 DEF States, Live
    <3>4. txn[v].at = "commit" => l # NoRow
      <4>1. txn[v].kind \in Kinds /\ txn[v].name \in Names
        BY <2>1, <3>1 DEF WriteHolds, Transaction
      <4>2. <<txn[v].kind, txn[v].name>> \in Locator
        BY <4>1 DEF Locator
      <4> QED
        BY <3>1, <4>2, NoRowIsNothing DEF WriteHolds
    <3>5. txn[v].at = "commit" /\ txn[v].promoted => i # 0
      BY <3>1 DEF WriteHolds
    <3> QED
      BY <2>1, <2>3, <3>1, <3>2, <3>3, <3>4, <3>5 DEF WriteHolds
  <2>6. SectionHolds(txn[v])'
    BY <2>1, <2>3 DEF Holds, SectionHolds, ByFile
  <2>7. DeleteHolds(txn[v])'
    BY <2>1 DEF Holds, DeleteHolds, Live
  <2>8. (txn[v].at = "idle" => txn[v] = NoCall)'
    BY <2>1 DEF Holds, NoCall
  <2> QED
    BY <2>5, <2>6, <2>7, <2>8 DEF Holds
<1> QED
  BY <1>2, <1>5, <1>6, <1>7

LEMMA CommitRenameKeepsInv ==
  ASSUME LedgerInv, NEW w \in Writers, CommitRename(w)
  PROVE  LedgerInv'
<1> DEFINE t == txn[w]
           from == t.source
           to == <<"file", t.to>>
<1>1. /\ t \in Transaction /\ t.at = "commit" /\ t.does = "rename" /\ Holds(t)
      /\ topic' = [topic EXCEPT ![t.topic].name = t.to]
      /\ source' = IF from = NoRow THEN source
                   ELSE [source EXCEPT ![from] = NoRow, ![to] = source[from]]
      /\ alias' = [alias EXCEPT ![t.to] = NoRow, ![t.name] = t.topic]
      /\ txn' = [txn EXCEPT ![w] = NoCall]
  BY WhatIsKnown DEF CommitRename, Doing, Does
<1>2. /\ topic \in [TopicId -> Topic \cup {NoRow}] /\ source \in [Locator -> Source \cup {NoRow}]
      /\ alias \in [Names -> TopicId \cup {NoRow}]
  BY DEF LedgerInv, LedgerTypeOK
<1>3. /\ t.name \in Names /\ t.to \in Names /\ to \in Locator
      /\ from = NoRow \/ from = <<"file", t.name>>
      /\ t.topic \in TopicId /\ topic[t.topic] # NoRow /\ topic[t.topic] \in Topic
      /\ ByFile(t.topic)
  BY <1>1, <1>2 DEF Holds, SectionHolds, Locator, Kinds, Transaction
<1>4. \A i \in TopicId \ {t.topic} : topic'[i] = topic[i]
  BY <1>1, <1>2
<1>5. /\ topic'[t.topic] \in Topic
      /\ topic'[t.topic].states = topic[t.topic].states
      /\ topic'[t.topic].current = topic[t.topic].current
  <2>1. topic'[t.topic] = [topic[t.topic] EXCEPT !.name = t.to]
    BY <1>1, <1>2, <1>3
  <2> QED
    BY <1>3, <2>1 DEF Topic
<1>6. \A l \in Locator : source'[l] = source[l] \/ l = from \/ (from # NoRow /\ l = to)
  BY <1>1, <1>2
<1>7. Live' = Live
  BY <1>3, <1>4, <1>5, NoRowIsNothing DEF Live
<1>8. /\ txn' \in [Writers -> Transaction] /\ RowsAreLocked' /\ \A v \in Writers : Holds(txn[v])'
  <2>1. \A i \in Live : topic'[i] # NoRow
    BY <1>7 DEF Live
  <2>2. \A l \in Locator :
          \/ source'[l] = source[l]
          \/ l = txn[w].source
          \/ Moves(txn[w]) /\ l = <<"file", txn[w].to>>
    BY <1>1, <1>6 DEF Moves
  <2> HIDE DEF t
  <2> QED
    BY <1>1, <1>4, <2>1, <2>2, OthersHold DEF t
<1>9. LedgerTypeOK'
  <2>1. topic' \in [TopicId -> Topic \cup {NoRow}]
    BY <1>1, <1>2, <1>4, <1>5
  <2>2. source' \in [Locator -> Source \cup {NoRow}]
    <3>1. from # NoRow => from \in Locator
      BY <1>1 DEF Transaction
    <3> HIDE DEF from, to
    <3> QED
      BY <1>1, <1>2, <1>3, <3>1
  <2>3. alias' \in [Names -> TopicId \cup {NoRow}]
    BY <1>1, <1>2, <1>3
  <2> QED
    BY <1>8, <2>1, <2>2, <2>3 DEF LedgerTypeOK
<1>10. \A i \in Live :
         /\ topic'[i].states = topic[i].states
         /\ topic'[i].current = topic[i].current
         /\ i # t.topic => topic'[i].name = topic[i].name
  BY <1>4, <1>5 DEF Live
<1>11. HandHasSource'
  <2> SUFFICES ASSUME NEW i \in Live, ~ByFile(i)'
               PROVE  source'[<<"manual", topic'[i].name>>] # NoRow
    BY <1>7 DEF HandHasSource
  <2>0. topic'[i].states = topic[i].states /\ (i # t.topic => topic'[i].name = topic[i].name)
    BY <1>10
  <2>1. ~ByFile(i)
    BY <2>0 DEF ByFile
  <2>2. i # t.topic /\ topic'[i].name = topic[i].name
    BY <1>3, <2>0, <2>1
  <2>5. topic[i] \in Topic
    BY SurvivingAreVersions DEF LedgerInv
  <2>3. source[<<"manual", topic[i].name>>] # NoRow
    BY <2>1 DEF LedgerInv, HandHasSource
  <2>4. <<"manual", topic[i].name>> \in Locator
    BY <2>5 DEF Topic, Locator, Kinds
  <2>6. <<"manual", topic[i].name>> # from /\ <<"manual", topic[i].name>> # to
    BY <1>3, <2>4, NoRowIsNothing
  <2> QED
    BY <1>6, <2>2, <2>3, <2>4, <2>6
<1>12. SupersedesTheNewest'
  BY <1>7, <1>10 DEF LedgerInv, SupersedesTheNewest
<1>13. PointsAtTheNewest'
  <2>1. \A i \in Live : Surviving(i)' = Surviving(i)
    BY <1>10 DEF Surviving
  <2> QED
    BY <1>7, <1>10, <2>1 DEF LedgerInv, PointsAtTheNewest, Newest, Max
<1> QED
  BY <1>8, <1>9, <1>11, <1>12, <1>13 DEF LedgerInv, Holds

\* A deletion marks versions of one topic, and asks the ledger for its pointer.
LEMMA DeletionMarks ==
  ASSUME LedgerInv, NEW w \in Writers, CommitDelete(w)
  PROVE  LET i == txn[w].topic
             n == Len(topic[i].states)
         IN  /\ i \in Live /\ n \in Nat /\ DOMAIN topic[i].states = 1 .. n
             /\ \A j \in TopicId \ {i} : topic'[j] = topic[j]
             /\ topic'[i] \in Topic /\ topic'[i].name = topic[i].name
             /\ DOMAIN topic'[i].states = 1 .. n
             /\ \E versions :
                  /\ topic'[i].current = Newest(Surviving(i) \ versions)
                  /\ \A v \in 1 .. n :
                       /\ topic'[i].states[v].by = topic[i].states[v].by
                       /\ topic'[i].states[v].after = topic[i].states[v].after
                       /\ topic'[i].states[v].deleted
                            <=> v \in versions \/ topic[i].states[v].deleted
<1> DEFINE t == txn[w]
           i == t.topic
           versions == IF t.does = "retire" THEN Surviving(i) ELSE {t.seen[2]}
<1>1. /\ t \in Transaction /\ t.at = "commit" /\ t.does \in {"retire", "delete"} /\ Holds(t)
      /\ topic' = [topic EXCEPT ![i] = Without(i, versions)]
      /\ txn' = [txn EXCEPT ![w] = NoCall]
      /\ source' = source /\ alias' = alias
  BY WhatIsKnown DEF CommitDelete, Doing
<1>2. i \in Live
  BY <1>1 DEF Holds, SectionHolds, DeleteHolds, Live, Transaction
<1>3. /\ i \in TopicId /\ topic[i] \in Topic /\ topic[i] # NoRow
      /\ Len(topic[i].states) \in Nat /\ DOMAIN topic[i].states = 1 .. Len(topic[i].states)
      /\ Surviving(i) \in SUBSET (1 .. Len(topic[i].states))
  BY <1>2, SurvivingAreVersions DEF LedgerInv, Live
<1>4. /\ topic \in [TopicId -> Topic \cup {NoRow}] /\ source \in [Locator -> Source \cup {NoRow}]
      /\ alias \in [Names -> TopicId \cup {NoRow}]
  BY DEF LedgerInv, LedgerTypeOK
<1> HIDE DEF versions
<1> DEFINE n == Len(topic[i].states)
           left == Surviving(i) \ versions
<1>5. \A j \in TopicId \ {i} : topic'[j] = topic[j]
  BY <1>1, <1>4
<1>6. topic'[i] = Without(i, versions)
  BY <1>1, <1>3, <1>4
<1>7. /\ topic'[i].name = topic[i].name /\ topic'[i].named = topic[i].named
      /\ topic'[i].current = Newest(left)
      /\ topic'[i].states = [v \in 1 .. n |-> IF v \in versions
                                            THEN [topic[i].states[v] EXCEPT !.deleted = TRUE]
                                            ELSE topic[i].states[v]]
      /\ topic'[i] = [name |-> topic'[i].name, states |-> topic'[i].states,
                      current |-> topic'[i].current, named |-> topic'[i].named]
  BY <1>3, <1>6 DEF Without, Topic
<1>8. \A v \in 1 .. n :
        /\ topic'[i].states[v] \in State
        /\ topic'[i].states[v].by = topic[i].states[v].by
        /\ topic'[i].states[v].after = topic[i].states[v].after
        /\ topic'[i].states[v].deleted <=> v \in versions \/ topic[i].states[v].deleted
  <2>1. \A v \in 1 .. n : topic[i].states[v] \in State
    BY <1>3, ElementOfSeq DEF Topic
  <2> SUFFICES ASSUME NEW v \in 1 .. n
               PROVE  /\ topic'[i].states[v] \in State
                      /\ topic'[i].states[v].by = topic[i].states[v].by
                      /\ topic'[i].states[v].after = topic[i].states[v].after
                      /\ topic'[i].states[v].deleted
                           <=> v \in versions \/ topic[i].states[v].deleted
    OBVIOUS
  <2> DEFINE old == topic[i].states[v]
             new == topic'[i].states[v]
  <2>2. old \in State /\ new = IF v \in versions THEN [old EXCEPT !.deleted = TRUE] ELSE old
    BY <1>7, <2>1
  <2> HIDE DEF old, new
  <2>3. /\ new \in State /\ new.by = old.by /\ new.after = old.after
        /\ new.deleted <=> v \in versions \/ old.deleted
    BY <2>2 DEF State
  <2> QED
    BY <2>3 DEF old, new
<1>9. DOMAIN topic'[i].states = 1 .. n /\ n \in Nat
  BY <1>3, <1>7
<1>10. left \in SUBSET (1 .. n) /\ Newest(left) \in Nat
  <2>1. left \in SUBSET (1 .. n)
    BY <1>3
  <2>2. IF left = {} THEN Newest(left) = 0 ELSE Newest(left) \in left
    BY <1>9, <2>1, NewestIsGreatest
  <2> QED
    BY <2>1, <2>2
<1>11. topic'[i] \in Topic
  <2>1. topic'[i].states \in Seq(State)
    <3>1. topic'[i].states \in [1 .. n -> State]
      BY <1>7, <1>8, <1>9
    <3> QED
      BY <1>9, <3>1, SeqDef
  <2> QED
    BY <1>3, <1>7, <1>10, <2>1 DEF Topic
<1> QED
  BY <1>2, <1>3, <1>5, <1>7, <1>8, <1>9, <1>11

LEMMA CommitDeleteKeepsInv ==
  ASSUME LedgerInv, NEW w \in Writers, CommitDelete(w)
  PROVE  LedgerInv'
<1> DEFINE t == txn[w]
           i == t.topic
           n == Len(topic[i].states)
<1>1. /\ i \in Live /\ i \in TopicId /\ n \in Nat /\ DOMAIN topic[i].states = 1 .. n
      /\ \A j \in TopicId \ {i} : topic'[j] = topic[j]
      /\ topic'[i] \in Topic /\ topic'[i].name = topic[i].name
      /\ DOMAIN topic'[i].states = 1 .. n
  BY DeletionMarks DEF Live
<1>2. PICK versions :
        /\ topic'[i].current = Newest(Surviving(i) \ versions)
        /\ \A v \in 1 .. n :
             /\ topic'[i].states[v].by = topic[i].states[v].by
             /\ topic'[i].states[v].after = topic[i].states[v].after
             /\ topic'[i].states[v].deleted
                  <=> v \in versions \/ topic[i].states[v].deleted
  BY DeletionMarks
<1>3. /\ topic' = [topic EXCEPT ![i] = topic'[i]] /\ txn' = [txn EXCEPT ![w] = NoCall]
      /\ source' = source /\ alias' = alias
      /\ topic \in [TopicId -> Topic \cup {NoRow}] /\ source \in [Locator -> Source \cup {NoRow}]
      /\ alias \in [Names -> TopicId \cup {NoRow}]
  BY <1>1 DEF CommitDelete, LedgerInv, LedgerTypeOK
<1>4. Live' = Live
  BY <1>1, NoRowIsNothing DEF Live
<1>5. /\ txn' \in [Writers -> Transaction] /\ RowsAreLocked' /\ \A v \in Writers : Holds(txn[v])'
  <2>1. \A j \in Live : topic'[j] # NoRow
    BY <1>4 DEF Live
  <2>2. \A l \in Locator : source'[l] = source[l]
    BY <1>3
  <2> QED
    BY <1>1, <1>3, <2>1, <2>2, OthersHold
<1>6. LedgerTypeOK'
  BY <1>1, <1>3, <1>5 DEF LedgerTypeOK
<1>7. HandHasSource'
  <2> SUFFICES ASSUME NEW j \in Live, ~ByFile(j)'
               PROVE  source[<<"manual", topic'[j].name>>] # NoRow
    BY <1>3, <1>4 DEF HandHasSource
  <2>1. ~ByFile(j) /\ topic'[j].name = topic[j].name
    <3>1. CASE j = i
      BY <1>1, <1>2, <3>1 DEF ByFile
    <3>2. CASE j # i
      BY <1>1, <3>2 DEF ByFile, Live
    <3> QED
      BY <3>1, <3>2
  <2> QED
    BY <2>1 DEF LedgerInv, HandHasSource
<1>8. SupersedesTheNewest'
  <2> SUFFICES ASSUME NEW j \in Live, NEW v \in DOMAIN topic'[j].states
               PROVE  /\ topic'[j].states[v].after < v
                      /\ \A u \in DOMAIN topic'[j].states :
                           topic'[j].states[v].after < u /\ u < v => topic'[j].states[u].deleted
    BY <1>4 DEF SupersedesTheNewest
  <2>1. CASE j = i
    <3>1. /\ v \in 1 .. n
          /\ topic[i].states[v].after < v
          /\ \A u \in 1 .. n : topic[i].states[v].after < u /\ u < v => topic[i].states[u].deleted
      BY <1>1, <2>1 DEF LedgerInv, SupersedesTheNewest
    <3> QED
      BY <1>1, <1>2, <2>1, <3>1
  <2>2. CASE j # i
    BY <1>1, <2>2 DEF LedgerInv, SupersedesTheNewest, Live
  <2> QED
    BY <2>1, <2>2
<1>9. PointsAtTheNewest'
  <2> SUFFICES ASSUME NEW j \in Live
               PROVE  topic'[j].current = Newest(Surviving(j)')
    BY <1>4 DEF PointsAtTheNewest, Newest, Max
  <2>1. CASE j = i
    <3>1. Surviving(j)' = Surviving(j) \ versions
      BY <1>1, <1>2, <2>1 DEF Surviving
    <3> QED
      BY <1>2, <2>1, <3>1
  <2>2. CASE j # i
    <3>1. topic'[j] = topic[j]
      BY <1>1, <2>2 DEF Live
    <3>2. Surviving(j)' = Surviving(j)
      BY <3>1 DEF Surviving
    <3> QED
      BY <3>1, <3>2 DEF LedgerInv, PointsAtTheNewest
  <2> QED
    BY <2>1, <2>2
<1> QED
  BY <1>5, <1>6, <1>7, <1>8, <1>9 DEF LedgerInv, Holds

\* What a promoted write's topic says, its new state included.
NewState(t) == [text |-> t.text, by |-> t.kind, after |-> t.after, deleted |-> FALSE]

LEMMA PromotedWriteAppends ==
  ASSUME LedgerInv, NEW w \in Writers, CommitWrite(w), txn[w].topic # 0
  PROVE  LET i == txn[w].topic
             old == States(i)
         IN  /\ i \in TopicId
             /\ old \in Seq(State) /\ NewState(txn[w]) \in State
             /\ txn[w].made => old = <<>>
             /\ ~txn[w].made => i \in Live /\ topic[i].name = txn[w].name
             /\ topic'[i] \in Topic
             /\ topic'[i].name = txn[w].name
             /\ topic'[i].states = Append(old, NewState(txn[w]))
             /\ topic'[i].current = Len(old) + 1
<1> DEFINE t == txn[w]
           i == t.topic
           old == States(i)
           row == Appended(t)
<1>1. /\ t \in Transaction /\ t.at = "commit" /\ t.does = "write" /\ Holds(t)
      /\ i \in TopicId /\ i # 0
  BY WhatIsKnown DEF CommitWrite, Doing, Does, Transaction
<1>2. /\ t.promoted /\ t.name \in Names /\ t.text \in Promotable
      /\ t.number = Len(old) + 1
      /\ t.made => topic[i] = NoRow
      /\ ~t.made => topic[i] # NoRow /\ topic[i].name = t.name
  BY <1>1 DEF Holds, WriteHolds
<1>3. NewState(t) \in State
  BY <1>1, <1>2 DEF NewState, State, Transaction
<1>4. t.made => old = <<>>
  BY <1>2 DEF States, Live
<1>5. ~t.made => i \in Live /\ old = topic[i].states /\ topic[i] \in Topic
  BY <1>1, <1>2, SurvivingAreVersions DEF States, Live, LedgerInv
<1>6. old \in Seq(State)
  <2>1. CASE t.made
    BY <1>4, <2>1, EmptySeq
  <2>2. CASE ~t.made
    BY <1>5, <2>2 DEF Topic
  <2> QED
    BY <2>1, <2>2
<1>7. Append(old, NewState(t)) \in Seq(State) /\ Len(old) + 1 \in Nat
  BY <1>3, <1>6, AppendProperties, LenProperties
<1>8. /\ row \in Topic /\ row.name = t.name
      /\ row.states = Append(old, NewState(t)) /\ row.current = Len(old) + 1
  <2>1. CASE t.made
    <3>1. row = [name |-> t.name, states |-> <<NewState(t)>>, current |-> 1, named |-> t.created]
      BY <2>1 DEF Appended, NewState
    <3>2. <<NewState(t)>> = Append(<<>>, NewState(t)) /\ Len(<<>>) = 0
      OBVIOUS
    <3>4. old = <<>>
      BY <1>4, <2>1
    <3>3. Append(old, NewState(t)) = <<NewState(t)>> /\ Len(old) + 1 = 1
      <4> HIDE DEF old, t
      <4> QED
        BY <3>2, <3>4
    <3>5. t.created \in BOOLEAN
      BY <1>1 DEF Transaction
    <3> HIDE DEF row, t, old
    <3> QED
      BY <1>2, <1>7, <3>1, <3>3, <3>5 DEF Topic
  <2>2. CASE ~t.made
    <3>1. row = [topic[i] EXCEPT !.states = Append(old, NewState(t)), !.current = Len(old) + 1]
      BY <1>2, <1>5, <2>2 DEF Appended, NewState
    <3> HIDE DEF row, t, old, i
    <3> QED
      BY <1>2, <1>5, <1>7, <2>2, <3>1 DEF Topic
  <2> QED
    BY <2>1, <2>2
<1>9. topic'[i] = IF i = t.naming THEN [row EXCEPT !.named = TRUE] ELSE row
  BY <1>1 DEF CommitWrite
<1>10. /\ topic'[i] \in Topic /\ topic'[i].name = row.name
       /\ topic'[i].states = row.states /\ topic'[i].current = row.current
  <2> HIDE DEF row
  <2> QED
    BY <1>8, <1>9 DEF Topic
<1> QED
  BY <1>1, <1>2, <1>3, <1>4, <1>5, <1>6, <1>8, <1>10

LEMMA OtherTopicsStay ==
  ASSUME LedgerInv, NEW w \in Writers, CommitWrite(w), NEW j \in TopicId \ {txn[w].topic}
  PROVE  /\ topic[j] = NoRow => topic'[j] = NoRow
         /\ topic[j] # NoRow => /\ topic'[j] \in Topic
                               /\ topic'[j].name = topic[j].name
                               /\ topic'[j].states = topic[j].states
                               /\ topic'[j].current = topic[j].current
<1>1. topic[j] = NoRow => topic'[j] = NoRow
  BY DEF CommitWrite
<1>2. CASE topic[j] # NoRow
  <2>1. topic[j] \in Topic
    BY <1>2, SurvivingAreVersions DEF LedgerInv, Live
  <2>2. topic'[j] = IF j = txn[w].naming THEN [topic[j] EXCEPT !.named = TRUE] ELSE topic[j]
    BY <1>2 DEF CommitWrite
  <2> QED
    BY <1>2, <2>1, <2>2 DEF Topic
<1> QED
  BY <1>1, <1>2

LEMMA CommitWriteKeepsInv ==
  ASSUME LedgerInv, NEW w \in Writers, CommitWrite(w)
  PROVE  LedgerInv'
<1> DEFINE t == txn[w]
           i == t.topic
           old == States(i)
<1>1. /\ t \in Transaction /\ t.at = "commit" /\ t.does = "write" /\ Holds(t)
      /\ txn' = [txn EXCEPT ![w] = NoCall] /\ alias' = alias
  BY WhatIsKnown DEF CommitWrite, Doing, Does
<1>2. /\ topic \in [TopicId -> Topic \cup {NoRow}] /\ source \in [Locator -> Source \cup {NoRow}]
  BY DEF LedgerInv, LedgerTypeOK
<1>3. t.name \in Names /\ t.kind \in Kinds /\ t.source = <<t.kind, t.name>> /\ t.source \in Locator
  BY <1>1 DEF Holds, WriteHolds, Locator, Transaction
<1>4. i \in TopicId \cup {0}
  BY <1>1 DEF Transaction
<1>5. /\ source' \in [Locator -> Source \cup {NoRow}]
      /\ source'[t.source] # NoRow
      /\ \A l \in Locator : l # t.source => source'[l] = source[l]
  <2> DEFINE short == t.kind = "file" /\ t.text = Short
             filed == [evidence |-> t.version, short |-> short]
  <2>1. source' = [source EXCEPT ![t.source] = filed]
    BY DEF CommitWrite
  <2>2. filed \in Source
    BY <1>1 DEF Source, Transaction
  <2> HIDE DEF filed, t
  <2> QED
    BY <1>2, <1>3, <2>1, <2>2, NoRowIsNothing
<1>6. topic' \in [TopicId -> Topic \cup {NoRow}]
  <2>1. DOMAIN topic' = TopicId /\ topic' = [j \in TopicId |-> topic'[j]]
    BY DEF CommitWrite
  <2>2. ASSUME NEW j \in TopicId PROVE topic'[j] \in Topic \cup {NoRow}
    <3>1. CASE j = i
      BY <3>1, NoRowIsNothing, PromotedWriteAppends
    <3>2. CASE j # i
      BY <3>2, OtherTopicsStay
    <3> QED
      BY <3>1, <3>2
  <2> QED
    BY <2>1, <2>2
<1>7. \A j \in Live : topic'[j] # NoRow
  <2> SUFFICES ASSUME NEW j \in Live PROVE topic'[j] # NoRow
    OBVIOUS
  <2>1. j \in TopicId /\ topic[j] # NoRow
    BY DEF Live
  <2>2. CASE j = i
    BY <2>1, <2>2, NoRowIsNothing, PromotedWriteAppends
  <2>3. CASE j # i
    BY <2>1, <2>3, NoRowIsNothing, OtherTopicsStay
  <2> QED
    BY <2>2, <2>3
<1>8. /\ txn' \in [Writers -> Transaction] /\ RowsAreLocked' /\ \A v \in Writers : Holds(txn[v])'
  <2>1. \A j \in TopicId \ {txn[w].topic} :
          /\ topic'[j] = NoRow <=> topic[j] = NoRow
          /\ topic[j] # NoRow => /\ topic'[j].name = topic[j].name
                                /\ topic'[j].states = topic[j].states
                                /\ topic'[j].current = topic[j].current
    BY NoRowIsNothing, OtherTopicsStay
  <2>2. \A l \in Locator : source'[l] = source[l] \/ l = txn[w].source
    BY <1>5
  <2> QED
    BY <1>1, <1>7, <2>1, <2>2, OthersHold
<1>9. LedgerTypeOK'
  <2>1. alias' \in [Names -> TopicId \cup {NoRow}]
    BY <1>1 DEF LedgerInv, LedgerTypeOK
  <2> QED
    BY <1>5, <1>6, <1>8, <2>1 DEF LedgerTypeOK
<1>10. ASSUME NEW j \in Live', j # i
       PROVE  /\ j \in Live
              /\ topic'[j].name = topic[j].name
              /\ topic'[j].states = topic[j].states
              /\ topic'[j].current = topic[j].current
  <2>1. j \in TopicId \ {txn[w].topic} /\ topic'[j] # NoRow
    BY <1>10 DEF Live
  <2> QED
    BY <2>1, OtherTopicsStay DEF Live
\* The topic that is written to.
<1>11. ASSUME i # 0
       PROVE  /\ old \in Seq(State) /\ Len(old) \in Nat /\ DOMAIN old = 1 .. Len(old)
              /\ DOMAIN topic'[i].states = 1 .. Len(old) + 1
              /\ topic'[i].states[Len(old) + 1] = NewState(t)
              /\ \A v \in 1 .. Len(old) : topic'[i].states[v] = old[v]
              /\ topic'[i].name = t.name /\ topic'[i].current = Len(old) + 1
              /\ ~t.made => i \in Live /\ topic[i].name = t.name /\ old = topic[i].states
              /\ t.made => old = <<>>
  <2>1. /\ old \in Seq(State) /\ NewState(t) \in State
        /\ topic'[i].states = Append(old, NewState(t))
        /\ topic'[i].name = t.name /\ topic'[i].current = Len(old) + 1
        /\ ~t.made => i \in Live /\ topic[i].name = t.name
        /\ t.made => old = <<>>
    BY <1>11, PromotedWriteAppends
  <2>2. ~t.made => old = topic[i].states
    BY <2>1 DEF States
  <2> DEFINE new == NewState(t)
  <2>3. Len(old) \in Nat /\ DOMAIN old = 1 .. Len(old)
    BY <2>1, LenProperties
  <2> HIDE DEF new, old
  <2>4. /\ DOMAIN Append(old, new) = 1 .. Len(old) + 1
        /\ Append(old, new)[Len(old) + 1] = new
        /\ \A v \in 1 .. Len(old) : Append(old, new)[v] = old[v]
    BY <2>1, <2>3, AppendProperties DEF new
  <2> QED
    BY <2>1, <2>2, <2>3, <2>4 DEF new
<1>12. HandHasSource'
  <2> SUFFICES ASSUME NEW j \in Live', ~ByFile(j)'
               PROVE  source'[<<"manual", topic'[j].name>>] # NoRow
    BY DEF HandHasSource
  <2>1. CASE j # i
    <3>1. j \in Live /\ ~ByFile(j) /\ topic'[j].name = topic[j].name
      BY <1>10, <2>1 DEF ByFile
    <3>2. topic[j].name \in Names
      BY <3>1, SurvivingAreVersions DEF LedgerInv, Topic
    <3>3. source[<<"manual", topic[j].name>>] # NoRow /\ <<"manual", topic[j].name>> \in Locator
      BY <3>1, <3>2 DEF LedgerInv, HandHasSource, Locator, Kinds
    <3> QED
      BY <1>5, <3>1, <3>3
  <2>2. CASE j = i
    <3>1. i # 0
      BY <2>2, NoRowIsNothing DEF Live
    <3>2. topic'[j].name = t.name
      BY <1>11, <2>2, <3>1
    <3>3. CASE t.kind = "manual"
      BY <1>3, <1>5, <3>2, <3>3
    <3>4. CASE t.kind # "manual"
      <4>1. NewState(t).by = "file"
        BY <1>3, <3>4 DEF NewState, Kinds
      <4>2. PICK v \in 1 .. Len(old) + 1 : topic'[i].states[v].by # "file"
        BY <1>11, <2>2, <3>1 DEF ByFile
      <4>3. v \in 1 .. Len(old) /\ old[v].by # "file"
        <5>1. v # Len(old) + 1
          BY <1>11, <3>1, <4>1, <4>2
        <5>2. v \in 1 .. Len(old)
          BY <1>11, <3>1, <5>1
        <5> QED
          BY <1>11, <3>1, <4>2, <5>2
      <4>4. ~t.made
        BY <1>11, <3>1, <4>3
      <4>5. i \in Live /\ topic[i].name = t.name /\ ~ByFile(i)
        BY <1>11, <3>1, <4>3, <4>4 DEF ByFile
      <4>6. source[<<"manual", t.name>>] # NoRow /\ <<"manual", t.name>> \in Locator
        BY <1>3, <4>5 DEF LedgerInv, HandHasSource, Locator, Kinds
      <4> QED
        BY <1>5, <3>2, <4>6
    <3> QED
      BY <3>3, <3>4
  <2> QED
    BY <2>1, <2>2
\* What the new state supersedes is the newest that survives.
<1>13. ASSUME i # 0
       PROVE  /\ t.after \in Nat /\ t.after < Len(old) + 1
              /\ \A u \in 1 .. Len(old) : t.after < u => old[u].deleted
  <2>1. t.after \in Nat
    BY <1>1 DEF Transaction
  <2>2. CASE t.made
    BY <1>1, <1>11, <1>13, <2>1, <2>2 DEF Holds, WriteHolds
  <2>3. CASE ~t.made
    <3>1. i \in Live /\ old = topic[i].states
      BY <1>11, <1>13, <2>3
    <3>2. t.after = Newest(Surviving(i))
      BY <1>1, <1>13, <2>3, <3>1 DEF Holds, WriteHolds, LedgerInv, PointsAtTheNewest
    <3> DEFINE S == Surviving(i)
               n == Len(old)
    <3>3. S \in SUBSET (1 .. n) /\ n \in Nat
      BY <3>1, SurvivingAreVersions DEF LedgerInv
    <3>4. \A u \in 1 .. n : u \in S \/ old[u].deleted
      BY <1>11, <1>13, <3>1 DEF Surviving
    <3> HIDE DEF S, n
    <3>5. Newest(S) < n + 1 /\ \A u \in 1 .. n : Newest(S) < u => u \notin S
      BY <3>3, NewestBounds
    <3> QED
      BY <2>1, <3>2, <3>4, <3>5 DEF S, n
  <2> QED
    BY <2>2, <2>3
<1>14. SupersedesTheNewest'
  <2> SUFFICES ASSUME NEW j \in Live', NEW v \in DOMAIN topic'[j].states
               PROVE  /\ topic'[j].states[v].after < v
                      /\ \A u \in DOMAIN topic'[j].states :
                           topic'[j].states[v].after < u /\ u < v => topic'[j].states[u].deleted
    BY DEF SupersedesTheNewest
  <2>1. CASE j # i
    BY <1>10, <2>1 DEF LedgerInv, SupersedesTheNewest
  <2>2. CASE j = i
    <3>1. i # 0
      BY <2>2, NoRowIsNothing DEF Live
    <3>2. v \in 1 .. Len(old) + 1 /\ DOMAIN topic'[i].states = 1 .. Len(old) + 1
      BY <1>11, <2>2, <3>1
    <3>3. CASE v = Len(old) + 1
      <4>1. topic'[i].states[v].after = t.after
        BY <1>11, <3>1, <3>3 DEF NewState
      <4>2. ASSUME NEW u \in 1 .. Len(old) + 1, t.after < u, u < v
            PROVE  topic'[i].states[u].deleted
        <5>1. u \in 1 .. Len(old)
          BY <1>11, <3>1, <3>3, <4>2
        <5> QED
          BY <1>11, <1>13, <3>1, <4>2, <5>1
      <4> QED
        BY <1>13, <2>2, <3>1, <3>2, <3>3, <4>1, <4>2
    <3>4. CASE v # Len(old) + 1
      <4>1. v \in 1 .. Len(old) /\ topic'[i].states[v] = old[v]
        BY <1>11, <3>1, <3>2, <3>4
      <4>2. ~t.made
        BY <1>11, <3>1, <4>1
      <4>3. i \in Live /\ old = topic[i].states /\ DOMAIN old = 1 .. Len(old) /\ Len(old) \in Nat
        BY <1>11, <3>1, <4>2
      <4>4. /\ old[v].after < v
            /\ \A u \in 1 .. Len(old) : old[v].after < u /\ u < v => old[u].deleted
        BY <4>1, <4>3 DEF LedgerInv, SupersedesTheNewest
      <4>5. \A u \in 1 .. Len(old) + 1 : u < v => u \in 1 .. Len(old)
        BY <4>1, <4>3
      <4>6. \A u \in 1 .. Len(old) : topic'[i].states[u] = old[u]
        BY <1>11, <3>1
      <4> QED
        BY <2>2, <3>2, <4>1, <4>4, <4>5, <4>6
    <3> QED
      BY <3>3, <3>4
  <2> QED
    BY <2>1, <2>2
<1>15. PointsAtTheNewest'
  <2> SUFFICES ASSUME NEW j \in Live'
               PROVE  topic'[j].current = Newest(Surviving(j)')
    BY DEF PointsAtTheNewest, Newest, Max
  <2>1. CASE j # i
    <3>1. Surviving(j)' = Surviving(j)
      BY <1>10, <2>1 DEF Surviving
    <3> QED
      BY <1>10, <2>1, <3>1 DEF LedgerInv, PointsAtTheNewest
  <2>2. CASE j = i
    <3>1. i # 0
      BY <2>2, NoRowIsNothing DEF Live
    <3> DEFINE S == Surviving(j)'
               n == Len(old) + 1
    <3>2. S \in SUBSET (1 .. n) /\ n \in Nat
      BY <1>11, <2>2, <3>1 DEF Surviving
    <3>3. n \in S
      <4>1. ~NewState(t).deleted
        BY DEF NewState
      <4> QED
        BY <1>11, <2>2, <3>1, <4>1 DEF Surviving
    <3>4. topic'[j].current = n
      BY <1>11, <2>2, <3>1
    <3> HIDE DEF S, n
    <3>5. \A x \in S : x <= n
      BY <3>2
    <3>6. Newest(S) = n
      BY <3>2, <3>3, <3>5, NewestIs
    <3> QED
      BY <3>4, <3>6 DEF S
  <2> QED
    BY <2>1, <2>2
<1> QED
  BY <1>8, <1>9, <1>12, <1>14, <1>15 DEF LedgerInv, Holds

(***************************************************************************)
(* The theorems.                                                           *)
(***************************************************************************)
LEMMA LedgerInvNext == LedgerInv /\ [LedgerNext]_tableVars => LedgerInv'
<1> SUFFICES ASSUME LedgerInv, [LedgerNext]_tableVars PROVE LedgerInv'
  OBVIOUS
<1>1. CASE UNCHANGED tableVars
  <2>1. topic' = topic /\ source' = source /\ alias' = alias /\ txn' = txn /\ Live' = Live
    BY <1>1 DEF tableVars, Live
  <2>2. LedgerTypeOK' /\ RowsAreLocked'
    BY <2>1 DEF LedgerInv, LedgerTypeOK, RowsAreLocked, Apart, Moves
  <2>3. \A w \in Writers : (txn[w].at = "idle" => txn[w] = NoCall)'
    BY <2>1 DEF LedgerInv, NoCall
  <2>4. \A w \in Writers : WriteHolds(txn[w])'
    BY <2>1 DEF LedgerInv, WriteHolds, Filed, States
  <2>5. \A w \in Writers : SectionHolds(txn[w])' /\ DeleteHolds(txn[w])'
    BY <2>1 DEF LedgerInv, SectionHolds, DeleteHolds, ByFile
  <2>6. HandHasSource' /\ SupersedesTheNewest' /\ PointsAtTheNewest'
    BY <2>1
       DEF LedgerInv, HandHasSource, SupersedesTheNewest, PointsAtTheNewest, ByFile,
           Surviving, Newest, Max
  <2> QED
    BY <2>2, <2>3, <2>4, <2>5, <2>6 DEF LedgerInv
<1>2. CASE LedgerNext
  <2>1. PICK w \in Writers :
          \/ RememberText(w) \/ LookUp(w) \/ Forget(w)
          \/ EnsureSource(w) \/ LockTopic(w) \/ CreateTopic(w) \/ Number(w)
          \/ Lock(w) \/ CheckSource(w) \/ MoveTopic(w) \/ MoveSource(w)
          \/ CommitWrite(w) \/ CommitRename(w) \/ CommitDelete(w)
          \/ Abort(w)
    BY <1>2 DEF LedgerNext
  <2>2. CASE RememberText(w) \/ LookUp(w) \/ Forget(w)
    BY <2>2, RememberTextKeepsInv, LookUpKeepsInv, ForgetKeepsInv
  <2>3. CASE EnsureSource(w) \/ LockTopic(w) \/ CreateTopic(w) \/ Number(w)
    BY <2>3, EnsureSourceKeepsInv, LockTopicKeepsInv, CreateTopicKeepsInv, NumberKeepsInv
  <2>4. CASE Lock(w) \/ CheckSource(w) \/ MoveTopic(w) \/ MoveSource(w)
    BY <2>4, LockKeepsInv, CheckSourceKeepsInv, MoveTopicKeepsInv, MoveSourceKeepsInv
  <2>5. CASE CommitWrite(w) \/ CommitRename(w) \/ CommitDelete(w) \/ Abort(w)
    BY <2>5, CommitWriteKeepsInv, CommitRenameKeepsInv, CommitDeleteKeepsInv, AbortKeepsInv
  <2> QED
    BY <2>1, <2>2, <2>3, <2>4, <2>5
<1> QED
  BY <1>1, <1>2

\* What a transaction has found out under its locks is true when it commits, and
\* the tables agree with each other, whatever the others do in between.
THEOREM LedgerIsConsistent == LedgerSpec => []LedgerInv
<1> QED
  BY LedgerInvInit, LedgerInvNext, PTL DEF LedgerSpec

\* No append is lost to a unique key: the numbers insert_evidence hands out are
\* the next ones when its transaction commits (append_evidence, append_promoted).
THEOREM NumbersStayFree == LedgerSpec => []NumbersAreFree
<1>1. LedgerInv => NumbersAreFree
  BY DEF LedgerInv, WriteHolds, NumbersAreFree, Doing, Does
<1> QED
  BY <1>1, LedgerIsConsistent, PTL

\* retire_section retires what the ingest saw, and nothing of a topic that
\* somebody has written to by hand.
THEOREM HandsAreRespected == LedgerSpec => []HandWrittenStays
<1>1. ASSUME LedgerInv, NEW w \in Writers, Doing(w, "commit"), Does(w, "retire")
      PROVE  /\ topic[txn[w].topic].current = txn[w].seen[2]
             /\ \A v \in Surviving(txn[w].topic) : topic[txn[w].topic].states[v].by = "file"
  BY <1>1 DEF LedgerInv, SectionHolds, ByFile, Surviving, Doing, Does
<1>2. LedgerInv => HandWrittenStays
  BY <1>1 DEF HandWrittenStays
<1> QED
  BY <1>2, LedgerIsConsistent, PTL

\* The pointer is the newest version that survives, and each step back through
\* resolve reaches what the state superseded, for histories of any length with
\* any of their versions deleted.
LEMMA StepsBack ==
  ASSUME LedgerInv, NEW i \in Live, NEW offset \in 0 .. Cardinality(Surviving(i)) - 2
  PROVE  Resolve(i, offset + 1)
           = Newest(Surviving(i) \cap 1 .. topic[i].states[Resolve(i, offset)].after)
<1> DEFINE S == Surviving(i)
           n == Len(topic[i].states)
           v == Resolve(i, offset)
           u == Resolve(i, offset + 1)
           after == topic[i].states[v].after
<1>1. n \in Nat /\ S \in SUBSET (1 .. n) /\ DOMAIN topic[i].states = 1 .. n /\ topic[i] \in Topic
  BY SurvivingAreVersions DEF LedgerInv
<1>2. Cardinality(S) \in Nat
  <2> HIDE DEF S, n
  <2> QED
    BY <1>1, VersionsAreFinite
<1>3. offset \in Nat /\ offset < Cardinality(S) /\ offset + 1 \in Nat /\ offset + 1 < Cardinality(S)
  BY <1>2
<1>4. v \in S /\ Cardinality(Newer(S, v)) = offset
  <2>1. v = CHOOSE x \in S : Cardinality(Newer(S, x)) = offset
    BY <1>3 DEF Resolve, Newer
  <2>2. \E x \in S : Cardinality(Newer(S, x)) = offset
    BY <1>1, <1>3, SomeVersionIsThatFarBack
  <2> HIDE DEF S, v
  <2> QED
    BY <2>1, <2>2
<1>5. u \in S /\ Cardinality(Newer(S, u)) = offset + 1
  <2>1. u = CHOOSE x \in S : Cardinality(Newer(S, x)) = offset + 1
    BY <1>3 DEF Resolve, Newer
  <2>2. \E x \in S : Cardinality(Newer(S, x)) = offset + 1
    BY <1>1, <1>3, SomeVersionIsThatFarBack
  <2> HIDE DEF S, u
  <2> QED
    BY <2>1, <2>2
<1> HIDE DEF u, v
<1>6. u < v /\ \A x \in S : x < v => x <= u
  <2> HIDE DEF S, n
  <2> QED
    BY <1>1, <1>4, <1>5, OneFurtherBack
<1>7. /\ after < v
      /\ \A x \in 1 .. n : after < x /\ x < v => x \notin S
  <2>1. v \in 1 .. n
    BY <1>1, <1>4
  <2>2. /\ after < v
        /\ \A x \in 1 .. n : after < x /\ x < v => topic[i].states[x].deleted
    BY <1>1, <2>1 DEF LedgerInv, SupersedesTheNewest
  <2> QED
    BY <2>2 DEF Surviving
<1>8. after \in Nat
  <2>1. topic[i].states[v] \in State
    BY <1>1, <1>4, ElementOfSeq DEF Topic
  <2> QED
    BY <2>1 DEF State
<1> DEFINE T == S \cap 1 .. after
<1> HIDE DEF S, n, after
<1>9. u \in Nat /\ v \in Nat /\ u \in 1 .. n
  BY <1>1, <1>4, <1>5
<1>10. u \in T
  <2>1. u <= after
    BY <1>5, <1>6, <1>7, <1>8, <1>9
  <2> QED
    BY <1>5, <1>8, <1>9, <2>1
<1>11. \A x \in T : x <= u
  BY <1>1, <1>6, <1>7, <1>8, <1>9
<1>12. T \in SUBSET (1 .. n)
  BY <1>1
<1>13. Newest(T) = u
  <2> HIDE DEF T
  <2> QED
    BY <1>1, <1>10, <1>11, <1>12, NewestIs
<1> QED
  BY <1>13 DEF S, u, v, after

THEOREM HistoryIsKept == LedgerSpec => []History
<1>1. LedgerInv => History
  BY StepsBack DEF LedgerInv, PointsAtTheNewest, History
<1> QED
  BY <1>1, LedgerIsConsistent, PTL

LEMMA NamesKeptReach ==
  ASSUME alias' = alias,
         \A i \in Live : i \in Live' /\ topic'[i].name = topic[i].name
  PROVE  NamesReachOn
<1> SUFFICES ASSUME NEW n \in Names, Called(n)' = {} PROVE FindTopic(n) \subseteq FindTopic(n)'
  BY DEF NamesReachOn
<1>1. Called(n) = {}
  BY DEF Called
<1> QED
  BY <1>1 DEF FindTopic

LEMMA RenamedNamesReach ==
  ASSUME LedgerInv, NEW w \in Writers, CommitRename(w)
  PROVE  NamesReachOn
<1> DEFINE t == txn[w]
<1>1. /\ topic \in [TopicId -> Topic \cup {NoRow}] /\ alias \in [Names -> TopicId \cup {NoRow}]
      /\ t.topic \in TopicId /\ topic[t.topic] # NoRow /\ topic[t.topic] \in Topic
      /\ t.name \in Names /\ t.to \in Names /\ topic[t.topic].name = t.name
  BY WhatIsKnown
     DEF LedgerInv, LedgerTypeOK, CommitRename, Doing, Does, Holds, SectionHolds, Transaction
<1>2. /\ topic' = [topic EXCEPT ![t.topic].name = t.to]
      /\ alias' = [alias EXCEPT ![t.to] = NoRow, ![t.name] = t.topic]
  BY DEF CommitRename
<1> HIDE DEF t
<1>3. /\ \A j \in TopicId \ {t.topic} : topic'[j] = topic[j]
      /\ topic'[t.topic].name = t.to /\ topic'[t.topic] # NoRow
  <2>1. topic'[t.topic] = [topic[t.topic] EXCEPT !.name = t.to]
    BY <1>1, <1>2
  <2>2. topic'[t.topic] \in Topic /\ topic'[t.topic].name = t.to
    BY <1>1, <2>1 DEF Topic
  <2> QED
    BY <1>1, <1>2, <2>2, NoRowIsNothing
<1> SUFFICES ASSUME NEW n \in Names, Called(n)' = {} PROVE FindTopic(n) \subseteq FindTopic(n)'
  BY DEF NamesReachOn
<1>4. FindTopic(n)' = {alias'[n]} \ {NoRow}
  BY DEF FindTopic
<1>5. n # t.to
  BY <1>1, <1>3 DEF Called, Live
<1>6. Called(n) \subseteq {t.topic}
  BY <1>3 DEF Called, Live
<1>7. CASE n = t.name
  <2>1. alias'[n] = t.topic
    BY <1>1, <1>2, <1>7
  <2>2. t.topic \in Called(n) /\ t.topic # NoRow
    BY <1>1, <1>7, LedgerAssumption DEF LedgerAssumption, Called, Live
  <2> QED
    BY <1>4, <1>6, <2>1, <2>2 DEF FindTopic
<1>8. CASE n # t.name
  <2>1. alias'[n] = alias[n]
    BY <1>1, <1>2, <1>5, <1>8
  <2>2. Called(n) = {}
    BY <1>1, <1>6, <1>8 DEF Called
  <2> QED
    BY <1>4, <2>1, <2>2 DEF FindTopic
<1> QED
  BY <1>7, <1>8

\* A name that reached a topic reaches it for ever, unless another topic goes by
\* it now: rename_topic leaves an alias behind, and no other step takes one away.
THEOREM NamesReachForEver == LedgerSpec => NamesStillReach
<1>1. ASSUME LedgerInv, LedgerNext PROVE NamesReachOn
  <2>1. PICK w \in Writers :
          \/ RememberText(w) \/ LookUp(w) \/ Forget(w)
          \/ EnsureSource(w) \/ LockTopic(w) \/ CreateTopic(w) \/ Number(w)
          \/ Lock(w) \/ CheckSource(w) \/ MoveTopic(w) \/ MoveSource(w)
          \/ CommitWrite(w) \/ CommitRename(w) \/ CommitDelete(w)
          \/ Abort(w)
    BY <1>1 DEF LedgerNext
  <2>2. CASE CommitRename(w)
    BY <1>1, <2>2, RenamedNamesReach
  <2>3. CASE CommitWrite(w)
    <3>1. ASSUME NEW i \in Live PROVE i \in Live' /\ topic'[i].name = topic[i].name
      <4>1. CASE i = txn[w].topic
        <5>1. /\ topic'[i] \in Topic /\ topic'[i].name = txn[w].name
              /\ ~txn[w].made => topic[i].name = txn[w].name
          BY <1>1, <2>3, <4>1, PromotedWriteAppends, NoRowIsNothing DEF Live
        <5>2. ~txn[w].made
          BY <1>1, <2>3, <4>1, WhatIsKnown, NoRowIsNothing
             DEF Live, CommitWrite, Doing, Does, Holds, WriteHolds
        <5> QED
          BY <5>1, <5>2, NoRowIsNothing DEF Live
      <4>2. CASE i # txn[w].topic
        BY <1>1, <2>3, <4>2, OtherTopicsStay, NoRowIsNothing DEF Live
      <4> QED
        BY <4>1, <4>2
    <3> QED
      BY <2>3, <3>1, NamesKeptReach DEF CommitWrite
  <2>4. CASE CommitDelete(w)
    <3>1. ASSUME NEW i \in Live PROVE i \in Live' /\ topic'[i].name = topic[i].name
      <4>1. topic'[i] \in Topic /\ topic'[i].name = topic[i].name
        BY <1>1, <2>4, DeletionMarks, SurvivingAreVersions DEF LedgerInv, Live
      <4> QED
        BY <4>1, NoRowIsNothing DEF Live
    <3> QED
      BY <2>4, <3>1, NamesKeptReach DEF CommitDelete
  <2>5. CASE topic' = topic /\ alias' = alias
    BY <2>5, NamesKeptReach DEF Live
  <2>6. \/ CommitRename(w) \/ CommitWrite(w) \/ CommitDelete(w)
        \/ topic' = topic /\ alias' = alias
    BY <2>1
       DEF RememberText, LookUp, Forget, EnsureSource, LockTopic, CreateTopic, Number, Lock,
           CheckSource, MoveTopic, MoveSource, Abort, End, Stays
  <2> QED
    BY <2>2, <2>3, <2>4, <2>5, <2>6
<1>2. LedgerInv /\ [LedgerNext]_tableVars => [NamesReachOn]_tableVars
  BY <1>1
<1> QED
  BY <1>2, LedgerIsConsistent, PTL DEF LedgerSpec, NamesStillReach

=============================================================================
