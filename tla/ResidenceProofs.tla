--------------------------- MODULE ResidenceProofs ---------------------------
(***************************************************************************)
(* However many projects, callers and places there are, ResidenceInv is    *)
(* inductive.                                                              *)
(***************************************************************************)
EXTENDS Residence, FiniteSetTheorems, SequenceTheorems, WellFoundedInduction, TLAPS

-----------------------------------------------------------------------------
(* Least numbers, and what is kept of a sequence.                          *)

LEMMA SomeIsLeast ==
  ASSUME NEW S \in SUBSET Nat, S # {}
  PROVE  \E m \in S : \A x \in S : m <= x
<1> DEFINE below == {0 .. x : x \in S}
<1>1. below \subseteq FiniteSubsetsOf(Nat) /\ below # {}
  <2>1. \A x \in S : IsFiniteSet(0 .. x) /\ 0 .. x \in SUBSET Nat
    BY FS_Interval
  <2> QED BY <2>1 DEF FiniteSubsetsOf
<1>2. IsWellFoundedOn(StrictSubsetOrdering(Nat), FiniteSubsetsOf(Nat))
  BY FS_StrictSubsetOrderingWellFounded
<1>3. \E T \in below : \A U \in below : ~ (<<U, T>> \in StrictSubsetOrdering(Nat))
  <2> HIDE DEF below
  <2> QED BY <1>1, <1>2, WFMin
<1>4. PICK m \in S : \A x \in S : ~ (<<0 .. x, 0 .. m>> \in StrictSubsetOrdering(Nat))
  BY <1>3
<1>5. ASSUME NEW x \in S, x < m PROVE FALSE
  <2>1. 0 .. x \subseteq 0 .. m /\ m \in 0 .. m /\ m \notin 0 .. x
    BY <1>5
  <2>2. 0 .. x \in SUBSET Nat /\ 0 .. m \in SUBSET Nat /\ 0 .. x # 0 .. m
    BY <2>1
  <2>3. <<0 .. x, 0 .. m>> \in StrictSubsetOrdering(Nat)
    BY <2>1, <2>2, Zenon DEF StrictSubsetOrdering
  <2> QED BY <1>4, <2>3
<1> QED BY <1>4, <1>5

LEMMA MinIsOne ==
  ASSUME NEW S \in SUBSET Nat, S # {}
  PROVE  Min(S) \in S
BY SomeIsLeast DEF Min

LEMMA Appended ==
  ASSUME NEW S, NEW order \in Seq(S), NEW p \in S
  PROVE  /\ Append(order, p) \in Seq(S)
         /\ ToSet(Append(order, p)) = ToSet(order) \cup {p}
<1>1. /\ Append(order, p) \in Seq(S) /\ Len(Append(order, p)) = Len(order) + 1
      /\ \A i \in 1 .. Len(order) : Append(order, p)[i] = order[i]
      /\ Append(order, p)[Len(order) + 1] = p
      /\ Len(order) \in Nat
      /\ DOMAIN order = 1 .. Len(order)
      /\ DOMAIN Append(order, p) = 1 .. Len(order) + 1
  BY AppendProperties, LenProperties
<1> QED BY <1>1 DEF ToSet

LEMMA OnlyThose ==
  ASSUME NEW S, NEW order \in Seq(S), NEW some
  PROVE  /\ Only(order, some) \in Seq(S)
         /\ ToSet(Only(order, some)) = ToSet(order) \cap some
<1> DEFINE n == Len(order)
           Next(f, i) == IF order[i] \in some THEN Append(f[i - 1], order[i]) ELSE f[i - 1]
           IsKept(f, m) == f = [i \in 0 .. m |-> IF i = 0 THEN <<>> ELSE Next(f, i)]
<1>1. n \in Nat /\ DOMAIN order = 1 .. n /\ \A i \in 1 .. n : order[i] \in S
  BY LenProperties, ElementOfSeq
<1>2. \A m \in 0 .. n : \E f : IsKept(f, m)
  <2> DEFINE bad == {m \in 0 .. n : ~\E f : IsKept(f, m)}
  <2> SUFFICES ASSUME bad # {} PROVE FALSE
    OBVIOUS
  <2>1. PICK m \in bad : \A x \in bad : m <= x
    <3>1. bad \in SUBSET Nat
      BY <1>1
    <3> HIDE DEF bad
    <3> QED BY <3>1, SomeIsLeast
  <2>2. CASE m = 0
    <3>1. IsKept([i \in 0 .. 0 |-> <<>>], 0)
      OBVIOUS
    <3> QED BY <2>1, <2>2, <3>1
  <2>3. CASE m # 0
    <3>0. m \in 1 .. n /\ m - 1 \in 0 .. n
      BY <1>1, <2>1, <2>3
    <3>1. m \in 1 .. n /\ m - 1 \in 0 .. n /\ m - 1 \notin bad
      <4> HIDE DEF bad
      <4> QED BY <1>1, <2>1, <3>0
    <3>2. PICK g : IsKept(g, m - 1)
      BY <3>1
    <3> DEFINE f == [i \in 0 .. m |-> IF i < m THEN g[i] ELSE Next(g, m)]
    <3>3. \A i \in 0 .. m : f[i] = IF i = 0 THEN <<>> ELSE Next(f, i)
      <4> TAKE i \in 0 .. m
      <4>1. CASE i = 0
        BY <1>1, <3>1, <3>2, <4>1
      <4>2. CASE i # 0 /\ i < m
        <5>1. i \in 0 .. (m - 1) /\ i - 1 \in 0 .. m /\ i - 1 < m
          BY <1>1, <3>1, <4>2
        <5>2. f[i - 1] = g[i - 1] /\ f[i] = g[i]
          BY <4>2, <5>1
        <5>3. g[i] = Next(g, i)
          BY <3>2, <4>2, <5>1
        <5> QED BY <4>2, <5>2, <5>3
      <4>3. CASE i = m
        <5>1. m - 1 \in 0 .. m /\ m - 1 < m /\ ~(m < m)
          BY <1>1, <3>1
        <5>2. f[m - 1] = g[m - 1] /\ f[m] = Next(g, m)
          BY <2>3, <5>1, <3>1
        <5> QED BY <2>3, <4>3, <5>2
      <4> QED BY <1>1, <3>1, <4>1, <4>2, <4>3
    <3>4. IsKept(f, m)
      <4> HIDE DEF Next
      <4>1. f = [i \in 0 .. m |-> f[i]]
        OBVIOUS
      <4> HIDE DEF f
      <4> QED BY <3>3, <4>1
    <3> QED BY <2>1, <3>4
  <2> QED BY <2>2, <2>3
<1> DEFINE kept == CHOOSE f : IsKept(f, n)
<1>3. IsKept(kept, n)
  <2> HIDE DEF IsKept
  <2>1. \E f : IsKept(f, n)
    BY <1>1, <1>2
  <2> QED BY <2>1
<1>4. Only(order, some) = kept[n]
  BY DEF Only
<1> HIDE DEF kept
<1>7. \A i \in 0 .. n : kept[i] = IF i = 0 THEN <<>> ELSE Next(kept, i)
  <2> HIDE DEF Next
  <2> QED BY <1>3
<1> DEFINE Right(m) == /\ kept[m] \in Seq(S)
                       /\ ToSet(kept[m]) = {order[j] : j \in 1 .. m} \cap some
<1>5. \A m \in 0 .. n : Right(m)
  <2> DEFINE bad == {m \in 0 .. n : ~Right(m)}
  <2> SUFFICES ASSUME bad # {} PROVE FALSE
    OBVIOUS
  <2>1. PICK m \in bad : \A x \in bad : m <= x
    <3>1. bad \in SUBSET Nat
      BY <1>1
    <3> HIDE DEF bad
    <3> QED BY <3>1, SomeIsLeast
  <2>2. CASE m = 0
    <3>1. kept[0] = <<>>
      BY <1>1, <1>7
    <3>2. <<>> \in Seq(S) /\ ToSet(<<>>) = {} /\ {order[j] : j \in 1 .. 0} = {}
      BY EmptySeq DEF ToSet
    <3> QED BY <2>1, <2>2, <3>1, <3>2
  <2>3. CASE m # 0
    <3>0. m \in 1 .. n /\ m - 1 \in 0 .. n
      BY <1>1, <2>1, <2>3
    <3>1. m \in 1 .. n /\ m - 1 \in 0 .. n /\ m - 1 \notin bad
      <4> HIDE DEF bad
      <4> QED BY <1>1, <2>1, <3>0
    <3>2. Right(m - 1)
      BY <3>1
    <3>3. kept[m] = IF order[m] \in some THEN Append(kept[m - 1], order[m]) ELSE kept[m - 1]
      <4>1. m \in 0 .. n /\ m # 0
        BY <1>1, <3>1
      <4> QED BY <1>7, <4>1
    <3>4. order[m] \in S
      BY <1>1, <3>1
    <3>5. {order[j] : j \in 1 .. m} = {order[j] : j \in 1 .. m - 1} \cup {order[m]}
      BY <1>1, <3>1
    <3>6. Right(m)
      <4>1. CASE order[m] \in some
        <5>1. kept[m] = Append(kept[m - 1], order[m])
          BY <3>3, <4>1
        <5>2. kept[m] \in Seq(S) /\ ToSet(kept[m]) = ToSet(kept[m - 1]) \cup {order[m]}
          BY <3>2, <3>4, <5>1, Appended
        <5> QED BY <3>2, <3>5, <4>1, <5>2
      <4>2. CASE order[m] \notin some
        BY <3>2, <3>3, <3>5, <4>2
      <4> QED BY <4>1, <4>2
    <3> QED BY <2>1, <3>6
  <2> QED BY <2>2, <2>3
<1>6. {order[j] : j \in 1 .. n} = ToSet(order)
  BY <1>1 DEF ToSet
<1>8. Right(n)
  <2>1. n \in 0 .. n
    BY <1>1
  <2> HIDE DEF Right
  <2> QED BY <1>5, <2>1
<1> QED BY <1>4, <1>6, <1>8

-----------------------------------------------------------------------------
(* Types.                                                                     *)

ActorRecord ==
  [step : Steps, kind : {"use", "name", "purge"}, project : Projects \cup {0},
   slot : Slots \cup {NoSlot}, engine : Engine \cup {NoEngine}, row : Nat]
SlotRecord == [lock : Actors \cup {Nobody}, engine : Engine \cup {NoEngine}]
RowRecord == [there : BOOLEAN, id : Nat, owed : Int]

LEMMA Names ==
  /\ Callers \subseteq Actors /\ Projects \subseteq Actors /\ Loop \in Actors /\ Nobody \notin Actors
  /\ Loop \notin Callers /\ Loop \notin Projects
  /\ Cardinality(Projects) \in Nat
  /\ 0 \notin Projects /\ Projects \subseteq Nat /\ NoSlot \notin Slots /\ Slots \subseteq Nat
  /\ NoEngine \notin Engine /\ NoEngine.project = 0
  /\ Out \in ActorRecord /\ Out.slot = NoSlot /\ Out.engine = NoEngine /\ Out.step = "out"
  /\ Out.kind = "use" /\ Out.project = 0
  /\ EmptySlot \in SlotRecord /\ EmptySlot.lock = Nobody /\ EmptySlot.engine = NoEngine
<1>1. Cardinality(Projects) \in Nat /\ Projects = 1 .. Cardinality(Projects)
  BY ResidenceAssumption, FS_CardinalityType
<1>2. 0 \notin Projects /\ Projects \subseteq Nat
  BY <1>1
<1>3. NoSlot \notin Slots /\ Slots \subseteq Nat
  BY <1>1 DEF Slots, NoSlot
<1>4. NoEngine \notin Engine /\ NoEngine.project = 0
  BY <1>2 DEF NoEngine, Engine
<1>5. /\ Callers \subseteq Actors /\ Projects \subseteq Actors /\ Loop \in Actors
      /\ Nobody \notin Actors /\ Loop \notin Callers /\ Loop \notin Projects
  BY ResidenceAssumption DEF Actors
<1>6. EmptySlot \in SlotRecord /\ EmptySlot.lock = Nobody /\ EmptySlot.engine = NoEngine
  BY DEF EmptySlot, SlotRecord
<1>7. /\ Out \in ActorRecord /\ Out.slot = NoSlot /\ Out.engine = NoEngine /\ Out.step = "out"
      /\ Out.kind = "use" /\ Out.project = 0
  BY DEF Out, ActorRecord, Steps, NoSlot, NoId
<1> QED BY <1>1, <1>2, <1>3, <1>4, <1>5, <1>6, <1>7

LEMMA Typed ==
  ResidenceTypeOK <=>
    /\ uses \in Seq(Projects) /\ slotOf \in [Projects -> Slots \cup {NoSlot}]
    /\ slots \in [Slots -> SlotRecord] /\ actor \in [Actors -> ActorRecord]
    /\ rows \in [Projects -> RowRecord]
    /\ cache \in [Projects -> Nat] /\ naming \in Callers \cup {Nobody}
    /\ tick.step # "pass" => tick.todo \in Seq(Projects \X Nat)
BY DEF ResidenceTypeOK, ActorRecord, SlotRecord, RowRecord

\* What the invariants of the places and locks say of a lock and of an engine.
LEMMA HoldersAre ==
  ASSUME ResidenceTypeOK, PlacesAreKept, LocksAreHeld, NEW a \in Actors, Working(a)
  PROVE  /\ actor[a].project \in Projects /\ actor[a].slot \in Slots
         /\ slotOf[actor[a].project] = actor[a].slot
         /\ slots[actor[a].slot].lock = a /\ slots[actor[a].slot].engine = NoEngine
         /\ EngineOf(actor[a].project) = actor[a].engine
<1>1. actor[a].step # "out" /\ Waits(a) /\ a # Nobody
  BY Names DEF Working, Waits
<1>2. actor[a].slot \in Slots /\ actor[a].project \in Projects
      /\ slotOf[actor[a].project] = actor[a].slot
  BY <1>1, Typed DEF PlacesAreKept, ActorRecord
<1>3. slots[actor[a].slot].lock = a
  BY DEF LocksAreHeld
<1>4. slots[actor[a].slot].engine = NoEngine
  BY <1>1, <1>2, <1>3 DEF LocksAreHeld
<1> QED BY <1>1, <1>2, <1>3, <1>4 DEF EngineOf

LEMMA EnginesAre ==
  ASSUME ResidenceTypeOK, PlacesAreKept, LocksAreHeld, EnginesAreHeld,
         NEW e \in Engines \ {NoEngine}
  PROVE  /\ e \in Engine /\ e.project \in Projects /\ slotOf[e.project] \in Slots
         /\ EngineOf(e.project) = e
<1>1. CASE \E a \in Actors : e = actor[a].engine
  <2>1. PICK a \in Actors : e = actor[a].engine
    BY <1>1
  <2>2. e \in Engine
    BY <2>1, Typed DEF ActorRecord
  <2>3. e.project \in Projects
    BY <2>2 DEF Engine
  <2>4. slotOf[e.project] # NoSlot /\ EngineOf(e.project) = e
    BY <2>1 DEF EnginesAreHeld
  <2> QED BY <2>2, <2>3, <2>4, Typed
<1>2. CASE \E s \in Slots : e = slots[s].engine
  <2>1. PICK s \in Slots : e = slots[s].engine
    BY <1>2
  <2>2. e \in Engine
    BY <2>1, Typed DEF SlotRecord
  <2>3. e.project \in Projects
    BY <2>2 DEF Engine
  <2>4. slotOf[e.project] = s
    BY <2>1 DEF EnginesAreHeld
  <2>5. slots[s].lock = Nobody
    BY <2>1 DEF LocksAreHeld
  <2> QED BY <2>1, <2>2, <2>3, <2>4, <2>5 DEF EngineOf
<1> QED BY <1>1, <1>2 DEF Engines

LEMMA SamePlace ==
  ASSUME PlacesAreKept, NEW p \in Projects, NEW q \in Projects, slotOf[p] = slotOf[q],
         slotOf[p] \in Slots
  PROVE  p = q
BY Names DEF PlacesAreKept

\* The invariant of the engines afterwards, engine by engine.
LEMMA HeldByEach ==
  ASSUME ResidenceTypeOK',
         \A s \in Slots : slots'[s].engine # NoEngine => slotOf'[slots'[s].engine.project] = s,
         \A a \in Actors, e \in Engine :
           actor'[a].engine = e =>
             /\ actor'[a].step \in {"using", "waiting"} /\ e.project = actor'[a].project
             /\ slotOf'[e.project] # NoSlot /\ EngineOf(e.project)' = e
  PROVE  EnginesAreHeld'
<1>1. \A a \in Actors : actor'[a].engine # NoEngine => actor'[a].engine \in Engine
  BY DEF ResidenceTypeOK
<1> QED BY <1>1 DEF EnginesAreHeld, EngineOf

LEMMA OneByPlaces ==
  ResidenceTypeOK /\ PlacesAreKept /\ LocksAreHeld /\ EnginesAreHeld
    => \A e, f \in Engines \ {NoEngine} : e.project = f.project => e = f
BY EnginesAre

LEMMA OneByPlacesNext ==
  ASSUME ResidenceTypeOK', PlacesAreKept', LocksAreHeld', EnginesAreHeld'
  PROVE  \A e, f \in Engines' \ {NoEngine} : e.project = f.project => e = f
<1>1. (ResidenceTypeOK /\ PlacesAreKept /\ LocksAreHeld /\ EnginesAreHeld
        => \A e, f \in Engines \ {NoEngine} : e.project = f.project => e = f)'
  BY OneByPlaces, PTL
<1> QED BY <1>1

-----------------------------------------------------------------------------
(* Steps and the places, by what they do to a slot.                           *)

\* Neither before nor after does whoever moves wait for a slot.
LEMMA LooseKeeps ==
  ASSUME ResidenceTypeOK, ResidenceTypeOK', PlacesAreKept, LocksAreHeld, EnginesAreHeld,
         UNCHANGED <<slotOf, slots>>, ToSet(uses') = ToSet(uses),
         \A a \in Actors :
           \/ actor'[a] = actor[a]
           \/ /\ ~Waits(a) /\ ~Waits(a)' /\ actor'[a].slot = NoSlot
              /\ actor'[a].step # "out" => actor'[a].project \in Projects
              /\ actor'[a].kind # "use" \/ actor'[a].step \in {"name", "named"} => a \in Callers
              /\ actor'[a].engine # NoEngine =>
                   /\ actor'[a].step = "using" /\ slotOf[actor'[a].project] # NoSlot
                   /\ actor'[a].engine = slots[slotOf[actor'[a].project]].engine
  PROVE  /\ PlacesAreKept' /\ LocksAreHeld' /\ EnginesAreHeld'
         /\ Engines' \subseteq Engines \cup {NoEngine}
<1>1. PlacesAreKept'
  BY DEF PlacesAreKept, IsOpenFor, Waits, Working
<1>2. \A a \in Actors : Working(a)' <=> Working(a)
  BY DEF Working, Waits
<1>3. \A a \in Actors : Working(a) => actor'[a] = actor[a]
  BY DEF Waits
<1>4. LocksAreHeld'
  <2>1. \A s \in Slots : slots[s].lock # Nobody => slots[s].lock \in Actors
    BY Typed DEF SlotRecord
  <2> QED BY <1>2, <1>3, <2>1 DEF LocksAreHeld
<1>5. \A p \in Projects : slotOf[p] # NoSlot => EngineOf(p)' = EngineOf(p)
  <2> SUFFICES ASSUME NEW p \in Projects, slotOf[p] # NoSlot
               PROVE  EngineOf(p)' = EngineOf(p)
    OBVIOUS
  <2>1. slotOf[p] \in Slots
    BY Typed
  <2>2. slots[slotOf[p]].lock # Nobody =>
          slots[slotOf[p]].lock \in Actors /\ Working(slots[slotOf[p]].lock)
    BY <2>1, Typed DEF SlotRecord, LocksAreHeld
  <2> QED BY <1>3, <2>2 DEF EngineOf
<1>6. ASSUME NEW a \in Actors, NEW e \in Engine, actor'[a] # actor[a], actor'[a].engine = e
      PROVE  /\ e.project = actor'[a].project /\ e.project \in Projects
             /\ slotOf[e.project] # NoSlot /\ EngineOf(e.project) = e
  <2> DEFINE p == actor'[a].project
  <2>0. e # NoEngine /\ e.project \in Projects
    BY Names DEF Engine
  <2>1. p \in Projects /\ slotOf[p] \in Slots /\ e = slots[slotOf[p]].engine
    BY <1>6, <2>0, Typed
  <2>2. slotOf[e.project] = slotOf[p]
    BY <2>0, <2>1 DEF EnginesAreHeld
  <2>3. e.project = p
    BY <2>0, <2>1, <2>2, Names DEF PlacesAreKept
  <2>4. slots[slotOf[p]].lock = Nobody
    BY <2>0, <2>1 DEF LocksAreHeld
  <2> QED BY <2>0, <2>1, <2>3, <2>4, Names DEF EngineOf
<1>7. EnginesAreHeld'
  <2>1. ASSUME NEW a \in Actors, NEW e \in Engine, actor'[a].engine = e
        PROVE  /\ actor'[a].step \in {"using", "waiting"} /\ e.project = actor'[a].project
               /\ slotOf[e.project] # NoSlot /\ EngineOf(e.project)' = e
    <3>1. e # NoEngine
      BY Names
    <3>2. CASE actor'[a] # actor[a]
      BY <1>5, <1>6, <2>1, <3>1, <3>2
    <3>3. CASE actor'[a] = actor[a]
      <4>1. e \in Engines \ {NoEngine}
        BY <2>1, <3>1, <3>3 DEF Engines
      <4>2. e.project \in Projects /\ slotOf[e.project] \in Slots /\ EngineOf(e.project) = e
        BY <4>1, EnginesAre
      <4>3. actor[a].step \in {"using", "waiting"} /\ e.project = actor[a].project
        BY <2>1, <3>1, <3>3 DEF EnginesAreHeld
      <4>4. EngineOf(e.project)' = EngineOf(e.project)
        BY <1>5, <4>2, Names
      <4> QED BY <3>3, <4>2, <4>3, <4>4, Names
    <3> QED BY <3>2, <3>3
  <2>2. \A s \in Slots : slots'[s].engine # NoEngine => slotOf'[slots'[s].engine.project] = s
    BY DEF EnginesAreHeld
  <2> QED BY <2>1, <2>2, HeldByEach
<1>8. Engines' \subseteq Engines \cup {NoEngine}
  <2> SUFFICES ASSUME NEW a \in Actors, actor'[a] # actor[a], actor'[a].engine # NoEngine
               PROVE  actor'[a].engine \in Engines
    BY DEF Engines
  <2>1. slotOf[actor'[a].project] \in Slots
    BY Typed
  <2> QED BY <2>1 DEF Engines
<1> QED BY <1>1, <1>4, <1>7, <1>8

\* Whoever works on a slot goes on: the engine it took out is still in its hands, or
\* nobody else is inside.
LEMMA HolderKeeps ==
  ASSUME ResidenceTypeOK, ResidenceTypeOK', PlacesAreKept, LocksAreHeld, EnginesAreHeld,
         UNCHANGED <<uses, slotOf, slots>>,
         NEW a \in Actors, Working(a), Working(a)',
         \A b \in Actors \ {a} : actor'[b] = actor[b],
         actor'[a].slot = actor[a].slot, actor'[a].project = actor[a].project,
         actor'[a].kind = "purge", a \in Callers,
         \/ actor'[a].engine = actor[a].engine /\ actor'[a].step = actor[a].step
         \/ /\ actor'[a].engine = NoEngine
            /\ \A b \in Actors \ {a} :
                 actor[b].engine # NoEngine => actor[b].engine # actor[a].engine
  PROVE  /\ PlacesAreKept' /\ LocksAreHeld' /\ EnginesAreHeld'
         /\ Engines' \subseteq Engines \cup {NoEngine}
<1>1. PICK p \in Projects :
        /\ p = actor[a].project /\ actor[a].slot \in Slots /\ slotOf[p] = actor[a].slot
        /\ slots[actor[a].slot].lock = a /\ EngineOf(p) = actor[a].engine
  BY HoldersAre
<1>2. /\ Waits(a) /\ Waits(a)'
      /\ \A b \in Actors \ {a} : (Waits(b)' <=> Waits(b)) /\ (Working(b)' <=> Working(b))
  BY DEF Waits, Working
<1>3. actor[a].step # "out" /\ actor'[a].step \notin {"out", "name", "named"}
  BY DEF Working
<1>4. PlacesAreKept'
  <2>1. \A q \in Projects : (slotOf'[q] # NoSlot) <=> IsOpenFor(q)'
    BY DEF PlacesAreKept, IsOpenFor
  <2> QED BY <1>1, <1>2, <1>3, <2>1 DEF PlacesAreKept
<1>5. LocksAreHeld'
  <2>1. \A s \in Slots : slots[s].lock # Nobody => slots[s].lock \in Actors
    BY Typed DEF SlotRecord
  <2> QED BY <1>1, <1>2, <2>1 DEF LocksAreHeld
<1>6. EngineOf(p)' = actor'[a].engine
  BY <1>1, Names DEF EngineOf
<1>7. \A q \in Projects \ {p} : slotOf[q] # NoSlot => EngineOf(q)' = EngineOf(q)
  <2> SUFFICES ASSUME NEW q \in Projects \ {p}, slotOf[q] # NoSlot
               PROVE  EngineOf(q)' = EngineOf(q)
    OBVIOUS
  <2>1. slotOf[q] \in Slots /\ slotOf[q] # slotOf[p]
    BY <1>1, Typed DEF PlacesAreKept
  <2>2. PICK b \in Actors \cup {Nobody} : b = slots[slotOf[q]].lock
    BY <2>1, Typed DEF SlotRecord
  <2>3. b # a
    BY <1>1, <2>1, <2>2, Names DEF LocksAreHeld
  <2> QED BY <2>2, <2>3 DEF EngineOf
<1>8. EnginesAreHeld'
  <2>1. ASSUME NEW b \in Actors, NEW e \in Engine, actor'[b].engine = e
        PROVE  /\ actor'[b].step \in {"using", "waiting"} /\ e.project = actor'[b].project
               /\ slotOf[e.project] # NoSlot /\ EngineOf(e.project)' = e
    <3>1. actor[b].engine = e
      BY <2>1, Names
    <3>2. e \in Engines \ {NoEngine}
      BY <3>1, Names DEF Engines
    <3>3. e.project \in Projects /\ slotOf[e.project] \in Slots /\ EngineOf(e.project) = e
      BY <3>2, EnginesAre
    <3>4. actor[b].step \in {"using", "waiting"} /\ e.project = actor[b].project
      BY <3>1, <3>2 DEF EnginesAreHeld
    <3>5. actor'[b].step = actor[b].step /\ actor'[b].project = actor[b].project
      BY <2>1, Names
    <3>6. EngineOf(e.project)' = e
      <4>1. CASE e.project = p
        <5>1. actor[a].engine = e
          BY <1>1, <3>3, <4>1
        <5>2. actor'[a].engine = e
          BY <2>1, <3>1, <5>1, Names
        <5> QED BY <1>6, <4>1, <5>2
      <4>2. CASE e.project # p
        BY <1>7, <3>3, <4>2, Names
      <4> QED BY <4>1, <4>2
    <3> QED BY <3>3, <3>4, <3>5, <3>6, Names
  <2>2. \A s \in Slots : slots'[s].engine # NoEngine => slotOf'[slots'[s].engine.project] = s
    BY DEF EnginesAreHeld
  <2> QED BY <2>1, <2>2, HeldByEach
<1>9. Engines' \subseteq Engines \cup {NoEngine}
  <2>1. \A b \in Actors : actor'[b].engine \in Engines \cup {NoEngine}
    BY DEF Engines
  <2> QED BY <2>1 DEF Engines
<1> QED BY <1>4, <1>5, <1>8, <1>9

\* Whoever works on a slot lets go of it, with the engine it had or one it opened.
LEMMA ReleaseKeeps ==
  ASSUME ResidenceTypeOK, ResidenceTypeOK', PlacesAreKept, LocksAreHeld, EnginesAreHeld,
         UNCHANGED <<uses, slotOf>>,
         NEW a \in Actors, Working(a), NEW e \in Engine \cup {NoEngine},
         slots' = [slots EXCEPT ![actor[a].slot] = [lock |-> Nobody, engine |-> e]],
         e # NoEngine => e.project = actor[a].project,
         actor[a].engine # NoEngine => actor[a].engine = e,
         \A b \in Actors \ {a} : actor'[b] = actor[b],
         actor'[a].slot = NoSlot, ~Waits(a)',
         actor'[a].step # "out" => actor'[a].project \in Projects,
         actor'[a].kind # "use" => a \in Callers,
         actor'[a].step \notin {"name", "named"},
         actor'[a].engine # NoEngine =>
           /\ actor'[a].engine = e /\ actor'[a].step = "using"
           /\ actor'[a].project = actor[a].project
  PROVE  /\ PlacesAreKept' /\ LocksAreHeld' /\ EnginesAreHeld'
         /\ Engines' \subseteq Engines \cup {NoEngine, e}
<1>1. PICK p \in Projects, s \in Slots :
        /\ p = actor[a].project /\ s = actor[a].slot /\ slotOf[p] = s
        /\ slots[s].lock = a /\ EngineOf(p) = actor[a].engine
  BY HoldersAre
<1>2. /\ slots'[s].lock = Nobody /\ slots'[s].engine = e
      /\ \A t \in Slots \ {s} : slots'[t] = slots[t]
  BY <1>1, Typed
<1>3. ~Working(a)' /\ \A b \in Actors \ {a} : (Waits(b)' <=> Waits(b)) /\ (Working(b)' <=> Working(b))
  BY DEF Waits, Working
<1>10. \A t \in Slots \ {s} : slots[t].lock # a
  BY <1>1, Names DEF LocksAreHeld
<1>4. PlacesAreKept'
  <2>1. \A q \in Projects : (slotOf'[q] # NoSlot) <=> IsOpenFor(q)'
    BY DEF PlacesAreKept, IsOpenFor
  <2> QED BY <1>1, <1>3, <2>1 DEF PlacesAreKept
<1>5. LocksAreHeld'
  <2>1. \A t \in Slots : slots[t].lock # Nobody => slots[t].lock \in Actors
    BY Typed DEF SlotRecord
  <2>2. \A b \in Actors \ {a} : Working(b) => actor[b].slot # s /\ actor[b].slot \in Slots
    BY <1>1, HoldersAre
  <2> QED BY <1>1, <1>2, <1>3, <1>10, <2>1, <2>2 DEF LocksAreHeld
<1>6. EngineOf(p)' = e
  BY <1>1, <1>2 DEF EngineOf
<1>7. \A q \in Projects \ {p} : slotOf[q] # NoSlot => EngineOf(q)' = EngineOf(q)
  <2> SUFFICES ASSUME NEW q \in Projects \ {p}, slotOf[q] # NoSlot
               PROVE  EngineOf(q)' = EngineOf(q)
    OBVIOUS
  <2>1. slotOf[q] \in Slots /\ slotOf[q] # s
    BY <1>1, Typed DEF PlacesAreKept
  <2>2. PICK b \in Actors \cup {Nobody} : b = slots[slotOf[q]].lock
    BY <2>1, Typed DEF SlotRecord
  <2>3. b # a
    BY <1>10, <2>1, <2>2
  <2> QED BY <1>2, <2>1, <2>2, <2>3 DEF EngineOf
<1>8. EnginesAreHeld'
  <2>1. ASSUME NEW b \in Actors, NEW f \in Engine, actor'[b].engine = f
        PROVE  /\ actor'[b].step \in {"using", "waiting"} /\ f.project = actor'[b].project
               /\ slotOf[f.project] # NoSlot /\ EngineOf(f.project)' = f
    <3>1. CASE b = a
      <4>1. f = e /\ e # NoEngine
        BY <2>1, <3>1, Names
      <4> QED BY <1>1, <1>6, <2>1, <3>1, <4>1, Names
    <3>2. CASE b # a
      <4>1. actor[b].engine = f /\ f \in Engines \ {NoEngine}
        BY <2>1, <3>2, Names DEF Engines
      <4>2. f.project \in Projects /\ slotOf[f.project] \in Slots /\ EngineOf(f.project) = f
        BY <4>1, EnginesAre
      <4>3. actor[b].step \in {"using", "waiting"} /\ f.project = actor[b].project
        BY <4>1 DEF EnginesAreHeld
      <4>4. EngineOf(f.project)' = f
        <5>1. CASE f.project = p
          BY <1>1, <1>6, <4>1, <4>2, <5>1
        <5>2. CASE f.project # p
          BY <1>7, <4>2, <5>2, Names
        <5> QED BY <5>1, <5>2
      <4> QED BY <3>2, <4>2, <4>3, <4>4, Names
    <3> QED BY <3>1, <3>2
  <2>2. \A t \in Slots : slots'[t].engine # NoEngine => slotOf'[slots'[t].engine.project] = t
    BY <1>1, <1>2 DEF EnginesAreHeld
  <2> QED BY <2>1, <2>2, HeldByEach
<1>9. Engines' \subseteq Engines \cup {NoEngine, e}
  <2>1. \A b \in Actors : actor'[b].engine \in Engines \cup {NoEngine, e}
    BY DEF Engines
  <2>2. \A t \in Slots : slots'[t].engine \in Engines \cup {NoEngine, e}
    BY <1>1, <1>2 DEF Engines
  <2> QED BY <2>1, <2>2 DEF Engines
<1> QED BY <1>4, <1>5, <1>8, <1>9

\* Whoever waits for a slot has its lock, and what is in it in its hands.
LEMMA AcquireKeeps ==
  ASSUME ResidenceTypeOK, ResidenceTypeOK', PlacesAreKept, LocksAreHeld, EnginesAreHeld,
         UNCHANGED <<uses, slotOf>>,
         NEW a \in Actors, actor[a].step = "slot", slots[actor[a].slot].lock = Nobody,
         slots' = [slots EXCEPT ![actor[a].slot] = [lock |-> a, engine |-> NoEngine]],
         \A b \in Actors \ {a} : actor'[b] = actor[b],
         actor'[a].slot = actor[a].slot, actor'[a].project = actor[a].project,
         actor'[a].kind = actor[a].kind,
         actor'[a].engine = slots[actor[a].slot].engine,
         \/ actor'[a].step = "opening" /\ actor'[a].engine = NoEngine
         \/ actor'[a].step = "waiting" /\ actor[a].kind = "purge"
  PROVE  /\ PlacesAreKept' /\ LocksAreHeld' /\ EnginesAreHeld'
         /\ Engines' \subseteq Engines \cup {NoEngine}
<1>0. Waits(a) /\ Waits(a)' /\ Working(a)' /\ ~Working(a) /\ actor[a].step # "out"
  BY DEF Waits, Working
<1>1. PICK p \in Projects, s \in Slots :
        p = actor[a].project /\ s = actor[a].slot /\ slotOf[p] = s
  <2>1. actor[a].project \in Projects /\ slotOf[actor[a].project] = actor[a].slot
        /\ actor[a].slot # NoSlot
    BY <1>0 DEF PlacesAreKept
  <2> QED BY <2>1, Typed
<1>2. /\ slots'[s].lock = a /\ slots'[s].engine = NoEngine
      /\ \A t \in Slots \ {s} : slots'[t] = slots[t]
  BY <1>1, Typed
<1>3. \A b \in Actors \ {a} : (Waits(b)' <=> Waits(b)) /\ (Working(b)' <=> Working(b))
  BY DEF Waits, Working
<1>4. PlacesAreKept'
  <2>1. \A q \in Projects : (slotOf'[q] # NoSlot) <=> IsOpenFor(q)'
    BY DEF PlacesAreKept, IsOpenFor
  <2>2. actor'[a].step \notin {"out", "name", "named"}
    OBVIOUS
  <2> QED BY <1>0, <1>1, <1>3, <2>1, <2>2 DEF PlacesAreKept
<1>5. \A t \in Slots : slots[t].lock # a
  BY <1>0, Names DEF LocksAreHeld
<1>6. LocksAreHeld'
  <2>1. \A t \in Slots : slots[t].lock # Nobody => slots[t].lock \in Actors
    BY Typed DEF SlotRecord
  <2>2. \A b \in Actors \ {a} : Working(b) => actor[b].slot # s /\ actor[b].slot \in Slots
    BY <1>1, HoldersAre, Names
  <2> QED BY <1>0, <1>1, <1>2, <1>3, <1>5, <2>1, <2>2 DEF LocksAreHeld
<1>7. EngineOf(p)' = slots[s].engine /\ EngineOf(p) = slots[s].engine
  BY <1>1, <1>2, Names DEF EngineOf
<1>8. \A q \in Projects \ {p} : slotOf[q] # NoSlot => EngineOf(q)' = EngineOf(q)
  <2> SUFFICES ASSUME NEW q \in Projects \ {p}, slotOf[q] # NoSlot
               PROVE  EngineOf(q)' = EngineOf(q)
    OBVIOUS
  <2>1. slotOf[q] \in Slots /\ slotOf[q] # s
    BY <1>1, Typed DEF PlacesAreKept
  <2>2. PICK b \in Actors \cup {Nobody} : b = slots[slotOf[q]].lock
    BY <2>1, Typed DEF SlotRecord
  <2>3. b # a
    BY <1>5, <2>1, <2>2
  <2> QED BY <1>2, <2>1, <2>2, <2>3 DEF EngineOf
<1>9. EnginesAreHeld'
  <2>1. ASSUME NEW b \in Actors, NEW f \in Engine, actor'[b].engine = f
        PROVE  /\ actor'[b].step \in {"using", "waiting"} /\ f.project = actor'[b].project
               /\ slotOf[f.project] # NoSlot /\ EngineOf(f.project)' = f
    <3>0. f # NoEngine
      BY Names
    <3>1. CASE b = a
      <4>1. f = slots[s].engine /\ f.project \in Projects
        BY <1>1, <2>1, <3>1 DEF Engine
      <4>2. slotOf[f.project] = s
        BY <1>1, <3>0, <4>1 DEF EnginesAreHeld
      <4>3. f.project = p
        BY <1>1, <4>1, <4>2, SamePlace
      <4>4. EngineOf(f.project)' = f
        BY <1>7, <4>1, <4>3
      <4>5. actor'[a].step = "waiting"
        BY <2>1, <3>0, <3>1
      <4>6. slotOf[f.project] # NoSlot
        BY <4>2, Names
      <4> QED BY <1>1, <3>1, <4>3, <4>4, <4>5, <4>6
    <3>2. CASE b # a
      <4>1. actor[b].engine = f /\ f \in Engines \ {NoEngine}
        BY <2>1, <3>0, <3>2 DEF Engines
      <4>2. f.project \in Projects /\ slotOf[f.project] \in Slots /\ EngineOf(f.project) = f
        BY <4>1, EnginesAre
      <4>3. actor[b].step \in {"using", "waiting"} /\ f.project = actor[b].project
        BY <4>1 DEF EnginesAreHeld
      <4>4. EngineOf(f.project)' = f
        <5>1. CASE f.project = p
          BY <1>7, <4>2, <5>1
        <5>2. CASE f.project # p
          BY <1>8, <4>2, <5>2, Names
        <5> QED BY <5>1, <5>2
      <4> QED BY <3>2, <4>2, <4>3, <4>4, Names
    <3> QED BY <3>1, <3>2
  <2>2. \A t \in Slots : slots'[t].engine # NoEngine => slotOf'[slots'[t].engine.project] = t
    BY <1>1, <1>2 DEF EnginesAreHeld
  <2> QED BY <2>1, <2>2, HeldByEach
<1>10. Engines' \subseteq Engines \cup {NoEngine}
  <2>1. \A b \in Actors : actor'[b].engine \in Engines \cup {NoEngine}
    BY <1>1 DEF Engines
  <2>2. \A t \in Slots : slots'[t].engine \in Engines \cup {NoEngine}
    BY <1>1, <1>2 DEF Engines
  <2> QED BY <2>1, <2>2 DEF Engines
<1> QED BY <1>4, <1>6, <1>9, <1>10

\* Whoever waits for a slot takes what is in it, and leaves it there.
LEMMA TakeKeeps ==
  ASSUME ResidenceTypeOK, ResidenceTypeOK', PlacesAreKept, LocksAreHeld, EnginesAreHeld,
         UNCHANGED <<uses, slotOf, slots>>,
         NEW a \in Actors, actor[a].step = "slot", slots[actor[a].slot].lock = Nobody,
         \A b \in Actors \ {a} : actor'[b] = actor[b],
         actor'[a].step = "using", actor'[a].slot = NoSlot,
         actor'[a].project = actor[a].project, actor'[a].kind = actor[a].kind,
         actor'[a].engine = slots[actor[a].slot].engine
  PROVE  /\ PlacesAreKept' /\ LocksAreHeld' /\ EnginesAreHeld'
         /\ Engines' \subseteq Engines \cup {NoEngine}
<1>0. Waits(a) /\ ~Waits(a)' /\ ~Working(a)' /\ ~Working(a) /\ actor[a].step # "out"
  BY DEF Waits, Working
<1>1. PICK p \in Projects, s \in Slots :
        p = actor[a].project /\ s = actor[a].slot /\ slotOf[p] = s
  <2>1. actor[a].project \in Projects /\ slotOf[actor[a].project] = actor[a].slot
        /\ actor[a].slot # NoSlot
    BY <1>0 DEF PlacesAreKept
  <2> QED BY <2>1, Typed
<1>2. \A b \in Actors \ {a} : (Waits(b)' <=> Waits(b)) /\ (Working(b)' <=> Working(b))
  BY DEF Waits, Working
<1>3. PlacesAreKept'
  <2>1. \A q \in Projects : (slotOf'[q] # NoSlot) <=> IsOpenFor(q)'
    BY DEF PlacesAreKept, IsOpenFor
  <2> QED BY <1>0, <1>1, <1>2, <2>1 DEF PlacesAreKept
<1>4. \A t \in Slots : slots[t].lock # a /\ (slots[t].lock # Nobody => slots[t].lock \in Actors)
  <2>1. \A t \in Slots : slots[t].lock # Nobody => slots[t].lock \in Actors
    BY Typed DEF SlotRecord
  <2> QED BY <1>0, <2>1, Names DEF LocksAreHeld
<1>5. LocksAreHeld'
  BY <1>0, <1>2, <1>4 DEF LocksAreHeld
<1>6. \A q \in Projects : slotOf[q] # NoSlot => EngineOf(q)' = EngineOf(q)
  <2> SUFFICES ASSUME NEW q \in Projects, slotOf[q] # NoSlot
               PROVE  EngineOf(q)' = EngineOf(q)
    OBVIOUS
  <2>1. slotOf[q] \in Slots
    BY Typed
  <2> QED BY <1>4, <2>1 DEF EngineOf
<1>7. EnginesAreHeld'
  <2>1. ASSUME NEW b \in Actors, NEW f \in Engine, actor'[b].engine = f
        PROVE  /\ actor'[b].step \in {"using", "waiting"} /\ f.project = actor'[b].project
               /\ slotOf[f.project] # NoSlot /\ EngineOf(f.project)' = f
    <3>0. f # NoEngine
      BY Names
    <3>1. CASE b = a
      <4>1. f = slots[s].engine /\ f.project \in Projects
        BY <1>1, <2>1, <3>1 DEF Engine
      <4>2. slotOf[f.project] = s
        BY <1>1, <3>0, <4>1 DEF EnginesAreHeld
      <4>3. f.project = p
        BY <1>1, <4>1, <4>2, SamePlace
      <4>4. EngineOf(p) = f
        BY <1>1, <4>1 DEF EngineOf
      <4> QED BY <1>1, <1>6, <3>1, <4>3, <4>4, Names
    <3>2. CASE b # a
      <4>1. actor[b].engine = f /\ f \in Engines \ {NoEngine}
        BY <2>1, <3>0, <3>2 DEF Engines
      <4>2. f.project \in Projects /\ slotOf[f.project] \in Slots /\ EngineOf(f.project) = f
        BY <4>1, EnginesAre
      <4>3. actor[b].step \in {"using", "waiting"} /\ f.project = actor[b].project
        BY <4>1 DEF EnginesAreHeld
      <4> QED BY <1>6, <3>2, <4>2, <4>3, Names
    <3> QED BY <3>1, <3>2
  <2>2. \A t \in Slots : slots'[t].engine # NoEngine => slotOf'[slots'[t].engine.project] = t
    BY DEF EnginesAreHeld
  <2> QED BY <2>1, <2>2, HeldByEach
<1>8. Engines' \subseteq Engines \cup {NoEngine}
  <2>1. \A b \in Actors : actor'[b].engine \in Engines \cup {NoEngine}
    BY <1>1 DEF Engines
  <2> QED BY <2>1 DEF Engines
<1> QED BY <1>3, <1>5, <1>7, <1>8

\* Places are taken away from projects nothing is using, and one may be given to a project
\* that has none; whoever asked for it waits for its slot.
AsksFor(a, p, slot) ==
  /\ actor[a].step = "asked" /\ actor'[a].step = "slot"
  /\ p = actor[a].project /\ p \in Projects /\ actor'[a].project = p
  /\ actor'[a].slot = slot
  /\ actor'[a].kind = actor[a].kind /\ actor'[a].engine = actor[a].engine

Placing(closing, p, slot, a) ==
  /\ \A q \in closing : IsOpenFor(q) /\ IsUnused(q)
  /\ p \notin closing
  /\ ToSet(uses') = (ToSet(uses) \ closing) \cup ({p} \ {0})
  /\ \A q \in Projects :
       slotOf'[q] = IF q \in closing THEN NoSlot ELSE IF q = p THEN slot ELSE slotOf[q]
  /\ p \in Projects =>
       (IsOpenFor(p) => slotOf[p] = slot) /\ \A q \in Projects \ {p} : slotOf'[q] # slot
  /\ \A s \in Slots :
       slots'[s] = IF \E q \in closing : slotOf[q] = s THEN EmptySlot ELSE slots[s]
  /\ \A b \in Actors \ {a} : actor'[b] = actor[b]
  /\ actor'[a] = actor[a] \/ AsksFor(a, p, slot)

LEMMA PlacedKeeps ==
  ASSUME ResidenceTypeOK, ResidenceTypeOK', PlacesAreKept, LocksAreHeld, EnginesAreHeld,
         NEW closing \in SUBSET Projects, NEW p \in Projects \cup {0}, NEW slot \in Slots,
         NEW a \in Actors, Placing(closing, p, slot, a)
  PROVE  /\ PlacesAreKept' /\ LocksAreHeld' /\ EnginesAreHeld'
         /\ Engines' \subseteq Engines \cup {NoEngine}
<1> SUFFICES
      ASSUME \A q \in closing : IsOpenFor(q) /\ IsUnused(q),
             p \notin closing,
             ToSet(uses') = (ToSet(uses) \ closing) \cup ({p} \ {0}),
             \A q \in Projects :
               slotOf'[q] = IF q \in closing THEN NoSlot
                            ELSE IF q = p THEN slot ELSE slotOf[q],
             p \in Projects => \A q \in Projects \ {p} : slotOf'[q] # slot,
             p \in Projects /\ IsOpenFor(p) => slotOf[p] = slot,
             \A s \in Slots : slots'[s] = IF \E q \in closing : slotOf[q] = s THEN EmptySlot
                                          ELSE slots[s],
             \A b \in Actors \ {a} : actor'[b] = actor[b],
             \/ actor'[a] = actor[a]
             \/ /\ actor[a].step = "asked" /\ actor'[a].step = "slot"
                /\ p = actor[a].project /\ p \in Projects /\ actor'[a].project = p
                /\ actor'[a].slot = slot
                /\ actor'[a].kind = actor[a].kind /\ actor'[a].engine = actor[a].engine
      PROVE  /\ PlacesAreKept' /\ LocksAreHeld' /\ EnginesAreHeld'
             /\ Engines' \subseteq Engines \cup {NoEngine}
  BY DEF Placing, AsksFor
<1>0. /\ \A b \in Actors : actor'[b] # actor[b] => b = a /\ ~Waits(a) /\ Waits(a)' /\ ~Working(a)'
      /\ \A b \in Actors : Working(b)' <=> Working(b)
      /\ \A b \in Actors : Working(b) => actor'[b] = actor[b]
      /\ \A b \in Actors : actor'[b].engine = actor[b].engine
  BY DEF Waits, Working
\* Nobody is in a slot that is taken away.
<1>1. \A q \in closing : slotOf[q] \in Slots /\ slots[slotOf[q]].lock = Nobody
        /\ \A b \in Actors : actor[b].slot # slotOf[q]
  <2> SUFFICES ASSUME NEW q \in closing
               PROVE  slotOf[q] \in Slots /\ slots[slotOf[q]].lock = Nobody
                      /\ \A b \in Actors : actor[b].slot # slotOf[q]
    OBVIOUS
  <2>1. slotOf[q] \in Slots
    BY Typed DEF PlacesAreKept
  <2>2. \A b \in Actors : actor[b].slot # slotOf[q]
    BY DEF IsUnused, InSlot
  <2>3. slots[slotOf[q]].lock \in Actors \cup {Nobody}
    BY <2>1, Typed DEF SlotRecord
  <2> QED BY <2>1, <2>2, <2>3 DEF LocksAreHeld
<1>2. \A b \in Actors : Waits(b) =>
        /\ actor[b].project \in Projects \ closing /\ slotOf'[actor[b].project] = actor[b].slot
        /\ slotOf[actor[b].project] = actor[b].slot /\ actor[b].slot \in Slots
  <2> SUFFICES ASSUME NEW b \in Actors, Waits(b)
               PROVE  /\ actor[b].project \in Projects \ closing
                      /\ slotOf'[actor[b].project] = actor[b].slot
                      /\ slotOf[actor[b].project] = actor[b].slot /\ actor[b].slot \in Slots
    OBVIOUS
  <2>1. /\ actor[b].project \in Projects /\ slotOf[actor[b].project] = actor[b].slot
        /\ actor[b].slot # NoSlot
    BY DEF PlacesAreKept, Waits, Working
  <2>2. actor[b].project \notin closing
    BY <1>1, <2>1
  <2>3. IsOpenFor(actor[b].project)
    BY <2>1 DEF PlacesAreKept
  <2> QED BY <2>1, <2>2, <2>3, Typed
<1>3. PlacesAreKept'
  <2>1. \A q \in Projects : (slotOf'[q] # NoSlot) <=> IsOpenFor(q)'
    BY Names DEF PlacesAreKept, IsOpenFor
  <2>2. \A q, r \in Projects : slotOf'[q] = slotOf'[r] /\ slotOf'[q] # NoSlot => q = r
    BY DEF PlacesAreKept
  <2>3. ASSUME NEW b \in Actors
        PROVE  /\ actor'[b].step # "out" => actor'[b].project \in Projects
               /\ IF Waits(b)' THEN slotOf'[actor'[b].project] = actor'[b].slot /\ actor'[b].slot # NoSlot
                  ELSE actor'[b].slot = NoSlot
               /\ actor'[b].kind # "use" \/ actor'[b].step \in {"name", "named"} => b \in Callers
               /\ Working(b)' => actor'[b].step = "opening" \/ actor'[b].kind = "purge"
    <3>1. CASE actor'[b] = actor[b]
      <4>1. Waits(b)' <=> Waits(b)
        BY <1>0, <3>1 DEF Waits
      <4> QED BY <1>0, <1>2, <3>1, <4>1 DEF PlacesAreKept
    <3>2. CASE actor'[b] # actor[b]
      <4>1. b = a /\ Waits(a)' /\ ~Working(a)'
        BY <1>0, <3>2
      <4> QED BY <3>2, <4>1, Names DEF PlacesAreKept
    <3> QED BY <3>1, <3>2
  <2> QED BY <2>1, <2>2, <2>3 DEF PlacesAreKept
<1>4. LocksAreHeld'
  <2>1. \A s \in Slots : slots[s].lock # Nobody => slots[s].lock \in Actors
    BY Typed DEF SlotRecord
  <2>2. ASSUME NEW b \in Actors, Working(b)'
        PROVE  slots'[actor'[b].slot].lock = b
    <3>1. Working(b) /\ actor'[b] = actor[b] /\ Waits(b)
      BY <1>0, <2>2 DEF Waits
    <3>2. \A q \in closing : slotOf[q] # actor[b].slot
      BY <1>1
    <3> QED BY <1>2, <3>1, <3>2 DEF LocksAreHeld
  <2>3. ASSUME NEW s \in Slots, NEW b, b = slots'[s].lock, b # Nobody
        PROVE  Working(b)' /\ actor'[b].slot = s /\ slots'[s].engine = NoEngine
    <3>1. slots'[s] = slots[s]
      BY <2>3, Names
    <3>2. b \in Actors /\ Working(b) /\ actor[b].slot = s /\ slots[s].engine = NoEngine
      BY <2>1, <2>3, <3>1 DEF LocksAreHeld
    <3> QED BY <1>0, <3>1, <3>2
  <2> QED BY <2>2, <2>3 DEF LocksAreHeld, Working
<1>5. ASSUME NEW b \in Actors, NEW e \in Engine, actor[b].engine = e
      PROVE  /\ e.project \in Projects \ closing /\ slotOf[e.project] \in Slots
             /\ slotOf'[e.project] = slotOf[e.project]
             /\ slots'[slotOf[e.project]] = slots[slotOf[e.project]]
             /\ EngineOf(e.project) = e
  <2>1. e \in Engines \ {NoEngine}
    BY <1>5, Names DEF Engines
  <2>2. e.project \in Projects /\ slotOf[e.project] \in Slots /\ EngineOf(e.project) = e
    BY <2>1, EnginesAre
  <2>3. e.project \notin closing
    <3> SUFFICES ASSUME e.project \in closing PROVE FALSE
      OBVIOUS
    <3>1. slots[slotOf[e.project]].engine = e
      BY <1>1, <2>2 DEF EngineOf
    <3>2. b \in Inside(slots[slotOf[e.project]].engine)
      BY <1>5, <2>1, <3>1 DEF Inside
    <3> QED BY <3>2 DEF IsUnused
  <2>4. IsOpenFor(e.project)
    BY <2>2, Names DEF PlacesAreKept
  <2>5. \A q \in closing : slotOf[q] # slotOf[e.project]
    <3> SUFFICES ASSUME NEW q \in closing, slotOf[q] = slotOf[e.project] PROVE FALSE
      OBVIOUS
    <3>1. q \in Projects
      OBVIOUS
    <3>2. q = e.project
      BY <2>2, <3>1, SamePlace
    <3> QED BY <2>3, <3>2
  <2> QED BY <2>2, <2>3, <2>4, <2>5
<1>6. EnginesAreHeld'
  <2>1. ASSUME NEW b \in Actors, NEW e \in Engine, actor'[b].engine = e
        PROVE  /\ actor'[b].step \in {"using", "waiting"} /\ e.project = actor'[b].project
               /\ slotOf'[e.project] # NoSlot /\ EngineOf(e.project)' = e
    <3>1. actor[b].engine = e
      BY <1>0, <2>1
    <3>2. /\ slotOf'[e.project] = slotOf[e.project] /\ slotOf[e.project] \in Slots
          /\ slots'[slotOf[e.project]] = slots[slotOf[e.project]] /\ EngineOf(e.project) = e
      BY <1>5, <3>1
    <3>3. actor[b].step \in {"using", "waiting"} /\ e.project = actor[b].project
      BY <3>1, Names DEF EnginesAreHeld
    <3>4. actor'[b] = actor[b]
      BY <3>3
    <3>5. slots[slotOf[e.project]].lock \in Actors \cup {Nobody}
      BY <3>2, Typed DEF SlotRecord
    <3>6. EngineOf(e.project)' = e
      BY <1>0, <3>2, <3>5 DEF EngineOf
    <3> QED BY <3>2, <3>3, <3>4, <3>6, Names
  <2>2. ASSUME NEW s \in Slots, slots'[s].engine # NoEngine
        PROVE  slotOf'[slots'[s].engine.project] = s
    <3>1. slots'[s] = slots[s] /\ \A q \in closing : slotOf[q] # s
      BY <2>2, Names
    <3>2. PICK e \in Engine : e = slots[s].engine
      BY <2>2, <3>1, Typed DEF SlotRecord
    <3>3. e.project \in Projects /\ slotOf[e.project] = s
      BY <2>2, <3>1, <3>2 DEF EnginesAreHeld, Engine
    <3>4. IsOpenFor(e.project) /\ e.project \notin closing
      BY <3>1, <3>3, Names DEF PlacesAreKept
    <3> QED BY <3>1, <3>2, <3>3, <3>4
  <2> QED BY <2>1, <2>2, HeldByEach
<1>7. Engines' \subseteq Engines \cup {NoEngine}
  <2>1. \A b \in Actors : actor'[b].engine \in Engines \cup {NoEngine}
    BY <1>0 DEF Engines
  <2>2. \A t \in Slots : slots'[t].engine \in Engines \cup {NoEngine}
    BY Names DEF Engines
  <2> QED BY <2>1, <2>2 DEF Engines
<1> QED BY <1>3, <1>4, <1>6, <1>7

\* What is left of the invariant, for a step that forgets no row and names nothing.
LEMMA RestKeeps ==
  ASSUME ResidenceInv, ResidenceTypeOK', PlacesAreKept', LocksAreHeld', EnginesAreHeld',
         LoopIsFree', UNCHANGED <<cache, naming>>,
         \A p \in Projects :
           rows[p].there => rows'[p].there /\ rows'[p].id = rows[p].id,
         \A c \in Callers :
           actor'[c].step = "named" \/ actor[c].step = "committed" =>
             /\ actor'[c].step = actor[c].step /\ actor'[c].project = actor[c].project
             /\ actor'[c].row = actor[c].row,
         \A e \in Engine :
           e \in Engines' =>
             \/ e \in Engines
             \/ rows'[e.project].there /\ rows'[e.project].id = e.row
  PROVE  ResidenceInv'
<1>0. /\ ResidenceTypeOK /\ PlacesAreKept /\ LocksAreHeld /\ EnginesAreHeld /\ OneEngineEach
      /\ NamesAreTrue /\ CacheIsTrue
  BY DEF ResidenceInv
<1>1. \A p \in Projects : Committed(p) => Committed(p)'
  BY DEF Committed
<1>2. NamesAreTrue'
  <2>1. ASSUME NEW c \in Callers, actor'[c].step = "named"
        PROVE  /\ naming' = c
               /\ (rows'[actor'[c].project].there /\ rows'[actor'[c].project].id = actor'[c].row)
                    \/ Committed(actor[c].project)'
    <3>1. actor[c].step = "named" /\ actor'[c].project = actor[c].project
          /\ actor'[c].row = actor[c].row
      BY <2>1
    <3>2. actor[c].project \in Projects
      BY <1>0, <3>1, Names DEF PlacesAreKept
    <3>3. /\ naming = c
          /\ \/ rows[actor[c].project].there /\ rows[actor[c].project].id = actor[c].row
             \/ Committed(actor[c].project)
      BY <1>0, <3>1 DEF NamesAreTrue
    <3>4. PICK p \in Projects : p = actor[c].project
      BY <3>2
    <3> QED BY <1>1, <3>1, <3>3, <3>4 DEF Committed
  <2> QED BY <2>1 DEF NamesAreTrue, Committed
<1>3. CacheIsTrue'
  BY <1>0, <1>1 DEF CacheIsTrue, Committed
<1>4. OneEngineEach'
  <2>1. ASSUME NEW e \in Engines' \ {NoEngine}
        PROVE  rows'[e.project].there /\ rows'[e.project].id = e.row
    <3>1. e \in Engine
      BY DEF ResidenceTypeOK, Engines
    <3>2. CASE e \in Engines
      <4>1. e.project \in Projects /\ rows[e.project].there /\ rows[e.project].id = e.row
        BY <1>0, <3>1, <3>2 DEF OneEngineEach, Engine
      <4> QED BY <4>1
    <3> QED BY <3>1, <3>2
  <2> QED BY <2>1, OneByPlacesNext DEF OneEngineEach
<1> QED BY <1>2, <1>3, <1>4 DEF ResidenceInv

LEMMA Becomes ==
  ASSUME ResidenceTypeOK, NEW a \in Actors, NEW r \in ActorRecord,
         actor' = [actor EXCEPT ![a] = r]
  PROVE  /\ actor' \in [Actors -> ActorRecord] /\ actor'[a] = r
         /\ \A b \in Actors \ {a} : actor'[b] = actor[b]
BY Typed

LEMMA TypedNext ==
  ASSUME uses' \in Seq(Projects), slotOf' \in [Projects -> Slots \cup {NoSlot}],
         slots' \in [Slots -> SlotRecord], actor' \in [Actors -> ActorRecord],
         rows' \in [Projects -> RowRecord],
         cache' \in [Projects -> Nat], naming' \in Callers \cup {Nobody},
         tick'.step # "pass" => tick'.todo \in Seq(Projects \X Nat)
  PROVE  ResidenceTypeOK'
BY DEF ResidenceTypeOK, ActorRecord, SlotRecord, RowRecord

LEMMA EnsuredIs ==
  ASSUME ResidenceTypeOK, NEW p \in Projects, rows' = Ensured(p)
  PROVE  /\ rows' \in [Projects -> RowRecord] /\ rows'[p].there
         /\ \A q \in Projects : rows[q].there => rows'[q] = rows[q]
         /\ \A q \in Projects \ {p} : rows'[q] = rows[q]
<1>1. rows \in [Projects -> RowRecord] /\ rows[p] \in RowRecord
  BY Typed
<1> DEFINE r == [there |-> TRUE, id |-> rows[p].id + 1, owed |-> 0]
<1>2. r \in RowRecord /\ r.there
  BY <1>1 DEF RowRecord
<1>3. CASE rows[p].there
  BY <1>1, <1>3 DEF Ensured
<1>4. CASE ~rows[p].there
  <2>1. rows' = [rows EXCEPT ![p] = r]
    BY <1>4 DEF Ensured
  <2> HIDE DEF r
  <2> QED BY <1>1, <1>2, <1>4, <2>1
<1> QED BY <1>3, <1>4

\* Rows go on being there, and only the upkeep's tick or what is owed moves.
LEMMA StillKeeps ==
  ASSUME ResidenceInv, UNCHANGED <<slotOf, slots, actor, cache, naming>>,
         uses' \in Seq(Projects), ToSet(uses') = ToSet(uses), rows' \in [Projects -> RowRecord],
         \A p \in Projects : rows'[p].there = rows[p].there /\ rows'[p].id = rows[p].id,
         tick'.step # "pass" => tick'.todo \in Seq(Projects \X Nat),
         LoopIsFree'
  PROVE  ResidenceInv'
<1>1. /\ ResidenceTypeOK /\ PlacesAreKept /\ LocksAreHeld /\ EnginesAreHeld
  BY DEF ResidenceInv
<1>2. ResidenceTypeOK'
  BY <1>1, Typed, TypedNext
<1>3. /\ PlacesAreKept' /\ LocksAreHeld' /\ EnginesAreHeld'
      /\ Engines' \subseteq Engines \cup {NoEngine}
  BY <1>1, <1>2, LooseKeeps
<1> QED BY <1>2, <1>3, RestKeeps, Names

\* One who waits for no slot goes somewhere else.
LEMMA OneLooseKeeps ==
  ASSUME ResidenceInv, UNCHANGED <<slotOf, slots, cache, naming>>,
         uses' \in Seq(Projects), ToSet(uses') = ToSet(uses), rows' \in [Projects -> RowRecord],
         \A p \in Projects : rows'[p].there = rows[p].there /\ rows'[p].id = rows[p].id,
         tick'.step # "pass" => tick'.todo \in Seq(Projects \X Nat),
         NEW a \in Actors, NEW r \in ActorRecord, actor' = [actor EXCEPT ![a] = r],
         ~Waits(a), r.slot = NoSlot, r.step \in {"out", "asked", "using"},
         r.kind # "use" => a \in Callers,
         r.step # "out" => r.project \in Projects,
         r.engine # NoEngine =>
           /\ r.step = "using" /\ slotOf[r.project] # NoSlot
           /\ r.engine = slots[slotOf[r.project]].engine,
         LoopIsFree'
  PROVE  ResidenceInv'
<1>1. /\ ResidenceTypeOK /\ PlacesAreKept /\ LocksAreHeld /\ EnginesAreHeld
  BY DEF ResidenceInv
<1>2. /\ actor' \in [Actors -> ActorRecord] /\ actor'[a] = r
      /\ \A b \in Actors \ {a} : actor'[b] = actor[b]
  BY <1>1, Becomes
<1>3. ResidenceTypeOK'
  BY <1>1, <1>2, Typed, TypedNext
<1>4. ~Waits(a)'
  BY <1>2 DEF Waits, Working
<1>5. /\ PlacesAreKept' /\ LocksAreHeld' /\ EnginesAreHeld'
      /\ Engines' \subseteq Engines \cup {NoEngine}
  <2>1. \A b \in Actors :
           \/ actor'[b] = actor[b]
           \/ /\ ~Waits(b) /\ ~Waits(b)' /\ actor'[b].slot = NoSlot
              /\ actor'[b].step # "out" => actor'[b].project \in Projects
              /\ actor'[b].kind # "use" \/ actor'[b].step \in {"name", "named"} => b \in Callers
              /\ actor'[b].engine # NoEngine =>
                   /\ actor'[b].step = "using" /\ slotOf[actor'[b].project] # NoSlot
                   /\ actor'[b].engine = slots[slotOf[actor'[b].project]].engine
    BY <1>2, <1>4
  <2> QED BY <1>1, <1>3, <2>1, LooseKeeps
<1>6. \A c \in Callers :
        actor'[c].step = "named" \/ actor[c].step = "committed" => actor'[c] = actor[c]
  <2>1. \A c \in Callers : c \in Actors
    BY Names
  <2>2. actor[a].step # "committed"
    BY DEF Waits, Working
  <2> QED BY <1>2, <2>1, <2>2
<1> QED BY <1>3, <1>5, <1>6, RestKeeps, Names

-----------------------------------------------------------------------------
(* Requests.                                                                  *)

LEMMA AsksKeeps ==
  ASSUME ResidenceInv, NEW c \in Callers, NEW p \in Projects, NEW kind \in Calls[c],
         Asks(c, p, kind)
  PROVE  ResidenceInv'
<1>1. /\ ResidenceTypeOK /\ PlacesAreKept /\ LocksAreHeld /\ EnginesAreHeld /\ LoopIsFree
  BY DEF ResidenceInv
<1> DEFINE r == [Out EXCEPT !.step = IF kind = "name" THEN "name" ELSE "asked",
                            !.kind = kind, !.project = p]
           w == [Out EXCEPT !.step = "asked", !.project = p]
<1>2. /\ r \in ActorRecord /\ r.step \in {"name", "asked"} /\ r.project = p
      /\ r.slot = NoSlot /\ r.engine = NoEngine
  <2>1. kind \in {"use", "name", "purge"}
    BY ResidenceAssumption
  <2> QED BY <2>1 DEF Out, ActorRecord, Steps, NoSlot, NoId
<1>3. /\ w \in ActorRecord /\ w.step = "asked" /\ w.project = p /\ w.kind = "use"
      /\ w.slot = NoSlot /\ w.engine = NoEngine
  BY DEF Out, ActorRecord, Steps, NoSlot, NoId
<1>4. /\ actor[c] = Out
      /\ actor' = IF kind # "purge" /\ ~IsOpenFor(p) /\ actor[p] = Out
                    THEN [[actor EXCEPT ![c] = r] EXCEPT ![p] = w] ELSE [actor EXCEPT ![c] = r]
      /\ UNCHANGED <<registryVars, rows, dirs, cache, naming, tick, refused, broken>>
  BY Zenon DEF Asks
<1>5. c \in Actors /\ p \in Actors /\ c # p /\ Loop \in Actors /\ Loop # c /\ Loop # p
      /\ \A d \in Callers : d \in Actors /\ d # p
  BY Names, ResidenceAssumption
<1>6. /\ actor' \in [Actors -> ActorRecord] /\ actor'[c] = r
      /\ \A a \in Actors \ {c, p} : actor'[a] = actor[a]
      /\ \/ actor'[p] = actor[p]
         \/ actor[p] = Out /\ actor'[p] = w
  <2> HIDE DEF r, w
  <2> QED BY <1>1, <1>2, <1>3, <1>4, <1>5, Typed
<1> HIDE DEF r, w
<1>7. UNCHANGED <<uses, slotOf, slots, rows, cache, naming, tick>>
  BY <1>4 DEF registryVars
<1>8. ResidenceTypeOK'
  BY <1>1, <1>6, <1>7, Typed, TypedNext
<1>9. /\ PlacesAreKept' /\ LocksAreHeld' /\ EnginesAreHeld'
      /\ Engines' \subseteq Engines \cup {NoEngine}
  <2>1. \A a \in Actors :
           \/ actor'[a] = actor[a]
           \/ /\ ~Waits(a) /\ ~Waits(a)' /\ actor'[a].slot = NoSlot
              /\ actor'[a].step # "out" => actor'[a].project \in Projects
              /\ actor'[a].kind # "use" \/ actor'[a].step \in {"name", "named"} => a \in Callers
              /\ actor'[a].engine # NoEngine =>
                   /\ actor'[a].step = "using" /\ slotOf[actor'[a].project] # NoSlot
                   /\ actor'[a].engine = slots[slotOf[actor'[a].project]].engine
    BY <1>2, <1>3, <1>4, <1>5, <1>6, Names DEF Waits, Working
  <2> QED BY <1>1, <1>7, <1>8, <2>1, LooseKeeps
<1>10. \A d \in Callers :
        actor'[d].step = "named" \/ actor[d].step = "committed" => actor'[d] = actor[d]
  BY <1>2, <1>4, <1>5, <1>6, Names
<1>11. LoopIsFree'
  BY <1>1, <1>5, <1>6, <1>7 DEF LoopIsFree
<1> QED BY <1>7, <1>8, <1>9, <1>10, <1>11, RestKeeps, Names

LEMMA LeaveKeeps ==
  ASSUME ResidenceInv, NEW c \in Actors, Leave(c)
  PROVE  ResidenceInv'
<1>1. ResidenceTypeOK /\ PlacesAreKept /\ LoopIsFree
  BY DEF ResidenceInv
<1>2. /\ c \in Callers \cup Projects /\ actor[c].step = "using"
      /\ actor' = [actor EXCEPT ![c] = Out]
      /\ UNCHANGED <<registryVars, dirs, cache, naming, tick, refused, broken, requests>>
  BY DEF Leave
<1>3. rows' \in [Projects -> RowRecord]
      /\ \A p \in Projects : rows'[p].there = rows[p].there /\ rows'[p].id = rows[p].id
  <2>1. CASE UNCHANGED rows
    BY <1>1, <2>1, Typed
  <2>2. CASE rows' = [rows EXCEPT ![actor[c].project].owed = @ + 1]
    <3>1. PICK p \in Projects : p = actor[c].project
      BY <1>1, <1>2 DEF PlacesAreKept
    <3> DEFINE r == [rows[p] EXCEPT !.owed = rows[p].owed + 1]
    <3>2. rows' = [rows EXCEPT ![p] = r]
      BY <2>2, <3>1
    <3>4. rows[p] \in RowRecord
      BY <1>1, Typed
    <3>5. rows[p].owed + 1 \in Int
      BY <3>4 DEF RowRecord
    <3>3. r \in RowRecord /\ r.there = rows[p].there /\ r.id = rows[p].id
      BY <3>4, <3>5 DEF RowRecord
    <3> HIDE DEF r
    <3> QED BY <1>1, <3>2, <3>3, Typed
  <2> QED BY <2>1, <2>2 DEF Leave
<1>4. ~Waits(c)
  BY <1>2 DEF Waits, Working
<1>5. UNCHANGED <<uses, slotOf, slots, cache, naming, tick>>
  BY <1>2 DEF registryVars
<1>6. LoopIsFree'
  <2>1. c # Loop /\ Loop \in Actors
    BY <1>2, Names
  <2> QED BY <1>1, <1>2, <1>5, <2>1, Typed DEF LoopIsFree
<1> QED BY <1>1, <1>2, <1>3, <1>4, <1>5, <1>6, OneLooseKeeps, Names, Typed

LEMMA NameCachedKeeps ==
  ASSUME ResidenceInv, NEW c \in Actors, NameCached(c)
  PROVE  ResidenceInv'
<1>1. ResidenceTypeOK /\ PlacesAreKept /\ LoopIsFree
  BY DEF ResidenceInv
<1>2. /\ actor[c].step = "name" /\ actor' = [actor EXCEPT ![c] = Out]
      /\ UNCHANGED <<registryVars, rows, dirs, cache, naming, tick, refused, broken, requests>>
  BY DEF NameCached
<1>3. ~Waits(c)
  BY <1>2 DEF Waits, Working
<1>4. UNCHANGED <<uses, slotOf, slots, rows, cache, naming, tick>>
  BY <1>2 DEF registryVars
<1>5. LoopIsFree'
  <2>1. c \in Callers
    BY <1>1, <1>2 DEF PlacesAreKept
  <2>2. c # Loop /\ Loop \in Actors
    BY <2>1, Names
  <2> QED BY <1>1, <1>2, <1>4, <2>2, Typed DEF LoopIsFree
<1> QED BY <1>1, <1>2, <1>3, <1>4, <1>5, OneLooseKeeps, Names, Typed

\* Engines are of rows that are there, so they stand when no such row is forgotten.
LEMMA RowsOfEngines ==
  ASSUME ResidenceTypeOK, OneEngineEach,
         ResidenceTypeOK', PlacesAreKept', LocksAreHeld', EnginesAreHeld',
         Engines' \subseteq Engines \cup {NoEngine},
         \A e \in Engine :
           e \in Engines =>
             rows'[e.project].there /\ rows'[e.project].id = rows[e.project].id
  PROVE  OneEngineEach'
<1>1. \A e \in Engines' \ {NoEngine} : e \in Engine /\ e \in Engines \ {NoEngine}
  <2>1. \A e \in Engines : e \in Engine \cup {NoEngine}
    BY Typed DEF Engines, ActorRecord, SlotRecord
  <2> QED BY <2>1
<1>2. \A e \in Engines \ {NoEngine} : rows[e.project].there /\ rows[e.project].id = e.row
  BY DEF OneEngineEach
<1> QED BY <1>1, <1>2, OneByPlacesNext DEF OneEngineEach

LEMMA NameEnsureKeeps ==
  ASSUME ResidenceInv, NEW c \in Actors, NameEnsure(c)
  PROVE  ResidenceInv'
<1>1. /\ ResidenceTypeOK /\ PlacesAreKept /\ LocksAreHeld /\ EnginesAreHeld /\ LoopIsFree
      /\ OneEngineEach /\ NamesAreTrue /\ CacheIsTrue
  BY DEF ResidenceInv
<1>2. /\ actor[c].step = "name" /\ naming = Nobody /\ naming' = c
      /\ cache[actor[c].project] = NoId /\ rows' = Ensured(actor[c].project)
      /\ actor' = [actor EXCEPT ![c].step = "named",
                                ![c].row = rows'[actor[c].project].id]
      /\ UNCHANGED <<uses, slotOf, slots, cache, tick>>
  BY Zenon DEF NameEnsure, registryVars
<1>3. PICK p \in Projects : p = actor[c].project
  BY <1>1, <1>2 DEF PlacesAreKept
<1>4. c \in Callers /\ c # Loop /\ c # Nobody
  <2>1. c \in Callers
    BY <1>1, <1>2 DEF PlacesAreKept
  <2> QED BY <2>1, Names
<1>5. /\ rows' \in [Projects -> RowRecord] /\ rows'[p].there
      /\ \A q \in Projects : rows[q].there => rows'[q] = rows[q]
  BY <1>1, <1>2, <1>3, EnsuredIs
<1> DEFINE r == [actor[c] EXCEPT !.step = "named", !.row = rows'[p].id]
<1>6. /\ r \in ActorRecord /\ r.step = "named" /\ r.row = rows'[p].id
      /\ r.project = p /\ r.slot = actor[c].slot /\ r.engine = actor[c].engine
      /\ r.kind = actor[c].kind
  <2>1. actor[c] \in ActorRecord /\ rows'[p].id \in Nat
    BY <1>1, <1>5, Typed DEF RowRecord
  <2> QED BY <1>3, <2>1 DEF ActorRecord, Steps
<1>7. actor' = [actor EXCEPT ![c] = r]
  <2>1. actor \in [Actors -> ActorRecord]
    BY <1>1, Typed
  <2> QED BY <1>2, <1>3, <2>1
<1> HIDE DEF r
<1>8. /\ actor' \in [Actors -> ActorRecord] /\ actor'[c] = r
      /\ \A b \in Actors \ {c} : actor'[b] = actor[b]
  BY <1>1, <1>6, <1>7, Becomes
<1>9. ResidenceTypeOK'
  BY <1>1, <1>2, <1>4, <1>5, <1>8, Typed, TypedNext
<1>10. actor[c].slot = NoSlot /\ actor[c].engine = NoEngine /\ ~Waits(c) /\ ~Waits(c)'
  <2>1. ~Waits(c) /\ ~Waits(c)'
    BY <1>2, <1>6, <1>8 DEF Waits, Working
  <2>2. actor[c].slot = NoSlot
    BY <1>1, <2>1 DEF PlacesAreKept
  <2>3. actor[c].engine = NoEngine
    BY <1>1, <1>2 DEF EnginesAreHeld
  <2> QED BY <2>1, <2>2, <2>3
<1>11. /\ PlacesAreKept' /\ LocksAreHeld' /\ EnginesAreHeld'
       /\ Engines' \subseteq Engines \cup {NoEngine}
  <2>1. \A b \in Actors :
           \/ actor'[b] = actor[b]
           \/ /\ ~Waits(b) /\ ~Waits(b)' /\ actor'[b].slot = NoSlot
              /\ actor'[b].step # "out" => actor'[b].project \in Projects
              /\ actor'[b].kind # "use" \/ actor'[b].step \in {"name", "named"} => b \in Callers
              /\ actor'[b].engine # NoEngine =>
                   /\ actor'[b].step = "using" /\ slotOf[actor'[b].project] # NoSlot
                   /\ actor'[b].engine = slots[slotOf[actor'[b].project]].engine
    BY <1>4, <1>6, <1>8, <1>10
  <2> QED BY <1>1, <1>2, <1>9, <2>1, LooseKeeps
<1>12. OneEngineEach'
  <2>1. \A e \in Engine :
          e \in Engines => rows'[e.project].there /\ rows'[e.project].id = rows[e.project].id
    <3> SUFFICES ASSUME NEW e \in Engine, e \in Engines
                 PROVE  rows'[e.project].there /\ rows'[e.project].id = rows[e.project].id
      OBVIOUS
    <3>1. e # NoEngine /\ e.project \in Projects
      BY Names DEF Engine
    <3>2. rows[e.project].there
      BY <1>1, <3>1 DEF OneEngineEach
    <3> QED BY <1>5, <3>1, <3>2
  <2> QED BY <1>1, <1>9, <1>11, <2>1, RowsOfEngines
<1>13. \A q \in Projects : Committed(q) => Committed(q)'
  <2>1. \A d \in Callers : d \in Actors
    BY Names
  <2> QED BY <1>2, <1>8, <2>1 DEF Committed
<1>14. CacheIsTrue'
  <2>1. \A q \in Projects : cache[q] # NoId =>
          (rows[q].there /\ rows[q].id = cache[q]) \/ Committed(q)
    BY <1>1 DEF CacheIsTrue, Committed
  <2>2. \A q \in Projects : cache'[q] # NoId =>
          (rows'[q].there /\ rows'[q].id = cache'[q]) \/ Committed(q)'
    BY <1>2, <1>5, <1>13, <2>1
  <2> QED BY <2>2 DEF CacheIsTrue, Committed
<1>15. NamesAreTrue'
  <2>1. ASSUME NEW d \in Callers, actor'[d].step = "named"
        PROVE  d = c
    <3>1. d \in Actors /\ d # Nobody
      BY Names
    <3> QED BY <1>1, <1>2, <1>8, <2>1, <3>1 DEF NamesAreTrue
  <2> QED BY <1>2, <1>5, <1>6, <1>8, <2>1 DEF NamesAreTrue
<1>16. LoopIsFree'
  <2>1. Loop \in Actors
    BY Names
  <2> QED BY <1>1, <1>2, <1>4, <1>8, <2>1 DEF LoopIsFree
<1> QED BY <1>9, <1>11, <1>12, <1>14, <1>15, <1>16 DEF ResidenceInv

LEMMA NameInsertKeeps ==
  ASSUME ResidenceInv, NEW c \in Actors, NameInsert(c)
  PROVE  ResidenceInv'
<1>1. /\ ResidenceTypeOK /\ PlacesAreKept /\ LocksAreHeld /\ EnginesAreHeld /\ LoopIsFree
      /\ OneEngineEach /\ NamesAreTrue /\ CacheIsTrue
  BY DEF ResidenceInv
<1>2. /\ actor[c].step = "named" /\ naming' = Nobody
      /\ cache' = [cache EXCEPT ![actor[c].project] = actor[c].row]
      /\ actor' = [actor EXCEPT ![c] = Out]
      /\ UNCHANGED <<uses, slotOf, slots, rows, tick>>
  BY DEF NameInsert, registryVars
<1>3. PICK p \in Projects : p = actor[c].project
  BY <1>1, <1>2 DEF PlacesAreKept
<1>4. c \in Callers /\ c # Loop
  <2>1. c \in Callers
    BY <1>1, <1>2 DEF PlacesAreKept
  <2> QED BY <2>1, Names
<1>5. /\ actor' \in [Actors -> ActorRecord] /\ actor'[c] = Out
      /\ \A b \in Actors \ {c} : actor'[b] = actor[b]
  BY <1>1, <1>2, Becomes, Names
<1>6. /\ cache' \in [Projects -> Nat] /\ cache'[p] = actor[c].row
      /\ \A q \in Projects \ {p} : cache'[q] = cache[q]
  <2>1. actor[c].row \in Nat /\ cache \in [Projects -> Nat]
    BY <1>1, Typed DEF ActorRecord
  <2> QED BY <1>2, <1>3, <2>1
<1>7. ResidenceTypeOK'
  BY <1>1, <1>2, <1>5, <1>6, Typed, TypedNext
<1>8. ~Waits(c) /\ ~Waits(c)'
  BY <1>2, <1>5, Names DEF Waits, Working
<1>9. /\ PlacesAreKept' /\ LocksAreHeld' /\ EnginesAreHeld'
      /\ Engines' \subseteq Engines \cup {NoEngine}
  <2>1. \A b \in Actors :
           \/ actor'[b] = actor[b]
           \/ /\ ~Waits(b) /\ ~Waits(b)' /\ actor'[b].slot = NoSlot
              /\ actor'[b].step # "out" => actor'[b].project \in Projects
              /\ actor'[b].kind # "use" \/ actor'[b].step \in {"name", "named"} => b \in Callers
              /\ actor'[b].engine # NoEngine =>
                   /\ actor'[b].step = "using" /\ slotOf[actor'[b].project] # NoSlot
                   /\ actor'[b].engine = slots[slotOf[actor'[b].project]].engine
    BY <1>4, <1>5, <1>8, Names
  <2> QED BY <1>1, <1>2, <1>7, <2>1, LooseKeeps
<1>10. OneEngineEach'
  BY <1>1, <1>2, <1>7, <1>9, RowsOfEngines DEF OneEngineEach
<1>11. \A q \in Projects : Committed(q) => Committed(q)'
  <2>1. \A d \in Callers : d \in Actors
    BY Names
  <2> QED BY <1>2, <1>5, <2>1 DEF Committed
<1>12. (rows[p].there /\ rows[p].id = actor[c].row) \/ Committed(p)
  BY <1>1, <1>2, <1>3, <1>4 DEF NamesAreTrue
<1>13. CacheIsTrue'
  BY <1>1, <1>2, <1>6, <1>11, <1>12 DEF CacheIsTrue, Committed
<1>14. NamesAreTrue'
  <2>1. ASSUME NEW d \in Callers, actor'[d].step = "named"
        PROVE  FALSE
    <3>1. d \in Actors /\ d # c
      BY <1>5, <2>1, Names
    <3>2. naming = d /\ naming = c
      BY <1>1, <1>2, <1>4, <1>5, <2>1, <3>1 DEF NamesAreTrue
    <3> QED BY <3>1, <3>2
  <2> QED BY <2>1 DEF NamesAreTrue
<1>15. LoopIsFree'
  <2>1. Loop \in Actors
    BY Names
  <2> QED BY <1>1, <1>2, <1>4, <1>5, <2>1 DEF LoopIsFree
<1> QED BY <1>7, <1>9, <1>10, <1>13, <1>14, <1>15 DEF ResidenceInv

-----------------------------------------------------------------------------
(* Whoever works on a slot.                                                   *)

LEMMA LockIsSet ==
  ASSUME ResidenceTypeOK, NEW s \in Slots, slots[s].engine = NoEngine, NEW b
  PROVE  [slots EXCEPT ![s].lock = b] = [slots EXCEPT ![s] = [lock |-> b, engine |-> NoEngine]]
<1>1. slots \in [Slots -> SlotRecord] /\ slots[s] \in SlotRecord
  BY Typed
<1>2. [slots[s] EXCEPT !.lock = b] = [lock |-> b, engine |-> NoEngine]
  BY <1>1 DEF SlotRecord
<1> QED BY <1>2

LEMMA NoEngineInHand ==
  ASSUME EnginesAreHeld, NEW a \in Actors, actor[a].step \notin {"using", "waiting"}
  PROVE  actor[a].engine = NoEngine
BY DEF EnginesAreHeld

LEMMA LetGoKeeps ==
  ASSUME ResidenceInv, UNCHANGED <<uses, slotOf>>,
         NEW a \in Actors, Working(a), actor' = [actor EXCEPT ![a] = Out],
         slots' = [slots EXCEPT ![actor[a].slot] =
                     [lock |-> Nobody, engine |-> actor[a].engine]],
         rows' \in [Projects -> RowRecord], cache' \in [Projects -> Nat],
         naming' \in Callers \cup {Nobody},
         tick'.step # "pass" => tick'.todo \in Seq(Projects \X Nat)
  PROVE  /\ ResidenceTypeOK' /\ PlacesAreKept' /\ LocksAreHeld' /\ EnginesAreHeld'
         /\ Engines' \subseteq Engines \cup {NoEngine}
         /\ actor'[a] = Out /\ \A b \in Actors \ {a} : actor'[b] = actor[b]
<1>1. ResidenceTypeOK /\ PlacesAreKept /\ LocksAreHeld /\ EnginesAreHeld
  BY DEF ResidenceInv
<1>2. PICK e \in Engine \cup {NoEngine} : e = actor[a].engine
  BY <1>1, Typed DEF ActorRecord
<1>3. /\ actor' \in [Actors -> ActorRecord] /\ actor'[a] = Out
      /\ \A b \in Actors \ {a} : actor'[b] = actor[b]
  BY <1>1, Becomes, Names
<1>4. slots' = [slots EXCEPT ![actor[a].slot] = [lock |-> Nobody, engine |-> e]]
  BY <1>2
<1>5. slots' \in [Slots -> SlotRecord]
  <2>1. actor[a].slot \in Slots
    BY <1>1, HoldersAre
  <2>2. [lock |-> Nobody, engine |-> e] \in SlotRecord
    BY DEF SlotRecord
  <2> QED BY <1>1, <1>4, <2>1, <2>2, Typed
<1>6. ResidenceTypeOK'
  BY <1>1, <1>3, <1>5, Typed, TypedNext
<1>7. ~Waits(a)'
  BY <1>3, Names DEF Waits, Working
<1>8. e # NoEngine => e.project = actor[a].project
  BY <1>1, <1>2 DEF EnginesAreHeld
<1>9. Engines \cup {NoEngine, e} = Engines \cup {NoEngine}
  BY <1>2 DEF Engines
<1>10. actor'[a].step = "out" /\ actor'[a].kind = "use" /\ actor'[a].engine = NoEngine
       /\ actor'[a].slot = NoSlot
  BY <1>3, Names
<1> QED BY <1>1, <1>2, <1>3, <1>4, <1>6, <1>7, <1>8, <1>9, <1>10, ReleaseKeeps

LEMMA RefusesKeeps ==
  ASSUME ResidenceInv, NEW a \in Actors, Refuses(a),
         tick'.step # "pass" => tick'.todo \in Seq(Projects \X Nat), LoopIsFree'
  PROVE  ResidenceInv'
<1>1. ResidenceTypeOK /\ PlacesAreKept /\ LocksAreHeld /\ EnginesAreHeld
  BY DEF ResidenceInv
<1>2. /\ actor[a].step = "opening" /\ rows' = Ensured(actor[a].project)
      /\ slots' = [slots EXCEPT ![actor[a].slot].lock = Nobody]
      /\ actor' = [actor EXCEPT ![a] = Out]
      /\ UNCHANGED <<uses, slotOf, cache, naming>>
  BY DEF Refuses
<1>3. Working(a)
  BY <1>2 DEF Working
<1>4. /\ actor[a].project \in Projects /\ actor[a].slot \in Slots
      /\ slots[actor[a].slot].engine = NoEngine
  BY <1>1, <1>3, HoldersAre
<1>5. actor[a].engine = NoEngine
  BY <1>1, <1>2, NoEngineInHand
<1>6. slots' = [slots EXCEPT ![actor[a].slot] = [lock |-> Nobody, engine |-> actor[a].engine]]
  BY <1>1, <1>2, <1>4, <1>5, LockIsSet
<1>7. /\ rows' \in [Projects -> RowRecord]
      /\ \A q \in Projects : rows[q].there => rows'[q] = rows[q]
  BY <1>1, <1>2, <1>4, EnsuredIs
<1>8. /\ ResidenceTypeOK' /\ PlacesAreKept' /\ LocksAreHeld' /\ EnginesAreHeld'
      /\ Engines' \subseteq Engines \cup {NoEngine}
      /\ actor'[a] = Out /\ \A b \in Actors \ {a} : actor'[b] = actor[b]
  BY <1>1, <1>2, <1>3, <1>6, <1>7, LetGoKeeps, Typed
<1>9. \A c \in Callers :
        actor'[c].step = "named" \/ actor[c].step = "committed" => actor'[c] = actor[c]
  <2>1. \A c \in Callers : c \in Actors
    BY Names
  <2> QED BY <1>2, <1>8, <2>1, Names
<1> QED BY <1>2, <1>7, <1>8, <1>9, RestKeeps, Names

LEMMA PurgeGivesUpKeeps ==
  ASSUME ResidenceInv, NEW c \in Callers, PurgeGivesUp(c) \/ PurgeFails(c)
  PROVE  ResidenceInv'
<1>1. ResidenceTypeOK /\ PlacesAreKept /\ LocksAreHeld /\ EnginesAreHeld /\ LoopIsFree
  BY DEF ResidenceInv
<1>2. c \in Actors /\ c # Loop /\ Loop \in Actors
  BY Names
<1>3. /\ actor[c].step \in {"waiting", "deleting", "removed"}
      /\ actor' = [actor EXCEPT ![c] = Out]
      /\ UNCHANGED <<uses, slotOf, rows, cache, naming, tick>>
  BY DEF PurgeGivesUp, PurgeFails
<1>4. Working(c)
  BY <1>3 DEF Working
<1>5. actor[c].slot \in Slots /\ slots[actor[c].slot].engine = NoEngine
  BY <1>1, <1>2, <1>4, HoldersAre
<1>6. slots' = [slots EXCEPT ![actor[c].slot] = [lock |-> Nobody, engine |-> actor[c].engine]]
  <2>1. CASE PurgeGivesUp(c)
    BY <2>1 DEF PurgeGivesUp
  <2>2. CASE PurgeFails(c)
    <3>1. /\ actor[c].step \in {"deleting", "removed"}
          /\ slots' = [slots EXCEPT ![actor[c].slot].lock = Nobody]
      BY <2>2 DEF PurgeFails
    <3>2. actor[c].engine = NoEngine
      BY <1>1, <1>2, <3>1, NoEngineInHand
    <3> QED BY <1>1, <1>5, <3>1, <3>2, LockIsSet
  <2> QED BY <2>1, <2>2
<1>7. /\ ResidenceTypeOK' /\ PlacesAreKept' /\ LocksAreHeld' /\ EnginesAreHeld'
      /\ Engines' \subseteq Engines \cup {NoEngine}
      /\ actor'[c] = Out /\ \A b \in Actors \ {c} : actor'[b] = actor[b]
  BY <1>1, <1>2, <1>3, <1>4, <1>6, LetGoKeeps, Typed
<1>8. \A d \in Callers :
        actor'[d].step = "named" \/ actor[d].step = "committed" => actor'[d] = actor[d]
  <2>1. \A d \in Callers : d \in Actors
    BY Names
  <2> QED BY <1>3, <1>7, <2>1, Names
<1>9. LoopIsFree'
  BY <1>1, <1>2, <1>3, <1>7 DEF LoopIsFree
<1> QED BY <1>3, <1>7, <1>8, <1>9, RestKeeps, Names

LEMMA PurgeForgetKeeps ==
  ASSUME ResidenceInv, NEW c \in Actors, PurgeForget(c)
  PROVE  ResidenceInv'
<1>1. /\ ResidenceTypeOK /\ PlacesAreKept /\ LocksAreHeld /\ EnginesAreHeld /\ LoopIsFree
      /\ OneEngineEach /\ NamesAreTrue /\ CacheIsTrue
  BY DEF ResidenceInv
<1>2. /\ actor[c].step = "committed" /\ naming = Nobody
      /\ cache' = [cache EXCEPT ![actor[c].project] = NoId]
      /\ slots' = [slots EXCEPT ![actor[c].slot].lock = Nobody]
      /\ actor' = [actor EXCEPT ![c] = Out]
      /\ UNCHANGED <<uses, slotOf, rows, naming, tick>>
  BY DEF PurgeForget
<1>3. Working(c)
  BY <1>2 DEF Working
<1>4. actor[c].slot \in Slots /\ slots[actor[c].slot].engine = NoEngine
  BY <1>1, <1>3, HoldersAre
<1>5. PICK p \in Projects : p = actor[c].project
  BY <1>1, <1>3, HoldersAre
<1>6. c \in Callers /\ c # Loop /\ Loop \in Actors
  <2>1. c \in Callers
    BY <1>1, <1>2, <1>3 DEF PlacesAreKept
  <2> QED BY <2>1, Names
<1>7. actor[c].engine = NoEngine
  BY <1>1, <1>2, NoEngineInHand
<1>8. slots' = [slots EXCEPT ![actor[c].slot] = [lock |-> Nobody, engine |-> actor[c].engine]]
  BY <1>1, <1>2, <1>4, <1>7, LockIsSet
<1>9. /\ cache' \in [Projects -> Nat] /\ cache'[p] = NoId
      /\ \A q \in Projects \ {p} : cache'[q] = cache[q]
  BY <1>1, <1>2, <1>5, Typed DEF NoId
<1>10. /\ ResidenceTypeOK' /\ PlacesAreKept' /\ LocksAreHeld' /\ EnginesAreHeld'
       /\ Engines' \subseteq Engines \cup {NoEngine}
       /\ actor'[c] = Out /\ \A b \in Actors \ {c} : actor'[b] = actor[b]
  BY <1>1, <1>2, <1>3, <1>8, <1>9, LetGoKeeps, Typed
<1>11. OneEngineEach'
  BY <1>1, <1>2, <1>10, RowsOfEngines DEF OneEngineEach
<1>12. \A d \in Callers : d \in Actors /\ d # Nobody
  BY Names
<1>13. NamesAreTrue'
  <2>1. \A d \in Callers : actor'[d].step # "named"
    BY <1>1, <1>2, <1>10, <1>12, Names DEF NamesAreTrue
  <2> QED BY <2>1 DEF NamesAreTrue
<1>14. CacheIsTrue'
  <2>1. \A q \in Projects \ {p} : Committed(q) => Committed(q)'
    BY <1>2, <1>5, <1>10, <1>12 DEF Committed
  <2> QED BY <1>1, <1>2, <1>9, <2>1 DEF CacheIsTrue, Committed
<1>15. LoopIsFree'
  BY <1>1, <1>2, <1>6, <1>10 DEF LoopIsFree
<1> QED BY <1>10, <1>11, <1>13, <1>14, <1>15 DEF ResidenceInv

\* A purge that has the slot to itself comes further with it.
LEMMA PurgeHolds ==
  ASSUME ResidenceInv, UNCHANGED <<uses, slotOf, slots, cache, naming, tick>>,
         rows' \in [Projects -> RowRecord],
         NEW c \in Callers, Working(c), actor[c].step # "opening",
         NEW r \in ActorRecord, actor' = [actor EXCEPT ![c] = r],
         r.step \in {"deleting", "removed", "committed"}, r.engine = NoEngine,
         r.slot = actor[c].slot, r.project = actor[c].project, r.kind = actor[c].kind,
         \A b \in Actors \ {c} :
           actor[b].engine # NoEngine => actor[b].engine # actor[c].engine
  PROVE  /\ ResidenceTypeOK' /\ PlacesAreKept' /\ LocksAreHeld' /\ EnginesAreHeld'
         /\ Engines' \subseteq Engines \cup {NoEngine}
         /\ actor'[c] = r /\ \A b \in Actors \ {c} : actor'[b] = actor[b]
         /\ LoopIsFree'
<1>1. ResidenceTypeOK /\ PlacesAreKept /\ LocksAreHeld /\ EnginesAreHeld /\ LoopIsFree
  BY DEF ResidenceInv
<1>2. c \in Actors /\ c # Loop /\ Loop \in Actors
  BY Names
<1>3. /\ actor' \in [Actors -> ActorRecord] /\ actor'[c] = r
      /\ \A b \in Actors \ {c} : actor'[b] = actor[b]
  BY <1>1, <1>2, Becomes
<1>4. ResidenceTypeOK'
  BY <1>1, <1>3, Typed, TypedNext
<1>5. Working(c)'
  BY <1>3 DEF Working
<1>6. r.kind = "purge"
  BY <1>1, <1>2 DEF PlacesAreKept
<1>7. LoopIsFree'
  BY <1>1, <1>2, <1>3 DEF LoopIsFree
<1> QED BY <1>1, <1>2, <1>3, <1>4, <1>5, <1>6, <1>7, HolderKeeps

LEMMA PurgeDeleteKeeps ==
  ASSUME ResidenceInv, NEW c \in Actors, PurgeDelete(c) \/ PurgeRemoveDir(c)
  PROVE  ResidenceInv'
<1>1. ResidenceTypeOK /\ PlacesAreKept /\ LocksAreHeld /\ EnginesAreHeld
  BY DEF ResidenceInv
<1>2. /\ actor[c].step \in {"waiting", "deleting"}
      /\ UNCHANGED <<uses, slotOf, slots, rows, cache, naming, tick>>
  BY DEF PurgeDelete, PurgeRemoveDir, registryVars
<1>3. Working(c) /\ actor[c].step # "opening"
  BY <1>2 DEF Working
<1>4. c \in Callers
  BY <1>1, <1>3 DEF PlacesAreKept
<1>5. actor[c] \in ActorRecord /\ actor[c].project \in Projects
  BY <1>1, <1>3, HoldersAre, Typed
<1>6. \E r \in ActorRecord :
        /\ actor' = [actor EXCEPT ![c] = r]
        /\ r.step \in {"deleting", "removed", "committed"} /\ r.engine = NoEngine
        /\ r.slot = actor[c].slot /\ r.project = actor[c].project /\ r.kind = actor[c].kind
  <2>1. CASE PurgeDelete(c)
    <3>1. PICK n \in Nat : n = IF rows[actor[c].project].there THEN rows[actor[c].project].id
                               ELSE NoId
      <4>1. rows[actor[c].project].id \in Nat
        BY <1>1, <1>5, Typed DEF RowRecord
      <4> QED BY <4>1 DEF NoId
    <3> DEFINE r == [actor[c] EXCEPT !.step = "deleting", !.engine = NoEngine, !.row = n]
    <3>2. actor' = [actor EXCEPT ![c] = r]
      BY <1>1, <2>1, <3>1, Typed DEF PurgeDelete
    <3>3. /\ r \in ActorRecord /\ r.step = "deleting" /\ r.engine = NoEngine
          /\ r.slot = actor[c].slot /\ r.project = actor[c].project /\ r.kind = actor[c].kind
      BY <1>5 DEF ActorRecord, Steps
    <3> HIDE DEF r
    <3> QED BY <3>2, <3>3
  <2>2. CASE PurgeRemoveDir(c)
    <3> DEFINE r == [actor[c] EXCEPT !.step = "removed"]
    <3>1. actor' = [actor EXCEPT ![c] = r] /\ actor[c].step = "deleting"
      BY <2>2 DEF PurgeRemoveDir
    <3>2. actor[c].engine = NoEngine
      BY <1>1, <3>1, NoEngineInHand
    <3>3. /\ r \in ActorRecord /\ r.step = "removed" /\ r.engine = NoEngine
          /\ r.slot = actor[c].slot /\ r.project = actor[c].project /\ r.kind = actor[c].kind
      BY <1>5, <3>2 DEF ActorRecord, Steps
    <3> HIDE DEF r
    <3> QED BY <3>1, <3>3
  <2> QED BY <2>1, <2>2
<1>7. PICK r \in ActorRecord :
        /\ actor' = [actor EXCEPT ![c] = r]
        /\ r.step \in {"deleting", "removed", "committed"} /\ r.engine = NoEngine
        /\ r.slot = actor[c].slot /\ r.project = actor[c].project /\ r.kind = actor[c].kind
  BY <1>6
<1>8. \A b \in Actors \ {c} :
         actor[b].engine # NoEngine => actor[b].engine # actor[c].engine
  <2>1. CASE PurgeDelete(c)
    BY <2>1 DEF PurgeDelete, Inside
  <2>2. CASE PurgeRemoveDir(c)
    <3>1. actor[c].engine = NoEngine
      BY <1>1, <2>2, NoEngineInHand DEF PurgeRemoveDir
    <3> QED BY <3>1
  <2> QED BY <2>1, <2>2
<1>9. /\ ResidenceTypeOK' /\ PlacesAreKept' /\ LocksAreHeld' /\ EnginesAreHeld'
      /\ Engines' \subseteq Engines \cup {NoEngine}
      /\ actor'[c] = r /\ \A b \in Actors \ {c} : actor'[b] = actor[b]
      /\ LoopIsFree'
  <2>1. rows' \in [Projects -> RowRecord]
    BY <1>1, <1>2, Typed
  <2> QED BY <1>2, <1>3, <1>4, <1>7, <1>8, <2>1, PurgeHolds
<1>10. \A d \in Callers :
         actor'[d].step = "named" \/ actor[d].step = "committed" => actor'[d] = actor[d]
  <2>1. \A d \in Callers : d \in Actors
    BY Names
  <2> QED BY <1>2, <1>7, <1>9, <2>1
<1> QED BY <1>2, <1>9, <1>10, RestKeeps, Names

LEMMA PurgeCommitKeeps ==
  ASSUME ResidenceInv, NEW c \in Actors, PurgeCommit(c)
  PROVE  ResidenceInv'
<1>1. /\ ResidenceTypeOK /\ PlacesAreKept /\ LocksAreHeld /\ EnginesAreHeld
      /\ OneEngineEach /\ NamesAreTrue /\ CacheIsTrue
  BY DEF ResidenceInv
<1>2. /\ actor[c].step = "removed"
      /\ rows' = IF actor[c].row = NoId THEN rows
                 ELSE [rows EXCEPT ![actor[c].project] =
                         [there |-> FALSE, id |-> @.id, owed |-> 0]]
      /\ actor' = [actor EXCEPT ![c].step = "committed"]
      /\ UNCHANGED <<uses, slotOf, slots, cache, naming, tick>>
  BY DEF PurgeCommit, registryVars
<1>3. Working(c) /\ actor[c].step # "opening"
  BY <1>2 DEF Working
<1>4. c \in Callers
  BY <1>1, <1>3 DEF PlacesAreKept
<1>5. PICK p \in Projects : p = actor[c].project
  BY <1>1, <1>3, HoldersAre
<1>6. actor[c] \in ActorRecord /\ actor[c].engine = NoEngine /\ EngineOf(p) = NoEngine
  BY <1>1, <1>2, <1>3, <1>5, HoldersAre, NoEngineInHand, Typed
<1>7. rows' \in [Projects -> RowRecord] /\ \A q \in Projects \ {p} : rows'[q] = rows[q]
  <2> DEFINE r == [there |-> FALSE, id |-> rows[p].id, owed |-> 0]
  <2>1. rows' = rows \/ rows' = [rows EXCEPT ![p] = r]
    BY <1>2, <1>5
  <2>3. rows \in [Projects -> RowRecord] /\ rows[p] \in RowRecord
    BY <1>1, Typed
  <2>2. rows \in [Projects -> RowRecord] /\ r \in RowRecord
    BY <2>3 DEF RowRecord
  <2> HIDE DEF r
  <2> QED BY <2>1, <2>2
<1> DEFINE r == [actor[c] EXCEPT !.step = "committed"]
<1>8. actor' = [actor EXCEPT ![c] = r]
  BY <1>2
<1>9. /\ r \in ActorRecord /\ r.step = "committed" /\ r.engine = NoEngine
      /\ r.slot = actor[c].slot /\ r.project = actor[c].project /\ r.kind = actor[c].kind
  BY <1>6 DEF ActorRecord, Steps
<1> HIDE DEF r
<1>10. /\ ResidenceTypeOK' /\ PlacesAreKept' /\ LocksAreHeld' /\ EnginesAreHeld'
       /\ Engines' \subseteq Engines \cup {NoEngine}
       /\ actor'[c] = r /\ \A b \in Actors \ {c} : actor'[b] = actor[b]
       /\ LoopIsFree'
  <2>1. \A b \in Actors \ {c} :
           actor[b].engine # NoEngine => actor[b].engine # actor[c].engine
    BY <1>6
  <2> QED BY <1>2, <1>3, <1>4, <1>7, <1>8, <1>9, <2>1, PurgeHolds
<1>11. \A d \in Callers : d \in Actors
  BY Names
<1>12. Committed(p)' /\ \A q \in Projects : Committed(q) => Committed(q)'
  BY <1>2, <1>4, <1>5, <1>9, <1>10, <1>11 DEF Committed
\* Nobody has an engine of the project that is gone.
<1>13. OneEngineEach'
  <2>1. \A e \in Engine :
          e \in Engines => rows'[e.project].there /\ rows'[e.project].id = rows[e.project].id
    <3> SUFFICES ASSUME NEW e \in Engine, e \in Engines
                 PROVE  rows'[e.project].there /\ rows'[e.project].id = rows[e.project].id
      OBVIOUS
    <3>1. e # NoEngine /\ e \in Engines \ {NoEngine} /\ e.project \in Projects
      BY Names DEF Engine
    <3>2. EngineOf(e.project) = e
      BY <1>1, <3>1, EnginesAre
    <3>3. e.project # p
      BY <1>6, <3>1, <3>2
    <3> QED BY <1>1, <1>7, <3>1, <3>3 DEF OneEngineEach
  <2> QED BY <1>1, <1>10, <2>1, RowsOfEngines
<1>14. CacheIsTrue'
  <2>1. \A q \in Projects : cache[q] # NoId =>
          (rows[q].there /\ rows[q].id = cache[q]) \/ Committed(q)
    BY <1>1 DEF CacheIsTrue, Committed
  <2>2. \A q \in Projects : cache'[q] # NoId =>
          (rows'[q].there /\ rows'[q].id = cache'[q]) \/ Committed(q)'
    BY <1>2, <1>7, <1>12, <2>1
  <2> QED BY <2>2 DEF CacheIsTrue, Committed
<1>15. NamesAreTrue'
  <2>1. ASSUME NEW d \in Callers, actor'[d].step = "named"
        PROVE  /\ naming' = d
               /\ (rows'[actor'[d].project].there /\ rows'[actor'[d].project].id = actor'[d].row)
                    \/ Committed(actor[d].project)'
    <3>1. actor'[d] = actor[d]
      BY <1>9, <1>10, <1>11, <2>1
    <3>2. PICK q \in Projects : q = actor[d].project
      BY <1>1, <1>11, <2>1, <3>1, Names DEF PlacesAreKept
    <3>3. naming = d /\ ((rows[q].there /\ rows[q].id = actor[d].row) \/ Committed(q))
      BY <1>1, <2>1, <3>1, <3>2 DEF NamesAreTrue
    <3>4. (rows'[q].there /\ rows'[q].id = actor'[d].row) \/ Committed(q)'
      BY <1>7, <1>12, <3>1, <3>3
    <3> QED BY <1>2, <3>1, <3>2, <3>3, <3>4 DEF Committed
  <2> QED BY <1>10, <2>1, <1>11, Names DEF NamesAreTrue, Committed
<1> QED BY <1>10, <1>13, <1>14, <1>15 DEF ResidenceInv

LEMMA SlotTyped ==
  ASSUME ResidenceTypeOK, NEW s \in Slots, NEW l \in Actors \cup {Nobody},
         NEW e \in Engine \cup {NoEngine},
         slots' = [slots EXCEPT ![s] = [lock |-> l, engine |-> e]]
  PROVE  slots' \in [Slots -> SlotRecord]
<1>1. [lock |-> l, engine |-> e] \in SlotRecord
  BY DEF SlotRecord
<1> QED BY <1>1, Typed

LEMMA WaiterIs ==
  ASSUME ResidenceTypeOK, PlacesAreKept, EnginesAreHeld, NEW a \in Actors, actor[a].step = "slot"
  PROVE  /\ actor[a] \in ActorRecord /\ actor[a].slot \in Slots /\ actor[a].engine = NoEngine
         /\ slots[actor[a].slot] \in SlotRecord
         /\ slots[actor[a].slot].engine \in Engine \cup {NoEngine}
<1>1. Waits(a)
  BY DEF Waits
<1>2. actor[a].slot # NoSlot
  BY <1>1 DEF PlacesAreKept
<1>3. actor[a] \in ActorRecord /\ actor[a].slot \in Slots
  BY <1>2, Typed DEF ActorRecord
<1>4. slots[actor[a].slot] \in SlotRecord
  BY <1>3, Typed
<1> QED BY <1>3, <1>4, NoEngineInHand DEF SlotRecord

LEMMA EnterKeeps ==
  ASSUME ResidenceInv, NEW a \in Actors, Enter(a)
  PROVE  ResidenceInv'
<1>1. ResidenceTypeOK /\ PlacesAreKept /\ LocksAreHeld /\ EnginesAreHeld /\ LoopIsFree
  BY DEF ResidenceInv
<1>2. /\ actor[a].step = "slot" /\ slots[actor[a].slot].lock = Nobody
      /\ UNCHANGED <<uses, slotOf, rows, cache, naming, tick>>
  BY DEF Enter
<1>3. PICK s \in Slots : s = actor[a].slot
  BY <1>1, <1>2, WaiterIs
<1>4. /\ actor[a] \in ActorRecord /\ actor[a].engine = NoEngine /\ slots[s].lock = Nobody
      /\ slots[s].engine \in Engine \cup {NoEngine}
  BY <1>1, <1>2, <1>3, WaiterIs
<1>5. \A d \in Callers : d \in Actors
  BY Names
<1>6. CASE slots[s].engine # NoEngine
  <2> DEFINE r == [actor[a] EXCEPT !.step = "using", !.slot = NoSlot,
                                   !.engine = slots[s].engine]
  <2>1. actor' = [actor EXCEPT ![a] = r] /\ slots' = slots
    <3>1. actor' = [actor EXCEPT ![a].step = "using", ![a].slot = NoSlot,
                                 ![a].engine = slots[actor[a].slot].engine] /\ slots' = slots
      BY <1>3, <1>6 DEF Enter
    <3>2. actor \in [Actors -> ActorRecord]
      BY <1>1, Typed
    <3> QED BY <1>3, <3>1, <3>2
  <2>2. /\ r \in ActorRecord /\ r.step = "using" /\ r.slot = NoSlot
        /\ r.engine = slots[s].engine /\ r.project = actor[a].project /\ r.kind = actor[a].kind
    BY <1>4 DEF ActorRecord, Steps
  <2> HIDE DEF r
  <2>3. /\ actor' \in [Actors -> ActorRecord] /\ actor'[a] = r
        /\ \A b \in Actors \ {a} : actor'[b] = actor[b]
    BY <1>1, <2>1, <2>2, Becomes
  <2>4. ResidenceTypeOK'
    BY <1>1, <1>2, <2>1, <2>3, Typed, TypedNext
  <2>5. /\ PlacesAreKept' /\ LocksAreHeld' /\ EnginesAreHeld'
        /\ Engines' \subseteq Engines \cup {NoEngine}
    BY <1>1, <1>2, <1>3, <2>1, <2>2, <2>3, <2>4, TakeKeeps
  <2>6. \A d \in Callers :
          actor'[d].step = "named" \/ actor[d].step = "committed" => actor'[d] = actor[d]
    BY <1>2, <1>5, <2>2, <2>3
  <2>7. LoopIsFree'
    BY <1>1, <1>2, <2>2, <2>3, Names DEF LoopIsFree
  <2> QED BY <1>2, <2>4, <2>5, <2>6, <2>7, RestKeeps, Names
<1>7. CASE slots[s].engine = NoEngine
  <2> DEFINE r == [actor[a] EXCEPT !.step = "opening"]
  <2>1. actor' = [actor EXCEPT ![a] = r]
        /\ slots' = [slots EXCEPT ![s].lock = a]
    BY <1>3, <1>7 DEF Enter
  <2>2. /\ r \in ActorRecord /\ r.step = "opening" /\ r.slot = actor[a].slot
        /\ r.engine = slots[s].engine /\ r.project = actor[a].project /\ r.kind = actor[a].kind
    BY <1>4, <1>7 DEF ActorRecord, Steps
  <2> HIDE DEF r
  <2>3. /\ actor' \in [Actors -> ActorRecord] /\ actor'[a] = r
        /\ \A b \in Actors \ {a} : actor'[b] = actor[b]
    BY <1>1, <2>1, <2>2, Becomes
  <2>4. slots' = [slots EXCEPT ![s] = [lock |-> a, engine |-> NoEngine]]
    BY <1>1, <1>7, <2>1, LockIsSet
  <2>5. ResidenceTypeOK'
    <3>1. slots' \in [Slots -> SlotRecord]
      BY <1>1, <2>4, SlotTyped
    <3> QED BY <1>1, <1>2, <2>3, <3>1, Typed, TypedNext
  <2>6. /\ PlacesAreKept' /\ LocksAreHeld' /\ EnginesAreHeld'
        /\ Engines' \subseteq Engines \cup {NoEngine}
    BY <1>1, <1>2, <1>3, <1>7, <2>2, <2>3, <2>4, <2>5, AcquireKeeps
  <2>7. \A d \in Callers :
          actor'[d].step = "named" \/ actor[d].step = "committed" => actor'[d] = actor[d]
    BY <1>2, <1>5, <2>2, <2>3
  <2>8. LoopIsFree'
    BY <1>1, <1>2, <2>2, <2>3, Names DEF LoopIsFree
  <2> QED BY <1>2, <2>5, <2>6, <2>7, <2>8, RestKeeps, Names
<1> QED BY <1>6, <1>7

LEMMA PurgeEnterKeeps ==
  ASSUME ResidenceInv, NEW c \in Actors, PurgeEnter(c)
  PROVE  ResidenceInv'
<1>1. ResidenceTypeOK /\ PlacesAreKept /\ LocksAreHeld /\ EnginesAreHeld /\ LoopIsFree
  BY DEF ResidenceInv
<1>2. /\ actor[c].step = "slot" /\ actor[c].kind = "purge"
      /\ slots[actor[c].slot].lock = Nobody
      /\ slots' = [slots EXCEPT ![actor[c].slot] = [lock |-> c, engine |-> NoEngine]]
      /\ actor' = [actor EXCEPT ![c].step = "waiting",
                                ![c].engine = slots[actor[c].slot].engine]
      /\ UNCHANGED <<uses, slotOf, rows, cache, naming, tick>>
  BY DEF PurgeEnter
<1>3. PICK s \in Slots : s = actor[c].slot
  BY <1>1, <1>2, WaiterIs
<1>4. /\ actor[c] \in ActorRecord /\ slots[s].engine \in Engine \cup {NoEngine}
  BY <1>1, <1>2, <1>3, WaiterIs
<1>5. \A d \in Callers : d \in Actors
  BY Names
<1> DEFINE r == [actor[c] EXCEPT !.step = "waiting", !.engine = slots[s].engine]
<1>6. actor' = [actor EXCEPT ![c] = r]
  <2>1. actor \in [Actors -> ActorRecord]
    BY <1>1, Typed
  <2> QED BY <1>2, <1>3, <2>1
<1>7. /\ r \in ActorRecord /\ r.step = "waiting" /\ r.slot = actor[c].slot
      /\ r.engine = slots[s].engine /\ r.project = actor[c].project /\ r.kind = actor[c].kind
  BY <1>4 DEF ActorRecord, Steps
<1> HIDE DEF r
<1>8. /\ actor' \in [Actors -> ActorRecord] /\ actor'[c] = r
      /\ \A b \in Actors \ {c} : actor'[b] = actor[b]
  BY <1>1, <1>6, <1>7, Becomes
<1>9. ResidenceTypeOK'
  <2>1. slots' \in [Slots -> SlotRecord]
    BY <1>1, <1>2, <1>3, SlotTyped
  <2> QED BY <1>1, <1>2, <1>8, <2>1, Typed, TypedNext
<1>10. /\ PlacesAreKept' /\ LocksAreHeld' /\ EnginesAreHeld'
       /\ Engines' \subseteq Engines \cup {NoEngine}
  BY <1>1, <1>2, <1>3, <1>7, <1>8, <1>9, AcquireKeeps
<1>11. \A d \in Callers :
         actor'[d].step = "named" \/ actor[d].step = "committed" => actor'[d] = actor[d]
  BY <1>2, <1>5, <1>7, <1>8
<1>12. LoopIsFree'
  BY <1>1, <1>2, <1>7, <1>8, Names DEF LoopIsFree
<1> QED BY <1>2, <1>9, <1>10, <1>11, <1>12, RestKeeps, Names

\* There is a number no engine has: those that are alive are of different projects.
LEMMA FreshId ==
  ASSUME ResidenceTypeOK, PlacesAreKept, LocksAreHeld, EnginesAreHeld, OneEngineEach,
         NEW p \in Projects, EngineOf(p) = NoEngine
  PROVE  /\ (1 .. Cardinality(Actors)) \ {e.id : e \in Engines} # {}
         /\ (1 .. Cardinality(Actors)) \ {e.id : e \in Engines} \in SUBSET Nat
<1>1. IsFiniteSet(Actors) /\ Cardinality(Actors) \in Nat
  <2>1. IsFiniteSet(Callers \cup Projects) /\ IsFiniteSet({Loop})
    BY ResidenceAssumption, FS_Union, FS_Singleton
  <2> QED BY <2>1, FS_Union, FS_CardinalityType DEF Actors
<1> DEFINE N == Cardinality(Actors)
           T == Projects \ {p}
<1>2. IsFiniteSet(T) /\ Cardinality(T) \in Nat /\ Cardinality(T) < N
  <2>1. T \in SUBSET Actors /\ T # Actors
    BY Names
  <2>2. IsFiniteSet(T) /\ Cardinality(T) <= N /\ Cardinality(T) # N
    BY <1>1, <2>1, FS_Subset
  <2>3. Cardinality(T) \in Nat
    BY <2>2, FS_CardinalityType
  <2> QED BY <1>1, <2>2, <2>3
<1>3. SUFFICES ASSUME (1 .. N) \subseteq {e.id : e \in Engines} PROVE FALSE
  BY <1>1
<1> DEFINE f == [i \in 1 .. N |-> (CHOOSE e \in Engines : e.id = i).project]
<1>4. ASSUME NEW i \in 1 .. N
      PROVE  \E e \in Engines \ {NoEngine} : e.id = i /\ f[i] = e.project /\ e.project \in T
  <2>1. \E e \in Engines : e.id = i
    BY <1>3
  <2>2. PICK e \in Engines : e.id = i /\ e = CHOOSE d \in Engines : d.id = i
    BY <2>1
  <2>3. e # NoEngine
    BY <1>1, <2>2 DEF NoEngine
  <2>4. e.project \in Projects /\ EngineOf(e.project) = e
    BY <2>3, EnginesAre
  <2> QED BY <2>2, <2>3, <2>4
<1>5. f \in [1 .. N -> T]
  BY <1>4
<1>6. IsFiniteSet(1 .. N) /\ Cardinality(1 .. N) = N
  BY <1>1, FS_Interval
<1>7. PICK i \in 1 .. N, j \in 1 .. N : i # j /\ f[i] = f[j]
  <2> HIDE DEF f, N, T
  <2> QED BY <1>2, <1>5, <1>6, FS_PigeonHole
<1> HIDE DEF f
<1> QED BY <1>4, <1>7 DEF OneEngineEach

LEMMA OpensKeeps ==
  ASSUME ResidenceInv, NEW a \in Actors, Opens(a)
  PROVE  ResidenceInv'
<1>1. /\ ResidenceTypeOK /\ PlacesAreKept /\ LocksAreHeld /\ EnginesAreHeld /\ LoopIsFree
      /\ OneEngineEach
  BY DEF ResidenceInv
<1> DEFINE p == actor[a].project
           fresh == (1 .. Cardinality(Actors)) \ {e.id : e \in Engines}
           opened == [id |-> Min(fresh), project |-> p, row |-> rows'[p].id]
<1>2. /\ actor[a].step = "opening" /\ rows' = Ensured(p)
      /\ slots' = [slots EXCEPT ![actor[a].slot] = [lock |-> Nobody, engine |-> opened]]
      /\ actor' = [actor EXCEPT ![a].step = "using", ![a].slot = NoSlot,
                                ![a].engine = opened]
      /\ UNCHANGED <<uses, slotOf, cache, naming, tick>>
  BY Zenon DEF Opens
<1>3. Working(a)
  BY <1>2 DEF Working
<1>4. /\ p \in Projects /\ actor[a].slot \in Slots /\ actor[a] \in ActorRecord
      /\ actor[a].engine = NoEngine /\ EngineOf(p) = NoEngine
  BY <1>1, <1>2, <1>3, HoldersAre, NoEngineInHand, Typed
<1>5. /\ rows' \in [Projects -> RowRecord] /\ rows'[p].there
      /\ \A q \in Projects : rows[q].there => rows'[q] = rows[q]
  BY <1>1, <1>2, <1>4, EnsuredIs
<1>6. opened \in Engine /\ opened.project = p /\ opened.row = rows'[p].id
  <2>1. Min(fresh) \in 1 .. Cardinality(Actors)
    <3>1. fresh # {} /\ fresh \in SUBSET Nat
      BY <1>1, <1>4, FreshId
    <3> QED BY <3>1, MinIsOne
  <2>2. rows'[p].id \in Nat
    BY <1>4, <1>5 DEF RowRecord
  <2> QED BY <1>4, <2>1, <2>2 DEF Engine
<1>7. PICK e \in Engine : e = opened
  BY <1>6
<1> DEFINE r == [actor[a] EXCEPT !.step = "using", !.slot = NoSlot, !.engine = e]
<1>8. actor' = [actor EXCEPT ![a] = r]
  <2>1. actor \in [Actors -> ActorRecord]
    BY <1>1, Typed
  <2> HIDE DEF opened
  <2> QED BY <1>2, <1>7, <2>1
<1>9. /\ r \in ActorRecord /\ r.step = "using" /\ r.slot = NoSlot
      /\ r.engine = e /\ r.project = p /\ r.kind = actor[a].kind
  BY <1>4 DEF ActorRecord, Steps
<1>10. /\ slots' = [slots EXCEPT ![actor[a].slot] = [lock |-> Nobody, engine |-> e]]
       /\ e.project = p /\ e.row = rows'[p].id /\ e # NoEngine
  BY <1>2, <1>6, <1>7, Names
<1> HIDE DEF r, opened
<1>11. /\ actor' \in [Actors -> ActorRecord] /\ actor'[a] = r
       /\ \A b \in Actors \ {a} : actor'[b] = actor[b]
  BY <1>1, <1>8, <1>9, Becomes
<1>12. ResidenceTypeOK'
  <2>1. slots' \in [Slots -> SlotRecord]
    BY <1>1, <1>4, <1>10, SlotTyped
  <2> QED BY <1>1, <1>2, <1>5, <1>11, <2>1, Typed, TypedNext
<1>13. ~Waits(a)'
  BY <1>9, <1>11 DEF Waits, Working
<1>14. /\ PlacesAreKept' /\ LocksAreHeld' /\ EnginesAreHeld'
       /\ Engines' \subseteq Engines \cup {NoEngine, e}
  <2>1. actor'[a].kind # "use" => a \in Callers
    BY <1>1, <1>9, <1>11 DEF PlacesAreKept
  <2>2. /\ actor'[a].step = "using" /\ actor'[a].slot = NoSlot /\ actor'[a].engine = e
        /\ actor'[a].project = actor[a].project
    BY <1>9, <1>11
  <2> QED BY <1>1, <1>2, <1>3, <1>4, <1>10, <1>11, <1>12, <1>13, <2>1, <2>2, ReleaseKeeps
<1>15. \A d \in Callers :
         actor'[d].step = "named" \/ actor[d].step = "committed" => actor'[d] = actor[d]
  <2>1. \A d \in Callers : d \in Actors
    BY Names
  <2> QED BY <1>2, <1>9, <1>11, <2>1
<1>16. LoopIsFree'
  BY <1>1, <1>2, <1>9, <1>11, Names DEF LoopIsFree
<1>17. \A f \in Engine : f \in Engines' =>
         \/ f \in Engines
         \/ rows'[f.project].there /\ rows'[f.project].id = f.row
  BY <1>5, <1>10, <1>14, Names
<1> QED BY <1>2, <1>5, <1>12, <1>14, <1>15, <1>16, <1>17, RestKeeps

-----------------------------------------------------------------------------
(* Whoever asks for a place.                                                  *)

LEMMA UsedIs ==
  ASSUME NEW order \in Seq(Projects), NEW p \in Projects
  PROVE  Used(p, order) \in Seq(Projects) /\ ToSet(Used(p, order)) = ToSet(order) \cup {p}
<1> DEFINE rest == Only(order, Projects \ {p})
<1>1. rest \in Seq(Projects) /\ ToSet(rest) = ToSet(order) \cap (Projects \ {p})
  BY OnlyThose
<1>2. ToSet(order) \subseteq Projects
  BY ElementOfSeq, LenProperties DEF ToSet
<1> HIDE DEF rest
<1>3. rest \o <<p>> = Append(rest, p)
  BY <1>1
<1>4. Append(rest, p) \in Seq(Projects) /\ ToSet(Append(rest, p)) = ToSet(rest) \cup {p}
  BY <1>1, Appended
<1>5. Used(p, order) = rest \o <<p>>
  BY DEF Used, rest
<1> QED BY <1>1, <1>2, <1>3, <1>4, <1>5

LEMMA RoomIsUnused ==
  ASSUME ResidenceTypeOK, NEW q \in MakeRoom
  PROVE  q \in Projects /\ IsOpenFor(q) /\ IsUnused(q)
<1> DEFINE free == {p \in ToSet(uses) : IsUnused(p)}
           unused == Only(uses, free)
<1>1. uses \in Seq(Projects)
  BY Typed
<1>2. unused \in Seq(Projects) /\ ToSet(unused) = ToSet(uses) \cap free
  BY <1>1, OnlyThose
<1>3. q \in ToSet(unused)
  BY DEF MakeRoom, ToSet
<1>4. ToSet(unused) \subseteq Projects
  BY <1>2, ElementOfSeq, LenProperties DEF ToSet
<1> QED BY <1>2, <1>3, <1>4 DEF IsOpenFor

\* There are more slots than projects, so one is nobody's.
LEMMA FreeSlot ==
  ASSUME ResidenceTypeOK, PlacesAreKept
  PROVE  \E s \in Slots : InSlot(s) = {} /\ \A q \in Projects : slotOf[q] # s
<1>1. SUFFICES ASSUME \A s \in Slots : InSlot(s) # {} \/ \E q \in Projects : slotOf[q] = s
               PROVE  FALSE
  OBVIOUS
<1>2. \A s \in Slots : \E q \in Projects : slotOf[q] = s
  <2> SUFFICES ASSUME NEW s \in Slots, InSlot(s) # {} PROVE \E q \in Projects : slotOf[q] = s
    BY <1>1
  <2>1. PICK a \in Actors : actor[a].slot = s
    BY DEF InSlot
  <2>2. Waits(a)
    BY <2>1, Names DEF PlacesAreKept
  <2>3. actor[a].project \in Projects /\ slotOf[actor[a].project] = s
    BY <2>1, <2>2 DEF PlacesAreKept, Waits, Working
  <2> QED BY <2>3
<1> DEFINE f == [s \in Slots |-> CHOOSE q \in Projects : slotOf[q] = s]
<1>3. \A s \in Slots : f[s] \in Projects /\ slotOf[f[s]] = s
  BY <1>2
<1>4. f \in [Slots -> Projects]
  BY <1>3
<1>5. /\ IsFiniteSet(Slots) /\ IsFiniteSet(Projects)
      /\ Cardinality(Projects) < Cardinality(Slots)
  <2>1. Cardinality(Projects) \in Nat
    BY Names
  <2>2. IsFiniteSet(Slots) /\ Cardinality(Slots) = Cardinality(Projects) + 1
    BY <2>1, FS_Interval DEF Slots
  <2> QED BY <2>1, <2>2, ResidenceAssumption
<1> HIDE DEF f
<1>6. PICK s \in Slots, t \in Slots : s # t /\ f[s] = f[t]
  BY <1>4, <1>5, FS_PigeonHole
<1> QED BY <1>3, <1>6

\* What is left of the places once some of them are taken away.
LEMMA WithoutIs ==
  ASSUME ResidenceTypeOK, NEW closing \in SUBSET Projects
  PROVE  /\ Without(closing).uses \in Seq(Projects)
         /\ ToSet(Without(closing).uses) = ToSet(uses) \ closing
         /\ Without(closing).slotOf \in [Projects -> Slots \cup {NoSlot}]
         /\ \A q \in Projects :
              Without(closing).slotOf[q] = IF q \in closing THEN NoSlot ELSE slotOf[q]
         /\ Without(closing).slots \in [Slots -> SlotRecord]
         /\ \A s \in Slots :
              Without(closing).slots[s] = IF \E q \in closing : slotOf[q] = s THEN EmptySlot
                                          ELSE slots[s]
<1>1. /\ uses \in Seq(Projects) /\ slotOf \in [Projects -> Slots \cup {NoSlot}]
      /\ slots \in [Slots -> SlotRecord]
  BY Typed
<1>2. /\ Without(closing).uses = Only(uses, Projects \ closing)
      /\ Without(closing).slotOf =
           [q \in Projects |-> IF q \in closing THEN NoSlot ELSE slotOf[q]]
      /\ Without(closing).slots =
           [s \in Slots |-> IF \E q \in closing : slotOf[q] = s THEN EmptySlot ELSE slots[s]]
  BY DEF Without
<1>3. /\ Only(uses, Projects \ closing) \in Seq(Projects)
      /\ ToSet(Only(uses, Projects \ closing)) = ToSet(uses) \cap (Projects \ closing)
  BY <1>1, OnlyThose
<1>4. ToSet(uses) \subseteq Projects
  BY <1>1, ElementOfSeq, LenProperties DEF ToSet
<1>5. ToSet(uses) \cap (Projects \ closing) = ToSet(uses) \ closing
  BY <1>4
<1>6. /\ Without(closing).uses \in Seq(Projects)
      /\ ToSet(Without(closing).uses) = ToSet(uses) \ closing
  BY <1>2, <1>3, <1>5
<1>7. /\ Without(closing).slotOf \in [Projects -> Slots \cup {NoSlot}]
      /\ \A q \in Projects :
           Without(closing).slotOf[q] = IF q \in closing THEN NoSlot ELSE slotOf[q]
  BY <1>1, <1>2
<1>8. /\ Without(closing).slots \in [Slots -> SlotRecord]
      /\ \A s \in Slots :
           Without(closing).slots[s] = IF \E q \in closing : slotOf[q] = s THEN EmptySlot
                                       ELSE slots[s]
  BY <1>1, <1>2, Names
<1> QED BY <1>6, <1>7, <1>8

LEMMA SlotKeeps ==
  ASSUME ResidenceInv, NEW a \in Actors, Slot(a)
  PROVE  ResidenceInv'
<1>1. /\ ResidenceTypeOK /\ PlacesAreKept /\ LocksAreHeld /\ EnginesAreHeld /\ LoopIsFree
  BY DEF ResidenceInv
<1>2. actor[a].step = "asked" /\ UNCHANGED <<rows, cache, naming, tick>>
  BY Zenon DEF Slot
<1>3. PICK p \in Projects : p = actor[a].project
  BY <1>1, <1>2 DEF PlacesAreKept
<1>4. PICK closing \in SUBSET Projects :
        /\ closing = IF IsOpenFor(p) THEN {} ELSE MakeRoom
        /\ p \notin closing /\ \A q \in closing : IsOpenFor(q) /\ IsUnused(q)
  <2>1. \A q \in MakeRoom : q \in Projects /\ IsOpenFor(q) /\ IsUnused(q)
    BY <1>1, RoomIsUnused
  <2> DEFINE some == IF IsOpenFor(p) THEN {} ELSE MakeRoom
  <2>2. some \in SUBSET Projects /\ p \notin some
        /\ \A q \in some : IsOpenFor(q) /\ IsUnused(q)
    BY <2>1
  <2> HIDE DEF some
  <2>3. some = IF IsOpenFor(p) THEN {} ELSE MakeRoom
    BY DEF some
  <2> QED BY <2>2, <2>3
<1> DEFINE kept == Without(closing)
           free == {s \in Slots : InSlot(s) = {} /\ \A q \in Projects : kept.slotOf[q] # s}
           slot == IF IsOpenFor(p) THEN slotOf[p] ELSE Min(free)
<1>5. /\ uses' = Used(p, kept.uses) /\ slotOf' = [kept.slotOf EXCEPT ![p] = slot]
      /\ slots' = kept.slots
      /\ actor' = [actor EXCEPT ![a].step = "slot", ![a].slot = slot]
  BY <1>3, <1>4, Zenon DEF Slot
<1>6. /\ kept.uses \in Seq(Projects) /\ ToSet(kept.uses) = ToSet(uses) \ closing
      /\ kept.slotOf \in [Projects -> Slots \cup {NoSlot}]
      /\ \A q \in Projects :
           kept.slotOf[q] = IF q \in closing THEN NoSlot ELSE slotOf[q]
      /\ kept.slots \in [Slots -> SlotRecord]
      /\ \A s \in Slots :
           kept.slots[s] = IF \E q \in closing : slotOf[q] = s THEN EmptySlot ELSE slots[s]
  BY <1>1, WithoutIs
<1> HIDE DEF kept
<1>7. ~IsOpenFor(p) => Min(free) \in free
  <2>1. \E s \in Slots : InSlot(s) = {} /\ \A q \in Projects : slotOf[q] # s
    BY <1>1, FreeSlot
  <2>3. PICK s \in Slots : InSlot(s) = {} /\ \A q \in Projects : slotOf[q] # s
    BY <2>1
  <2>4. \A q \in Projects : kept.slotOf[q] # s
    BY <1>6, <2>3, Names
  <2>5. s \in free
    BY <2>3, <2>4
  <2>2. free # {} /\ free \in SUBSET Nat
    BY <2>5, Names
  <2> QED BY <2>2, MinIsOne
<1>8. PICK t \in Slots : t = slot
  <2>1. IsOpenFor(p) => slotOf[p] \in Slots
    BY <1>1, Typed DEF PlacesAreKept
  <2> QED BY <1>7, <2>1
<1>9. \A q \in Projects \ {p} : kept.slotOf[q] # t
  <2>1. CASE IsOpenFor(p)
    <3> SUFFICES ASSUME NEW q \in Projects \ {p}, kept.slotOf[q] = t PROVE FALSE
      OBVIOUS
    <3>1. slotOf[p] = t /\ slotOf[q] = t
      BY <1>4, <1>6, <1>8, <2>1
    <3> QED BY <1>1, <3>1, SamePlace
  <2>2. CASE ~IsOpenFor(p)
    BY <1>7, <1>8, <2>2
  <2> QED BY <2>1, <2>2
<1>10. IsOpenFor(p) => slotOf[p] = t
  BY <1>8
<1> HIDE DEF slot
<1>11. /\ slotOf' \in [Projects -> Slots \cup {NoSlot}]
       /\ \A q \in Projects :
            slotOf'[q] = IF q \in closing THEN NoSlot ELSE IF q = p THEN t ELSE slotOf[q]
  BY <1>4, <1>5, <1>6, <1>8
<1>12. /\ uses' \in Seq(Projects) /\ ToSet(uses') = (ToSet(uses) \ closing) \cup ({p} \ {0})
  <2>1. uses' \in Seq(Projects) /\ ToSet(uses') = ToSet(kept.uses) \cup {p}
    BY <1>5, <1>6, UsedIs
  <2> QED BY <1>6, <2>1, Names
<1> DEFINE r == [actor[a] EXCEPT !.step = "slot", !.slot = t]
<1>13. actor[a] \in ActorRecord
  BY <1>1, Typed
<1>14. actor' = [actor EXCEPT ![a] = r]
  <2>1. actor \in [Actors -> ActorRecord]
    BY <1>1, Typed
  <2> QED BY <1>5, <1>8, <2>1
<1>15. /\ r \in ActorRecord /\ r.step = "slot" /\ r.slot = t
       /\ r.project = p /\ r.kind = actor[a].kind /\ r.engine = actor[a].engine
  BY <1>3, <1>13 DEF ActorRecord, Steps
<1> HIDE DEF r
<1>16. /\ actor' \in [Actors -> ActorRecord] /\ actor'[a] = r
       /\ \A b \in Actors \ {a} : actor'[b] = actor[b]
  BY <1>1, <1>14, <1>15, Becomes
<1>17. ResidenceTypeOK'
  BY <1>1, <1>2, <1>5, <1>6, <1>11, <1>12, <1>16, Typed, TypedNext
<1>18. /\ PlacesAreKept' /\ LocksAreHeld' /\ EnginesAreHeld'
       /\ Engines' \subseteq Engines \cup {NoEngine}
  <2>1. p \in Projects \cup {0}
    OBVIOUS
  <2>2. \A q \in Projects \ {p} : slotOf'[q] # t
    BY <1>6, <1>9, <1>11
  <2>3. \A s \in Slots : slots'[s] = IF \E q \in closing : slotOf[q] = s THEN EmptySlot
                                     ELSE slots[s]
    BY <1>5, <1>6
  <2>4. /\ actor[a].step = "asked" /\ actor'[a].step = "slot"
        /\ p = actor[a].project /\ p \in Projects /\ actor'[a].project = p
        /\ actor'[a].slot = t
        /\ actor'[a].kind = actor[a].kind /\ actor'[a].engine = actor[a].engine
    BY <1>2, <1>3, <1>15, <1>16
  <2>5. AsksFor(a, p, t)
    BY <2>4 DEF AsksFor
  <2>6. Placing(closing, p, t, a)
    BY <1>4, <1>10, <1>11, <1>12, <1>16, <2>2, <2>3, <2>5 DEF Placing
  <2> QED BY <1>1, <1>17, <2>1, <2>6, PlacedKeeps
<1>19. \A d \in Callers :
         actor'[d].step = "named" \/ actor[d].step = "committed" => actor'[d] = actor[d]
  <2>1. \A d \in Callers : d \in Actors
    BY Names
  <2> QED BY <1>2, <1>15, <1>16, <2>1
<1>20. LoopIsFree'
  BY <1>1, <1>2, <1>15, <1>16, Names DEF LoopIsFree
<1> QED BY <1>2, <1>17, <1>18, <1>19, <1>20, RestKeeps, Names

LEMMA SweepKeeps ==
  ASSUME ResidenceInv, Sweep
  PROVE  ResidenceInv'
<1>1. /\ ResidenceTypeOK /\ PlacesAreKept /\ LocksAreHeld /\ EnginesAreHeld /\ LoopIsFree
  BY DEF ResidenceInv
<1>2. PICK closing \in SUBSET Projects :
        /\ \A q \in closing : IsOpenFor(q) /\ IsUnused(q)
        /\ uses' = Without(closing).uses /\ slotOf' = Without(closing).slotOf
        /\ slots' = Without(closing).slots
  <2> DEFINE idle == {p \in ToSet(uses) : age[p] = IdleTicks /\ IsUnused(p)}
  <2>1. idle \in SUBSET Projects
    BY <1>1, Typed, ElementOfSeq, LenProperties DEF ToSet
  <2>2. /\ uses' = Without(idle).uses /\ slotOf' = Without(idle).slotOf
        /\ slots' = Without(idle).slots
    BY Zenon DEF Sweep
  <2>3. \A q \in idle : IsOpenFor(q) /\ IsUnused(q)
    BY DEF IsOpenFor
  <2> HIDE DEF idle
  <2> QED BY <2>1, <2>2, <2>3
<1>3. /\ UNCHANGED <<actor, rows, cache, naming>>
      /\ tick.step = "pass" /\ tick'.step = "rest" /\ tick'.todo = <<>>
  BY Zenon DEF Sweep, TickOver
<1>4. /\ uses' \in Seq(Projects) /\ ToSet(uses') = ToSet(uses) \ closing
      /\ slotOf' \in [Projects -> Slots \cup {NoSlot}]
      /\ \A q \in Projects : slotOf'[q] = IF q \in closing THEN NoSlot ELSE slotOf[q]
      /\ slots' \in [Slots -> SlotRecord]
      /\ \A s \in Slots :
           slots'[s] = IF \E q \in closing : slotOf[q] = s THEN EmptySlot ELSE slots[s]
  BY <1>1, <1>2, WithoutIs
<1>5. ResidenceTypeOK'
  BY <1>1, <1>3, <1>4, Typed, TypedNext
<1>6. /\ PlacesAreKept' /\ LocksAreHeld' /\ EnginesAreHeld'
      /\ Engines' \subseteq Engines \cup {NoEngine}
  <2>1. PICK p \in Projects \cup {0} : p = 0 /\ p \notin Projects
    BY Names
  <2>2. PICK slot \in Slots : TRUE
    BY FreeSlot, <1>1
  <2>3. p \notin closing /\ {p} \ {0} = {}
    BY <2>1
  <2>4. ToSet(uses') = (ToSet(uses) \ closing) \cup ({p} \ {0})
    BY <1>4, <2>3
  <2>5. \A q \in Projects :
          slotOf'[q] = IF q \in closing THEN NoSlot ELSE IF q = p THEN slot ELSE slotOf[q]
    BY <1>4, <2>1
  <2>6. Loop \in Actors /\ \A b \in Actors : actor'[b] = actor[b]
    BY <1>3, Names
  <2>7. Placing(closing, p, slot, Loop)
    BY <1>2, <1>4, <2>1, <2>3, <2>4, <2>5, <2>6 DEF Placing
  <2> QED BY <1>1, <1>5, <2>6, <2>7, PlacedKeeps
<1>7. LoopIsFree'
  BY <1>1, <1>3 DEF LoopIsFree
<1> QED BY <1>3, <1>5, <1>6, <1>7, RestKeeps, Names

-----------------------------------------------------------------------------
(* The upkeep's tick.                                                         *)

LEMMA OwingIs == ASSUME ResidenceTypeOK PROVE Owing \in Seq(Projects \X Nat)
<1> DEFINE n == Cardinality(Projects)
           inOrder == [p \in Projects |-> p]
           owing == Only(inOrder, {p \in Projects : rows[p].there /\ rows[p].owed > 0})
<1>1. n \in Nat /\ Projects = 1 .. n
  BY Names, ResidenceAssumption
<1>2. inOrder \in Seq(Projects)
  BY <1>1, SeqDef
<1>3. owing \in Seq(Projects)
  BY <1>2, OnlyThose
<1>4. Owing = [i \in DOMAIN owing |-> <<owing[i], rows[owing[i]].id>>]
  BY DEF Owing
<1> HIDE DEF owing
<1>5. /\ Len(owing) \in Nat /\ DOMAIN owing = 1 .. Len(owing)
      /\ \A i \in 1 .. Len(owing) : owing[i] \in Projects
  BY <1>3, LenProperties, ElementOfSeq
<1>6. \A p \in Projects : rows[p].id \in Nat
  BY Typed DEF RowRecord
<1>7. Owing \in [1 .. Len(owing) -> Projects \X Nat]
  BY <1>4, <1>5, <1>6
<1> QED BY <1>5, <1>7, SeqDef

\* What is left after the first of it.
LEMMA LeftIs ==
  ASSUME ResidenceTypeOK, tick.step # "pass", tick.todo # <<>>
  PROVE  /\ Tail(tick.todo) \in Seq(Projects \X Nat)
         /\ Head(tick.todo) \in Projects \X Nat /\ NextOwed \in Projects
<1>1. tick.todo \in Seq(Projects \X Nat)
  BY Typed
<1>2. Head(tick.todo) \in Projects \X Nat /\ Tail(tick.todo) \in Seq(Projects \X Nat)
  BY <1>1, HeadTailProperties
<1> QED BY <1>2 DEF NextOwed

\* Of the upkeep and of what it is no part of.
LEMMA IdleTickKeeps ==
  ASSUME ResidenceInv, UNCHANGED <<uses, slotOf, slots, actor, rows, cache, naming>>,
         tick'.step # "pass" => tick'.todo \in Seq(Projects \X Nat), LoopIsFree'
  PROVE  ResidenceInv'
<1>1. uses' \in Seq(Projects) /\ rows' \in [Projects -> RowRecord]
  BY Typed DEF ResidenceInv
<1> QED BY <1>1, StillKeeps

LEMMA LoopKeeps ==
  ASSUME ResidenceInv, UNCHANGED <<slotOf, slots, rows, cache, naming>>,
         uses' \in Seq(Projects), ToSet(uses') = ToSet(uses),
         tick'.step # "pass" => tick'.todo \in Seq(Projects \X Nat),
         tick'.step \in {"open", "rounds"} => tick'.todo # <<>>,
         actor[Loop].step \in {"out", "using"},
         NEW r \in ActorRecord, actor' = [actor EXCEPT ![Loop] = r],
         r.slot = NoSlot, r.kind = "use",
         r.step \in {"out", "using"} \/ (r.step = "asked" /\ tick'.step = "open"),
         r.step # "out" => r.project \in Projects,
         r.engine # NoEngine =>
           /\ r.step = "using" /\ slotOf[r.project] # NoSlot
           /\ r.engine = slots[slotOf[r.project]].engine
  PROVE  ResidenceInv'
<1>1. ResidenceTypeOK /\ rows' \in [Projects -> RowRecord]
  BY Typed DEF ResidenceInv
<1>2. ~Waits(Loop) /\ Loop \in Actors
  BY Names DEF Waits, Working
<1>3. actor'[Loop] = r
  BY <1>1, <1>2, Becomes
<1>4. LoopIsFree'
  BY <1>3 DEF LoopIsFree
<1> QED BY <1>1, <1>2, <1>4, OneLooseKeeps

Using(p, e) == [Out EXCEPT !.step = "using", !.project = p, !.engine = e]

LEMMA UsingIs ==
  ASSUME NEW p \in Projects, NEW e \in Engine \cup {NoEngine}
  PROVE  /\ Using(p, e) \in ActorRecord /\ Using(p, e).step = "using"
         /\ Using(p, e).slot = NoSlot /\ Using(p, e).kind = "use"
         /\ Using(p, e).project = p /\ Using(p, e).engine = e
BY DEF Using, Out, ActorRecord, Steps, NoSlot, NoId

LEMMA OpenedIs ==
  ASSUME ResidenceTypeOK, PlacesAreKept, NEW p \in Projects, IsOpenFor(p)
  PROVE  /\ slotOf[p] \in Slots /\ slotOf[p] # NoSlot /\ Opened(p) \in Engine \cup {NoEngine}
         /\ Opened(p) # NoEngine => Opened(p) = slots[slotOf[p]].engine
<1>1. slotOf[p] \in Slots /\ slotOf[p] # NoSlot
  BY Typed DEF PlacesAreKept
<1>2. slots[slotOf[p]] \in SlotRecord
  BY <1>1, Typed
<1> QED BY <1>1, <1>2 DEF Opened, SlotRecord

LEMMA TakeOpenKeeps ==
  ASSUME ResidenceInv, TakeOpen
  PROVE  ResidenceInv'
<1>1. ResidenceTypeOK /\ PlacesAreKept /\ LoopIsFree
  BY DEF ResidenceInv
<1>2. /\ tick.step = "owed" /\ tick.todo # <<>> /\ actor[Loop] = Out
      /\ IsOpenFor(NextOwed) /\ uses' = Used(NextOwed, uses)
      /\ UNCHANGED <<slotOf, slots, rows, cache, naming>>
  BY DEF TakeOpen, Considering
<1>3. PICK p \in Projects : p = NextOwed
  BY <1>1, <1>2, LeftIs
<1>4. Tail(tick.todo) \in Seq(Projects \X Nat) /\ tick.todo \in Seq(Projects \X Nat)
  BY <1>1, <1>2, LeftIs, Typed
<1>5. uses' \in Seq(Projects) /\ ToSet(uses') = ToSet(uses)
  <2>1. uses \in Seq(Projects)
    BY <1>1, Typed
  <2>2. uses' \in Seq(Projects) /\ ToSet(uses') = ToSet(uses) \cup {p}
    BY <1>2, <1>3, <2>1, UsedIs
  <2>3. p \in ToSet(uses)
    BY <1>2, <1>3 DEF IsOpenFor
  <2> QED BY <2>2, <2>3
<1>6. PICK e \in Engine \cup {NoEngine} :
        /\ e = Opened(p) /\ slotOf[p] # NoSlot
        /\ e # NoEngine => e = slots[slotOf[p]].engine
  BY <1>1, <1>2, <1>3, OpenedIs
<1>7. CASE e = NoEngine
  <2>1. UNCHANGED actor /\ tick'.step = "owed" /\ tick'.todo = Tail(tick.todo)
    BY <1>3, <1>6, <1>7 DEF TakeOpen, OnTo, Ticked
  <2>2. LoopIsFree'
    BY <1>2, <2>1, Names DEF LoopIsFree
  <2>3. rows' \in [Projects -> RowRecord]
    BY <1>1, <1>2, Typed
  <2> QED BY <1>2, <1>4, <1>5, <2>1, <2>2, <2>3, StillKeeps
<1>8. CASE e # NoEngine
  <2>1. /\ actor' = [actor EXCEPT ![Loop] = Using(p, e)]
        /\ tick'.step = "rounds" /\ tick'.todo = tick.todo
    BY <1>3, <1>6, <1>8 DEF TakeOpen, Ticked, UpkeepIs, Using
  <2>2. PICK r \in ActorRecord :
          /\ r = Using(p, e)
          /\ r.step = "using" /\ r.slot = NoSlot /\ r.kind = "use" /\ r.project = p
          /\ r.engine = e
    BY UsingIs
  <2>3. actor' = [actor EXCEPT ![Loop] = r]
    BY <2>1, <2>2
  <2> QED BY <1>2, <1>4, <1>5, <1>6, <2>1, <2>2, <2>3, LoopKeeps, Names
<1> QED BY <1>7, <1>8

LEMMA OpenForWorkKeeps ==
  ASSUME ResidenceInv, OpenForWork
  PROVE  ResidenceInv'
<1>1. ResidenceTypeOK
  BY DEF ResidenceInv
<1>2. /\ tick.step = "owed" /\ tick.todo # <<>> /\ actor[Loop] = Out
      /\ actor' = [actor EXCEPT ![Loop] =
                     [Out EXCEPT !.step = "asked", !.project = NextOwed]]
      /\ tick'.step = "open" /\ tick'.todo = tick.todo
      /\ UNCHANGED <<uses, slotOf, slots, rows, cache, naming>>
  BY DEF OpenForWork, Considering, UpkeepIs, Ticked, registryVars
<1>3. PICK p \in Projects : p = NextOwed
  BY <1>1, <1>2, LeftIs
<1> DEFINE r == [Out EXCEPT !.step = "asked", !.project = p]
<1>4. /\ r \in ActorRecord /\ r.step = "asked" /\ r.slot = NoSlot /\ r.kind = "use"
      /\ r.project = p /\ r.engine = NoEngine
  BY DEF Out, ActorRecord, Steps, NoSlot, NoId
<1>5. actor' = [actor EXCEPT ![Loop] = r]
  BY <1>2, <1>3
<1> HIDE DEF r
<1>6. tick.todo \in Seq(Projects \X Nat) /\ uses' \in Seq(Projects)
  BY <1>1, <1>2, Typed
<1> QED BY <1>2, <1>4, <1>5, <1>6, LoopKeeps, Names

LEMMA RefusedForWorkKeeps ==
  ASSUME ResidenceInv, RefusedForWork
  PROVE  ResidenceInv'
<1>1. ResidenceTypeOK /\ LoopIsFree
  BY DEF ResidenceInv
<1>2. /\ tick.step = "open" /\ Refuses(Loop)
      /\ tick'.step = "owed" /\ tick'.todo = Tail(tick.todo)
  BY DEF RefusedForWork, Ticked
<1>3. Tail(tick.todo) \in Seq(Projects \X Nat)
  BY <1>1, <1>2, LeftIs DEF LoopIsFree
<1>4. LoopIsFree'
  <2>1. actor' = [actor EXCEPT ![Loop] = Out]
    BY <1>2 DEF Refuses
  <2>2. actor'[Loop] = Out
    BY <1>1, <2>1, Becomes, Names
  <2> QED BY <1>2, <2>2, Names DEF LoopIsFree
<1> QED BY <1>2, <1>3, <1>4, RefusesKeeps, Names

LEMMA OwedRoundKeeps ==
  ASSUME ResidenceInv, OwedRound
  PROVE  ResidenceInv'
<1>1. ResidenceTypeOK /\ LoopIsFree
  BY DEF ResidenceInv
<1> DEFINE p == actor[Loop].project
           r == [rows[p] EXCEPT !.owed = rows[p].owed - 1]
<1>2. /\ tick.step = "rounds" /\ tick'.step = "rounds" /\ tick'.todo = tick.todo
      /\ rows' = [rows EXCEPT ![p] = r]
      /\ UNCHANGED <<uses, slotOf, slots, actor, cache, naming>>
  BY DEF OwedRound, Ticked, registryVars
<1>3. p \in Projects => r \in RowRecord /\ r.there = rows[p].there /\ r.id = rows[p].id
  <2> SUFFICES ASSUME p \in Projects
               PROVE  r \in RowRecord /\ r.there = rows[p].there /\ r.id = rows[p].id
    OBVIOUS
  <2>1. rows[p] \in RowRecord
    BY <1>1, Typed
  <2>2. rows[p].owed - 1 \in Int
    BY <2>1 DEF RowRecord
  <2> QED BY <2>1, <2>2 DEF RowRecord
<1> HIDE DEF r, p
<1>4. /\ rows' \in [Projects -> RowRecord]
      /\ \A q \in Projects : rows'[q].there = rows[q].there /\ rows'[q].id = rows[q].id
  BY <1>1, <1>2, <1>3, Typed
<1>5. tick.todo \in Seq(Projects \X Nat) /\ uses' \in Seq(Projects)
  BY <1>1, <1>2, Typed
<1>6. LoopIsFree'
  BY <1>1, <1>2 DEF LoopIsFree
<1> QED BY <1>2, <1>4, <1>5, <1>6, StillKeeps

LEMMA RoundsOverKeeps ==
  ASSUME ResidenceInv, RoundsOver \/ PassOver
  PROVE  ResidenceInv'
<1>1. ResidenceTypeOK /\ LoopIsFree
  BY DEF ResidenceInv
<1>2. /\ tick.step \in {"rounds", "pass"} /\ actor' = [actor EXCEPT ![Loop] = Out]
      /\ UNCHANGED <<uses, slotOf, slots, rows, cache, naming>>
  BY DEF RoundsOver, PassOver, UpkeepIs, registryVars
<1>3. \/ tick.step = "rounds" /\ tick'.step = "owed" /\ tick'.todo = Tail(tick.todo)
      \/ tick.step = "pass" /\ tick' = tick
  <2>1. CASE RoundsOver
    BY <2>1 DEF RoundsOver, OnTo, Ticked
  <2>2. CASE PassOver
    BY <2>2 DEF PassOver
  <2> QED BY <2>1, <2>2
<1>4. tick'.step # "pass" => tick'.todo \in Seq(Projects \X Nat)
  BY <1>1, <1>3, LeftIs DEF LoopIsFree
<1>5. tick'.step \notin {"open", "rounds"}
  BY <1>3
<1>6. actor[Loop].step \in {"out", "using"}
  BY <1>1, <1>2 DEF LoopIsFree
<1>7. uses' \in Seq(Projects)
  BY <1>1, <1>2, Typed
<1> QED BY <1>2, <1>4, <1>5, <1>6, <1>7, LoopKeeps, Names

LEMMA PassOnKeeps ==
  ASSUME ResidenceInv, PassOn
  PROVE  ResidenceInv'
<1>1. ResidenceTypeOK /\ PlacesAreKept /\ LoopIsFree
  BY DEF ResidenceInv
<1> DEFINE p == Head(tick.todo)
           engine == IF IsOpenFor(p) THEN Opened(p) ELSE NoEngine
<1>2. /\ tick.step = "pass" /\ tick'.step = "pass"
      /\ actor' = [actor EXCEPT ![Loop] =
                     IF engine = NoEngine THEN Out
                     ELSE [Out EXCEPT !.step = "using", !.project = p, !.engine = engine]]
      /\ UNCHANGED <<uses, slotOf, slots, rows, cache, naming>>
  BY DEF PassOn, UpkeepIs, Ticked, registryVars
<1>3. actor[Loop].step \in {"out", "using"}
  BY <1>1, <1>2 DEF LoopIsFree
<1>4. uses' \in Seq(Projects)
  BY <1>1, <1>2, Typed
<1>5. CASE engine = NoEngine
  <2>1. actor' = [actor EXCEPT ![Loop] = Out]
    BY <1>2, <1>5
  <2> QED BY <1>2, <1>3, <1>4, <2>1, LoopKeeps, Names
<1>6. CASE engine # NoEngine
  <2>1. IsOpenFor(p)
    BY <1>6
  <2>2. ToSet(uses) \subseteq Projects
    BY <1>1, Typed, ElementOfSeq, LenProperties DEF ToSet
  <2>3. PICK q \in Projects : q = p
    BY <2>1, <2>2 DEF IsOpenFor
  <2>4. PICK e \in Engine \cup {NoEngine} :
          /\ e = engine /\ slotOf[q] # NoSlot
          /\ e # NoEngine => e = slots[slotOf[q]].engine
    BY <1>1, <2>1, <2>3, OpenedIs
  <2>5. PICK r \in ActorRecord :
          /\ r = Using(q, e)
          /\ r.step = "using" /\ r.slot = NoSlot /\ r.kind = "use" /\ r.project = q
          /\ r.engine = e
    BY UsingIs
  <2>6. actor' = [actor EXCEPT ![Loop] = r]
    BY <1>2, <1>6, <2>3, <2>4, <2>5 DEF Using
  <2> QED BY <1>2, <1>3, <1>4, <2>4, <2>5, <2>6, LoopKeeps
<1> QED BY <1>5, <1>6

\* The rest of the tick only sets what is left of it.
LEMMA IdleTicksKeep ==
  ASSUME ResidenceInv, TickBegin \/ OwedOver \/ PassedOver \/ OpenedForWork \/ WaitForQuiet
  PROVE  ResidenceInv'
<1>1. ResidenceTypeOK /\ LoopIsFree
  BY DEF ResidenceInv
<1>2. UNCHANGED <<uses, slotOf, slots, actor, rows, cache, naming>>
  BY DEF TickBegin, OwedOver, PassedOver, OpenedForWork, WaitForQuiet, registryVars
<1>3. /\ tick'.step # "pass" => tick'.todo \in Seq(Projects \X Nat)
      /\ tick'.step \in {"open", "rounds"} => tick'.todo # <<>>
      /\ actor[Loop].step \in {"out", "using"}
  <2>1. CASE TickBegin
    BY <1>1, <2>1, OwingIs DEF TickBegin, Ticked, LoopIsFree
  <2>2. CASE OwedOver
    BY <1>1, <2>2 DEF OwedOver, Ticked, LoopIsFree
  <2>3. CASE PassedOver
    <3>1. tick.step = "owed" /\ tick.todo # <<>> /\ tick'.step = "owed"
          /\ tick'.todo = Tail(tick.todo)
      BY <2>3 DEF PassedOver, Considering, OnTo, Ticked
    <3> QED BY <1>1, <3>1, LeftIs DEF LoopIsFree
  <2>4. CASE OpenedForWork
    <3>1. /\ tick.step = "open" /\ tick'.step = "rounds" /\ tick'.todo = tick.todo
          /\ actor[Loop].step = "using"
      BY <2>4 DEF OpenedForWork, Ticked
    <3> QED BY <1>1, <3>1, Typed DEF LoopIsFree
  <2>5. CASE WaitForQuiet
    <3>1. tick.step = "rounds" /\ tick'.step = "rounds" /\ tick'.todo = tick.todo
      BY <2>5 DEF WaitForQuiet, Ticked
    <3> QED BY <1>1, <3>1, Typed DEF LoopIsFree
  <2> QED BY <2>1, <2>2, <2>3, <2>4, <2>5
<1>4. LoopIsFree'
  BY <1>2, <1>3 DEF LoopIsFree
<1> QED BY <1>2, <1>3, <1>4, IdleTickKeeps

-----------------------------------------------------------------------------
(* The invariant.                                                             *)

LEMMA StartsKept == ResidenceInit => ResidenceInv
<1> SUFFICES ASSUME ResidenceInit PROVE ResidenceInv
  OBVIOUS
<1>1. /\ uses = <<>> /\ slotOf = [p \in Projects |-> NoSlot]
      /\ slots = [s \in Slots |-> EmptySlot] /\ actor = [a \in Actors |-> Out]
      /\ cache = [p \in Projects |-> NoId] /\ naming = Nobody
      /\ tick.step = "rest" /\ tick.todo = <<>>
  BY DEF ResidenceInit, TickOver
<1>2. rows \in [Projects -> RowRecord]
  <2>1. 0 .. MaxOwed \subseteq Int /\ {TRUE} \subseteq BOOLEAN /\ {1} \subseteq Nat
    OBVIOUS
  <2> DEFINE owed == 0 .. MaxOwed
             ids == {1}
             there == {TRUE}
  <2>2. rows \in [Projects -> [there : there, id : ids, owed : owed]]
    BY DEF ResidenceInit
  <2>3. owed \subseteq Int /\ ids \subseteq Nat /\ there \subseteq BOOLEAN
    BY <2>1
  <2> HIDE DEF owed, ids, there
  <2> QED BY <2>2, <2>3 DEF RowRecord
<1>3. <<>> \in Seq(Projects) /\ ToSet(<<>>) = {} /\ <<>> \in Seq(Projects \X Nat)
  BY EmptySeq DEF ToSet
<1>4. ResidenceTypeOK
  <2>1. slots \in [Slots -> SlotRecord] /\ actor \in [Actors -> ActorRecord]
    BY <1>1, Names
  <2>2. /\ slotOf \in [Projects -> Slots \cup {NoSlot}] /\ cache \in [Projects -> Nat]
        /\ naming \in Callers \cup {Nobody}
    BY <1>1 DEF NoId
  <2> QED BY <1>1, <1>2, <1>3, <2>1, <2>2, Typed
<1>5. \A a \in Actors : actor[a] = Out /\ ~Waits(a) /\ ~Working(a)
  BY <1>1, Names DEF Waits, Working
<1>6. PlacesAreKept
  BY <1>1, <1>3, <1>5, Names DEF PlacesAreKept, IsOpenFor
<1>7. LocksAreHeld
  BY <1>1, <1>5, Names DEF LocksAreHeld
<1>8. Engines \subseteq {NoEngine}
  BY <1>1, <1>5, Names DEF Engines
<1>9. EnginesAreHeld
  BY <1>1, <1>5, Names DEF EnginesAreHeld
<1>10. OneEngineEach
  BY <1>8 DEF OneEngineEach
<1>11. \A c \in Callers : actor[c].step = "out"
  BY <1>5, Names
<1>12. NamesAreTrue /\ CacheIsTrue
  BY <1>1, <1>11 DEF NamesAreTrue, CacheIsTrue
<1>13. LoopIsFree
  BY <1>1, <1>5, Names DEF LoopIsFree
<1> QED BY <1>4, <1>6, <1>7, <1>9, <1>10, <1>12, <1>13 DEF ResidenceInv

LEMMA StepsKeep == ResidenceInv /\ [ResidenceNext]_residenceVars => ResidenceInv'
<1> SUFFICES ASSUME ResidenceInv, [ResidenceNext]_residenceVars PROVE ResidenceInv'
  OBVIOUS
<1>0. /\ ResidenceTypeOK /\ LoopIsFree
      /\ uses \in Seq(Projects) /\ rows \in [Projects -> RowRecord]
      /\ tick.step # "pass" => tick.todo \in Seq(Projects \X Nat)
  BY Typed DEF ResidenceInv
<1>1. CASE UNCHANGED <<uses, slotOf, slots, actor, rows, cache, naming, tick>>
  <2>1. LoopIsFree'
    BY <1>0, <1>1 DEF LoopIsFree
  <2> QED BY <1>0, <1>1, <2>1, IdleTickKeeps
<1>2. CASE \E c \in Callers, p \in Projects : \E kind \in Calls[c] : Asks(c, p, kind)
  BY <1>2, AsksKeeps
<1>3. CASE \E a \in Actors : Goes(a)
  <2>1. PICK a \in Actors : Goes(a)
    BY <1>3
  <2>2. CASE a # Loop /\ Refuses(a) /\ UNCHANGED <<tick, refused>>
    <3>1. actor' = [actor EXCEPT ![a] = Out]
      BY <2>2 DEF Refuses
    <3>2. actor'[Loop] = actor[Loop]
      BY <1>0, <2>2, <3>1, Becomes, Names
    <3>3. LoopIsFree'
      BY <1>0, <2>2, <3>2 DEF LoopIsFree
    <3> QED BY <1>0, <2>2, <3>3, RefusesKeeps
  <2> QED BY <2>1, <2>2, SlotKeeps, EnterKeeps, OpensKeeps DEF Goes, IntoEngine
<1>4. CASE \E a \in Actors : Answers(a)
  BY <1>4, LeaveKeeps, NameCachedKeeps, NameEnsureKeeps, NameInsertKeeps, PurgeEnterKeeps,
     PurgeDeleteKeeps, PurgeCommitKeeps, PurgeForgetKeeps DEF Answers
<1>5. CASE \E c \in Callers : PurgeGivesUp(c) \/ PurgeFails(c)
  BY <1>5, PurgeGivesUpKeeps
<1>6. CASE Ticks
  BY <1>6, IdleTicksKeep, TakeOpenKeeps, OpenForWorkKeeps, RefusedForWorkKeeps, OwedRoundKeeps,
     RoundsOverKeeps, PassOnKeeps, SweepKeeps DEF Ticks
<1>7. CASE \E p \in Projects : Mend(p)
  <2>1. UNCHANGED <<uses, slotOf, slots, actor, rows, cache, naming, tick>>
    BY <1>7 DEF Mend, registryVars
  <2> QED BY <1>1, <2>1
<1>8. CASE UNCHANGED residenceVars
  BY <1>1, <1>8 DEF residenceVars, registryVars
<1> QED BY <1>2, <1>3, <1>4, <1>5, <1>6, <1>7, <1>8 DEF ResidenceNext

\* Places, locks, engines, names and the upkeep always fit together: a place is kept for
\* as long as anyone waits for its slot, whoever works on a slot has its lock with nothing in
\* it meanwhile, and who names a project holds the lock till it is cached (the registry's
\* slot, make_room, fill and take_then, Session::project, CatchingUp).
THEOREM PlacesAndLocksFit == ResidenceSpec => []ResidenceInv
<1>1. ResidenceSpec => ResidenceInit /\ [][ResidenceNext]_residenceVars
  BY DEF ResidenceSpec
<1> QED BY <1>1, StartsKept, StepsKeep, PTL

\* A project never has two engines alive, whoever holds them, and none of a row that is gone
\* (is_unused before make_room and close_idle let a place go; take_then before a purge).
THEOREM EnginesAreAlone == ResidenceSpec => []OneEngineEach
<1>1. ResidenceInv => OneEngineEach
  BY DEF ResidenceInv
<1> QED BY <1>1, PlacesAndLocksFit, PTL

\* What a session answers from memory of a project's row is true, but for a purge that has
\* committed and is about to forget it (Session::project and purge).
THEOREM SessionIsTrue == ResidenceSpec => []CacheIsTrue
<1>1. ResidenceInv => CacheIsTrue
  BY DEF ResidenceInv
<1> QED BY <1>1, PlacesAndLocksFit, PTL

=============================================================================
