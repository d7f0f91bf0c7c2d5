---------------------------- MODULE ServingProofs ----------------------------
(***************************************************************************)
(* One engine at most serves a project's index, and what it serves of a    *)
(* topic that nothing is owed for is what the ledger says, for any topics, *)
(* texts and engines: ServingInv is inductive.  The lemmas say first what  *)
(* a directory is after a rename or a recovery, then what keeps an engine, *)
(* a reshape and a rebuild alone, then what each action keeps, one lemma   *)
(* an action.                                                              *)
(*                                                                         *)
(* Then the watcher, for any directory and any files in it: WatchInv is    *)
(* inductive, and nothing is missed but what is pending, held or lost.     *)
(***************************************************************************)
EXTENDS Serving, Watch, FiniteSetTheorems, TLAPS

(***************************************************************************)
(* Shapes, and what recovering, opening and renaming make of directories.  *)
(***************************************************************************)
LEMMA Shapes ==
  /\ NoSync \in Syncings /\ NoReshape \in Reshapes /\ NoRebuild \in Reindexes
  /\ NoPurge \in Purges /\ Empty \in Content
BY DEF NoSync, NoReshape, NoRebuild, NoPurge, Syncings, Reshapes, Reindexes, Purges, Content,
       Empty, Engine, Text

LEMMA DirectoriesAre ==
  ASSUME NEW dirs \in Directories
  PROVE  /\ dirs["live"] \in Content \cup {Nothing} /\ dirs["replaced"] \in Content \cup {Nothing}
         /\ Created(dirs) \in Directories
         /\ Created(dirs)["live"] = IF dirs["live"] = Nothing THEN Empty ELSE dirs["live"]
         /\ Created(dirs)["replaced"] = dirs["replaced"]
         /\ \A from, to \in Places : from # to =>
              /\ Moved(dirs, from, to) \in Directories
              /\ Moved(dirs, from, to)[to] = dirs[from]
              /\ Moved(dirs, from, to)[from] = Nothing
<1>1. Empty \in Content
  BY Shapes
<1> QED
  BY <1>1 DEF Directories, Places, Created, Moved

LEMMA PutIn ==
  ASSUME NEW dirs \in Directories, NEW index \in Content \cup {Nothing}, NEW p \in Places
  PROVE  /\ [dirs EXCEPT ![p] = index] \in Directories
         /\ [dirs EXCEPT ![p] = index][p] = index
         /\ \A q \in Places \ {p} : [dirs EXCEPT ![p] = index][q] = dirs[q]
BY DEF Directories

LEMMA SetIn ==
  ASSUME NEW index \in Content, NEW t \in Topics, NEW text \in Text
  PROVE  /\ [index EXCEPT ![t] = text] \in Content
         /\ [index EXCEPT ![t] = text][t] = text
         /\ \A u \in Topics \ {t} : [index EXCEPT ![t] = text][u] = index[u]
BY DEF Content, Text

LEMMA RecoveredIs ==
  ASSUME at \in Directories
  PROVE  /\ Recovered \in Directories
         /\ Recovered["replaced"] = Nothing
         /\ Recovered["live"] = IF at["live"] # Nothing THEN at["live"] ELSE at["replaced"]
BY DEF Recovered, Moved, Directories, Places

LEMMA ServedIs ==
  ASSUME at \in Directories
  PROVE  Served = IF at["live"] # Nothing THEN at["live"]
                  ELSE IF at["replaced"] # Nothing THEN at["replaced"] ELSE Empty
BY RecoveredIs DEF Served

LEMMA ServedThen ==
  ASSUME at' \in Directories
  PROVE  Served' = IF at'["live"] # Nothing THEN at'["live"]
                   ELSE IF at'["replaced"] # Nothing THEN at'["replaced"] ELSE Empty
BY DEF Served, Recovered, Moved, Directories, Places

LEMMA CarriedIs ==
  ASSUME NEW handles \in [Engines -> Handles], NEW from \in Handles, NEW to \in Handles
  PROVE  /\ Carried(handles, from, to) \in [Engines -> Handles]
         /\ \A e \in Engines :
              Carried(handles, from, to)[e] = IF handles[e] = from THEN to ELSE handles[e]
BY DEF Carried

LEMMA RecarriedIs ==
  ASSUME place \in [Engines -> Handles]
  PROVE  /\ Recarried \in [Engines -> Handles]
         /\ \A e \in Engines :
              Recarried[e] = IF place[e] = "replaced"
                             THEN IF at["live"] = Nothing THEN "live" ELSE "gone"
                             ELSE place[e]
BY DEF Recarried, Carried, Handles, Places

LEMMA WithoutIs ==
  ASSUME at \in Directories, at["live"] # Nothing, NEW swept \in SUBSET Topics
  PROVE  /\ Without(swept) \in Directories
         /\ Without(swept)["live"] \in Content /\ Without(swept)["live"] # Nothing
         /\ Without(swept)["replaced"] = at["replaced"]
         /\ \A t \in Topics \ swept : Without(swept)["live"][t] = at["live"][t]
<1> DEFINE index == [t \in Topics |-> IF t \in swept THEN Absent ELSE at["live"][t]]
<1>1. at["live"] \in Content
  BY DEF Directories, Places
<1>2. index \in Content /\ \A t \in Topics \ swept : index[t] = at["live"][t]
  BY <1>1 DEF Content, Text
<1>3. Without(swept) = [at EXCEPT !["live"] = index]
  BY DEF Without
<1> HIDE DEF index
<1> QED
  BY <1>2, <1>3, NothingAssumption DEF Directories, Places

LEMMA Fields ==
  ASSUME TypeOK
  PROVE  /\ sync.engine \in Engine /\ sync.topic \in Topics \cup {Nobody} /\ sync.text \in Text
         /\ sync.claimed \in BOOLEAN
         /\ reshape.engine \in Engine /\ reshape.topic \in Topics \cup {Nobody}
         /\ reshape.text \in Text /\ reshape.copy \in Content /\ reshape.todo \subseteq Topics
         /\ reshape.touched \subseteq Topics
         /\ rebuild.engine \in Engine /\ rebuild.states \in Content
         /\ rebuild.crossed \subseteq Topics /\ purge.engine \in Engine
         /\ at["live"] \in Content \cup {Nothing} /\ at["replaced"] \in Content \cup {Nothing}
         /\ \A t \in Topics : ledger[t] \in Text
BY DEF TypeOK, Syncings, Reshapes, Reindexes, Purges, Directories, Places, Content, Text

\* Where an engine is open, there is an index, and nobody else.
LEMMA LiveIsThere ==
  ASSUME ServingInv, NEW p \in Places, NEW e \in Engines, Held(e), place[e] = p
  PROVE  /\ at[p] \in Content
         /\ \A d \in Engines : Held(d) /\ place[d] = p => d = e
BY Fields DEF ServingInv, Alone, On, Places

\* Nobody else is on the index of a rebuild, nor of a reshape.
LEMMA RebuildIsAlone ==
  ASSUME ServingInv, Rebuilding
  PROVE  /\ at["live"] \in Content
         /\ ~Reshaping
         /\ \A e \in Engines : Held(e) /\ place[e] = "live" => e = rebuild.engine
         /\ rebuild.engine \in Engines /\ Held(rebuild.engine) /\ place[rebuild.engine] = "live"
<1>1. ~Reshaping
  BY DEF ServingInv, Exclusion, Rebuilding
<1>2. rebuild.engine \in Engines /\ Held(rebuild.engine) /\ place[rebuild.engine] = "live"
  BY DEF ServingInv, Exclusion, Held, Users
<1> QED
  BY <1>1, <1>2, LiveIsThere DEF Places

LEMMA ReshapeIsAlone ==
  ASSUME ServingInv, Reshaping
  PROVE  /\ reshape.engine \in Engines /\ Held(reshape.engine) /\ ~Held(keeping)
         /\ rebuild.step \in {"idle", "wait"}
         /\ ~Swapping => /\ place[reshape.engine] = "live" /\ at["live"] \in Content
                         /\ \A e \in Engines : Held(e) /\ place[e] = "live" => e = reshape.engine
         /\ Swapping => place[reshape.engine] = "closed"
<1>1. /\ reshape.engine \in Engines /\ Held(reshape.engine) /\ ~Held(keeping)
      /\ rebuild.step \in {"idle", "wait"}
  BY DEF ServingInv, Exclusion, Held, Users
<1>2. place[reshape.engine] = IF Swapping THEN "closed" ELSE "live"
  BY DEF ServingInv, Exclusion
<1> QED
  BY <1>1, <1>2, LiveIsThere DEF Places

\* Engines that stay where they are, or are let go of, are as alone as they were.
LEMMA AloneStays ==
  ASSUME ServingInv, place' = place, \A e : Held(e)' => Held(e),
         \A p \in Places : at[p] # Nothing => at'[p] # Nothing
  PROVE  Alone'
BY DEF ServingInv, Alone, On

\* What the rest leaves alone is as right as it was.
LEMMA RightStays ==
  ASSUME NEW t \in Topics, Right(t), ledger'[t] = ledger[t], at' = at, reshape' = reshape,
         t \in spoiled \cup missed => t \in spoiled' \cup missed'
  PROVE  Right(t)'
BY DEF Right, WillSay, Copying, Served, Recovered, Moved

\* A sync whose mark is taken from it is otherwise as it was.
LEMMA AlreadyUnclaimed ==
  ASSUME NEW s \in Syncings, s.claimed = FALSE
  PROVE  [s EXCEPT !.claimed = FALSE] = s
BY DEF Syncings

LEMMA Unclaimed ==
  ASSUME NEW s \in Syncings
  PROVE  LET r == [s EXCEPT !.claimed = FALSE]
         IN  /\ r \in Syncings /\ r.claimed = FALSE
             /\ r.step = s.step /\ r.engine = s.engine /\ r.topic = s.topic /\ r.text = s.text
BY DEF Syncings

\* A reshape goes on copying, and the copy will be as right as it was to be.
LEMMA ReshapeGoesOn ==
  ASSUME ServingInv, reshape.step \in {"list", "copy", "apply"},
         NEW r \in Reshapes, reshape' = r, r.step \in {"copy", "apply"}, r.engine = reshape.engine,
         IF r.step = "apply"
           THEN r.topic \in Topics /\ (r.topic \notin r.touched => r.text = at["live"][r.topic])
           ELSE r.topic = Nobody,
         \A t \in Topics : Right(t) /\ t \notin spoiled \cup missed => WillSay(t)' = ledger[t],
         UNCHANGED <<ledger, owed, at, place, registry, sync, rebuild, purge, history>>
  PROVE  ServingInv'
<1>1. /\ ledger' = ledger /\ owed' = owed /\ at' = at /\ place' = place /\ sync' = sync
      /\ rebuild' = rebuild /\ purge' = purge
      /\ spoiled' = spoiled /\ missed' = missed /\ astray' = astray
      /\ slot' = slot /\ locked' = locked /\ keeping' = keeping
  BY DEF registry, history
<1>2. TypeOK' /\ Slots'
  BY <1>1 DEF ServingInv, TypeOK, Slots, Emptying, Purging, Rebuilding, NoSync, NoPurge
<1>3. \A e : Held(e)' <=> Held(e)
  BY <1>1 DEF Held, Users
<1>4. Exclusion' /\ Alone'
  BY <1>1, <1>3 DEF ServingInv, Exclusion, Alone, Kept, Purging, Rebuilding, Reshaping, Swapping, On
<1>5. OnDisk'
  BY <1>1 DEF ServingInv, OnDisk
<1>6. ASSUME ~astray'
      PROVE  Faithful'
  <2>1. Faithful
    BY <1>1, <1>6 DEF ServingInv
  <2>2. InPlace'
    BY <1>1, <1>3, <2>1 DEF Faithful, InPlace, Kept, Purging, Reshaping, Swapping, On
  <2>3. Syncing' /\ Rewriting'
    BY <1>1, <2>1 DEF Faithful, Rewriting, Syncing, Rebuilding, Ready, Left, Done
  <2>4. ASSUME NEW t \in Topics, Done(t)'
        PROVE  Right(t)'
    <3>1. Right(t)
      BY <1>1, <2>1, <2>4 DEF Faithful, Done
    <3>2. Served' = Served
      BY <1>1 DEF Served, Recovered
    <3> QED
      BY <1>1, <3>1, <3>2 DEF Right
  <2> QED
    BY <2>2, <2>3, <2>4 DEF Faithful
<1> QED
  BY <1>2, <1>4, <1>5, <1>6 DEF ServingInv

\* A swap ends, with its engine on what is served or on nothing, and the others
\* where their directories have been moved.
LEMMA SwapEnds ==
  ASSUME ServingInv, Swapping, reshape' = NoReshape, at' \in Directories,
         NEW handles \in [Engines -> Handles], NEW open \in {"live", "closed"},
         place' = [handles EXCEPT ![reshape.engine] = open],
         \A e \in Engines : place[e] \notin Places => handles[e] = place[e],
         \A e \in Engines : handles[e] = "replaced" => place[e] = "replaced",
         \A p \in Places : \A d, e \in Engines :
           Held(d) /\ handles[d] = p =>
             /\ at'[p] # Nothing
             /\ Held(e) /\ handles[e] = p => d = e,
         open = "live" =>
           /\ at'["live"] # Nothing
           /\ \A d \in Engines : Held(d) => handles[d] # "live",
         missed \subseteq missed', missed' \subseteq Topics,
         \A t \in Topics : Right(t) /\ t \notin spoiled \cup missed' => Served'[t] = ledger[t],
         UNCHANGED <<ledger, owed, registry, sync, rebuild, purge, spoiled, astray>>
  PROVE  ServingInv'
<1>1. /\ ledger' = ledger /\ owed' = owed /\ sync' = sync
      /\ rebuild' = rebuild /\ purge' = purge /\ spoiled' = spoiled /\ astray' = astray
      /\ slot' = slot /\ locked' = locked /\ keeping' = keeping
  BY DEF registry
<1>2. Reshaping
  BY DEF Reshaping, Swapping
<1>3. /\ reshape.engine \in Engines /\ rebuild.step \in {"idle", "wait"}
      /\ place[reshape.engine] = "closed" /\ ~Held(keeping)
  BY <1>2, ReshapeIsAlone
<1>4. /\ place'[reshape.engine] = open
      /\ \A e \in Engines \ {reshape.engine} : place'[e] = handles[e]
      /\ place' \in [Engines -> Handles]
  BY <1>3 DEF Handles, Places
<1>5. \A e : Held(e)' => Held(e)
  BY <1>1, ServingAssumption DEF Held, Users, NoReshape
<1>6. TypeOK'
  BY <1>1, <1>4, Shapes DEF ServingInv, TypeOK
<1>7. Slots' /\ OnDisk'
  BY <1>1, <1>2 DEF ServingInv, Slots, OnDisk, Emptying, Purging, Rebuilding, NoReshape, NoSync, NoPurge
<1>8. Exclusion'
  BY <1>1, <1>3, <1>5 DEF Exclusion, Held, Reshaping, Rebuilding, NoReshape
<1>9. Alone'
  <2>1. ASSUME NEW p \in Places, NEW e \in Engines, Held(e)', place'[e] = p
        PROVE  /\ at'[p] # Nothing
               /\ \A d \in Engines : Held(d)' /\ place'[d] = p => d = e
    <3>1. CASE e = reshape.engine
      BY <1>4, <1>5, <2>1, <3>1 DEF Places
    <3>2. CASE e # reshape.engine
      <4>1. handles[e] = p /\ Held(e)
        BY <1>4, <1>5, <2>1, <3>2
      <4>2. ASSUME NEW d \in Engines, Held(d)', place'[d] = p
            PROVE  d = e
        <5>1. CASE d = reshape.engine
          BY <1>4, <4>1, <4>2, <5>1 DEF Places
        <5>2. CASE d # reshape.engine
          BY <1>4, <1>5, <4>1, <4>2, <5>2
        <5> QED
          BY <5>1, <5>2
      <4> QED
        BY <4>1, <4>2
    <3> QED
      BY <3>1, <3>2
  <2> QED
    BY <2>1 DEF Alone, On
<1>10. ASSUME ~astray'
       PROVE  Faithful'
  <2>1. Faithful
    BY <1>1, <1>10 DEF ServingInv
  <2>2. InPlace'
    <3>1. \A e : Kept(e)' <=> Kept(e)
      BY <1>1 DEF Kept, Purging
    <3>2. \A e \in Engines : Kept(e) => e = reshape.engine
      BY <1>2, <2>1 DEF Faithful, InPlace
    <3>3. On("replaced")' = {}
      <4>1. ASSUME NEW e \in Engines, Held(e)'
            PROVE  place'[e] # "replaced"
        <5>1. Held(e) /\ place[e] # "replaced"
          BY <1>5, <2>1, <4>1 DEF Faithful, InPlace, On
        <5> QED
          BY <1>4, <5>1
      <4> QED
        BY <4>1 DEF On
    <3> QED
      BY <1>4, <3>1, <3>2, <3>3 DEF InPlace, Reshaping, Swapping, NoReshape
  <2>3. Syncing'
    <3>1. sync.step # "idle" => sync.engine \in Engines
      BY DEF ServingInv, Slots
    <3>2. sync.step # "idle" /\ place[sync.engine] = "gone" => place'[sync.engine] = "gone"
      BY <1>3, <1>4, <3>1 DEF Places
    <3> QED
      BY <1>1, <2>1, <3>2 DEF Faithful, Syncing
  <2>4. Rewriting'
    BY <1>1, <1>3 DEF Rewriting, Rebuilding
  <2>5. \A t \in Topics : Done(t)' => Right(t)'
    BY <1>1, <2>1 DEF Faithful, Done, Right, Copying, NoReshape
  <2> QED
    BY <2>2, <2>3, <2>4, <2>5 DEF Faithful
<1> QED
  BY <1>6, <1>7, <1>8, <1>9, <1>10 DEF ServingInv

\* Between two renames: what is to be served, and what would be if the swap died,
\* are both as right as they were.
LEMMA SwapGoesOn ==
  ASSUME ServingInv, Swapping, NEW r \in Reshapes, reshape' = r,
         r.step \in {"in", "serve"}, r.engine = reshape.engine, r.topic = reshape.topic,
         at' \in Directories, place' \in [Engines -> Handles],
         \A e \in Engines : place[e] \notin Places => place'[e] = place[e],
         OnDisk', Alone',
         ~astray => /\ On("replaced")' = {} /\ On("live")' = {}
                    /\ r.step = "in" => at'["live"] = Nothing,
         \A t \in Topics : Right(t) /\ t \notin spoiled \cup missed =>
           /\ Served'[t] = ledger[t]
           /\ r.step = "in" => r.copy[t] = ledger[t]
           /\ r.step = "serve" => at'["replaced"][t] = ledger[t],
         UNCHANGED <<ledger, owed, registry, sync, rebuild, purge, history>>
  PROVE  ServingInv'
<1>1. /\ ledger' = ledger /\ owed' = owed /\ sync' = sync
      /\ rebuild' = rebuild /\ purge' = purge
      /\ spoiled' = spoiled /\ missed' = missed /\ astray' = astray
      /\ slot' = slot /\ locked' = locked /\ keeping' = keeping
  BY DEF registry, history
<1>2. Reshaping
  BY DEF Reshaping, Swapping
<1>3. /\ reshape.engine \in Engines /\ rebuild.step \in {"idle", "wait"}
      /\ place[reshape.engine] = "closed" /\ ~Held(keeping)
  BY <1>2, ReshapeIsAlone
<1>4. place'[reshape.engine] = "closed"
  BY <1>3 DEF Places
<1>5. \A e : Held(e)' <=> Held(e)
  BY <1>1 DEF Held, Users
<1>6. TypeOK' /\ Slots'
  BY <1>1, <1>2 DEF ServingInv, TypeOK, Slots, Emptying, Purging, Rebuilding, Reshaping, NoSync, NoPurge
<1>7. reshape.topic = Nobody
  BY <1>2 DEF ServingInv, Exclusion, Swapping
<1>8. Exclusion'
  BY <1>1, <1>3, <1>4, <1>5, <1>7 DEF Exclusion, Held, Reshaping, Swapping, Rebuilding
<1>9. ASSUME ~astray'
      PROVE  Faithful'
  <2>1. Faithful
    BY <1>1, <1>9 DEF ServingInv
  <2>2. InPlace'
    <3>1. \A e : Kept(e)' <=> Kept(e)
      BY <1>1 DEF Kept, Purging
    <3>2. \A e \in Engines : Kept(e) => e = reshape.engine
      BY <1>2, <2>1 DEF Faithful, InPlace
    <3> QED
      BY <1>1, <1>4, <1>9, <3>1, <3>2 DEF InPlace
  <2>3. Syncing'
    <3>1. sync.step # "idle" => sync.engine \in Engines
      BY DEF ServingInv, Slots
    <3>2. sync.step # "idle" /\ place[sync.engine] = "gone" => place'[sync.engine] = "gone"
      BY <3>1 DEF Places
    <3> QED
      BY <1>1, <2>1, <3>2 DEF Faithful, Syncing
  <2>4. Rewriting'
    BY <1>1, <1>3 DEF Rewriting, Rebuilding
  <2>5. \A t \in Topics : Done(t)' => Right(t)'
    BY <1>1, <2>1 DEF Faithful, Done, Right, Copying
  <2> QED
    BY <2>2, <2>3, <2>4, <2>5 DEF Faithful
<1> QED
  BY <1>6, <1>8, <1>9 DEF ServingInv

\* What only the registry, or whoever waits for it, does to the contents: nothing.
LEMMA ContentsStay ==
  ASSUME ServingInv, UNCHANGED <<ledger, owed, at, place, sync, reshape, history>>,
         rebuild' = rebuild \/ ~Rebuilding'
  PROVE  /\ OnDisk'
         /\ ~astray' /\ InPlace' => Faithful'
<1>1. OnDisk'
  BY DEF ServingInv, OnDisk
<1>2. ASSUME ~astray', InPlace'
      PROVE  Faithful'
  <2>1. Faithful
    BY <1>2 DEF ServingInv, history
  <2>2. Syncing'
    BY <2>1 DEF Faithful, Syncing
  <2>3. Rewriting'
    BY <2>1 DEF Faithful, Rewriting, Rebuilding, Ready, Left, Done
  <2>4. \A t \in Topics : Done(t)' => Right(t)'
    BY <2>1, RightStays DEF Faithful, Done, history
  <2> QED
    BY <1>2, <2>2, <2>3, <2>4 DEF Faithful
<1> QED
  BY <1>1, <1>2

\* A rebuild writes over what it finds, and knows what it may have made stale.
LEMMA OverwrittenIsRight ==
  ASSUME ServingInv, rebuild.step = "write"
  PROVE  /\ Overwritten(at["live"]) \in Content
         /\ ~astray => \A t \in Topics :
              Done(t) /\ t \notin Stale => Overwritten(at["live"])[t] = ledger[t]
<1>1. at["live"] \in Content /\ rebuild.states \in Content
  BY RebuildIsAlone, Fields DEF ServingInv, Rebuilding
<1>2. Overwritten(at["live"]) \in Content
  BY <1>1 DEF Overwritten, Content
<1>3. ASSUME ~astray, NEW t \in Topics, Done(t), t \notin Stale
      PROVE  Overwritten(at["live"])[t] = ledger[t]
  <2>1. Ready(t)
    BY <1>3 DEF ServingInv, Faithful, Rewriting, Rebuilding
  <2>2. t \in rebuild.crossed => rebuild.states[t] \in {Absent, ledger[t]}
    BY <1>3 DEF Stale
  <2> QED
    BY <2>1, <2>2 DEF Ready, Overwritten
<1> QED
  BY <1>2, <1>3

\* What a rebuild leaves when it dies in the middle.
LEMMA HalfWrittenIsRight ==
  ASSUME ServingInv, at' \in HalfWritten
  PROVE  /\ at' \in Directories
         /\ at'["live"] = Nothing <=> at["live"] = Nothing
         /\ at'["replaced"] = at["replaced"]
         /\ ~Rebuilding => at' = at
         /\ ~astray => \A t \in Topics :
              Done(t) /\ Right(t) /\ t \notin spoiled \cup missed \cup Stale => Served'[t] = ledger[t]
<1>1. at \in Directories
  BY DEF ServingInv, TypeOK
<1>2. CASE at' = at
  <2>1. Served' = Served
    BY <1>2 DEF Served, Recovered
  <2> QED
    BY <1>1, <1>2, <2>1 DEF Right
<1>3. CASE at' # at
  <2> DEFINE index == Overwritten(at["live"])
  <2>1. rebuild.step = "write" /\ at' = [at EXCEPT !["live"] = index]
    BY <1>3 DEF HalfWritten
  <2>2. /\ index \in Content /\ at["live"] \in Content
        /\ ~astray => \A t \in Topics : Done(t) /\ t \notin Stale => index[t] = ledger[t]
    BY <2>1, OverwrittenIsRight, RebuildIsAlone DEF Rebuilding
  <2> HIDE DEF index
  <2>3. at' \in Directories /\ at'["live"] = index /\ at'["replaced"] = at["replaced"]
    BY <1>1, <2>1, <2>2 DEF Directories, Places
  <2>4. index # Nothing /\ at["live"] # Nothing /\ Served' = index
    BY <2>2, <2>3, ServedThen, NothingAssumption
  <2> QED
    BY <2>1, <2>2, <2>3, <2>4 DEF Rebuilding
<1> QED
  BY <1>2, <1>3

(***************************************************************************)
(* What each action keeps.                                                 *)
(***************************************************************************)
LEMMA WriteKeeps ==
  ASSUME ServingInv, NEW t \in Topics, NEW text \in Text, Write(t, text)
  PROVE  ServingInv'
<1>1. /\ sync \in Syncings
      /\ sync.step = "idle" => sync.topic # t
      /\ sync' = IF sync.topic = t THEN [sync EXCEPT !.claimed = FALSE] ELSE sync
  BY ServingAssumption DEF ServingInv, TypeOK, Slots, NoSync, Write
<1>2. /\ sync' \in Syncings
      /\ sync'.step = sync.step /\ sync'.engine = sync.engine /\ sync'.topic = sync.topic
      /\ sync'.text = sync.text
      /\ sync'.claimed => sync.claimed /\ sync.topic # t
      /\ sync.claimed /\ sync.topic # t => sync'.claimed
      /\ sync.step = "idle" => sync' = sync
  <2>1. CASE sync.topic = t
    BY <1>1, <2>1, Unclaimed
  <2>2. CASE sync.topic # t
    BY <1>1, <2>2
  <2> QED
    BY <2>1, <2>2
<1>3. \A u \in Topics \ {t} : ledger'[u] = ledger[u]
  BY DEF ServingInv, TypeOK, Write, Content
<1>4. /\ owed' = owed \cup {t} /\ at' = at /\ place' = place /\ rebuild' = rebuild
      /\ reshape' = reshape /\ purge' = purge
      /\ spoiled' = spoiled /\ missed' = missed /\ astray' = astray
      /\ slot' = slot /\ locked' = locked /\ keeping' = keeping
  BY DEF Write, registry, history
<1>5. TypeOK'
  <2>1. ledger' \in Content /\ owed' \subseteq Topics
    BY DEF ServingInv, TypeOK, Write, Content
  <2> QED
    BY <1>2, <1>4, <2>1 DEF ServingInv, TypeOK
<1>6. Slots'
  BY <1>2, <1>4 DEF ServingInv, Slots, Emptying, Purging, Rebuilding, NoSync, NoReshape, NoPurge
<1>7. \A e : Held(e)' <=> Held(e)
  BY <1>2, <1>4 DEF Held, Users
<1>8. Exclusion' /\ Alone' /\ OnDisk'
  BY <1>4, <1>7 DEF ServingInv, Exclusion, Alone, OnDisk, Kept, Purging, Rebuilding, Reshaping,
                    Swapping, On
<1>9. ASSUME NEW u \in Topics, Done(u)'
      PROVE  u # t /\ Done(u) /\ ledger'[u] = ledger[u]
  BY <1>2, <1>3, <1>4, <1>9 DEF Done
<1>10. ASSUME ~astray'
       PROVE  Faithful'
  <2>1. Faithful
    BY <1>4, <1>10 DEF ServingInv
  <2>2. InPlace'
    BY <1>4, <1>7, <2>1 DEF Faithful, InPlace, Kept, Purging, Reshaping, Swapping, On
  <2>3. Syncing'
    BY <1>1, <1>2, <1>3, <1>4, <2>1 DEF ServingInv, Faithful, Syncing, Slots
  <2>4. Rewriting'
    BY <1>1, <1>2, <1>3, <1>4, <1>9, <2>1
    DEF ServingInv, Faithful, Rewriting, Rebuilding, Ready, Left, Slots
  <2>5. \A u \in Topics : Done(u)' => Right(u)'
    BY <1>4, <1>9, <2>1, RightStays DEF Faithful
  <2> QED
    BY <2>2, <2>3, <2>4, <2>5 DEF Faithful
<1> QED
  BY <1>5, <1>6, <1>8, <1>10 DEF ServingInv

\* An engine opened where a swap is at work: nothing is moved, nor claimed any more.
LEMMA OpenAstrayKeeps ==
  ASSUME ServingInv, NEW e \in Engines, Open(e), Swapping
  PROVE  ServingInv'
<1>1. /\ slot = Nobody /\ ~locked /\ ~Held(e) /\ ~Free /\ Reshaping
  BY DEF Open, Free, Swapping, Reshaping
<1>2. /\ place' = [place EXCEPT ![e] = "live"] /\ at' = Created(at) /\ slot' = e
      /\ \A d \in Engines : Held(d) => place[d] # "live"
      /\ keeping' = IF keeping = e THEN Nobody ELSE keeping
      /\ ledger' = ledger /\ owed' = owed /\ locked' = locked /\ sync' = sync /\ reshape' = reshape
      /\ rebuild' = rebuild /\ purge' = purge /\ spoiled' = spoiled /\ missed' = missed
      /\ astray' = TRUE
  BY <1>1 DEF Open
<1>3. /\ at' \in Directories /\ at'["live"] # Nothing /\ at'["replaced"] = at["replaced"]
  BY <1>2, DirectoriesAre, Shapes, NothingAssumption DEF ServingInv, TypeOK
<1>4. TypeOK'
  BY <1>2, <1>3 DEF ServingInv, TypeOK, Engine, Handles, Places
<1>5. ~Emptying /\ ~Purging /\ ~Rebuilding /\ ~Held(keeping) /\ reshape.engine \in Engines
      /\ rebuild.step \in {"idle", "wait"} /\ Held(reshape.engine)
      /\ place[reshape.engine] = "closed"
  BY <1>1, ReshapeIsAlone DEF ServingInv, Slots, Rebuilding
<1>6. Slots'
  BY <1>1, <1>2, <1>5 DEF ServingInv, Slots, Emptying, Purging, Rebuilding, NoSync, NoReshape, NoPurge
<1>7. /\ Held(e)' /\ \A d \in Engines \ {e} : Held(d)' <=> Held(d)
      /\ place'[e] = "live" /\ \A d \in Engines \ {e} : place'[d] = place[d]
  BY <1>1, <1>2, ServingAssumption DEF Held, Users, ServingInv, TypeOK
<1>8. Alone'
  BY <1>2, <1>3, <1>7 DEF ServingInv, Alone, On, Places
<1>9. ~Held(keeping)'
  <2>1. keeping' # e /\ keeping' \in {keeping, Nobody}
    BY <1>2, ServingAssumption
  <2> QED
    BY <1>5, <1>7, <2>1, ServingAssumption DEF Held
<1>10. Exclusion'
  BY <1>1, <1>2, <1>5, <1>7, <1>9 DEF ServingInv, Exclusion, Reshaping, Swapping, Rebuilding, Emptying
<1>11. OnDisk'
  BY <1>2, <1>3 DEF ServingInv, OnDisk, Swapping
<1> QED
  BY <1>2, <1>4, <1>6, <1>8, <1>10, <1>11 DEF ServingInv

LEMMA OpenKeeps ==
  ASSUME ServingInv, NEW e \in Engines, Open(e)
  PROVE  ServingInv'
<1> SUFFICES ASSUME ~Swapping PROVE ServingInv'
  BY OpenAstrayKeeps
<1>1. /\ slot = Nobody /\ ~locked /\ ~Held(e) /\ ~Emptying /\ ~Purging
  BY DEF ServingInv, Slots, Open
<1>2. Free /\ ~Reshaping /\ ~Rebuilding /\ ~Held(keeping)
  <2>1. CASE Free
    BY <1>1, <2>1 DEF Free, Reshaping, Rebuilding, Emptying
  <2>2. CASE ~Free
    <3>1. \A d \in Engines : Held(d) => place[d] # "live"
      BY <2>2 DEF Open
    <3>2. ~Reshaping
      BY <3>1, ReshapeIsAlone
    <3>3. ~Rebuilding
      BY <3>1, RebuildIsAlone
    <3>4. ~Held(keeping)
      BY <3>1 DEF ServingInv, Exclusion, Held
    <3> QED
      BY <1>1, <2>2, <3>2, <3>3, <3>4
      DEF Free, Reshaping, Rebuilding, Emptying, ServingInv, TypeOK, Reindexes
  <2> QED
    BY <2>1, <2>2
<1>3. /\ at' = Created(Recovered) /\ slot' = e
      /\ place' = [Recarried EXCEPT ![e] = "live"]
      /\ \A d \in Engines : Held(d) => Recarried[d] # "live"
      /\ keeping' = IF keeping = e THEN Nobody ELSE keeping
      /\ ledger' = ledger /\ owed' = owed /\ locked' = locked /\ sync' = sync /\ reshape' = reshape
      /\ rebuild' = rebuild /\ purge' = purge /\ spoiled' = spoiled /\ missed' = missed
      /\ astray' = (astray \/ Swapping)
  BY <1>2 DEF Open
<1>4. /\ at' \in Directories /\ at'["live"] \in Content /\ at'["live"] # Nothing
      /\ Served' = Served
  <2>1. at \in Directories /\ Recovered \in Directories
    BY RecoveredIs DEF ServingInv, TypeOK
  <2>2. at' \in Directories
    BY <1>3, <2>1, DirectoriesAre
  <2> QED
    BY <1>3, <2>1, <2>2, DirectoriesAre, RecoveredIs, ServedIs, ServedThen, Shapes, NothingAssumption
<1>5. /\ Recarried \in [Engines -> Handles]
      /\ \A d \in Engines : /\ Recarried[d] # "replaced"
                            /\ place[d] # "replaced" => Recarried[d] = place[d]
  BY RecarriedIs DEF ServingInv, TypeOK
<1>6. /\ Held(e)' /\ \A d \in Engines \ {e} : Held(d)' <=> Held(d)
      /\ place' \in [Engines -> Handles]
      /\ place'[e] = "live" /\ \A d \in Engines \ {e} : place'[d] = Recarried[d]
  BY <1>1, <1>3, <1>5, ServingAssumption DEF Held, Users, Handles, Places
<1>7. TypeOK'
  BY <1>3, <1>4, <1>6 DEF ServingInv, TypeOK, Engine
<1>8. Slots'
  BY <1>1, <1>3 DEF ServingInv, Slots, Emptying, Purging, Rebuilding, NoSync, NoReshape, NoPurge
<1>9. On("live")' = {e} /\ On("replaced")' = {}
  BY <1>3, <1>5, <1>6 DEF On
<1>10. Alone'
  BY <1>4, <1>9 DEF Alone, Places
<1>11. ~Held(keeping)'
  <2>1. keeping' # e /\ keeping' \in {keeping, Nobody}
    BY <1>3, ServingAssumption
  <2> QED
    BY <1>2, <1>6, <2>1, ServingAssumption DEF Held
<1>12. Exclusion' /\ OnDisk'
  BY <1>1, <1>2, <1>3, <1>11 DEF Exclusion, OnDisk, Emptying, Rebuilding, Reshaping
<1>13. ASSUME ~astray'
       PROVE  Faithful'
  <2>1. Faithful
    BY <1>3, <1>13 DEF ServingInv
  <2>2. InPlace'
    BY <1>1, <1>2, <1>3, <1>6, <1>9 DEF InPlace, Kept, Purging, Reshaping, Swapping
  <2>3. Syncing'
    <3>1. sync.step # "idle" => sync.engine \in Engines \ {e}
      BY <1>1 DEF ServingInv, Slots, Held, Users
    <3> QED
      BY <1>3, <1>5, <1>6, <2>1, <3>1 DEF Faithful, Syncing
  <2>4. Rewriting'
    BY <1>2, <1>3 DEF Rewriting, Rebuilding
  <2>5. \A t \in Topics : Done(t)' => Right(t)'
    BY <1>2, <1>3, <1>4, <2>1 DEF Faithful, Done, Right, Copying, Reshaping
  <2> QED
    BY <2>2, <2>3, <2>4, <2>5 DEF Faithful
<1> QED
  BY <1>7, <1>8, <1>10, <1>12, <1>13 DEF ServingInv

LEMMA CloseKeeps ==
  ASSUME ServingInv, Close
  PROVE  ServingInv'
<1>1. /\ slot # Nobody /\ slot \notin Users /\ ~locked /\ slot' = Nobody
      /\ ledger' = ledger /\ owed' = owed /\ at' = at /\ place' = place /\ sync' = sync
      /\ reshape' = reshape /\ rebuild' = rebuild /\ purge' = purge /\ history' = history
      /\ locked' = locked /\ keeping' = keeping
  BY DEF Close
<1>2. ~Emptying /\ ~Purging /\ ~Rebuilding
  BY <1>1 DEF ServingInv, Slots, Exclusion, Kept, Users
<1>3. \A e : Held(e)' => Held(e)
  BY <1>1, ServingAssumption DEF Held, Users
<1>4. TypeOK' /\ Slots'
  BY <1>1, <1>2 DEF ServingInv, TypeOK, Engine, Slots, Emptying, Purging, Rebuilding, NoSync,
                    NoReshape, NoPurge, history
<1>5. Exclusion'
  BY <1>1, <1>2, <1>3 DEF ServingInv, Exclusion, Rebuilding, Reshaping, Swapping, history
<1>6. Alone'
  BY <1>1, <1>3, AloneStays
<1>7. ASSUME ~astray'
      PROVE  InPlace'
  <2>1. Faithful
    BY <1>1, <1>7 DEF ServingInv, history
  <2> QED
    BY <1>1, <1>2, <1>3, <2>1, ServingAssumption
    DEF Faithful, InPlace, Kept, Purging, Reshaping, Swapping, On
<1> QED
  BY <1>1, <1>4, <1>5, <1>6, <1>7, ContentsStay DEF ServingInv

LEMMA SyncBeginKeeps ==
  ASSUME ServingInv, NEW t \in Topics, SyncBegin(t)
  PROVE  ServingInv'
<1>1. /\ sync.step = "idle" /\ t \in owed /\ slot \in Engines /\ slot # Nobody /\ ~locked
      /\ sync' = [step |-> "read", engine |-> slot, topic |-> t, text |-> Absent, claimed |-> TRUE]
  BY DEF SyncBegin, NoSync, ServingInv, TypeOK, Engine
<1>2. sync' \in Syncings
  BY <1>1 DEF Syncings, Engine, Text
<1>3. /\ sync'.step = "read" /\ sync'.engine = slot /\ sync'.topic = t /\ sync'.claimed = TRUE
  BY <1>1
<1>4. /\ ledger' = ledger /\ owed' = owed /\ at' = at /\ place' = place /\ reshape' = reshape
      /\ rebuild' = rebuild /\ purge' = purge
      /\ spoiled' = spoiled /\ missed' = missed /\ astray' = astray
      /\ slot' = slot /\ locked' = locked /\ keeping' = keeping
  BY DEF SyncBegin, registry, history
<1>5. TypeOK'
  BY <1>2, <1>4 DEF ServingInv, TypeOK
<1>6. Slots'
  BY <1>1, <1>3, <1>4 DEF ServingInv, Slots, Emptying, Purging, Rebuilding, NoReshape, NoPurge
<1>7. \A e : Held(e)' <=> Held(e)
  <2>1. sync.engine = Nobody
    BY <1>1 DEF ServingInv, Slots, NoSync
  <2> QED
    BY <1>1, <1>3, <1>4, <2>1, ServingAssumption DEF Held, Users
<1>8. Exclusion' /\ Alone' /\ OnDisk'
  BY <1>4, <1>7 DEF ServingInv, Exclusion, Alone, OnDisk, Kept, Purging, Rebuilding, Reshaping,
                    Swapping, On
<1>9. \A u \in Topics : Done(u)' => Done(u)
  BY <1>3, <1>4 DEF Done
<1>10. ASSUME ~astray'
       PROVE  Faithful'
  <2>1. Faithful
    BY <1>4, <1>10 DEF ServingInv
  <2>2. InPlace'
    BY <1>4, <1>7, <2>1 DEF Faithful, InPlace, Kept, Purging, Reshaping, Swapping, On
  <2>3. Syncing'
    BY <1>3, <1>4 DEF Syncing
  <2>4. Rewriting'
    <3>1. Rebuilding => place[slot] = "live"
      BY <1>1, ServingAssumption DEF ServingInv, Exclusion, Kept, Slots
    <3>2. \A u \in Topics : Ready(u) => Ready(u)'
      BY <1>4 DEF Ready
    <3> QED
      BY <1>3, <1>4, <1>9, <2>1, <3>1, <3>2 DEF Faithful, Rewriting, Rebuilding
  <2>5. \A u \in Topics : Done(u)' => Right(u)'
    BY <1>4, <1>9, <2>1, RightStays DEF Faithful
  <2> QED
    BY <2>2, <2>3, <2>4, <2>5 DEF Faithful
<1> QED
  BY <1>5, <1>6, <1>8, <1>10 DEF ServingInv

LEMMA SyncReadKeeps ==
  ASSUME ServingInv, SyncRead
  PROVE  ServingInv'
<1>1. /\ sync.step = "read" /\ sync.topic \in Topics /\ sync \in Syncings
      /\ sync' = [sync EXCEPT !.step = "write", !.text = ledger[sync.topic]]
      /\ ledger[sync.topic] \in Text
  BY Fields DEF SyncRead, ServingInv, TypeOK, Slots
<1>2. /\ sync' \in Syncings
      /\ sync'.step = "write" /\ sync'.engine = sync.engine /\ sync'.topic = sync.topic
      /\ sync'.claimed = sync.claimed /\ sync'.text = ledger[sync.topic]
  BY <1>1 DEF Syncings
<1>3. /\ ledger' = ledger /\ owed' = owed /\ at' = at /\ place' = place /\ reshape' = reshape
      /\ rebuild' = rebuild /\ purge' = purge
      /\ spoiled' = spoiled /\ missed' = missed /\ astray' = astray
      /\ slot' = slot /\ locked' = locked /\ keeping' = keeping
  BY DEF SyncRead, registry, history
<1>4. TypeOK'
  BY <1>2, <1>3 DEF ServingInv, TypeOK
<1>5. Slots'
  BY <1>1, <1>2, <1>3 DEF ServingInv, Slots, Emptying, Purging, Rebuilding, NoReshape, NoPurge
<1>6. \A e : Held(e)' <=> Held(e)
  BY <1>2, <1>3 DEF Held, Users
<1>7. Exclusion' /\ Alone' /\ OnDisk'
  BY <1>3, <1>6 DEF ServingInv, Exclusion, Alone, OnDisk, Kept, Purging, Rebuilding, Reshaping,
                    Swapping, On
<1>8. \A u \in Topics : Done(u)' => Done(u)
  BY <1>2, <1>3 DEF Done
<1>9. ASSUME ~astray'
      PROVE  Faithful'
  <2>1. Faithful
    BY <1>3, <1>9 DEF ServingInv
  <2>2. InPlace'
    BY <1>3, <1>6, <2>1 DEF Faithful, InPlace, Kept, Purging, Reshaping, Swapping, On
  <2>3. Syncing'
    BY <1>1, <1>2, <1>3, <2>1 DEF Faithful, Syncing
  <2>4. Rewriting'
    <3>1. \A u \in Topics : Ready(u) => Ready(u)'
      BY <1>3 DEF Ready
    <3> QED
      BY <1>1, <1>2, <1>3, <1>8, <2>1, <3>1 DEF Faithful, Rewriting, Rebuilding, Left
  <2>5. \A u \in Topics : Done(u)' => Right(u)'
    BY <1>3, <1>8, <2>1, RightStays DEF Faithful
  <2> QED
    BY <2>2, <2>3, <2>4, <2>5 DEF Faithful
<1> QED
  BY <1>4, <1>5, <1>7, <1>9 DEF ServingInv

LEMMA SyncWriteKeeps ==
  ASSUME ServingInv, SyncWrite
  PROVE  ServingInv'
<1> DEFINE t == sync.topic
           e == sync.engine
           p == place[sync.engine]
           writes == p \in Places /\ at[p][t] # sync.text
           touched == IF writes /\ reshape.engine = e
                      THEN reshape.touched \cup {t} ELSE reshape.touched
           crossed == IF rebuild.step = "write" /\ p = "live"
                      THEN rebuild.crossed \cup {t} ELSE rebuild.crossed
<1>1. /\ sync.step = "write" /\ t \in Topics /\ e \in Engines /\ sync.text \in Text
      /\ Held(e)
      /\ p \in {"live", "replaced", "previous", "closed", "gone"}
  BY Fields DEF SyncWrite, ServingInv, TypeOK, Slots, Held, Users, Handles, Places
<1>2. /\ ledger' = ledger /\ owed' = owed /\ place' = place /\ purge' = purge
      /\ slot' = slot /\ locked' = locked /\ keeping' = keeping /\ astray' = astray
  BY DEF SyncWrite, registry
<1>3. /\ reshape' \in Reshapes /\ reshape'.touched = touched
      /\ reshape'.step = reshape.step /\ reshape'.engine = reshape.engine
      /\ reshape'.todo = reshape.todo /\ reshape'.topic = reshape.topic
      /\ reshape'.text = reshape.text /\ reshape'.copy = reshape.copy
      /\ ~(writes /\ reshape.engine = e) => reshape' = reshape
  <2>1. reshape' = IF writes /\ reshape.engine = e
                   THEN [reshape EXCEPT !.touched = @ \cup {t}] ELSE reshape
    BY DEF SyncWrite, Recording
  <2>2. reshape \in Reshapes
    BY DEF ServingInv, TypeOK
  <2> HIDE DEF t, e, writes
  <2>3. CASE writes /\ reshape.engine = e
    BY <1>1, <2>1, <2>2, <2>3 DEF Reshapes, touched
  <2>4. CASE ~(writes /\ reshape.engine = e)
    BY <2>1, <2>2, <2>4 DEF touched
  <2> QED
    BY <2>3, <2>4
<1>4. /\ rebuild' \in Reindexes /\ rebuild'.crossed = crossed
      /\ rebuild'.step = rebuild.step /\ rebuild'.engine = rebuild.engine
      /\ rebuild'.states = rebuild.states
  <2>1. rebuild' = IF rebuild.step = "write" /\ p = "live"
                   THEN [rebuild EXCEPT !.crossed = @ \cup {t}] ELSE rebuild
    BY DEF SyncWrite
  <2>2. rebuild \in Reindexes
    BY DEF ServingInv, TypeOK
  <2> HIDE DEF t, p
  <2>3. CASE rebuild.step = "write" /\ p = "live"
    BY <1>1, <2>1, <2>2, <2>3 DEF Reindexes, crossed
  <2>4. CASE ~(rebuild.step = "write" /\ p = "live")
    BY <2>1, <2>2, <2>4 DEF crossed
  <2> QED
    BY <2>3, <2>4
<1>5. /\ sync' \in Syncings
      /\ p = "closed" => sync' = NoSync
      /\ p # "closed" => /\ sync'.step = "done" /\ sync'.engine = e /\ sync'.topic = t
                         /\ sync'.claimed = sync.claimed
  <2>1. sync' = IF p = "closed" THEN NoSync ELSE [sync EXCEPT !.step = "done"]
    BY DEF SyncWrite
  <2>2. sync \in Syncings
    BY DEF ServingInv, TypeOK
  <2>3. [sync EXCEPT !.step = "done"] \in Syncings
    BY <2>2 DEF Syncings
  <2> QED
    BY <2>1, <2>2, <2>3, Shapes DEF Syncings
<1>6. /\ at' \in Directories
      /\ \A q \in Places : q # p => at'[q] = at[q]
      /\ p \in Places => /\ at[p] \in Content /\ at'[p] \in Content
                         /\ at'[p][t] = sync.text
                         /\ \A u \in Topics \ {t} : at'[p][u] = at[p][u]
      /\ ~writes => at' = at
      /\ \A q \in Places : at'[q] = Nothing <=> at[q] = Nothing
  <2>1. at \in Directories
    BY DEF ServingInv, TypeOK
  <2>2. p \in Places => at[p] \in Content
    BY <1>1, LiveIsThere
  <2>3. at' = IF writes THEN [at EXCEPT ![p] = [at[p] EXCEPT ![t] = sync.text]] ELSE at
    BY DEF SyncWrite
  <2>4. CASE writes
    <3> DEFINE index == [at[p] EXCEPT ![t] = sync.text]
    <3>1. /\ index \in Content /\ index[t] = sync.text
          /\ \A u \in Topics \ {t} : index[u] = at[p][u]
      BY <1>1, <2>2, <2>4, SetIn
    <3>2. at' = [at EXCEPT ![p] = index]
      BY <2>3, <2>4
    <3>3. p \in Places /\ at[p] # Nothing /\ index # Nothing
      BY <2>2, <2>4, <3>1, NothingAssumption
    <3> HIDE DEF index, p, writes
    <3>4. at' \in Directories /\ at'[p] = index /\ \A q \in Places \ {p} : at'[q] = at[q]
      BY <2>1, <3>1, <3>2, <3>3 DEF Directories
    <3> QED
      BY <2>2, <2>4, <3>1, <3>3, <3>4
  <2>5. CASE ~writes
    BY <2>1, <2>2, <2>3, <2>5
  <2> QED
    BY <2>4, <2>5
<1>7. /\ spoiled' \subseteq Topics /\ missed' \subseteq Topics
      /\ \A u \in Topics \ {t} : /\ u \in spoiled <=> u \in spoiled'
                                 /\ u \in missed <=> u \in missed'
      /\ p # "live" => spoiled \subseteq spoiled' /\ missed \subseteq missed'
      /\ p \in {"gone", "previous"} /\ sync.claimed => t \in spoiled'
      /\ ~writes /\ NotCopied(t) => t \in missed'
  BY <1>1 DEF SyncWrite, ServingInv, TypeOK
<1>8. p = "live" /\ Reshaping /\ ~Swapping => reshape.engine = e
  BY <1>1, ReshapeIsAlone
<1> HIDE DEF t, e, p, writes, touched, crossed
<1>9. TypeOK'
  BY <1>2, <1>3, <1>4, <1>5, <1>6, <1>7 DEF ServingInv, TypeOK
<1>10. Slots'
  <2>1. reshape.step = "idle" => reshape' = reshape
    <3>1. reshape.step = "idle" => reshape.engine = Nobody
      BY DEF ServingInv, Slots, NoReshape
    <3> QED
      BY <1>1, <1>3, <3>1, ServingAssumption
  <2>2. rebuild.step # "write" => rebuild'.crossed = rebuild.crossed
    BY <1>4 DEF crossed
  <2> QED
    BY <1>1, <1>2, <1>3, <1>4, <1>5, <2>1, <2>2
    DEF ServingInv, Slots, Emptying, Purging, Rebuilding, NoSync, NoPurge
<1>11. \A d : Held(d)' => Held(d)
  <2>1. sync'.engine \in {e, Nobody}
    BY <1>1, <1>5 DEF NoSync
  <2> QED
    BY <1>2, <1>3, <1>4, <2>1, ServingAssumption DEF Held, Users, e
<1>12. Exclusion'
  <2>1. rebuild.step = "open" => at'["live"] = Nothing /\ spoiled' = Topics
    <3>1. rebuild.step = "open" => p # "live" /\ spoiled = Topics /\ at["live"] = Nothing
      BY <1>1 DEF ServingInv, Exclusion, p, e
    <3> QED
      BY <1>6, <1>7, <3>1 DEF Places
  <2> QED
    BY <1>2, <1>3, <1>4, <1>11, <2>1
    DEF ServingInv, Exclusion, Kept, Purging, Rebuilding, Reshaping, Swapping
<1>13. Alone'
  BY <1>2, <1>6, <1>11, AloneStays
<1>14. OnDisk'
  <2>1. ASSUME reshape.step = "apply", reshape.topic \notin touched
        PROVE  reshape.text = at'["live"][reshape.topic]
    <3>1. reshape.topic \in Topics /\ reshape.text = at["live"][reshape.topic]
      BY <2>1 DEF ServingInv, OnDisk, Exclusion, Reshaping, touched
    <3>2. CASE writes /\ p = "live"
      <4>1. reshape.engine = e
        BY <1>8, <2>1, <3>2 DEF Reshaping, Swapping
      <4>2. reshape.topic # t
        BY <2>1, <3>2, <4>1 DEF touched
      <4> QED
        BY <1>6, <3>1, <3>2, <4>2 DEF Places
    <3>3. CASE ~(writes /\ p = "live")
      BY <1>6, <3>1, <3>3 DEF Places
    <3> QED
      BY <3>2, <3>3
  <2> QED
    BY <1>3, <1>6, <2>1 DEF ServingInv, OnDisk, Places
<1>15. ASSUME ~astray'
       PROVE  Faithful'
  <2>1. Faithful
    BY <1>2, <1>15 DEF ServingInv
  <2>2. InPlace'
    BY <1>2, <1>3, <1>6, <1>11, <2>1
    DEF Faithful, InPlace, Kept, Purging, Reshaping, Swapping, On, Places
  <2>3. p # "replaced" /\ (p = "live" => ~Swapping)
    BY <1>1, <2>1 DEF Faithful, InPlace, On, p, e
  <2>4. p = "live" => /\ sync.claimed \/ t \in owed
                      /\ sync.claimed => sync.text = ledger[t]
    BY <1>1, <2>1 DEF Faithful, Syncing, p, e, t
  <2>5. Syncing'
    <3>1. CASE p = "closed"
      BY <1>5, <3>1 DEF Syncing, NoSync
    <3>2. CASE p # "closed"
      BY <1>1, <1>2, <1>5, <2>1, <3>2 DEF Faithful, Syncing, t, e
    <3> QED
      BY <3>1, <3>2
  <2>6. ASSUME NEW u \in Topics, u # t, Done(u)'
        PROVE  Done(u) /\ Right(u)
    <3>1. u \notin owed
      BY <1>2, <1>5, <2>6 DEF Done, NoSync
    <3> QED
      BY <2>1, <3>1 DEF Faithful, Done
  <2>7. ASSUME NEW u \in Topics, u = t, Done(u)', p = "live"
        PROVE  sync.claimed /\ sync.text = ledger[t]
    BY <1>2, <1>5, <2>4, <2>7 DEF Done
  <2>8. ASSUME NEW u \in Topics, u = t, Done(u)', p # "live",
               ~(p \in {"gone", "previous"} /\ sync.claimed)
        PROVE  Done(u) /\ Right(u)
    <3>1. u \notin owed
      BY <1>1, <1>2, <1>5, <2>3, <2>8 DEF Done, NoSync
    <3> QED
      BY <2>1, <3>1 DEF Faithful, Done
  <2>9. Rewriting'
    <3> SUFFICES ASSUME Rebuilding PROVE Rewriting'
      BY <1>4 DEF Rewriting, Rebuilding
    <3>1. /\ \A u \in Topics : Done(u) => Ready(u)
          /\ p # "live" => Left
      BY <1>1, <2>1 DEF Faithful, Rewriting, p
    <3>2. CASE p = "live"
      <4>1. ASSUME NEW u \in Topics, Done(u)'
            PROVE  Ready(u)'
        <5>1. CASE u = t
          <6>1. at'["live"][u] = ledger[u]
            BY <1>6, <2>7, <3>2, <4>1, <5>1 DEF Places
          <6>2. rebuild.step = "write" => u \in crossed
            BY <3>2, <5>1 DEF crossed
          <6> QED
            BY <1>2, <1>4, <6>1, <6>2 DEF Ready
        <5>2. CASE u # t
          <6>1. Ready(u)
            BY <2>6, <3>1, <4>1, <5>2
          <6>2. at'["live"][u] = at["live"][u]
            BY <1>6, <3>2, <5>2 DEF Places
          <6>3. u \in crossed <=> u \in rebuild.crossed
            BY <5>2 DEF crossed
          <6> QED
            BY <1>2, <1>4, <6>1, <6>2, <6>3 DEF Ready
        <5> QED
          BY <5>1, <5>2
      <4>2. sync'.step # "idle" => place'[sync'.engine] = "live"
        BY <1>2, <1>5, <3>2 DEF p, e
      <4> QED
        BY <4>1, <4>2 DEF Rewriting
    <3>3. CASE p # "live"
      <4>1. at' = at /\ rebuild'.crossed = rebuild.crossed
        BY <1>4, <1>6, <2>3, <3>3 DEF crossed, writes, Places
      <4>2. ASSUME NEW u \in Topics, Done(u)'
            PROVE  Ready(u)
        <5>1. CASE u = t /\ sync.claimed
          BY <1>1, <3>1, <3>3, <5>1 DEF Left, Ready, Empty, t
        <5>2. CASE ~(u = t /\ sync.claimed)
          BY <2>6, <2>8, <3>1, <3>3, <4>2, <5>2
        <5> QED
          BY <5>1, <5>2
      <4>3. \A u \in Topics : Ready(u) => Ready(u)'
        BY <1>2, <1>4, <4>1 DEF Ready
      <4>4. sync'.step # "idle" => Left'
        BY <1>1, <1>2, <1>4, <1>5, <3>1, <3>3, <4>1 DEF Left, NoSync, t
      <4> QED
        BY <4>2, <4>3, <4>4 DEF Rewriting
    <3> QED
      BY <3>2, <3>3
  <2>10. ASSUME NEW u \in Topics, Done(u)'
         PROVE  Right(u)'
    <3>1. CASE u # t
      <4>1. Right(u)
        BY <2>6, <2>10, <3>1
      <4>2. /\ at["live"] # Nothing => at'["live"][u] = at["live"][u]
            /\ at["replaced"] # Nothing => at'["replaced"][u] = at["replaced"][u]
        BY <1>1, <1>6, <3>1 DEF Places
      <4>3. Served'[u] = Served[u]
        BY <1>1, <1>6, <4>2, ServedIs, ServedThen DEF ServingInv, TypeOK, Places
      <4>4. Copying => WillSay(u)' = WillSay(u)
        <5>1. u \in touched <=> u \in reshape.touched
          BY <3>1 DEF touched
        <5>2. Copying => at["live"] # Nothing
          BY DEF ServingInv, OnDisk, Copying
        <5> QED
          BY <1>3, <4>2, <5>1, <5>2 DEF WillSay
      <4>5. reshape.step = "serve" => at'["replaced"][u] = at["replaced"][u]
        BY <4>2 DEF ServingInv, OnDisk
      <4> QED
        BY <1>2, <1>3, <1>7, <3>1, <4>1, <4>3, <4>4, <4>5 DEF Right, Copying
    <3>2. CASE u = t /\ p # "live"
      <4>1. CASE p \in {"gone", "previous"} /\ sync.claimed
        BY <1>7, <3>2, <4>1 DEF Right
      <4>2. CASE ~(p \in {"gone", "previous"} /\ sync.claimed)
        <5>1. Right(u)
          BY <2>8, <2>10, <3>2, <4>2
        <5>2. at' = at /\ reshape' = reshape /\ ledger'[u] = ledger[u]
                /\ (u \in spoiled \cup missed => u \in spoiled' \cup missed')
          BY <1>2, <1>3, <1>6, <1>7, <2>3, <3>2 DEF writes, Places
        <5> QED
          BY <5>1, <5>2, RightStays
      <4> QED
        BY <4>1, <4>2
    <3>3. CASE u = t /\ p = "live"
      <4>1. /\ at'["live"][u] = ledger[u] /\ sync.text = ledger[u]
            /\ at'["live"] # Nothing /\ Served'[u] = ledger[u]
        BY <1>6, <2>7, <2>10, <3>3, ServedThen, NothingAssumption DEF Places
      <4>2. CASE ~writes /\ NotCopied(t)
        BY <1>7, <3>3, <4>2 DEF Right
      <4>3. CASE ~(~writes /\ NotCopied(t))
        <5>1. Copying => WillSay(u)' = ledger[u]
          <6> SUFFICES ASSUME Copying PROVE WillSay(u)' = ledger[u]
            OBVIOUS
          <6>1. reshape.engine = e /\ Reshaping
            BY <1>8, <3>3 DEF Copying, Reshaping, Swapping
          <6>2. CASE writes
            BY <1>3, <3>3, <4>1, <6>1, <6>2 DEF WillSay, touched
          <6>3. CASE ~writes
            <7>1. \/ t \in reshape.todo \cup reshape.touched \cup {reshape.topic}
                  \/ reshape.copy[t] = sync.text
              BY <4>3, <6>1, <6>3 DEF NotCopied, Copying, e
            <7>2. reshape.topic = t => reshape.step = "apply"
              BY <1>1, <6>1, ServingAssumption DEF ServingInv, Exclusion
            <7>3. reshape.step = "apply" /\ reshape.topic = t /\ t \notin reshape.touched
                    => reshape.text = at'["live"][t]
              BY <1>6, <6>3 DEF ServingInv, OnDisk
            <7>4. touched = reshape.touched
              BY <6>3 DEF touched
            <7> QED
              BY <1>3, <3>3, <4>1, <7>1, <7>2, <7>3, <7>4 DEF WillSay
          <6> QED
            BY <6>2, <6>3
        <5>2. ~Swapping
          BY <2>3, <3>3
        <5> QED
          BY <1>2, <1>3, <4>1, <5>1, <5>2 DEF Right, Copying, Swapping
      <4> QED
        BY <4>2, <4>3
    <3> QED
      BY <1>1, <3>1, <3>2, <3>3
  <2> QED
    BY <2>2, <2>5, <2>9, <2>10 DEF Faithful
<1> QED
  BY <1>9, <1>10, <1>12, <1>13, <1>14, <1>15 DEF ServingInv

LEMMA SyncDoneKeeps ==
  ASSUME ServingInv, SyncDone
  PROVE  ServingInv'
<1>1. /\ sync.step = "done" /\ sync' = NoSync
      /\ owed' = IF sync.claimed THEN owed \ {sync.topic} ELSE owed
      /\ ledger' = ledger /\ at' = at /\ place' = place /\ reshape' = reshape
      /\ rebuild' = rebuild /\ purge' = purge
      /\ spoiled' = spoiled /\ missed' = missed /\ astray' = astray
      /\ slot' = slot /\ locked' = locked /\ keeping' = keeping
  BY DEF SyncDone, registry, history
<1>2. \A e : Held(e)' => Held(e)
  BY <1>1, ServingAssumption DEF Held, Users, NoSync
<1>3. TypeOK'
  <2>1. owed' \subseteq Topics
    BY <1>1 DEF ServingInv, TypeOK
  <2> QED
    BY <1>1, <2>1, Shapes DEF ServingInv, TypeOK
<1>4. Slots'
  BY <1>1 DEF ServingInv, Slots, Emptying, Purging, Rebuilding, NoSync, NoReshape, NoPurge
<1>5. Exclusion' /\ Alone' /\ OnDisk'
  BY <1>1, <1>2 DEF ServingInv, Exclusion, Alone, OnDisk, Kept, Purging, Rebuilding, Reshaping,
                    Swapping, On
<1>6. \A t \in Topics : Done(t)' => Done(t)
  BY <1>1 DEF Done, NoSync
<1>7. ASSUME ~astray'
      PROVE  Faithful'
  <2>1. Faithful
    BY <1>1, <1>7 DEF ServingInv
  <2>2. InPlace'
    BY <1>1, <1>2, <2>1 DEF Faithful, InPlace, Kept, Purging, Reshaping, Swapping, On
  <2>3. Syncing'
    BY <1>1 DEF Syncing, NoSync
  <2>4. Rewriting'
    <3>1. \A t \in Topics : Ready(t) => Ready(t)'
      BY <1>1 DEF Ready
    <3> QED
      BY <1>1, <1>6, <2>1, <3>1 DEF Faithful, Rewriting, Rebuilding, NoSync
  <2>5. \A t \in Topics : Done(t)' => Right(t)'
    BY <1>1, <1>6, <2>1, RightStays DEF Faithful
  <2> QED
    BY <2>2, <2>3, <2>4, <2>5 DEF Faithful
<1> QED
  BY <1>3, <1>4, <1>5, <1>7 DEF ServingInv

LEMMA ReshapeBeginKeeps ==
  ASSUME ServingInv, ReshapeBegin
  PROVE  ServingInv'
<1>1. /\ slot \in Engines /\ slot # Nobody /\ ~locked /\ Free /\ place[slot] = "live"
      /\ reshape' = [NoReshape EXCEPT !.step = "list", !.engine = slot]
  BY DEF ReshapeBegin, ServingInv, TypeOK, Engine
<1>2. /\ reshape' \in Reshapes
      /\ reshape'.step = "list" /\ reshape'.engine = slot /\ reshape'.topic = Nobody
      /\ reshape'.copy = Empty
  BY <1>1, Shapes DEF Reshapes, NoReshape, Engine
<1>3. /\ ledger' = ledger /\ owed' = owed /\ at' = at /\ place' = place /\ sync' = sync
      /\ rebuild' = rebuild /\ purge' = purge
      /\ spoiled' = spoiled /\ missed' = missed /\ astray' = astray
      /\ slot' = slot /\ locked' = locked /\ keeping' = keeping
  BY DEF ReshapeBegin, registry, history
<1>4. TypeOK' /\ Slots'
  BY <1>2, <1>3 DEF ServingInv, TypeOK, Slots, Emptying, Purging, Rebuilding, NoSync, NoPurge
<1>5. /\ reshape = NoReshape /\ ~Held(keeping) /\ rebuild.step \in {"idle", "wait"}
      /\ Held(slot) /\ ~Purging
  BY <1>1 DEF Free, ServingInv, Slots, Held
<1>6. \A e : Held(e)' <=> Held(e)
  BY <1>1, <1>2, <1>3, <1>5, ServingAssumption DEF Held, Users, NoReshape
<1>7. Exclusion'
  BY <1>1, <1>2, <1>3, <1>5, <1>6 DEF ServingInv, Exclusion, Kept, Purging, Rebuilding, Reshaping,
                                      Swapping
<1>8. Alone'
  BY <1>3, <1>6, AloneStays
<1>9. OnDisk'
  BY <1>1, <1>2, <1>3, <1>5, LiveIsThere, NothingAssumption DEF OnDisk, Places
<1>10. ASSUME ~astray'
       PROVE  Faithful'
  <2>1. Faithful
    BY <1>3, <1>10 DEF ServingInv
  <2>2. InPlace'
    BY <1>2, <1>3, <1>5, <1>6, <2>1 DEF Faithful, InPlace, Kept, Purging, Swapping, On
  <2>3. Syncing' /\ Rewriting'
    BY <1>3, <2>1 DEF Faithful, Syncing, Rewriting, Rebuilding, Ready, Left, Done
  <2>4. Served' = Served
    BY <1>3 DEF Served, Recovered
  <2>5. \A t \in Topics : Done(t)' => Right(t)'
    BY <1>2, <1>3, <2>1, <2>4 DEF Faithful, Done, Right, Copying
  <2> QED
    BY <2>2, <2>3, <2>5 DEF Faithful
<1> QED
  BY <1>4, <1>7, <1>8, <1>9, <1>10 DEF ServingInv

LEMMA ReshapeListKeeps ==
  ASSUME ServingInv, ReshapeList
  PROVE  ServingInv'
<1> DEFINE todo == {t \in Topics : ledger[t] # Absent}
           r == [reshape EXCEPT !.step = "copy", !.todo = todo]
<1>1. /\ reshape \in Reshapes /\ reshape.step = "list"
      /\ reshape.topic = Nobody /\ reshape.copy = Empty /\ at["live"] # Nothing
  BY DEF ReshapeList, ServingInv, TypeOK, Exclusion, Reshaping, OnDisk
<1>2. /\ r \in Reshapes /\ r.step = "copy" /\ r.engine = reshape.engine /\ r.topic = Nobody
      /\ r.todo = todo /\ r.touched = reshape.touched /\ r.copy = Empty
  BY <1>1 DEF Reshapes
<1>3. /\ reshape' = r
      /\ UNCHANGED <<ledger, owed, at, place, registry, sync, rebuild, purge, history>>
  BY DEF ReshapeList
<1> HIDE DEF r
<1>4. ASSUME NEW t \in Topics, Right(t), t \notin spoiled \cup missed
      PROVE  WillSay(t)' = ledger[t]
  <2>1. at["live"][t] = ledger[t]
    BY <1>1, <1>4, ServedIs DEF Right, ServingInv, TypeOK
  <2> QED
    BY <1>2, <1>3, <2>1 DEF WillSay, Empty
<1> QED
  BY <1>1, <1>2, <1>3, <1>4, ReshapeGoesOn

LEMMA ReshapeReadKeeps ==
  ASSUME ServingInv, NEW t \in Topics, ReshapeRead(t)
  PROVE  ServingInv'
<1> DEFINE r == [reshape EXCEPT !.step = "apply", !.todo = @ \ {t}, !.topic = t,
                                !.text = at["live"][t]]
<1>1. /\ reshape \in Reshapes /\ reshape.step = "copy" /\ t \in reshape.todo
      /\ at["live"][t] \in Text
  BY Fields DEF ReshapeRead, ServingInv, TypeOK, OnDisk, Content
<1>2. /\ r \in Reshapes /\ r.step = "apply" /\ r.engine = reshape.engine /\ r.topic = t
      /\ r.todo = reshape.todo \ {t} /\ r.touched = reshape.touched /\ r.copy = reshape.copy
      /\ r.text = at["live"][t]
  BY <1>1 DEF Reshapes
<1>3. /\ reshape' = r
      /\ UNCHANGED <<ledger, owed, at, place, registry, sync, rebuild, purge, history>>
  BY DEF ReshapeRead
<1> HIDE DEF r
<1>4. ASSUME NEW u \in Topics, Right(u), u \notin spoiled \cup missed
      PROVE  WillSay(u)' = ledger[u]
  <2>1. WillSay(u) = ledger[u]
    BY <1>1, <1>4 DEF Right, Copying
  <2> QED
    BY <1>1, <1>2, <1>3, <2>1 DEF WillSay
<1> QED
  BY <1>1, <1>2, <1>3, <1>4, ReshapeGoesOn

LEMMA ReshapeApplyKeeps ==
  ASSUME ServingInv, ReshapeApply
  PROVE  ServingInv'
<1> DEFINE copy == [reshape.copy EXCEPT ![reshape.topic] = reshape.text]
           r == [reshape EXCEPT !.step = "copy", !.topic = Nobody, !.text = Absent, !.copy = copy]
<1>1. /\ reshape \in Reshapes /\ reshape.step = "apply" /\ reshape.topic \in Topics
  BY DEF ReshapeApply, ServingInv, TypeOK, Exclusion, Reshaping
<1>2. /\ copy \in Content /\ copy[reshape.topic] = reshape.text
      /\ \A u \in Topics \ {reshape.topic} : copy[u] = reshape.copy[u]
  BY <1>1, Fields, SetIn DEF ServingInv
<1>3. /\ reshape' = r
      /\ UNCHANGED <<ledger, owed, at, place, registry, sync, rebuild, purge, history>>
  BY DEF ReshapeApply
<1> HIDE DEF copy
<1>4. /\ r \in Reshapes /\ r.step = "copy" /\ r.engine = reshape.engine /\ r.topic = Nobody
      /\ r.todo = reshape.todo /\ r.touched = reshape.touched /\ r.copy = copy
  BY <1>1, <1>2 DEF Reshapes, Text
<1> HIDE DEF r
<1>5. ASSUME NEW u \in Topics, Right(u), u \notin spoiled \cup missed
      PROVE  WillSay(u)' = ledger[u]
  <2>1. WillSay(u) = ledger[u]
    BY <1>1, <1>5 DEF Right, Copying
  <2> QED
    BY <1>1, <1>2, <1>3, <1>4, <2>1 DEF WillSay
<1> QED
  BY <1>1, <1>3, <1>4, <1>5, ReshapeGoesOn

LEMMA CatchUpKeeps ==
  ASSUME ServingInv, CatchUp
  PROVE  ServingInv'
<1> DEFINE r == [reshape EXCEPT !.todo = reshape.touched, !.touched = {}, !.caught = TRUE]
<1>1. /\ reshape \in Reshapes /\ reshape.step = "copy" /\ reshape.todo = {}
      /\ reshape.topic = Nobody
  BY DEF CatchUp, ServingInv, TypeOK, Exclusion, Reshaping
<1>2. /\ r \in Reshapes /\ r.step = "copy" /\ r.engine = reshape.engine /\ r.topic = Nobody
      /\ r.todo = reshape.touched /\ r.touched = {} /\ r.copy = reshape.copy
  BY <1>1 DEF Reshapes
<1>3. /\ reshape' = r
      /\ UNCHANGED <<ledger, owed, at, place, registry, sync, rebuild, purge, history>>
  BY DEF CatchUp
<1> HIDE DEF r
<1>4. ASSUME NEW u \in Topics, Right(u), u \notin spoiled \cup missed
      PROVE  WillSay(u)' = ledger[u]
  <2>1. WillSay(u) = ledger[u]
    BY <1>1, <1>4 DEF Right, Copying
  <2> QED
    BY <1>1, <1>2, <1>3, <2>1 DEF WillSay
<1> QED
  BY <1>1, <1>2, <1>3, <1>4, ReshapeGoesOn

LEMMA SwapKeeps ==
  ASSUME ServingInv, Swap
  PROVE  ServingInv'
<1> DEFINE e == reshape.engine
           r == [reshape EXCEPT !.step = "aside", !.copy = LastCatchUp, !.touched = {}]
<1>1. /\ reshape \in Reshapes /\ reshape.step = "copy" /\ reshape.todo = {}
      /\ Reshaping /\ Copying /\ ~Swapping /\ reshape.topic = Nobody
  BY DEF Swap, ServingInv, TypeOK, Exclusion, Reshaping, Copying, Swapping
<1>2. /\ e \in Engines /\ Held(e) /\ place[e] = "live"
      /\ rebuild.step \in {"idle", "wait"} /\ ~Held(keeping)
      /\ \A d \in Engines : Held(d) /\ place[d] = "live" => d = e
      /\ at["live"] \in Content /\ at["live"] # Nothing
  BY <1>1, ReshapeIsAlone, NothingAssumption
<1>3. /\ LastCatchUp \in Content
      /\ \A t \in Topics : LastCatchUp[t] = WillSay(t)
  BY <1>1, <1>2 DEF LastCatchUp, Content, Reshapes, WillSay
<1>4. /\ reshape' = r /\ place' = [place EXCEPT ![e] = "closed"]
      /\ ledger' = ledger /\ owed' = owed /\ at' = at /\ sync' = sync
      /\ rebuild' = rebuild /\ purge' = purge
      /\ spoiled' = spoiled /\ missed' = missed /\ astray' = astray
      /\ slot' = slot /\ locked' = locked /\ keeping' = keeping
  BY DEF Swap, registry, history
<1>5. /\ r \in Reshapes /\ r.step = "aside" /\ r.engine = e /\ r.topic = Nobody
      /\ r.copy = LastCatchUp
  BY <1>1, <1>3 DEF Reshapes
<1> HIDE DEF r, e
<1>6. /\ place'[e] = "closed" /\ \A d \in Engines \ {e} : place'[d] = place[d]
      /\ place' \in [Engines -> Handles]
  BY <1>2, <1>4 DEF ServingInv, TypeOK, Handles
<1>7. \A d : Held(d)' <=> Held(d)
  BY <1>4, <1>5 DEF Held, Users, e
<1>8. TypeOK' /\ Slots'
  BY <1>1, <1>4, <1>5, <1>6 DEF ServingInv, TypeOK, Slots, Emptying, Purging, Rebuilding, Reshaping,
                                NoSync, NoPurge
<1>9. On("live")' = {}
  BY <1>2, <1>6, <1>7 DEF On
<1>10. Alone'
  BY <1>4, <1>6, <1>7 DEF ServingInv, Alone, On, Places
<1>11. Exclusion' /\ OnDisk'
  BY <1>2, <1>4, <1>5, <1>6, <1>7 DEF Exclusion, OnDisk, Held, Rebuilding, Reshaping, Swapping
<1>12. ASSUME ~astray'
       PROVE  Faithful'
  <2>1. Faithful
    BY <1>4, <1>12 DEF ServingInv
  <2>2. InPlace'
    <3>1. \A d : Kept(d)' <=> Kept(d)
      BY <1>4 DEF Kept, Purging
    <3>2. On("replaced")' = {}
      BY <1>6, <1>7, <2>1 DEF Faithful, InPlace, On
    <3> QED
      BY <1>1, <1>4, <1>5, <1>6, <1>9, <2>1, <3>1, <3>2 DEF Faithful, InPlace, e
  <2>3. Syncing'
    <3>1. sync.step # "idle" => sync.engine \in Engines
      BY DEF ServingInv, Slots
    <3> QED
      BY <1>2, <1>4, <1>6, <2>1, <3>1 DEF Faithful, Syncing
  <2>4. Rewriting'
    BY <1>2, <1>4 DEF Rewriting, Rebuilding
  <2>5. Served' = Served
    BY <1>4 DEF Served, Recovered
  <2>6. \A t \in Topics : Done(t)' => Right(t)'
    BY <1>1, <1>3, <1>4, <1>5, <2>1, <2>5 DEF Faithful, Done, Right, Copying
  <2> QED
    BY <2>2, <2>3, <2>4, <2>6 DEF Faithful
<1> QED
  BY <1>8, <1>10, <1>11, <1>12 DEF ServingInv

LEMMA MoveAsideKeeps ==
  ASSUME ServingInv, MoveAside
  PROVE  ServingInv'
<1> DEFINE r == [reshape EXCEPT !.step = "in"]
<1>1. /\ reshape \in Reshapes /\ reshape.step = "aside" /\ Swapping
      /\ at \in Directories /\ at["live"] # Nothing /\ place \in [Engines -> Handles]
  BY DEF MoveAside, ServingInv, TypeOK, OnDisk, Swapping
<1>2. /\ r \in Reshapes /\ r.step = "in" /\ r.engine = reshape.engine /\ r.topic = reshape.topic
      /\ r.copy = reshape.copy
  BY <1>1 DEF Reshapes
<1>3. /\ at' \in Directories /\ at'["live"] = Nothing /\ at'["replaced"] = at["live"]
  BY <1>1, DirectoriesAre DEF MoveAside, Places
<1>4. Served' = Served
  BY <1>1, <1>3, ServedIs, ServedThen
<1>5. /\ reshape' = r
      /\ UNCHANGED <<ledger, owed, registry, sync, rebuild, purge, history>>
  BY DEF MoveAside
<1> HIDE DEF r
<1>6. /\ place' \in [Engines -> Handles]
      /\ \A e \in Engines : place'[e] = IF place[e] = "live" THEN "replaced"
                                        ELSE IF place[e] = "replaced" THEN "gone" ELSE place[e]
  BY <1>1 DEF MoveAside, Carried, Handles, Places
<1>7. \A e : Held(e)' <=> Held(e)
  BY <1>2, <1>5 DEF Held, Users, registry
<1>8. On("live")' = {} /\ On("replaced")' = On("live")
  BY <1>6, <1>7 DEF On
<1>9. Alone'
  BY <1>1, <1>3, <1>8 DEF ServingInv, Alone, Places
<1>10. OnDisk'
  BY <1>1, <1>2, <1>3, <1>5 DEF OnDisk
<1>11. \A t \in Topics : Right(t) /\ t \notin spoiled \cup missed =>
         Served'[t] = ledger[t] /\ r.copy[t] = ledger[t]
  BY <1>1, <1>2, <1>4 DEF Right
<1>12. \A e \in Engines : place[e] \notin Places => place'[e] = place[e]
  BY <1>6 DEF Places
<1>13. ~astray => On("replaced")' = {} /\ On("live")' = {} /\ at'["live"] = Nothing
  BY <1>1, <1>3, <1>8 DEF ServingInv, Faithful, InPlace
<1> QED
  BY <1>1, <1>2, <1>3, <1>5, <1>6, <1>9, <1>10, <1>11, <1>12, <1>13, SwapGoesOn

LEMMA MoveInKeeps ==
  ASSUME ServingInv, MoveIn
  PROVE  ServingInv'
<1> DEFINE r == [reshape EXCEPT !.step = "serve", !.copy = Empty]
<1>1. /\ reshape \in Reshapes /\ reshape.step = "in" /\ Swapping /\ reshape.copy \in Content
      /\ at \in Directories /\ at["live"] = Nothing /\ at["replaced"] # Nothing
  BY Fields DEF MoveIn, Obstructed, ServingInv, TypeOK, OnDisk, Swapping
<1>2. /\ r \in Reshapes /\ r.step = "serve" /\ r.engine = reshape.engine
      /\ r.topic = reshape.topic
  BY <1>1, Shapes DEF Reshapes
<1>3. /\ at' \in Directories /\ at'["live"] = reshape.copy /\ at'["replaced"] = at["replaced"]
      /\ at'["live"] # Nothing
  BY <1>1, NothingAssumption DEF MoveIn, Directories, Places
<1>4. Served = at["replaced"] /\ Served' = reshape.copy
  BY <1>1, <1>3, ServedIs, ServedThen
<1>5. /\ reshape' = r /\ place' = place
      /\ UNCHANGED <<ledger, owed, registry, sync, rebuild, purge, history>>
  BY DEF MoveIn
<1> HIDE DEF r
<1>6. \A e : Held(e)' <=> Held(e)
  BY <1>2, <1>5 DEF Held, Users, registry
<1>7. Alone' /\ OnDisk'
  <2>1. Alone'
    BY <1>1, <1>3, <1>5, <1>6, AloneStays DEF Places
  <2> QED
    BY <1>1, <1>2, <1>3, <1>5, <2>1 DEF OnDisk
<1>8. \A t \in Topics : Right(t) /\ t \notin spoiled \cup missed =>
        Served'[t] = ledger[t] /\ at'["replaced"][t] = ledger[t]
  BY <1>1, <1>3, <1>4 DEF Right
<1>9. ~astray => On("replaced")' = {} /\ On("live")' = {}
  BY <1>1, <1>5, <1>6 DEF ServingInv, Faithful, InPlace, On
<1>10. place' \in [Engines -> Handles] /\ \A e \in Engines : place'[e] = place[e]
  BY <1>5 DEF ServingInv, TypeOK
<1> QED
  BY <1>1, <1>2, <1>3, <1>5, <1>7, <1>8, <1>9, <1>10, SwapGoesOn

LEMMA ServeKeeps ==
  ASSUME ServingInv, Serve
  PROVE  ServingInv'
<1> DEFINE handles == Carried(place, "replaced", "gone")
<1>1. /\ reshape.step = "serve" /\ Swapping /\ at \in Directories /\ at["live"] # Nothing
      /\ On("live") = {}
  BY DEF Serve, Obstructed, ServingInv, TypeOK, OnDisk, Swapping
<1>2. /\ reshape' = NoReshape /\ place' = [handles EXCEPT ![reshape.engine] = "live"]
      /\ UNCHANGED <<ledger, owed, registry, sync, rebuild, purge, spoiled, astray>>
      /\ missed' = missed
  BY DEF Serve, history
<1>3. /\ handles \in [Engines -> Handles]
      /\ \A e \in Engines : handles[e] = IF place[e] = "replaced" THEN "gone" ELSE place[e]
  BY CarriedIs DEF ServingInv, TypeOK, Handles, Places
<1> HIDE DEF handles
<1>4. at' \in Directories /\ at'["live"] = at["live"]
  BY <1>1, DirectoriesAre DEF Serve, Directories, Places
<1>5. Served' = Served
  BY <1>1, <1>4, ServedIs, ServedThen
<1>6. \A t \in Topics : Right(t) /\ t \notin spoiled \cup missed' => Served'[t] = ledger[t]
  BY <1>2, <1>5 DEF Right
<1>7. \A d \in Engines : Held(d) => handles[d] \notin Places
  BY <1>1, <1>3 DEF On, Places
<1>8. /\ \A e \in Engines : place[e] \notin Places => handles[e] = place[e]
      /\ \A e \in Engines : handles[e] = "replaced" => place[e] = "replaced"
  BY <1>3 DEF Places
<1>9. missed' \subseteq Topics
  BY <1>2 DEF ServingInv, TypeOK
<1> QED
  BY <1>1, <1>2, <1>3, <1>4, <1>6, <1>7, <1>8, <1>9, SwapEnds DEF Places

LEMMA AbandonKeeps ==
  ASSUME ServingInv, Abandon
  PROVE  ServingInv'
<1>1. /\ reshape' = NoReshape
      /\ ledger' = ledger /\ owed' = owed /\ at' = at /\ place' = place /\ sync' = sync
      /\ rebuild' = rebuild /\ purge' = purge
      /\ spoiled' = spoiled /\ missed' = missed /\ astray' = astray
      /\ slot' = slot /\ locked' = locked /\ keeping' = keeping
  BY DEF Abandon, registry, history
<1>2. Reshaping
  BY DEF Abandon, Reshaping
<1>3. rebuild.step \in {"idle", "wait"} /\ ~Held(keeping)
  BY <1>2, ReshapeIsAlone
<1>4. \A e : Held(e)' => Held(e)
  BY <1>1, ServingAssumption DEF Held, Users, NoReshape
<1>5. TypeOK' /\ Slots' /\ OnDisk'
  BY <1>1, Shapes DEF ServingInv, TypeOK, Slots, OnDisk, Emptying, Purging, Rebuilding, NoReshape,
                      NoSync, NoPurge
<1>6. Exclusion'
  BY <1>1, <1>3, <1>4 DEF Exclusion, Rebuilding, Reshaping, NoReshape
<1>7. Alone'
  BY <1>1, <1>4, AloneStays
<1>8. ASSUME ~astray'
      PROVE  Faithful'
  <2>1. Faithful
    BY <1>1, <1>8 DEF ServingInv
  <2>2. InPlace'
    BY <1>1, <1>4, <2>1 DEF Faithful, InPlace, Kept, Purging, Reshaping, Swapping, On, NoReshape
  <2>3. Syncing' /\ Rewriting'
    BY <1>1, <1>3, <2>1 DEF Faithful, Syncing, Rewriting, Rebuilding
  <2>4. Served' = Served
    BY <1>1 DEF Served, Recovered
  <2>5. \A t \in Topics : Done(t)' => Right(t)'
    BY <1>1, <2>1, <2>4 DEF Faithful, Done, Right, Copying, NoReshape
  <2> QED
    BY <2>2, <2>3, <2>5 DEF Faithful
<1> QED
  BY <1>5, <1>6, <1>7, <1>8 DEF ServingInv

LEMMA SwapFailsKeeps ==
  ASSUME ServingInv, SwapFails
  PROVE  ServingInv'
<1>1. /\ Swapping /\ at \in Directories /\ place \in [Engines -> Handles]
      /\ missed \subseteq missed' /\ missed' \subseteq Topics /\ missed' = missed
      /\ UNCHANGED <<ledger, owed, registry, sync, rebuild, purge, spoiled, astray>>
  BY DEF SwapFails, ServingInv, TypeOK, Swapping, history
<1>2. CASE reshape.step \in {"aside", "in"} /\ Reopened(at, place)
  <2>1. /\ at' = at /\ reshape' = NoReshape
        /\ \E open \in {"live", "closed"} :
             /\ place' = [place EXCEPT ![reshape.engine] = open]
             /\ open = "live" =>
                  at["live"] # Nothing /\ \A d \in Engines : Held(d) => place[d] # "live"
    BY <1>2 DEF Reopened
  <2>2. PICK open \in {"live", "closed"} :
             /\ place' = [place EXCEPT ![reshape.engine] = open]
             /\ open = "live" =>
                  at["live"] # Nothing /\ \A d \in Engines : Held(d) => place[d] # "live"
    BY <2>1
  <2>3. \A p \in Places : \A d, e \in Engines :
          Held(d) /\ place[d] = p => at'[p] # Nothing /\ (Held(e) /\ place[e] = p => d = e)
    BY <2>1 DEF ServingInv, Alone, On
  <2>4. \A t \in Topics : Right(t) /\ t \notin spoiled \cup missed' => Served'[t] = ledger[t]
    BY <1>1, <2>1 DEF Right, Served, Recovered
  <2> QED
    BY <1>1, <2>1, <2>2, <2>3, <2>4, SwapEnds
<1>3. CASE /\ reshape.step = "in" /\ at["live"] = Nothing
           /\ Reopened(Moved(at, "replaced", "live"), Carried(place, "replaced", "live"))
  <2> DEFINE handles == Carried(place, "replaced", "live")
  <2>1. /\ at' = Moved(at, "replaced", "live") /\ reshape' = NoReshape
    BY <1>3 DEF Reopened
  <2>2. PICK open \in {"live", "closed"} :
             /\ place' = [handles EXCEPT ![reshape.engine] = open]
             /\ open = "live" => /\ Moved(at, "replaced", "live")["live"] # Nothing
                                 /\ \A d \in Engines : Held(d) => handles[d] # "live"
    BY <1>3 DEF Reopened
  <2>3. /\ handles \in [Engines -> Handles]
        /\ \A e \in Engines : handles[e] = IF place[e] = "replaced" THEN "live" ELSE place[e]
    BY <1>1, CarriedIs DEF Handles, Places
  <2> HIDE DEF handles
  <2>4. /\ at' \in Directories /\ at'["live"] = at["replaced"] /\ at["replaced"] # Nothing
    BY <1>1, <1>3, <2>1, DirectoriesAre DEF Places, ServingInv, OnDisk
  <2>5. Served' = Served
    BY <1>1, <1>3, <2>4, ServedIs, ServedThen
  <2>6. \A t \in Topics : Right(t) /\ t \notin spoiled \cup missed' => Served'[t] = ledger[t]
    BY <1>1, <2>5 DEF Right
  <2>7. \A d \in Engines : Held(d) => place[d] # "live"
    BY <1>3, LiveIsThere, NothingAssumption DEF Places
  <2>8. \A p \in Places : \A d, e \in Engines :
          Held(d) /\ handles[d] = p => at'[p] # Nothing /\ (Held(e) /\ handles[e] = p => d = e)
    BY <2>3, <2>4, <2>7, LiveIsThere DEF Places
  <2>9. /\ \A e \in Engines : place[e] \notin Places => handles[e] = place[e]
        /\ \A e \in Engines : handles[e] = "replaced" => place[e] = "replaced"
    BY <2>3 DEF Places
  <2> QED
    BY <1>1, <2>1, <2>2, <2>3, <2>4, <2>6, <2>8, <2>9, SwapEnds
<1> QED
  BY <1>2, <1>3 DEF SwapFails

\* The copy goes, whole or in part, and with it nothing of what was served but what
\* is said to be lost.
LEMMA CopyFailsKeeps ==
  ASSUME ServingInv, CopyFails
  PROVE  ServingInv'
<1> DEFINE deleted == Carried(place, "live", "gone")
           back == Carried(deleted, "replaced", "live")
<1>1. /\ reshape.step = "serve" /\ Swapping
      /\ at \in Directories /\ place \in [Engines -> Handles]
      /\ at["live"] # Nothing /\ at["replaced"] # Nothing
      /\ missed \subseteq missed' /\ missed' \subseteq Topics
      /\ UNCHANGED <<ledger, owed, registry, sync, rebuild, purge, spoiled, astray>>
  BY DEF CopyFails, ServingInv, TypeOK, OnDisk, Swapping
<1>2. /\ deleted \in [Engines -> Handles]
      /\ \A e \in Engines : deleted[e] = IF place[e] = "live" THEN "gone" ELSE place[e]
  BY <1>1, CarriedIs DEF Handles, Places
<1> HIDE DEF deleted
<1>3. /\ back \in [Engines -> Handles]
      /\ \A e \in Engines : back[e] = IF deleted[e] = "replaced" THEN "live" ELSE deleted[e]
  BY <1>2, CarriedIs DEF Handles, Places
<1> HIDE DEF back
<1>4. CASE Reopened([at EXCEPT !["live"] = Nothing], deleted)
  <2>1. at' = [at EXCEPT !["live"] = Nothing] /\ reshape' = NoReshape
    BY <1>4 DEF Reopened
  <2>2. at' \in Directories /\ at'["live"] = Nothing /\ at'["replaced"] = at["replaced"]
    BY <1>1, <2>1 DEF Directories, Places
  <2>3. PICK open \in {"live", "closed"} :
             /\ place' = [deleted EXCEPT ![reshape.engine] = open]
             /\ open = "live" => at'["live"] # Nothing
    BY <1>4, <2>1 DEF Reopened
  <2>4. \A t \in Topics : Right(t) /\ t \notin spoiled \cup missed' => Served'[t] = ledger[t]
    BY <1>1, <2>2, ServedThen DEF Right
  <2>5. \A p \in Places : \A d, e \in Engines :
          Held(d) /\ deleted[d] = p => at'[p] # Nothing /\ (Held(e) /\ deleted[e] = p => d = e)
    BY <1>1, <1>2, <2>2, LiveIsThere DEF Places
  <2>6. /\ \A e \in Engines : place[e] \notin Places => deleted[e] = place[e]
        /\ \A e \in Engines : deleted[e] = "replaced" => place[e] = "replaced"
    BY <1>2 DEF Places
  <2>7. open = "closed"
    BY <2>2, <2>3
  <2> QED
    BY <1>1, <1>2, <2>1, <2>2, <2>3, <2>4, <2>5, <2>6, <2>7, SwapEnds
<1>5. CASE Reopened(Moved(at, "replaced", "live"), back)
  <2>1. at' = Moved(at, "replaced", "live") /\ reshape' = NoReshape
    BY <1>5 DEF Reopened
  <2>2. at' \in Directories /\ at'["live"] = at["replaced"] /\ at'["replaced"] = Nothing
    BY <1>1, <2>1, DirectoriesAre DEF Places
  <2>3. PICK open \in {"live", "closed"} :
             /\ place' = [back EXCEPT ![reshape.engine] = open]
             /\ open = "live" => /\ at'["live"] # Nothing
                                 /\ \A d \in Engines : Held(d) => back[d] # "live"
    BY <1>5, <2>1 DEF Reopened
  <2>4. \A t \in Topics : Right(t) /\ t \notin spoiled \cup missed' => Served'[t] = ledger[t]
    BY <1>1, <2>2, ServedThen DEF Right
  <2>5. \A p \in Places : \A d, e \in Engines :
          Held(d) /\ back[d] = p => at'[p] # Nothing /\ (Held(e) /\ back[e] = p => d = e)
    BY <1>1, <1>2, <1>3, <2>2, LiveIsThere DEF Places
  <2>6. /\ \A e \in Engines : place[e] \notin Places => back[e] = place[e]
        /\ \A e \in Engines : back[e] = "replaced" => place[e] = "replaced"
    BY <1>2, <1>3 DEF Places
  <2> QED
    BY <1>1, <1>3, <2>1, <2>2, <2>3, <2>4, <2>5, <2>6, SwapEnds
<1>6. CASE \E swept \in SUBSET Topics : Reopened(Without(swept), place) /\ missed' = missed \cup swept
  <2>1. PICK swept \in SUBSET Topics : Reopened(Without(swept), place) /\ missed' = missed \cup swept
    BY <1>6
  <2>2. at' = Without(swept) /\ reshape' = NoReshape
    BY <2>1 DEF Reopened
  <2>3. /\ at' \in Directories /\ at'["live"] # Nothing /\ at'["replaced"] = at["replaced"]
        /\ \A t \in Topics \ swept : at'["live"][t] = at["live"][t]
    BY <1>1, <2>2, WithoutIs
  <2>4. PICK open \in {"live", "closed"} :
             /\ place' = [place EXCEPT ![reshape.engine] = open]
             /\ open = "live" => /\ at'["live"] # Nothing
                                 /\ \A d \in Engines : Held(d) => place[d] # "live"
    BY <2>1, <2>2 DEF Reopened
  <2>5. \A t \in Topics : Right(t) /\ t \notin spoiled \cup missed' => Served'[t] = ledger[t]
    BY <1>1, <2>1, <2>3, ServedIs, ServedThen DEF Right
  <2>6. \A p \in Places : \A d, e \in Engines :
          Held(d) /\ place[d] = p => at'[p] # Nothing /\ (Held(e) /\ place[e] = p => d = e)
    BY <1>1, <2>3, LiveIsThere DEF Places
  <2> QED
    BY <1>1, <2>2, <2>3, <2>4, <2>5, <2>6, SwapEnds
<1> QED
  BY <1>4, <1>5, <1>6 DEF CopyFails, deleted, back

LEMMA RebuildBeginKeeps ==
  ASSUME ServingInv, RebuildBegin
  PROVE  ServingInv'
<1>1. /\ ~locked /\ rebuild.step = "idle" /\ locked' = TRUE /\ slot' = Nobody
      /\ rebuild' = [NoRebuild EXCEPT !.step = "wait"]
      /\ ledger' = ledger /\ owed' = owed /\ at' = at /\ place' = place /\ sync' = sync
      /\ reshape' = reshape /\ purge' = purge /\ history' = history /\ keeping' = keeping
  BY DEF RebuildBegin
<1>2. /\ rebuild' \in Reindexes /\ rebuild'.step = "wait" /\ rebuild'.engine = Nobody
      /\ rebuild'.crossed = {}
  BY <1>1, Shapes DEF Reindexes, NoRebuild
<1>3. ~Purging
  BY <1>1 DEF ServingInv, Slots
<1>4. \A e : Held(e)' => Held(e)
  BY <1>1, <1>2, ServingAssumption DEF Held, Users
<1>5. TypeOK' /\ Slots'
  BY <1>1, <1>2, <1>3 DEF ServingInv, TypeOK, Engine, Slots, Emptying, Purging, Rebuilding, NoSync,
                          NoReshape, NoPurge, history
<1>6. Exclusion'
  BY <1>1, <1>2, <1>4 DEF ServingInv, Exclusion, Rebuilding, Reshaping, Swapping
<1>7. Alone'
  BY <1>1, <1>4, AloneStays
<1>8. ASSUME ~astray'
      PROVE  InPlace'
  <2>1. Faithful
    BY <1>1, <1>8 DEF ServingInv, history
  <2> QED
    BY <1>1, <1>3, <1>4, <2>1, ServingAssumption
    DEF Faithful, InPlace, Kept, Purging, Reshaping, Swapping, On
<1> QED
  BY <1>1, <1>2, <1>5, <1>6, <1>7, <1>8, ContentsStay DEF ServingInv, Rebuilding

LEMMA ExcludeKeeps ==
  ASSUME ServingInv, Exclude
  PROVE  ServingInv'
<1>1. /\ rebuild.step = "wait" /\ Free /\ at' = Recovered /\ place' = Recarried
      /\ rebuild' = [rebuild EXCEPT !.step = "aside"]
      /\ ledger' = ledger /\ owed' = owed /\ sync' = sync
      /\ reshape' = reshape /\ purge' = purge
      /\ spoiled' = spoiled /\ missed' = missed /\ astray' = astray
      /\ slot' = slot /\ locked' = locked /\ keeping' = keeping
  BY DEF Exclude, registry, history
<1>2. /\ rebuild' \in Reindexes /\ rebuild'.step = "aside" /\ rebuild'.engine = rebuild.engine
      /\ rebuild'.crossed = rebuild.crossed
  BY <1>1 DEF ServingInv, TypeOK, Reindexes
<1>3. ~Reshaping /\ ~Held(keeping) /\ slot = Nobody /\ ~Purging
  BY <1>1 DEF Free, Reshaping, ServingInv, Slots, Emptying
<1>4. /\ at' \in Directories /\ Served' = Served /\ at'["replaced"] = Nothing
      /\ at'["live"] = IF at["live"] # Nothing THEN at["live"] ELSE at["replaced"]
  BY <1>1, RecoveredIs, ServedIs, ServedThen DEF ServingInv, TypeOK
<1>5. /\ place' \in [Engines -> Handles]
      /\ \A e \in Engines : place'[e] = IF place[e] = "replaced"
                                        THEN IF at["live"] = Nothing THEN "live" ELSE "gone"
                                        ELSE place[e]
  BY <1>1, RecarriedIs DEF ServingInv, TypeOK
<1>6. \A e : Held(e)' <=> Held(e)
  BY <1>1, <1>2 DEF Held, Users
<1>7. TypeOK' /\ Slots'
  BY <1>1, <1>2, <1>4, <1>5 DEF ServingInv, TypeOK, Slots, Emptying, Purging, Rebuilding, NoSync,
                                NoReshape, NoPurge
<1>8. On("replaced")' = {} /\ On("live")' = IF at["live"] = Nothing THEN On("replaced") ELSE On("live")
  <2>1. at["live"] = Nothing => On("live") = {}
    BY DEF ServingInv, Alone, Places
  <2> QED
    BY <1>5, <1>6, <2>1 DEF On
<1>9. Alone'
  BY <1>4, <1>8 DEF ServingInv, Alone, Places
<1>10. Exclusion' /\ OnDisk'
  BY <1>1, <1>2, <1>3, <1>6 DEF Exclusion, OnDisk, Rebuilding, Reshaping
<1>11. ASSUME ~astray'
       PROVE  Faithful'
  <2>1. Faithful
    BY <1>1, <1>11 DEF ServingInv
  <2>2. InPlace'
    BY <1>1, <1>3, <1>8, ServingAssumption DEF InPlace, Kept, Purging, Reshaping, Swapping
  <2>3. Syncing'
    <3>1. sync.step # "idle" => sync.engine \in Engines
      BY DEF ServingInv, Slots
    <3> QED
      BY <1>1, <1>5, <2>1, <3>1 DEF Faithful, Syncing
  <2>4. Rewriting'
    BY <1>2 DEF Rewriting, Rebuilding
  <2>5. \A t \in Topics : Done(t)' => Right(t)'
    BY <1>1, <1>3, <1>4, <2>1 DEF Faithful, Done, Right, Copying, Reshaping
  <2> QED
    BY <2>2, <2>3, <2>4, <2>5 DEF Faithful
<1> QED
  BY <1>7, <1>9, <1>10, <1>11 DEF ServingInv

LEMMA SetAsideKeeps ==
  ASSUME ServingInv, SetAside
  PROVE  ServingInv'
<1>1. /\ rebuild.step = "aside" /\ rebuild' = [rebuild EXCEPT !.step = "open"]
      /\ at' = [at EXCEPT !["live"] = Nothing] /\ spoiled' = Topics
      /\ ledger' = ledger /\ owed' = owed /\ sync' = sync
      /\ reshape' = reshape /\ purge' = purge /\ missed' = missed /\ astray' = astray
      /\ slot' = slot /\ locked' = locked /\ keeping' = keeping
  BY DEF SetAside, registry
<1>2. PICK aside \in {"previous", "gone"} : place' = Follow(aside)
  BY DEF SetAside
<1>3. /\ rebuild' \in Reindexes /\ rebuild'.step = "open" /\ rebuild'.engine = rebuild.engine
      /\ rebuild'.crossed = rebuild.crossed
  BY <1>1 DEF ServingInv, TypeOK, Reindexes
<1>4. at' \in Directories /\ at'["live"] = Nothing /\ at'["replaced"] = at["replaced"]
  BY <1>1 DEF ServingInv, TypeOK, Directories, Places
<1>5. /\ place' \in [Engines -> Handles]
      /\ \A e \in Engines : /\ place'[e] # "live" /\ (place[e] = "gone" => place'[e] = "gone")
                            /\ place'[e] = "replaced" => place[e] = "replaced"
  BY <1>2 DEF Follow, Carried, ServingInv, TypeOK, Handles, Places
<1>6. ~Reshaping /\ ~Held(keeping) /\ slot = Nobody /\ ~Purging
  BY <1>1 DEF ServingInv, Exclusion, Slots, Emptying
<1>7. \A e : Held(e)' <=> Held(e)
  BY <1>1, <1>3 DEF Held, Users
<1>8. TypeOK' /\ Slots'
  BY <1>1, <1>3, <1>4, <1>5 DEF ServingInv, TypeOK, Slots, Emptying, Purging, Rebuilding, NoSync,
                                NoReshape, NoPurge
<1>9. On("live")' = {} /\ On("replaced")' \subseteq On("replaced")
  BY <1>5, <1>7 DEF On
<1>10. Alone'
  BY <1>4, <1>9 DEF ServingInv, Alone, Places
<1>11. Exclusion' /\ OnDisk'
  BY <1>1, <1>3, <1>4, <1>5, <1>6, <1>7 DEF Exclusion, OnDisk, Rebuilding, Reshaping
<1>12. ASSUME ~astray'
       PROVE  Faithful'
  <2>1. Faithful
    BY <1>1, <1>12 DEF ServingInv
  <2>2. InPlace'
    BY <1>1, <1>6, <1>9, <2>1, ServingAssumption
    DEF Faithful, InPlace, Kept, Purging, Reshaping, Swapping
  <2>3. Syncing'
    <3>1. sync.step # "idle" => sync.engine \in Engines
      BY DEF ServingInv, Slots
    <3> QED
      BY <1>1, <1>5, <2>1, <3>1 DEF Faithful, Syncing
  <2>4. Rewriting'
    BY <1>3 DEF Rewriting, Rebuilding
  <2>5. \A t \in Topics : Done(t)' => Right(t)'
    BY <1>1 DEF Right
  <2> QED
    BY <2>2, <2>3, <2>4, <2>5 DEF Faithful
<1> QED
  BY <1>8, <1>10, <1>11, <1>12 DEF ServingInv

LEMMA OpenEmptyKeeps ==
  ASSUME ServingInv, NEW e \in Engines, OpenEmpty(e)
  PROVE  ServingInv'
<1>1. /\ rebuild.step = "open" /\ ~Held(e) /\ at' = Created(at)
      /\ place' = [place EXCEPT ![e] = "live"]
      /\ slot' = e /\ keeping' = e /\ locked' = FALSE
      /\ rebuild' = [rebuild EXCEPT !.step = "read", !.engine = e]
      /\ ledger' = ledger /\ owed' = owed /\ sync' = sync
      /\ reshape' = reshape /\ purge' = purge
      /\ spoiled' = spoiled /\ missed' = missed /\ astray' = astray
  BY DEF OpenEmpty, history
<1>2. /\ rebuild' \in Reindexes /\ rebuild'.step = "read" /\ rebuild'.engine = e
      /\ rebuild'.crossed = {}
  BY <1>1 DEF ServingInv, TypeOK, Reindexes, Engine, Slots
<1>3. /\ ~Reshaping /\ ~Purging /\ slot = Nobody /\ rebuild.engine = Nobody
      /\ spoiled = Topics /\ \A d \in Engines : place[d] # "live"
  BY <1>1 DEF ServingInv, Exclusion, Slots, Emptying, Rebuilding
<1>4. /\ at' \in Directories /\ at'["live"] = Empty /\ at'["live"] # Nothing
      /\ at'["replaced"] = at["replaced"]
  BY <1>1, DirectoriesAre, Shapes, NothingAssumption DEF ServingInv, TypeOK, Exclusion
<1>5. /\ place' \in [Engines -> Handles]
      /\ place'[e] = "live" /\ \A d \in Engines \ {e} : place'[d] = place[d]
  BY <1>1 DEF ServingInv, TypeOK, Handles, Places
<1>6. Held(e)' /\ \A d \in Engines \ {e} : Held(d)' => Held(d)
  BY <1>1, <1>2, ServingAssumption DEF Held, Users
<1>7. On("live")' = {e} /\ On("replaced")' \subseteq On("replaced")
  BY <1>3, <1>5, <1>6 DEF On
<1>8. sync.step # "idle" => sync.engine \in Engines \ {e}
  BY <1>1 DEF ServingInv, Slots, Held, Users
<1>9. TypeOK'
  BY <1>1, <1>2, <1>4, <1>5 DEF ServingInv, TypeOK, Engine
<1>10. Slots'
  BY <1>1, <1>2, <1>3 DEF ServingInv, Slots, Emptying, Purging, Rebuilding, NoSync, NoReshape, NoPurge
<1>11. Alone'
  BY <1>4, <1>7 DEF ServingInv, Alone, Places
<1>12. Exclusion' /\ OnDisk'
  BY <1>1, <1>2, <1>3, <1>5 DEF Exclusion, OnDisk, Kept, Rebuilding, Reshaping
<1>13. ASSUME ~astray'
       PROVE  Faithful'
  <2>1. Faithful
    BY <1>1, <1>13 DEF ServingInv
  <2>2. InPlace'
    BY <1>1, <1>3, <1>5, <1>7, <2>1 DEF Faithful, InPlace, Kept, Purging, Reshaping, Swapping
  <2>3. Syncing'
    BY <1>1, <1>5, <1>8, <2>1 DEF Faithful, Syncing
  <2>4. Rewriting'
    <3>1. \A t \in Topics : Ready(t)'
      BY <1>2, <1>4 DEF Ready, Empty
    <3>2. Left'
      BY <1>2, <1>4 DEF Left, Empty
    <3> QED
      BY <3>1, <3>2 DEF Rewriting
  <2>5. \A t \in Topics : Done(t)' => Right(t)'
    BY <1>1, <1>3 DEF Right
  <2> QED
    BY <2>2, <2>3, <2>4, <2>5 DEF Faithful
<1> QED
  BY <1>9, <1>10, <1>11, <1>12, <1>13 DEF ServingInv

LEMMA ReindexReadKeeps ==
  ASSUME ServingInv, ReindexRead
  PROVE  ServingInv'
<1>1. /\ rebuild.step = "read" /\ rebuild' = [rebuild EXCEPT !.step = "write", !.states = ledger]
      /\ ledger' = ledger /\ owed' = owed /\ at' = at /\ place' = place /\ sync' = sync
      /\ reshape' = reshape /\ purge' = purge
      /\ spoiled' = spoiled /\ missed' = missed /\ astray' = astray
      /\ slot' = slot /\ locked' = locked /\ keeping' = keeping
  BY DEF ReindexRead, registry, history
<1>2. /\ rebuild' \in Reindexes /\ rebuild'.step = "write" /\ rebuild'.engine = rebuild.engine
      /\ rebuild'.states = ledger /\ rebuild'.crossed = {}
  BY <1>1 DEF ServingInv, TypeOK, Reindexes, Slots
<1>3. \A e : Held(e)' <=> Held(e)
  BY <1>1, <1>2 DEF Held, Users
<1>4. TypeOK' /\ Slots'
  BY <1>1, <1>2 DEF ServingInv, TypeOK, Slots, Emptying, Purging, Rebuilding, NoSync, NoReshape,
                    NoPurge
<1>5. Exclusion' /\ Alone' /\ OnDisk'
  BY <1>1, <1>2, <1>3 DEF ServingInv, Exclusion, Alone, OnDisk, Kept, Purging, Rebuilding, Reshaping,
                          Swapping, On
<1>6. ASSUME ~astray'
      PROVE  Faithful'
  <2>1. Faithful
    BY <1>1, <1>6 DEF ServingInv
  <2>2. InPlace'
    BY <1>1, <1>3, <2>1 DEF Faithful, InPlace, Kept, Purging, Reshaping, Swapping, On
  <2>3. Syncing'
    BY <1>1, <2>1 DEF Faithful, Syncing
  <2>4. Rewriting'
    <3>1. \A t \in Topics : Done(t)' => Ready(t)'
      BY <1>1, <1>2, <2>1 DEF Faithful, Rewriting, Rebuilding, Done, Ready
    <3>2. sync.step # "idle" /\ place[sync.engine] # "live" => Left'
      BY <1>1, <1>2, <2>1 DEF Faithful, Rewriting, Rebuilding, Left
    <3> QED
      BY <1>1, <3>1, <3>2 DEF Rewriting
  <2>5. \A t \in Topics : Done(t)' => Right(t)'
    BY <1>1, <2>1, RightStays DEF Faithful, Done
  <2> QED
    BY <2>2, <2>3, <2>4, <2>5 DEF Faithful
<1> QED
  BY <1>4, <1>5, <1>6 DEF ServingInv

LEMMA ReindexWriteKeeps ==
  ASSUME ServingInv, ReindexWrite
  PROVE  ServingInv'
<1> DEFINE index == Overwritten(at["live"])
<1>1. /\ rebuild.step = "write" /\ at' = [at EXCEPT !["live"] = index]
      /\ keeping' = Nobody /\ rebuild' = NoRebuild /\ spoiled' = Stale /\ missed' = {}
      /\ ledger' = ledger /\ owed' = owed /\ place' = place /\ sync' = sync
      /\ reshape' = reshape /\ purge' = purge /\ slot' = slot /\ locked' = locked
      /\ astray' = astray
  BY DEF ReindexWrite
<1>2. /\ index \in Content
      /\ ~astray => \A t \in Topics : Done(t) /\ t \notin Stale => index[t] = ledger[t]
  BY <1>1, OverwrittenIsRight
<1> HIDE DEF index
<1>3. /\ at' \in Directories /\ at'["live"] = index /\ index # Nothing
      /\ at'["replaced"] = at["replaced"]
  BY <1>1, <1>2, NothingAssumption DEF ServingInv, TypeOK, Directories, Places
<1>4. ~Reshaping
  BY <1>1, RebuildIsAlone DEF Rebuilding
<1>5. \A e : Held(e)' => Held(e)
  BY <1>1, ServingAssumption DEF Held, Users, NoRebuild
<1>6. TypeOK'
  <2>1. spoiled' \subseteq Topics
    BY <1>1, Fields DEF ServingInv, Stale
  <2> QED
    BY <1>1, <1>3, <2>1, Shapes DEF ServingInv, TypeOK, Engine
<1>7. Slots'
  BY <1>1 DEF ServingInv, Slots, Emptying, Purging, Rebuilding, NoSync, NoReshape, NoRebuild, NoPurge
<1>8. Alone'
  BY <1>1, <1>3, <1>5, AloneStays DEF Places
<1>9. Exclusion' /\ OnDisk'
  <2>1. ~Held(keeping)'
    BY <1>1, ServingAssumption DEF Held
  <2> QED
    BY <1>1, <1>4, <2>1 DEF Exclusion, OnDisk, Rebuilding, Reshaping, NoRebuild
<1>10. ASSUME ~astray'
       PROVE  Faithful'
  <2>1. Faithful
    BY <1>1, <1>10 DEF ServingInv
  <2>2. InPlace'
    BY <1>1, <1>4, <1>5, <2>1 DEF Faithful, InPlace, Kept, Purging, Reshaping, Swapping, On
  <2>3. Syncing' /\ Rewriting'
    BY <1>1, <2>1 DEF Faithful, Syncing, Rewriting, Rebuilding, NoRebuild
  <2>4. Served' = index
    BY <1>3, ServedThen
  <2>5. \A t \in Topics : Done(t)' => Right(t)'
    BY <1>1, <1>2, <1>4, <1>10, <2>4 DEF Done, Right, Copying, Reshaping
  <2> QED
    BY <2>2, <2>3, <2>5 DEF Faithful
<1> QED
  BY <1>6, <1>7, <1>8, <1>9, <1>10 DEF ServingInv

LEMMA RebuildFailsKeeps ==
  ASSUME ServingInv, RebuildFails
  PROVE  ServingInv'
<1>1. /\ rebuild.step \in {"wait", "aside", "open"}
      /\ locked' = FALSE /\ rebuild' = NoRebuild
      /\ ledger' = ledger /\ owed' = owed /\ at' = at /\ place' = place /\ sync' = sync
      /\ reshape' = reshape /\ purge' = purge /\ history' = history
      /\ slot' = slot /\ keeping' = keeping
  BY DEF RebuildFails
<1>2. ~Purging
  BY <1>1 DEF ServingInv, Slots, Emptying
<1>3. \A e : Held(e)' => Held(e)
  BY <1>1, ServingAssumption DEF Held, Users, NoRebuild
<1>4. TypeOK' /\ Slots'
  BY <1>1, <1>2, Shapes DEF ServingInv, TypeOK, Slots, Emptying, Purging, Rebuilding, NoRebuild,
                            NoSync, NoReshape, NoPurge, history
<1>5. Exclusion'
  BY <1>1, <1>3 DEF ServingInv, Exclusion, Rebuilding, Reshaping, Swapping, NoRebuild
<1>6. Alone'
  BY <1>1, <1>3, AloneStays
<1>7. ASSUME ~astray'
      PROVE  InPlace'
  <2>1. Faithful
    BY <1>1, <1>7 DEF ServingInv, history
  <2> QED
    BY <1>1, <1>3, <2>1 DEF Faithful, InPlace, Kept, Purging, Reshaping, Swapping, On
<1> QED
  BY <1>1, <1>4, <1>5, <1>6, <1>7, ContentsStay DEF ServingInv, Rebuilding, NoRebuild

LEMMA DiscardFailsKeeps ==
  ASSUME ServingInv, DiscardFails
  PROVE  ServingInv'
<1>1. PICK swept \in SUBSET Topics : at' = Without(swept) /\ spoiled' = spoiled \cup swept
  BY DEF DiscardFails
<1>2. /\ rebuild.step = "aside" /\ at["live"] # Nothing
      /\ locked' = FALSE /\ rebuild' = NoRebuild
      /\ ledger' = ledger /\ owed' = owed /\ place' = place /\ sync' = sync
      /\ reshape' = reshape /\ purge' = purge /\ missed' = missed /\ astray' = astray
      /\ slot' = slot /\ keeping' = keeping
  BY DEF DiscardFails
<1>3. /\ at' \in Directories /\ at'["live"] # Nothing /\ at'["replaced"] = at["replaced"]
      /\ \A t \in Topics \ swept : at'["live"][t] = at["live"][t]
  BY <1>1, <1>2, WithoutIs DEF ServingInv, TypeOK
<1>4. ~Reshaping /\ ~Purging /\ ~Held(keeping)
  BY <1>2 DEF ServingInv, Exclusion, Slots, Emptying
<1>5. \A e : Held(e)' => Held(e)
  BY <1>2, ServingAssumption DEF Held, Users, NoRebuild
<1>6. TypeOK' /\ Slots'
  BY <1>1, <1>2, <1>3, <1>4, Shapes DEF ServingInv, TypeOK, Slots, Emptying, Purging, Rebuilding,
                                        NoRebuild, NoSync, NoReshape, NoPurge
<1>7. Alone'
  BY <1>2, <1>3, <1>5, AloneStays DEF Places
<1>8. Exclusion' /\ OnDisk'
  BY <1>2, <1>4, <1>5 DEF Exclusion, OnDisk, Rebuilding, Reshaping, NoRebuild
<1>9. ASSUME ~astray'
      PROVE  Faithful'
  <2>1. Faithful
    BY <1>2, <1>9 DEF ServingInv
  <2>2. InPlace'
    BY <1>2, <1>4, <1>5, <2>1 DEF Faithful, InPlace, Kept, Purging, Reshaping, Swapping, On
  <2>3. Syncing' /\ Rewriting'
    BY <1>2, <2>1 DEF Faithful, Syncing, Rewriting, Rebuilding, NoRebuild
  <2>4. \A t \in Topics \ swept : Served'[t] = Served[t]
    BY <1>2, <1>3, ServedIs, ServedThen DEF ServingInv, TypeOK
  <2>5. \A t \in Topics : Done(t)' => Right(t)'
    BY <1>1, <1>2, <1>4, <2>1, <2>4 DEF Faithful, Done, Right, Copying, Reshaping
  <2> QED
    BY <2>2, <2>3, <2>5 DEF Faithful
<1> QED
  BY <1>6, <1>7, <1>8, <1>9 DEF ServingInv

LEMMA ReindexFailsKeeps ==
  ASSUME ServingInv, ReindexFails
  PROVE  ServingInv'
<1>1. /\ Rebuilding /\ at' \in HalfWritten /\ keeping' \in {keeping, Nobody}
      /\ spoiled' = spoiled \cup Stale /\ rebuild' = NoRebuild
      /\ ledger' = ledger /\ owed' = owed /\ place' = place /\ sync' = sync
      /\ reshape' = reshape /\ purge' = purge /\ slot' = slot /\ locked' = locked
      /\ missed' = missed /\ astray' = astray
  BY DEF ReindexFails, Rebuilding
<1>2. /\ at' \in Directories
      /\ at'["live"] = Nothing <=> at["live"] = Nothing
      /\ at'["replaced"] = at["replaced"]
  BY <1>1, HalfWrittenIsRight
<1>3. ~Reshaping
  BY <1>1, RebuildIsAlone
<1>4. \A e : Held(e)' => Held(e)
  BY <1>1, ServingAssumption DEF Held, Users, NoRebuild
<1>5. TypeOK'
  <2>1. spoiled' \subseteq Topics
    BY <1>1, Fields DEF ServingInv, TypeOK, Stale
  <2> QED
    BY <1>1, <1>2, <2>1, Shapes DEF ServingInv, TypeOK, Engine
<1>6. Slots'
  BY <1>1 DEF ServingInv, Slots, Emptying, Purging, Rebuilding, NoSync, NoReshape, NoRebuild, NoPurge
<1>7. Alone'
  BY <1>1, <1>2, <1>4, AloneStays DEF Places
<1>8. Exclusion' /\ OnDisk'
  <2>1. Held(keeping)' => Held(keeping) /\ keeping' = keeping
    BY <1>1, <1>4, ServingAssumption DEF Held
  <2> QED
    BY <1>1, <1>3, <2>1 DEF ServingInv, Exclusion, OnDisk, Rebuilding, Reshaping, NoRebuild
<1>9. ASSUME ~astray'
      PROVE  Faithful'
  <2>1. Faithful
    BY <1>1, <1>9 DEF ServingInv
  <2>2. InPlace'
    BY <1>1, <1>3, <1>4, <2>1 DEF Faithful, InPlace, Kept, Purging, Reshaping, Swapping, On
  <2>3. Syncing' /\ Rewriting'
    BY <1>1, <2>1 DEF Faithful, Syncing, Rewriting, Rebuilding, NoRebuild
  <2>4. \A t \in Topics :
          Done(t) /\ Right(t) /\ t \notin spoiled \cup missed \cup Stale => Served'[t] = ledger[t]
    BY <1>1, <1>9, HalfWrittenIsRight
  <2>5. \A t \in Topics : Done(t)' => Right(t)'
    BY <1>1, <1>3, <2>1, <2>4 DEF Faithful, Done, Right, Copying, Reshaping
  <2> QED
    BY <2>2, <2>3, <2>5 DEF Faithful
<1> QED
  BY <1>5, <1>6, <1>7, <1>8, <1>9 DEF ServingInv

LEMMA PurgeBeginKeeps ==
  ASSUME ServingInv, PurgeBegin
  PROVE  ServingInv'
<1>1. /\ ~locked /\ purge.step = "idle" /\ locked' = TRUE /\ slot' = Nobody
      /\ purge' = [step |-> "wait", engine |-> slot]
      /\ ledger' = ledger /\ owed' = owed /\ at' = at /\ place' = place /\ sync' = sync
      /\ reshape' = reshape /\ rebuild' = rebuild /\ keeping' = keeping /\ history' = history
  BY DEF PurgeBegin
<1>2. /\ purge' \in Purges /\ purge'.step = "wait" /\ purge'.engine = slot
  BY <1>1 DEF ServingInv, TypeOK, Purges
<1>3. ~Emptying /\ ~Purging
  BY <1>1 DEF ServingInv, Slots
<1>4. \A e : Held(e)' => Held(e)
  BY <1>1, <1>2, ServingAssumption DEF Held, Users
<1>5. TypeOK' /\ Slots'
  BY <1>1, <1>2, <1>3 DEF ServingInv, TypeOK, Engine, Slots, Emptying, Purging, Rebuilding, NoSync,
                          NoReshape, history
<1>6. Exclusion'
  BY <1>1, <1>2, <1>3, <1>4 DEF ServingInv, Exclusion, Kept, Purging, Rebuilding, Reshaping, Swapping,
                                history
<1>7. Alone'
  BY <1>1, <1>4, AloneStays
<1>8. ASSUME ~astray'
      PROVE  InPlace'
  <2>1. Faithful
    BY <1>1, <1>8 DEF ServingInv, history
  <2>2. \A e \in Engines : Kept(e)' => Kept(e)
    BY <1>1, <1>2, ServingAssumption DEF Kept, Purging
  <2> QED
    BY <1>1, <1>4, <2>1, <2>2 DEF Faithful, InPlace, Reshaping, Swapping, On
<1> QED
  BY <1>1, <1>5, <1>6, <1>7, <1>8, ContentsStay DEF ServingInv

LEMMA PurgeKeeps ==
  ASSUME ServingInv, Purge
  PROVE  ServingInv'
<1>1. /\ Purging
      /\ purge.engine # Nobody =>
           purge.engine \notin {sync.engine, reshape.engine, rebuild.engine}
      /\ ledger' = Empty /\ owed' = {} /\ spoiled' = {} /\ missed' = {} /\ astray' = astray
      /\ at' = [p \in Places |-> Nothing] /\ place' = [e \in Engines |-> "gone"]
      /\ locked' = FALSE /\ keeping' = Nobody /\ purge' = NoPurge
      /\ sync' = [sync EXCEPT !.claimed = FALSE] /\ reshape' = NoReshape
      /\ slot' = slot /\ rebuild' = rebuild
  BY DEF Purge, Purging
<1>2. slot = Nobody /\ ~Emptying /\ rebuild.engine \in Engine
  BY <1>1, Fields DEF ServingInv, Slots
<1>3. ~Rebuilding
  BY <1>1, <1>2, ServingAssumption DEF ServingInv, Exclusion, Kept
<1>4. /\ sync' \in Syncings /\ sync'.claimed = FALSE
      /\ sync'.step = sync.step /\ sync'.engine = sync.engine /\ sync'.topic = sync.topic
  BY <1>1, Unclaimed DEF ServingInv, TypeOK
<1>5. sync.step = "idle" => sync' = NoSync
  <2>1. [NoSync EXCEPT !.claimed = FALSE] = NoSync
    BY Shapes, AlreadyUnclaimed DEF NoSync
  <2> QED
    BY <1>1, <2>1 DEF ServingInv, Slots
<1>6. TypeOK'
  BY <1>1, <1>4, Shapes DEF ServingInv, TypeOK, Directories, Engine, Handles
<1>7. Slots'
  BY <1>1, <1>2, <1>3, <1>4, <1>5 DEF ServingInv, Slots, Emptying, Purging, Rebuilding, NoReshape,
                                      NoPurge
<1>8. /\ \A p \in Places : On(p)' = {}
      /\ ~Held(keeping)'
  BY <1>1, ServingAssumption DEF On, Held, Places
<1>9. Alone'
  BY <1>8 DEF Alone
<1>10. Exclusion' /\ OnDisk'
  BY <1>1, <1>2, <1>3, <1>8 DEF Exclusion, OnDisk, Emptying, Rebuilding, Reshaping, NoReshape
<1>11. InPlace'
  BY <1>1, <1>2, <1>8, ServingAssumption DEF InPlace, Kept, Purging, Swapping, NoReshape, NoPurge,
                                             Places
<1>12. Syncing' /\ Rewriting'
  BY <1>1, <1>3, <1>4 DEF ServingInv, Slots, Syncing, Rewriting, Rebuilding
<1>13. Served' = Empty
  BY <1>1, <1>6, ServedThen DEF TypeOK, Places
<1>14. \A t \in Topics : Done(t)' => Right(t)'
  BY <1>1, <1>13 DEF Right, Copying, NoReshape
<1> QED
  BY <1>6, <1>7, <1>9, <1>10, <1>11, <1>12, <1>14 DEF ServingInv, Faithful

LEMMA GiveUpKeeps ==
  ASSUME ServingInv, GiveUp
  PROVE  ServingInv'
<1>1. /\ Purging /\ locked' = FALSE /\ purge' = NoPurge
      /\ \/ slot' = purge.engine
         \/ /\ purge.engine \notin {sync.engine, reshape.engine, rebuild.engine}
            /\ slot' = Nobody
      /\ ledger' = ledger /\ owed' = owed /\ at' = at /\ place' = place /\ sync' = sync
      /\ reshape' = reshape /\ rebuild' = rebuild /\ keeping' = keeping /\ history' = history
  BY DEF GiveUp, Purging
<1>2. slot' \in Engine /\ slot = Nobody /\ ~Emptying
  BY <1>1, Fields DEF ServingInv, Slots, Engine
<1>3. \A e : Held(e)' => Held(e)
  BY <1>1, ServingAssumption DEF Held, Users, NoPurge
<1>4. TypeOK' /\ Slots'
  BY <1>1, <1>2, Shapes DEF ServingInv, TypeOK, Slots, Emptying, Purging, Rebuilding, NoSync,
                            NoReshape, NoPurge, history
<1>5. Rebuilding => slot' = rebuild.engine
  BY <1>1, <1>2, ServingAssumption DEF ServingInv, Exclusion, Kept
<1>6. Exclusion'
  BY <1>1, <1>2, <1>3, <1>5 DEF ServingInv, Exclusion, Kept, Rebuilding, Reshaping, Swapping, history
<1>7. Alone'
  BY <1>1, <1>3, AloneStays
<1>8. ASSUME ~astray'
      PROVE  InPlace'
  <2>1. Faithful
    BY <1>1, <1>8 DEF ServingInv, history
  <2>2. \A e \in Engines : Kept(e)' => Kept(e)
    BY <1>1, ServingAssumption DEF Kept, Purging, NoPurge
  <2> QED
    BY <1>1, <1>3, <2>1, <2>2 DEF Faithful, InPlace, Reshaping, Swapping, On
<1> QED
  BY <1>1, <1>4, <1>6, <1>7, <1>8, ContentsStay DEF ServingInv

LEMMA CrashKeeps ==
  ASSUME ServingInv, Crash
  PROVE  ServingInv'
<1>1. /\ at' \in HalfWritten /\ spoiled' = spoiled \cup Stale
      /\ place' = [e \in Engines |-> "gone"]
      /\ slot' = Nobody /\ locked' = FALSE /\ keeping' = Nobody
      /\ sync' = NoSync /\ reshape' = NoReshape /\ rebuild' = NoRebuild /\ purge' = NoPurge
      /\ ledger' = ledger /\ owed' = owed /\ missed' = missed /\ astray' = astray
  BY DEF Crash
<1>2. at' \in Directories
  BY <1>1, HalfWrittenIsRight
<1>3. TypeOK'
  <2>1. spoiled' \subseteq Topics
    BY <1>1, Fields DEF ServingInv, TypeOK, Stale
  <2> QED
    BY <1>1, <1>2, <2>1, Shapes DEF ServingInv, TypeOK, Engine, Handles
<1>4. Slots'
  BY <1>1 DEF Slots, Emptying, Purging, Rebuilding, NoSync, NoReshape, NoRebuild, NoPurge
<1>5. /\ \A p \in Places : On(p)' = {}
      /\ ~Held(keeping)'
  BY <1>1, ServingAssumption DEF On, Held, Places
<1>6. Alone'
  BY <1>5 DEF Alone
<1>7. Exclusion' /\ OnDisk'
  BY <1>1, <1>5 DEF Exclusion, OnDisk, Rebuilding, Reshaping, NoReshape, NoRebuild
<1>8. InPlace'
  BY <1>1, <1>5, ServingAssumption DEF InPlace, Kept, Purging, Swapping, NoReshape, NoPurge, Places
<1>9. Syncing' /\ Rewriting'
  BY <1>1 DEF Syncing, Rewriting, Rebuilding, NoSync, NoRebuild
<1>10. ASSUME ~astray'
       PROVE  \A t \in Topics : Done(t)' => Right(t)'
  <2>1. \A t \in Topics :
          Done(t) /\ Right(t) /\ t \notin spoiled \cup missed \cup Stale => Served'[t] = ledger[t]
    BY <1>1, <1>10, HalfWrittenIsRight
  <2>2. \A t \in Topics : Done(t)' => Done(t)
    BY <1>1 DEF Done, NoSync
  <2> QED
    BY <1>1, <1>10, <2>1, <2>2 DEF ServingInv, Faithful, Right, Copying, NoReshape
<1> QED
  BY <1>3, <1>4, <1>6, <1>7, <1>8, <1>9, <1>10 DEF ServingInv, Faithful

(***************************************************************************)
(* The theorems.                                                           *)
(***************************************************************************)
LEMMA InitIsServed == Init => ServingInv
<1> SUFFICES ASSUME Init PROVE ServingInv
  OBVIOUS
<1>1. /\ ledger = Empty /\ owed = {} /\ at = [p \in Places |-> Nothing]
      /\ place = [e \in Engines |-> "gone"]
      /\ slot = Nobody /\ locked = FALSE /\ keeping = Nobody
      /\ sync = NoSync /\ reshape = NoReshape /\ rebuild = NoRebuild /\ purge = NoPurge
      /\ spoiled = {} /\ missed = {} /\ astray = FALSE
  BY DEF Init
<1>2. TypeOK
  BY <1>1, Shapes DEF TypeOK, Directories, Engine, Handles
<1>3. Slots /\ Syncing /\ OnDisk /\ Rewriting
  BY <1>1 DEF Slots, Syncing, OnDisk, Rewriting, Emptying, Purging, Rebuilding, NoSync, NoReshape,
              NoRebuild, NoPurge
<1>4. /\ \A p \in Places : On(p) = {}
      /\ ~Held(keeping)
  BY <1>1, ServingAssumption DEF On, Held, Places
<1>5. Exclusion /\ Alone
  BY <1>1, <1>4 DEF Exclusion, Alone, Reshaping, Rebuilding, NoReshape, NoRebuild
<1>6. InPlace
  BY <1>1, <1>4, ServingAssumption DEF InPlace, Kept, Purging, Swapping, NoReshape, NoPurge, Places
<1>7. Served = Empty
  BY <1>1, <1>2, ServedIs DEF TypeOK, Places
<1>8. \A t \in Topics : Right(t)
  BY <1>1, <1>7 DEF Right, Copying, NoReshape
<1> QED
  BY <1>2, <1>3, <1>5, <1>6, <1>8 DEF ServingInv, Faithful

LEMMA StutterKeeps ==
  ASSUME ServingInv, UNCHANGED vars
  PROVE  ServingInv'
<1>1. /\ ledger' = ledger /\ owed' = owed /\ at' = at /\ place' = place /\ slot' = slot
      /\ locked' = locked /\ keeping' = keeping /\ sync' = sync /\ reshape' = reshape
      /\ rebuild' = rebuild /\ purge' = purge /\ history' = history
  BY DEF vars, registry
<1>2. \A e : Held(e)' <=> Held(e)
  BY <1>1 DEF Held, Users
<1>3. TypeOK' /\ Slots'
  BY <1>1 DEF ServingInv, TypeOK, Slots, Emptying, Purging, Rebuilding, history
<1>4. Exclusion' /\ Alone'
  BY <1>1, <1>2 DEF ServingInv, Exclusion, Alone, Kept, Purging, Rebuilding, Reshaping, Swapping, On,
                    history
<1>5. ASSUME ~astray'
      PROVE  InPlace'
  <2>1. Faithful
    BY <1>1, <1>5 DEF ServingInv, history
  <2> QED
    BY <1>1, <1>2, <2>1 DEF Faithful, InPlace, Kept, Purging, Reshaping, Swapping, On
<1> QED
  BY <1>1, <1>3, <1>4, <1>5, ContentsStay DEF ServingInv

LEMMA NextIsServed == ServingInv /\ [Next]_vars => ServingInv'
<1> SUFFICES ASSUME ServingInv, [Next]_vars PROVE ServingInv'
  OBVIOUS
<1>1. CASE \E t \in Topics, text \in Text : Write(t, text)
  BY <1>1, WriteKeeps
<1>2. CASE \/ \E e \in Engines : Open(e)
           \/ Close
  BY <1>2, OpenKeeps, CloseKeeps
<1>3. CASE Syncs
  BY <1>3, SyncBeginKeeps, SyncReadKeeps, SyncWriteKeeps, SyncDoneKeeps DEF Syncs
<1>4. CASE ReshapeBegin \/ Copies
  BY <1>4, ReshapeBeginKeeps, ReshapeListKeeps, ReshapeReadKeeps, ReshapeApplyKeeps, CatchUpKeeps
     DEF Copies
<1>5. CASE Swaps
  BY <1>5, SwapKeeps, MoveAsideKeeps, MoveInKeeps, ServeKeeps, SwapFailsKeeps, CopyFailsKeeps
     DEF Swaps
<1>6. CASE RebuildBegin \/ Rebuilds
  BY <1>6, RebuildBeginKeeps, ExcludeKeeps, SetAsideKeeps, OpenEmptyKeeps, ReindexReadKeeps,
     ReindexWriteKeeps DEF Rebuilds
<1>7. CASE PurgeBegin \/ Purge
  BY <1>7, PurgeBeginKeeps, PurgeKeeps
<1>8. CASE Fails
  BY <1>8, AbandonKeeps, SwapFailsKeeps, CopyFailsKeeps, RebuildFailsKeeps, DiscardFailsKeeps,
     ReindexFailsKeeps, GiveUpKeeps, CrashKeeps DEF Fails
<1>9. CASE UNCHANGED vars
  BY <1>9, StutterKeeps
<1> QED
  BY <1>1, <1>2, <1>3, <1>4, <1>5, <1>6, <1>7, <1>8, <1>9 DEF Next

\* The inductive invariant: who holds which engine and directory, what each half
\* made rewrite has in its hands, and that every topic which nothing is owed for
\* is right in whatever may come to be served next, however `take_then`,
\* `swap_in`, `reindex`, `purge`, the syncs and a crash follow one another and
\* whichever of their steps fail.  Who holds what needs no exception; what is
\* served needs the three that Findable names.
THEOREM ServingIsConsistent == Spec => []ServingInv
BY InitIsServed, NextIsServed, PTL DEF Spec

\* One engine at most is open on the project's directory, or on the one a swap
\* moved aside, and it is there while one is: what `open` refuses, the exclusion
\* `assemble` takes and the slot `take_then` empties before anything moves see to
\* it for any number of engines, whatever fails.  And the engine the registry
\* hands out is the one on the project's directory, or answers that it has been
\* closed, until the project is opened in the middle of a swap (`astray`).
THEOREM IndexIsOne == Spec => []OneIndex
<1>1. ServingInv => OneIndex
  <2> SUFFICES ASSUME ServingInv PROVE OneIndex
    OBVIOUS
  <2>1. ASSUME NEW p \in Places
        PROVE  Cardinality(On(p)) <= 1 /\ (On(p) # {} => at[p] # Nothing)
    <3>1. CASE On(p) = {}
      BY <3>1, FS_EmptySet
    <3>2. CASE On(p) # {}
      <4>1. /\ at[p] # Nothing
            /\ \A d, e \in On(p) : d = e
        BY <2>1, <3>2 DEF ServingInv, Alone
      <4>2. PICK e : On(p) = {e}
        BY <3>2, <4>1
      <4>3. Cardinality({e}) = 1
        BY FS_Singleton
      <4> QED
        BY <4>1, <4>2, <4>3
    <3> QED
      BY <3>1, <3>2
  <2>2. slot # Nobody => astray \/ place[slot] \in {"live", "closed"}
    BY DEF ServingInv, TypeOK, Engine, Faithful, InPlace, Kept
  <2> QED
    BY <2>1, <2>2 DEF OneIndex
<1> QED
  BY <1>1, ServingIsConsistent, PTL

\* What the ledger says of a topic is what an index opened next has of it, unless
\* its sync is still owed, a rebuild has `spoiled` it or a reshape has `missed` it:
\* no swap, and no crash between two of its renames, loses a write that
\* `sync_topic` has called done, until the project is opened in the middle of one.
THEOREM WritesStayFindable == Spec => []Findable
<1>1. ServingInv => Findable
  BY DEF ServingInv, Faithful, Findable, Done, Right
<1> QED
  BY <1>1, ServingIsConsistent, PTL

-----------------------------------------------------------------------------
(* Watch.  What a change on the disk tells, and that it leaves nothing     *)
(* unknown; what a task with nothing of its own is; what each step of the  *)
(* watcher keeps, one lemma a step.                                        *)

\* The synced directory holds all of it, a directory under it its own files.
LEMMA WithinIs ==
  /\ Within(Top) = Dirs /\ FilesUnder(Top) = Files
  /\ \A d \in Dirs \ {Top} : Within(d) = {d} /\ FilesUnder(d) = {f \in Files : In[f] = d}
  /\ \A f \in Files : In[f] \in Dirs /\ f # Top /\ f \notin Dirs
BY WatchAssumption DEF Within, FilesUnder, Paths

\* What a path's watch tells is pending afterwards, or the events were lost.
LEMMA HearTells ==
  ASSUME NEW paths \in SUBSET Paths, Hear(paths), WatchTypeOK
  PROVE  /\ pending \subseteq pending' /\ pending' \in SUBSET Paths
         /\ rescan => rescan'
         /\ paths \subseteq pending' \/ rescan'
BY DEF Hear, WatchTypeOK

LEMMA RescanIsTyped ==
  ASSUME NEW paths, Hear(paths), WatchTypeOK
  PROVE  rescan' \in BOOLEAN
BY DEF Hear, WatchTypeOK

\* What the task, the ledger and the watches are is not the disk's to change.
Untouched == UNCHANGED <<sections, state, watched, held, task, lost>>

\* A change on the disk takes watches away, none of them from what is there
\* still, and only hears more.
Hears ==
  /\ pending \subseteq pending' /\ (rescan => rescan')
  /\ live' \subseteq live
  /\ Top \in live \ live' => rescan' \/ Top \in pending'
  /\ \A d \in there' \ {Top} :
       d \in live' \/ d \in there \ live \/ Top \notin live' \/ rescan' \/ d \in pending'

\* A file that changes is heard of, or its directory's watch is not live.
Tells(f) ==
  \/ disk'[f] = disk[f]
  \/ rescan' \/ Top \notin live'
  \/ f \in pending' /\ In[f] \in live'
  \/ In[f] # Top /\ In[f] \in pending'
  \/ In[f] # Top /\ In[f] \in (there \ live) \cap there'

\* So what each variable may be is as it was, once what changes is.
LEMMA DiskIsTyped ==
  ASSUME WatchTypeOK, Untouched,
         disk' \in [Files -> FileTexts \cup {NoText}], there' \in SUBSET Dirs,
         live' \in SUBSET (live \cap there'), pending' \in SUBSET Paths, rescan' \in BOOLEAN
  PROVE  WatchTypeOK'
<1>1. /\ sections' = sections /\ state' = state /\ watched' = watched
      /\ held' = held /\ task' = task /\ lost' = lost
  BY DEF Untouched
<1>2. /\ sections' \in [Files -> FileTexts \cup {NoText}] /\ watched' \subseteq Dirs
      /\ live' \subseteq watched' \cap there'
      /\ state' \in {"off", "starting", "watching", "polling", "missing"}
      /\ held' \subseteq Files /\ lost' \subseteq Paths
      /\ (state' \in {"off", "missing"} => watched' = {})
  BY <1>1 DEF WatchTypeOK
<1>3. task' \in Task
  BY <1>1 DEF WatchTypeOK
<1> QED
  BY <1>2, <1>3 DEF WatchTypeOK

LEMMA EditTells ==
  ASSUME WatchInv, NEW f \in Files, NEW text \in FileTexts \cup {NoText}, Edit(f, text)
  PROVE  WatchTypeOK' /\ AbsentOutside' /\ Untouched /\ Hears /\ \A g \in Files : Tells(g)
<1>1. WatchTypeOK /\ AbsentOutside
  BY DEF WatchInv
<1>2. HeardIn(f) \in SUBSET Paths
  BY DEF HeardIn, Paths
<1>3. Hear(HeardIn(f))
  BY DEF Edit
<1>4. /\ pending \subseteq pending' /\ pending' \in SUBSET Paths
      /\ rescan => rescan'
      /\ HeardIn(f) \subseteq pending' \/ rescan'
  BY <1>1, <1>2, <1>3, HearTells
<1>5. disk' = [disk EXCEPT ![f] = text] /\ In[f] \in there
  BY DEF Edit
<1>6. Untouched /\ there' = there /\ live' = live
  BY DEF Edit, Untouched, watches
<1>7. WatchTypeOK'
  <2>1. /\ disk' \in [Files -> FileTexts \cup {NoText}] /\ there' \in SUBSET Dirs
        /\ live' \in SUBSET (live \cap there')
    BY <1>1, <1>5, <1>6 DEF WatchTypeOK
  <2>2. pending' \in SUBSET Paths
    BY <1>4
  <2>3. rescan' \in BOOLEAN
    BY <1>1, <1>3, RescanIsTyped
  <2> QED
    BY <1>1, <1>6, <2>1, <2>2, <2>3, DiskIsTyped
<1>8. AbsentOutside'
  BY <1>1, <1>5, <1>6 DEF AbsentOutside, Present, WatchTypeOK
<1>9. Hears
  BY <1>4, <1>6 DEF Hears
<1>10. ASSUME NEW g \in Files PROVE Tells(g)
  BY <1>1, <1>4, <1>5, <1>6, WithinIs DEF Tells, HeardIn, WatchTypeOK
<1> QED
  BY <1>6, <1>7, <1>8, <1>9, <1>10

LEMMA RemoveTells ==
  ASSUME WatchInv, NEW d \in Dirs, Remove(d)
  PROVE  WatchTypeOK' /\ AbsentOutside' /\ Untouched /\ Hears /\ \A g \in Files : Tells(g)
<1>1. WatchTypeOK /\ AbsentOutside
  BY DEF WatchInv
<1>2. PICK gone \in SUBSET Paths : Hear(HeardIn(d) \cup ({d} \cap live) \cup gone)
  <2> DEFINE inside == {f \in FilesUnder(d) : Present(f)} \cup ((Within(d) \ {d}) \cap there)
  <2>1. PICK gone \in {{}, {p \in inside : In[p] \in live}} :
          Hear(HeardIn(d) \cup ({d} \cap live) \cup gone)
    BY DEF Remove
  <2>2. inside \subseteq Paths
    BY WatchAssumption DEF FilesUnder, Within, Paths
  <2> QED
    BY <2>1, <2>2
<1> DEFINE told == HeardIn(d) \cup ({d} \cap live) \cup gone
<1>3. told \in SUBSET Paths
  BY DEF HeardIn, Paths
<1>4. /\ pending \subseteq pending' /\ pending' \in SUBSET Paths
      /\ rescan => rescan'
      /\ HeardIn(d) \cup ({d} \cap live) \subseteq pending' \/ rescan'
  <2> HIDE DEF told
  <2>1. /\ pending \subseteq pending' /\ pending' \in SUBSET Paths
        /\ rescan => rescan'
        /\ told \subseteq pending' \/ rescan'
    BY <1>1, <1>2, <1>3, HearTells DEF told
  <2> QED
    BY <2>1 DEF told
<1>5. /\ there' = there \ Within(d) /\ live' = live \ Within(d)
      /\ disk' = [f \in Files |-> IF f \in FilesUnder(d) THEN NoText ELSE disk[f]]
  BY DEF Remove
<1>6. Untouched
  BY DEF Remove, Untouched
<1>7. WatchTypeOK'
  <2>1. /\ disk' \in [Files -> FileTexts \cup {NoText}] /\ there' \in SUBSET Dirs
        /\ live' \in SUBSET (live \cap there')
    BY <1>1, <1>5, <1>6 DEF WatchTypeOK
  <2>2. pending' \in SUBSET Paths
    BY <1>4
  <2>3. rescan' \in BOOLEAN
    BY <1>1, <1>2, RescanIsTyped
  <2> QED
    BY <1>1, <1>6, <2>1, <2>2, <2>3, DiskIsTyped
<1>8. AbsentOutside'
  BY <1>1, <1>5, <1>6, WithinIs DEF AbsentOutside, Present, WatchTypeOK
<1>9. Hears
  BY <1>1, <1>4, <1>5, <1>6, WithinIs DEF Hears, HeardIn, WatchTypeOK
<1>10. ASSUME NEW g \in Files PROVE Tells(g)
  <2>1. CASE d = Top
    BY <1>1, <1>5, <2>1, WithinIs, WatchAssumption DEF Tells
  <2>2. CASE d # Top
    BY <1>1, <1>4, <1>5, <2>2, WithinIs, WatchAssumption DEF Tells, HeardIn, WatchTypeOK
  <2> QED
    BY <2>1, <2>2
<1> QED
  BY <1>6, <1>7, <1>8, <1>9, <1>10

LEMMA MakeTells ==
  ASSUME WatchInv, NEW d \in Dirs, NEW files \in SUBSET Files, NEW text \in FileTexts,
         Make(d, files, text)
  PROVE  WatchTypeOK' /\ AbsentOutside' /\ Untouched /\ Hears /\ \A g \in Files : Tells(g)
<1>1. WatchTypeOK /\ AbsentOutside
  BY DEF WatchInv
<1>2. HeardIn(d) \in SUBSET Paths
  BY DEF HeardIn, Paths
<1>3. Hear(HeardIn(d))
  BY DEF Make
<1>4. /\ pending \subseteq pending' /\ pending' \in SUBSET Paths
      /\ rescan => rescan'
      /\ HeardIn(d) \subseteq pending' \/ rescan'
  BY <1>1, <1>2, <1>3, HearTells
<1>5. /\ d \notin there /\ there' = there \cup {d} /\ (d # Top => In[d] \in there)
      /\ files \subseteq {f \in Files : In[f] = d}
      /\ disk' = [f \in Files |-> IF f \in files THEN text ELSE disk[f]]
  BY DEF Make
<1>6. Untouched /\ live' = live
  BY DEF Make, Untouched, watches
<1>7. WatchTypeOK'
  <2>1. /\ disk' \in [Files -> FileTexts \cup {NoText}] /\ there' \in SUBSET Dirs
        /\ live' \in SUBSET (live \cap there')
    BY <1>1, <1>5, <1>6 DEF WatchTypeOK
  <2>2. pending' \in SUBSET Paths
    BY <1>4
  <2>3. rescan' \in BOOLEAN
    BY <1>1, <1>3, RescanIsTyped
  <2> QED
    BY <1>1, <1>6, <2>1, <2>2, <2>3, DiskIsTyped
<1>8. AbsentOutside'
  BY <1>1, <1>5, <1>6, WatchAssumption, WithinIs DEF AbsentOutside, Present, WatchTypeOK
<1>9. Hears
  BY <1>1, <1>4, <1>5, <1>6, WatchAssumption DEF Hears, HeardIn, WatchTypeOK
<1>10. ASSUME NEW g \in Files PROVE Tells(g)
  BY <1>1, <1>4, <1>5, <1>6, WithinIs, WatchAssumption DEF Tells, HeardIn, WatchTypeOK
<1> QED
  BY <1>6, <1>7, <1>8, <1>9, <1>10

\* What is known stays known while the disk changes.
LEMMA KnownStays ==
  ASSUME Untouched, Hears, NEW f \in Files, IsKnown(f)
  PROVE  IsKnown(f)'
BY DEF IsKnown, WalkIsDue, TaskAt, Heard, Untouched, Hears

\* And a file that changes is known from then on.
LEMMA ChangesAreKnown ==
  ASSUME WatchInv, Watching, WatchTypeOK', Untouched, Hears,
         NEW f \in Files, Tells(f), disk'[f] # disk[f]
  PROVE  IsKnown(f)'
<1>1. live' \subseteq watched' /\ watched' = watched /\ task' = task /\ lost' = lost
  BY DEF WatchTypeOK, Untouched
<1>2. CASE In[f] # Top /\ In[f] \in (there \ live) \cap there'
  <2>1. \/ Top \notin live \/ WalkIsDue
        \/ In[f] \in Heard \cup lost \cup task.new
    BY <1>2, WithinIs DEF WatchInv, WatchTypeOK, DirsAreKnown
  <2>2. IsKnown(f)
    BY <1>2, <2>1 DEF IsKnown
  <2> QED
    BY <2>2, KnownStays
<1>3. CASE ~(In[f] # Top /\ In[f] \in (there \ live) \cap there')
  BY <1>1, <1>3 DEF Tells, IsKnown, WalkIsDue, Heard
<1> QED
  BY <1>2, <1>3

\* So nothing on the disk changes unnoticed.
LEMMA DiskKeeps ==
  ASSUME WatchInv, WatchTypeOK', AbsentOutside', Untouched, Hears, \A f \in Files : Tells(f)
  PROVE  WatchInv'
<1> USE DEF WatchInv
<1>1. UNCHANGED <<sections, state, watched, held, task, lost>>
  BY DEF Untouched
<1>2. TaskIsWhole'
  BY <1>1 DEF TaskIsWhole, TaskAt
<1>3. TopIsKnown'
  BY <1>1 DEF TopIsKnown, Watching, WalkIsDue, Heard, Hears
<1>4. DirsAreKnown'
  <2> SUFFICES ASSUME Watching, NEW d \in there' \ {Top}, d \notin live', Top \in live', ~WalkIsDue'
               PROVE  d \in Heard' \cup lost' \cup task'.new
    BY <1>1 DEF DirsAreKnown, Watching
  <2>1. d \in pending' \/ d \in there \ live
    BY DEF Hears, WalkIsDue
  <2>2. Top \in live /\ ~WalkIsDue
    BY <1>1 DEF Hears, WalkIsDue
  <2>3. d \in there \ live => d \in Heard \cup lost \cup task.new
    BY <2>2 DEF DirsAreKnown
  <2> QED
    BY <1>1, <2>1, <2>3 DEF Heard, Hears
<1>5. AdoptedAreKnown'
  <2> SUFFICES ASSUME NEW d \in task.new \cap watched
               PROVE  /\ d \in task.walked
                      /\ Watching /\ d \in there'
                           => d \in live' \/ Top \notin live' \/ rescan' \/ d \in pending' \cup lost
    BY <1>1 DEF AdoptedAreKnown, Watching
  <2>1. d # Top
    BY DEF TaskIsWhole
  <2>2. d \in there' => d \in live' \/ d \in there \ live \/ Top \notin live' \/ rescan' \/ d \in pending'
    BY <2>1 DEF Hears
  <2> QED
    BY <2>2 DEF AdoptedAreKnown, Hears
<1>6. NewAreLost'
  BY <1>1 DEF NewAreLost
<1>7. FilesAreKnown'
  <2> SUFFICES ASSUME Watching, NEW f \in Files
               PROVE  sections[f] = disk'[f] \/ IsKnown(f)' \/ IsDue(f)'
    BY <1>1 DEF FilesAreKnown, Watching
  <2>1. CASE disk'[f] # disk[f]
    BY <2>1, ChangesAreKnown
  <2>2. CASE disk'[f] = disk[f]
    <3>1. IsDue(f) => IsDue(f)'
      BY <1>1, <2>2 DEF IsDue, TaskAt, Present
    <3> QED
      BY <2>2, <3>1, KnownStays DEF FilesAreKnown
  <2> QED
    BY <2>1, <2>2
<1>8. BackAreKnown'
  <2> SUFFICES ASSUME Watching, NEW f \in held \cup task.gone \cup task.deleted, Present(f)'
               PROVE  IsKnown(f)' \/ TaskAt("again") \/ task.tree \/ f \in task.found
    BY <1>1 DEF BackAreKnown, Watching, TaskAt
  <2>1. f \in Files
    BY DEF WatchTypeOK, Task
  <2>2. CASE disk'[f] # disk[f]
    BY <2>1, <2>2, ChangesAreKnown
  <2>3. CASE disk'[f] = disk[f]
    BY <2>1, <2>3, KnownStays DEF BackAreKnown, Present
  <2> QED
    BY <2>2, <2>3
<1> QED
  BY <1>2, <1>3, <1>4, <1>5, <1>6, <1>7, <1>8

-----------------------------------------------------------------------------

\* A task with nothing of its own.
LEMMA PhaseIs ==
  /\ NoTask \in Task /\ NoTask = Phase("idle")
  /\ \A step \in StepNames :
       LET task0 == Phase(step)
       IN  /\ task0 \in Task /\ task0.step = step
           /\ task0.paths = {} /\ task0.new = {} /\ task0.found = {} /\ task0.gone = {}
           /\ task0.deleted = {} /\ task0.walked = {} /\ task0.tree = FALSE
<1>1. NoTask \in Task
  BY DEF NoTask, Task, StepNames
<1>2. NoTask = Phase("idle")
  BY DEF Phase, NoTask
<1>3. ASSUME NEW step \in StepNames
      PROVE  /\ Phase(step).step = step /\ Phase(step).paths = {} /\ Phase(step).new = {}
             /\ Phase(step).found = {} /\ Phase(step).gone = {}
             /\ Phase(step).deleted = {} /\ Phase(step).walked = {}
  BY DEF Phase, NoTask
<1>4. ASSUME NEW step \in StepNames PROVE Phase(step).tree = FALSE
  BY DEF Phase, NoTask
<1>5. ASSUME NEW step \in StepNames PROVE Phase(step) \in Task
  <2>1. ASSUME NEW other \in Task PROVE [other EXCEPT !.step = step] \in Task
    BY DEF Task
  <2> QED
    BY <1>1, <2>1 DEF Phase
<1> QED
  BY <1>1, <1>2, <1>3, <1>4, <1>5

LEMMA PhaseIsWhole ==
  ASSUME NEW step \in StepNames \ {"sort", "adopt", "watch"}, task' = Phase(step)
  PROVE  TaskIsWhole' /\ task'.new = {} /\ task'.step = step
<1>1. /\ task'.step = step /\ task'.paths = {} /\ task'.new = {} /\ task'.found = {}
      /\ task'.gone = {} /\ task'.deleted = {} /\ task'.walked = {} /\ task'.tree = FALSE
  BY PhaseIs
<1> QED
  BY <1>1 DEF TaskIsWhole, TaskAt

LEMMA TaskFields ==
  ASSUME WatchTypeOK
  PROVE  /\ task.step \in StepNames /\ task.paths \subseteq Paths /\ task.new \subseteq Dirs
         /\ task.tree \in BOOLEAN /\ task.found \subseteq Files /\ task.gone \subseteq Files
         /\ task.walked \subseteq Dirs /\ task.deleted \subseteq Files
BY DEF WatchTypeOK, Task

\* Where nothing is watched, or all of it is about to be walked, nothing needs to
\* have been heard of.
LEMMA WalkCatchesUp ==
  ASSUME WatchTypeOK', TaskIsWhole', AbsentOutside', task'.new = {},
         Watching' => Top \in watched' /\ WalkIsDue'
  PROVE  WatchInv'
<1>1. TopIsKnown' /\ DirsAreKnown' /\ AdoptedAreKnown' /\ NewAreLost'
  BY DEF TopIsKnown, DirsAreKnown, AdoptedAreKnown, NewAreLost
<1>2. FilesAreKnown' /\ BackAreKnown'
  BY DEF FilesAreKnown, BackAreKnown, IsKnown
<1> QED
  BY <1>1, <1>2 DEF WatchInv

\* FollowTop, Unfollow, PollAgain and Restart leave it unwatched.
LEMMA UnwatchedKeeps ==
  ASSUME WatchInv, FollowTop \/ Unfollow \/ PollAgain \/ Restart
  PROVE  WatchInv'
<1>1. WatchTypeOK /\ TaskIsWhole /\ AbsentOutside
  BY DEF WatchInv
<1>2. /\ disk' = disk /\ sections' = sections /\ there' = there
      /\ lost' \in {lost, {}} /\ held' \in {held, {}} /\ pending' \in {pending, {}}
  BY DEF FollowTop, Unfollow, PollAgain, Restart, heard, watches
<1>3. rescan' \in {rescan, FALSE}
  BY DEF FollowTop, Unfollow, PollAgain, Restart, heard, watches
<1>4. task' = Phase("walk") \/ (task' = task /\ task.step = "idle")
  BY DEF FollowTop, Unfollow, PollAgain, Restart, GoesTo, TaskAt
<1>5. /\ state' \in {"off", "starting", "polling", "missing"}
      /\ watched' \in {watched, {}} /\ live' \in {live, {}} /\ (watched' = {} => live' = {})
      /\ (state' \in {"off", "missing"} => watched' = {})
  BY <1>1 DEF WatchTypeOK, FollowTop, Unfollow, PollAgain, Restart, Followed, heard, watches
<1>6. task' \in Task /\ TaskIsWhole' /\ task'.new = {}
  <2>1. CASE task' = Phase("walk")
    BY <2>1, PhaseIs, PhaseIsWhole DEF StepNames
  <2>2. CASE task' = task /\ task.step = "idle"
    BY <1>1, <2>2 DEF TaskIsWhole, TaskAt, WatchTypeOK
  <2> QED
    BY <1>4, <2>1, <2>2
<1>7. rescan' \in BOOLEAN
  BY <1>1, <1>3 DEF WatchTypeOK
<1>8. /\ disk' \in [Files -> FileTexts \cup {NoText}] /\ sections' \in [Files -> FileTexts \cup {NoText}]
      /\ there' \subseteq Dirs /\ live' \subseteq watched' \cap there' /\ watched' \subseteq Dirs
      /\ pending' \subseteq Paths /\ held' \subseteq Files /\ lost' \subseteq Paths
  BY <1>1, <1>2, <1>5 DEF WatchTypeOK
<1>9. WatchTypeOK'
  BY <1>5, <1>6, <1>7, <1>8 DEF WatchTypeOK
<1>10. AbsentOutside'
  BY <1>1, <1>2 DEF AbsentOutside, Present
<1>11. ~Watching'
  BY <1>5 DEF Watching
<1> QED
  BY <1>6, <1>9, <1>10, <1>11, WalkCatchesUp

\* A step that fails loses what it was about, and only that.
LEMMA StepFailsKeeps ==
  ASSUME WatchInv, StepFails
  PROVE  WatchInv'
<1> USE DEF WatchInv
<1>1. /\ disk' = disk /\ there' = there /\ sections' = sections /\ state' = state
      /\ watched' = watched /\ live' = live /\ pending' = pending /\ held' = held
      /\ lost' = lost \cup Concerned /\ task' = NoTask
  BY DEF StepFails, GoesTo, watches, heard
<1>2. rescan' = rescan
  BY DEF StepFails, heard
<1>3. /\ TaskIsWhole' /\ task' \in Task /\ task'.step = "idle" /\ task'.new = {}
      /\ task'.paths = {}
  BY <1>1, PhaseIs, PhaseIsWhole DEF StepNames
<1>4. /\ task.step \in {"walk", "watch", "again"} \/ task.tree => Concerned = Paths
      /\ task.paths \cup task.new \cup task.found \cup task.gone \cup task.deleted \subseteq Concerned
      /\ Concerned \subseteq Paths
  BY TaskFields DEF Concerned, Paths, FilesUnder
<1>5. WatchTypeOK'
  <2>1. lost' \subseteq Paths
    BY <1>1, <1>4 DEF WatchTypeOK
  <2> QED
    BY <1>1, <1>2, <1>3, <2>1 DEF WatchTypeOK
<1>6. AbsentOutside'
  BY <1>1 DEF AbsentOutside, Present
<1>7. WalkIsDue => WalkIsDue' \/ Concerned = Paths
  BY <1>2, <1>4 DEF WalkIsDue
<1>8. TopIsKnown' /\ DirsAreKnown'
  <2>1. Dirs \subseteq Paths /\ Top \in Dirs /\ there \subseteq Dirs
    BY WatchAssumption DEF Paths, WatchTypeOK
  <2> QED
    BY <1>1, <1>4, <1>7, <2>1 DEF TopIsKnown, DirsAreKnown, Watching, Heard
<1>9. AdoptedAreKnown' /\ NewAreLost'
  BY <1>3 DEF AdoptedAreKnown, NewAreLost
<1>10. ASSUME NEW f \in Files, IsKnown(f) PROVE IsKnown(f)'
  <2>1. f \in Paths
    BY DEF Paths
  <2>2. Top \notin task.new
    BY DEF TaskIsWhole
  <2> QED
    BY <1>1, <1>4, <1>7, <1>10, <2>1, <2>2 DEF IsKnown, Heard
<1>11. FilesAreKnown'
  <2> SUFFICES ASSUME Watching, NEW f \in Files, sections[f] # disk[f], ~IsKnown(f)
               PROVE  IsKnown(f)' \/ IsDue(f)'
    BY <1>1, <1>10 DEF FilesAreKnown, Watching
  <2>1. IsDue(f)
    BY DEF FilesAreKnown
  <2>2. f \in Paths
    BY DEF Paths
  <2>3. f \in Concerned => IsKnown(f)'
    BY <1>1 DEF IsKnown
  <2>4. CASE f \in held /\ ~Present(f)
    BY <1>1, <2>4 DEF IsDue, Present
  <2> QED
    BY <1>4, <2>1, <2>2, <2>3, <2>4 DEF IsDue, TaskAt
<1>12. BackAreKnown'
  <2>1. task'.gone = {} /\ task'.deleted = {}
    BY <1>1, PhaseIs DEF StepNames
  <2> SUFFICES ASSUME Watching, NEW f \in held, Present(f) PROVE IsKnown(f)'
    BY <1>1, <2>1 DEF BackAreKnown, Watching, Present
  <2>2. f \in Files /\ f \in Paths
    BY DEF Paths, WatchTypeOK
  <2>3. f \in Concerned => IsKnown(f)'
    BY <1>1 DEF IsKnown
  <2> QED
    BY <1>4, <1>10, <2>2, <2>3 DEF BackAreKnown, TaskAt
<1> QED
  BY <1>3, <1>5, <1>6, <1>8, <1>9, <1>11, <1>12

\* Flush: what was pending is what is sorted, and what was held is deleted.
LEMMA FlushKeeps ==
  ASSUME WatchInv, Flush
  PROVE  WatchInv'
<1> USE DEF WatchInv
<1>1. /\ disk' = disk /\ there' = there /\ sections' = sections /\ state' = state
      /\ watched' = watched /\ live' = live /\ lost' = lost
      /\ pending' = {} /\ held' = {}
  BY DEF Flush, watches
<1>2. rescan' = FALSE
  BY DEF Flush
<1>3. /\ task.step = "idle" /\ task.paths = {} /\ task.new = {} /\ task.found = {}
      /\ task.gone = {} /\ task.deleted = {} /\ task.walked = {} /\ ~task.tree
  BY DEF Flush, TaskAt, TaskIsWhole
<1>4. \/ state \in {"off", "missing"} /\ task' = NoTask
      \/ task' = Phase("walk")
      \/ /\ ~rescan /\ Top \in there /\ state \notin {"off", "missing"}
         /\ task' = [Phase("sort") EXCEPT !.paths = pending, !.deleted = held]
  BY DEF Flush, GoesTo, WatchTypeOK
<1>5. AbsentOutside'
  BY <1>1 DEF AbsentOutside, Present
<1>6. ASSUME task' \in Task PROVE WatchTypeOK'
  BY <1>1, <1>2, <1>6 DEF WatchTypeOK
<1>7. CASE state \in {"off", "missing"} /\ task' = NoTask
  <2>1. task' \in Task /\ TaskIsWhole' /\ task'.new = {} /\ ~Watching'
    BY <1>1, <1>7, PhaseIs, PhaseIsWhole DEF StepNames, Watching
  <2> QED
    BY <1>5, <1>6, <2>1, WalkCatchesUp
<1>8. CASE task' = Phase("walk")
  <2>1. task' \in Task /\ TaskIsWhole' /\ task'.new = {} /\ task'.step = "walk"
    BY <1>8, PhaseIs, PhaseIsWhole DEF StepNames
  <2>2. Watching' => Top \in watched' /\ WalkIsDue'
    BY <1>1, <2>1 DEF WalkIsDue, Watching, TopIsKnown
  <2> QED
    BY <1>5, <1>6, <2>1, <2>2, WalkCatchesUp
<1>9. CASE /\ ~rescan /\ Top \in there /\ state \notin {"off", "missing"}
           /\ task' = [Phase("sort") EXCEPT !.paths = pending, !.deleted = held]
  <2>1. Phase("sort") \in Task
    BY PhaseIs DEF StepNames
  <2>2. /\ task' \in Task /\ task'.step = "sort" /\ task'.paths = pending /\ task'.deleted = held
        /\ task'.new = {} /\ task'.found = {} /\ task'.gone = {} /\ task'.walked = {}
    BY <1>9, <2>1, PhaseIs DEF Task, StepNames, WatchTypeOK
  <2>3. ~task'.tree
    BY <1>9, <2>1, PhaseIs DEF Task, StepNames
  <2>4. TaskIsWhole'
    BY <1>1, <1>9, <2>2, <2>3 DEF TaskIsWhole, TaskAt
  <2>5. Heard' = Heard /\ ~WalkIsDue
    BY <1>1, <1>3, <1>9, <2>2 DEF Heard, WalkIsDue
  <2>6. TopIsKnown' /\ DirsAreKnown'
    BY <1>1, <1>3, <2>2, <2>5 DEF TopIsKnown, DirsAreKnown, Watching
  <2>7. AdoptedAreKnown' /\ NewAreLost'
    BY <2>2 DEF AdoptedAreKnown, NewAreLost
  <2>8. ASSUME NEW f \in Files, IsKnown(f) PROVE IsKnown(f)'
    BY <1>1, <1>3, <2>2, <2>5, <2>8 DEF IsKnown
  <2>9. FilesAreKnown'
    BY <1>1, <1>3, <2>2, <2>8 DEF FilesAreKnown, Watching, IsDue, TaskAt, Present
  <2>10. BackAreKnown'
    BY <1>1, <1>3, <2>2, <2>8 DEF BackAreKnown, Watching, TaskAt, Present, WatchTypeOK
  <2> QED
    BY <1>5, <1>6, <2>2, <2>4, <2>6, <2>7, <2>9, <2>10
<1> QED
  BY <1>4, <1>7, <1>8, <1>9

\* Walk: what is not there is not watched, and what is will be.
LEMMA WalkKeeps ==
  ASSUME WatchInv, Walk
  PROVE  WatchInv'
<1> USE DEF WatchInv
<1>1. /\ disk' = disk /\ there' = there /\ sections' = sections /\ lost' = lost
      /\ pending' = pending /\ held' = held
  BY DEF Walk, heard
<1>2. rescan' = rescan
  BY DEF Walk, heard
<1>3. AbsentOutside'
  BY <1>1 DEF AbsentOutside, Present
<1>4. CASE Top \in there
  <2>1. /\ task' = [Phase("watch") EXCEPT !.walked = there]
        /\ state' = state /\ watched' = watched /\ live' = live
    BY <1>4 DEF Walk, GoesTo, watches
  <2>2. Phase("watch") \in Task
    BY PhaseIs DEF StepNames
  <2>3. /\ task' \in Task /\ task'.step = "watch" /\ task'.paths = {} /\ task'.deleted = {}
        /\ task'.new = {} /\ task'.found = {} /\ task'.gone = {} /\ task'.walked = there
    BY <2>1, <2>2, PhaseIs DEF Task, StepNames, WatchTypeOK
  <2>4. ~task'.tree
    BY <2>1, <2>2, PhaseIs DEF Task, StepNames
  <2>5. TaskIsWhole'
    BY <1>4, <2>3, <2>4 DEF TaskIsWhole, TaskAt
  <2>6. WatchTypeOK'
    BY <1>1, <1>2, <2>1, <2>3 DEF WatchTypeOK
  <2>7. Watching' => Top \in watched' /\ WalkIsDue'
    BY <2>1, <2>3 DEF Watching, WalkIsDue, TopIsKnown
  <2> QED
    BY <1>3, <2>3, <2>5, <2>6, <2>7, WalkCatchesUp
<1>5. CASE Top \notin there
  <2>1. /\ task' = NoTask /\ state' = "missing"
        /\ watched' = watched \ watched /\ live' = live \ watched
    BY <1>5 DEF Walk, GoesTo, Drop
  <2>2. /\ task' \in Task /\ TaskIsWhole' /\ task'.new = {}
    BY <2>1, PhaseIs, PhaseIsWhole DEF StepNames
  <2>3. WatchTypeOK'
    BY <1>1, <1>2, <2>1, <2>2 DEF WatchTypeOK
  <2>4. ~Watching'
    BY <2>1 DEF Watching
  <2> QED
    BY <1>3, <2>2, <2>3, <2>4, WalkCatchesUp
<1> QED
  BY <1>4, <1>5

\* WatchDirs: what is there and not live is lost, unless all is polled, and all of
\* it is walked again.
LEMMA WatchDirsKeeps ==
  ASSUME WatchInv, WatchDirs
  PROVE  WatchInv'
<1> USE DEF WatchInv
<1>1. /\ disk' = disk /\ there' = there /\ sections' = sections
      /\ pending' = pending /\ held' = held
  BY DEF WatchDirs, heard
<1>2. rescan' = rescan
  BY DEF WatchDirs, heard
<1>3. task' = Phase("again") /\ task.step = "watch"
  BY DEF WatchDirs, GoesTo, TaskAt
<1>4. task' \in Task /\ TaskIsWhole' /\ task'.new = {} /\ task'.step = "again"
  BY <1>3, PhaseIs, PhaseIsWhole DEF StepNames
<1>5. PICK refused \in SUBSET (task.walked \ watched) :
        /\ watched' = task.walked \ refused
        /\ live' = watched' \cap (live \cup (there \ watched))
        /\ state' = IF refused = {} THEN "watching" ELSE "polling"
        /\ lost' = IF refused = {} THEN (there \cup watched') \ live' ELSE {}
  BY DEF WatchDirs
<1>6. task.walked \subseteq Dirs /\ Top \in task.walked
  BY <1>3, TaskFields DEF TaskIsWhole, TaskAt
<1>7. WatchTypeOK'
  <2>1. watched' \subseteq Dirs /\ live' \subseteq watched' \cap there'
    BY <1>1, <1>5, <1>6 DEF WatchTypeOK
  <2>2. Dirs \subseteq Paths
    BY DEF Paths
  <2>3. lost' \subseteq Paths
    BY <1>5, <2>1, <2>2 DEF WatchTypeOK
  <2>4. state' \in {"watching", "polling"}
    BY <1>5
  <2> QED
    BY <1>1, <1>2, <1>4, <2>1, <2>3, <2>4 DEF WatchTypeOK
<1>8. AbsentOutside'
  BY <1>1 DEF AbsentOutside, Present
<1>9. TopIsKnown' /\ DirsAreKnown'
  BY <1>1, <1>5, <1>6 DEF TopIsKnown, DirsAreKnown, Watching
<1>10. AdoptedAreKnown' /\ NewAreLost'
  BY <1>4 DEF AdoptedAreKnown, NewAreLost
<1>11. FilesAreKnown' /\ BackAreKnown'
  BY <1>4 DEF FilesAreKnown, BackAreKnown, IsDue, TaskAt
<1> QED
  BY <1>4, <1>7, <1>8, <1>9, <1>10, <1>11

\* WalkAgain: what it finds is what is there, or what it does not find is lost.
LEMMA WalkAgainKeeps ==
  ASSUME WatchInv, WalkAgain
  PROVE  WatchInv'
<1> USE DEF WatchInv
<1>1. CASE Top \notin there
  BY <1>1, StepFailsKeeps DEF WalkAgain
<1>2. CASE Top \in there
  <2> DEFINE present == {f \in Files : Present(f)}
  <2>1. PICK found \in SUBSET Files :
          /\ found \in {present} \cup {present \ FilesUnder(d) : d \in there}
          /\ task' = [Phase("ingest") EXCEPT !.found = found, !.tree = found = present]
          /\ lost' = IF found = present THEN lost ELSE lost \cup (Files \ found)
          /\ UNCHANGED <<disk, there, sections, watches, heard>>
    BY <1>2 DEF WalkAgain, GoesTo
  <2>2. /\ disk' = disk /\ there' = there /\ sections' = sections /\ state' = state
        /\ watched' = watched /\ live' = live /\ pending' = pending /\ held' = held
    BY <2>1 DEF watches, heard
  <2>3. rescan' = rescan
    BY <2>1 DEF heard
  <2>4. found \subseteq present
    BY <2>1
  <2>5. Phase("ingest") \in Task
    BY PhaseIs DEF StepNames
  <2>6. /\ task' \in Task /\ task'.step = "ingest" /\ task'.paths = {} /\ task'.deleted = {}
        /\ task'.new = {} /\ task'.found = found /\ task'.gone = {} /\ task'.walked = {}
    BY <2>1, <2>5, PhaseIs DEF Task, StepNames
  <2>7. found = present => task'.tree
    BY <2>1, <2>5 DEF Task
  <2>8. /\ lost \subseteq lost' /\ lost' \subseteq lost \cup Files
        /\ found = present \/ Files \ found \subseteq lost'
    BY <2>1
  <2> HIDE DEF present
  <2>9. task.step = "again" /\ task.paths = {} /\ task.new = {} /\ task.gone = {} /\ task.deleted = {}
    BY DEF WalkAgain, TaskAt, TaskIsWhole
  <2>10. TaskIsWhole'
    BY <2>6 DEF TaskIsWhole, TaskAt
  <2>11. WatchTypeOK'
    <3>1. lost' \subseteq Paths
      BY <2>8 DEF WatchTypeOK, Paths
    <3> QED
      BY <2>2, <2>3, <2>6, <3>1 DEF WatchTypeOK
  <2>12. AbsentOutside'
    BY <2>2 DEF AbsentOutside, Present
  <2>13. WalkIsDue => WalkIsDue'
    BY <2>3, <2>9 DEF WalkIsDue
  <2>14. TopIsKnown' /\ DirsAreKnown'
    BY <2>2, <2>6, <2>8, <2>9, <2>13 DEF TopIsKnown, DirsAreKnown, Watching, Heard
  <2>15. AdoptedAreKnown' /\ NewAreLost'
    BY <2>6 DEF AdoptedAreKnown, NewAreLost
  <2>16. ASSUME NEW f \in Files PROVE IsKnown(f)' \/ (f \in found /\ Present(f)) \/ found = present
    <3>1. f \in found => Present(f)
      BY <2>4 DEF present
    <3>2. f \in lost' => IsKnown(f)'
      BY DEF IsKnown
    <3>3. f \in lost' \/ f \in found \/ found = present
      BY <2>8
    <3> QED
      BY <3>1, <3>2, <3>3
  <2>17. ASSUME NEW f \in Files, found = present PROVE f \in found <=> Present(f)
    BY <2>17 DEF present
  <2>18. FilesAreKnown'
    BY <2>2, <2>6, <2>7, <2>16, <2>17 DEF FilesAreKnown, IsDue, Present
  <2>19. BackAreKnown'
    BY <2>2, <2>6, <2>7, <2>16 DEF BackAreKnown, Present, WatchTypeOK
  <2> QED
    BY <2>10, <2>11, <2>12, <2>14, <2>15, <2>18, <2>19
<1> QED
  BY <1>1, <1>2

\* Freshen: what the task is about it may yet miss, whatever a search ingests.
LEMMA FreshenKeeps ==
  ASSUME WatchInv, NEW f \in Files, Freshen(f)
  PROVE  WatchInv'
<1> USE DEF WatchInv
<1>1. /\ disk' = disk /\ there' = there /\ state' = state /\ watched' = watched /\ live' = live
      /\ pending' = pending /\ held' = held /\ task' = task
      /\ sections[f] # NoText /\ sections' = [sections EXCEPT ![f] = disk[f]]
      /\ lost' = lost \ ({f} \ (held \cup Concerned))
  BY DEF Freshen, watches, heard
<1>2. rescan' = rescan
  BY DEF Freshen, heard
<1>3. WatchTypeOK'
  <2>1. sections' \in [Files -> FileTexts \cup {NoText}] /\ lost' \subseteq Paths
    BY <1>1 DEF WatchTypeOK
  <2> QED
    BY <1>1, <1>2, <2>1 DEF WatchTypeOK
<1>4. TaskIsWhole' /\ AbsentOutside'
  BY <1>1 DEF TaskIsWhole, AbsentOutside, TaskAt, Present
<1>5. \A d \in Dirs : d \in lost => d \in lost'
  BY <1>1, WatchAssumption
<1>6. WalkIsDue' = WalkIsDue
  BY <1>1, <1>2 DEF WalkIsDue
<1>7. TopIsKnown' /\ DirsAreKnown'
  BY <1>1, <1>5, <1>6, WatchAssumption DEF TopIsKnown, DirsAreKnown, Watching, Heard, WatchTypeOK
<1>8. AdoptedAreKnown'
  BY <1>1, <1>2, <1>5 DEF AdoptedAreKnown, Watching, WatchTypeOK
<1>9. NewAreLost'
  <2> SUFFICES ASSUME NEW g \in Files, In[g] \in task.new, sections'[g] # NoText
               PROVE  g \in lost'
    BY <1>1 DEF NewAreLost
  <2>1. g \in lost
    BY <1>1 DEF NewAreLost, WatchTypeOK
  <2>2. g \in Concerned
    <3>1. In[g] \in Dirs \ {Top} /\ g \in FilesUnder(In[g])
      BY WithinIs DEF TaskIsWhole
    <3> QED
      BY <3>1 DEF Concerned, Paths
  <2> QED
    BY <1>1, <2>1, <2>2
<1>10. ASSUME NEW g \in Files, IsKnown(g), g # f \/ g \in held \cup Concerned
       PROVE  IsKnown(g)'
  BY <1>1, <1>5, <1>6, <1>10, WithinIs DEF IsKnown, Heard
<1>11. FilesAreKnown'
  <2> SUFFICES ASSUME Watching, NEW g \in Files, g # f
               PROVE  sections[g] = disk[g] \/ IsKnown(g)' \/ IsDue(g)'
    BY <1>1 DEF FilesAreKnown, Watching, WatchTypeOK
  <2>1. IsDue(g) => IsDue(g)'
    BY <1>1 DEF IsDue, TaskAt, Present
  <2> QED
    BY <1>10, <2>1 DEF FilesAreKnown
<1>12. BackAreKnown'
  <2>1. task.gone \cup task.deleted \subseteq Concerned \cap Files /\ held \subseteq Files
    BY TaskFields DEF Concerned, Paths, WatchTypeOK
  <2> QED
    BY <1>1, <1>10, <2>1 DEF BackAreKnown, Watching, Present, TaskAt
<1> QED
  BY <1>3, <1>4, <1>7, <1>8, <1>9, <1>11, <1>12

-----------------------------------------------------------------------------

\* Sorted: what is found is ingested, and what is gone is deleted or held.
LEMMA SortedTells ==
  ASSUME NEW found \in SUBSET Files, NEW gone \in SUBSET Files, WatchTypeOK, Sorted(found, gone)
  PROVE  /\ task' \in Task /\ TaskIsWhole'
         /\ task'.paths = {} /\ task'.new = {} /\ task'.gone = {} /\ task'.found = found
         /\ held' \subseteq Files /\ held' \cup task'.deleted = held \cup task.deleted \cup gone
         /\ task'.step \in {"idle", "ingest"}
<1> DEFINE holds == found = {} /\ gone # {}
           deleted == task.deleted \cup (IF holds THEN {} ELSE gone)
<1>1. /\ held' = held \cup (IF holds THEN gone ELSE {})
      /\ task' = IF found \cup deleted = {} THEN NoTask
                 ELSE [Phase("ingest") EXCEPT !.found = found, !.deleted = deleted]
  BY DEF Sorted, GoesTo
<1>2. deleted \subseteq Files
  BY TaskFields
<1>3. held' \subseteq Files /\ held' \cup deleted = held \cup task.deleted \cup gone
  BY <1>1 DEF WatchTypeOK
<1> HIDE DEF holds, deleted
<1>4. CASE found \cup deleted = {}
  <2>1. task' = NoTask
    BY <1>1, <1>4
  <2>2. task' \in Task /\ TaskIsWhole' /\ task'.step = "idle"
    BY <2>1, PhaseIs, PhaseIsWhole DEF StepNames
  <2>3. /\ task'.paths = {} /\ task'.new = {} /\ task'.gone = {} /\ task'.found = {}
        /\ task'.deleted = {}
    BY <2>1, PhaseIs DEF StepNames
  <2> QED
    BY <1>3, <1>4, <2>2, <2>3
<1>5. CASE found \cup deleted # {}
  <2>1. task' = [Phase("ingest") EXCEPT !.found = found, !.deleted = deleted]
    BY <1>1, <1>5
  <2>2. Phase("ingest") \in Task
    BY PhaseIs DEF StepNames
  <2>3. /\ task' \in Task /\ task'.step = "ingest" /\ task'.paths = {} /\ task'.deleted = deleted
        /\ task'.new = {} /\ task'.found = found /\ task'.gone = {} /\ task'.walked = {}
    BY <1>2, <2>1, <2>2, PhaseIs DEF Task, StepNames
  <2>4. ~task'.tree
    BY <2>1, <2>2, PhaseIs DEF Task, StepNames
  <2>5. TaskIsWhole'
    BY <2>3, <2>4 DEF TaskIsWhole, TaskAt
  <2> QED
    BY <1>3, <2>3, <2>5
<1> QED
  BY <1>4, <1>5

\* Sort: each path that was heard of is found, gone, new or lost.
LEMMA SortKeeps ==
  ASSUME WatchInv, Sort
  PROVE  WatchInv'
<1> USE DEF WatchInv
<1> DEFINE ours == {p \in task.paths \ {Top} : In[p] \in watched}
           new == {d \in ours \cap Dirs : d \in there}
           vanished == {d \in ours \cap watched : d \notin there}
           files == ours \cap Files
           gone == {f \in files : ~Present(f)}
                     \cup {f \in UNION {FilesUnder(d) : d \in vanished} : sections[f] # NoText}
           old == {f \in UNION {FilesUnder(d) : d \in (ours \cap Dirs) \ vanished} : sections[f] # NoText}
<1>1. /\ disk' = disk /\ there' = there /\ sections' = sections /\ state' = state /\ pending' = pending
      /\ watched' = watched \ (vanished \cup new) /\ live' = live \ (vanished \cup new)
      /\ lost' = lost \cup ((task.paths \cap {Top}) \ live) \cup old
  BY DEF Sort, Drop
<1>2. rescan' = rescan
  BY DEF Sort
<1>3. \/ new = {} /\ Sorted(files \ gone, gone)
      \/ /\ new # {} /\ held' = held
         /\ task' = [task EXCEPT !.step = "adopt", !.paths = {}, !.new = new,
                                 !.found = files \ gone, !.gone = gone]
  BY DEF Sort, GoesTo
<1>4. /\ task.step = "sort" /\ task.new = {} /\ task.found = {} /\ task.gone = {} /\ task.walked = {}
      /\ ~task.tree /\ task.paths \subseteq Paths /\ task.deleted \subseteq Files
  BY TaskFields DEF Sort, TaskAt, TaskIsWhole
<1>5. new \subseteq Dirs \ {Top} /\ vanished \subseteq Dirs \ {Top} /\ files \subseteq Files
      /\ gone \subseteq Files /\ old \subseteq Files
  BY DEF FilesUnder, WatchTypeOK
<1>6. \A d \in vanished : FilesUnder(d) = {f \in Files : In[f] = d}
  BY <1>5, WithinIs
<1>7. \A d \in ours \cap Dirs : FilesUnder(d) = {f \in Files : In[f] = d}
  BY WithinIs
<1>8. \A f \in Files : f \in gone => ~Present(f)
  BY <1>6 DEF AbsentOutside
<1>9. ASSUME NEW f \in Files, In[f] \in vanished, sections[f] # disk[f] PROVE f \in gone
  <2>1. ~Present(f)
    BY <1>9 DEF AbsentOutside
  <2>2. f \in FilesUnder(In[f]) /\ sections[f] # NoText
    BY <1>6, <1>9, <2>1 DEF Present
  <2> QED
    BY <1>9, <2>2
<1>10. ASSUME NEW f \in Files, In[f] \in (ours \cap Dirs) \ vanished, sections[f] # NoText
       PROVE  f \in lost'
  <2>1. f \in FilesUnder(In[f])
    BY <1>7, <1>10
  <2> QED
    BY <1>1, <1>10, <2>1
<1>11. \A p \in task.paths \ {Top} : In[p] \in watched => p \in ours
  OBVIOUS
<1>12. \A d \in ours \cap Dirs : d \in there => d \in new
  OBVIOUS
<1>13. \A f \in files : f \in gone \/ (f \in files \ gone /\ Present(f))
  OBVIOUS
<1>14. /\ \A d \in vanished : d \notin there /\ d \in watched
       /\ \A d \in ours \cap watched : d \notin there => d \in vanished
       /\ \A d \in new : d \in ours \cap Dirs /\ d \in there
       /\ \A d \in ours : d \in task.paths
       /\ files = ours \cap Files
  OBVIOUS
<1> HIDE DEF ours, new, vanished, files, gone, old
<1>15. /\ task' \in Task /\ TaskIsWhole'
       /\ task'.paths = {} /\ task'.new = new /\ task'.found = files \ gone
       /\ held' \subseteq Files
       /\ held' \cup task'.gone \cup task'.deleted = held \cup task.deleted \cup gone
       /\ task'.step \in {"adopt", "idle", "ingest"}
  <2>1. CASE new = {} /\ Sorted(files \ gone, gone)
    BY <1>5, <2>1, SortedTells
  <2>2. CASE /\ new # {} /\ held' = held
             /\ task' = [task EXCEPT !.step = "adopt", !.paths = {}, !.new = new,
                                     !.found = files \ gone, !.gone = gone]
    <3>1. task \in Task
      BY DEF WatchTypeOK
    <3>2. /\ task' \in Task /\ task'.step = "adopt" /\ task'.paths = {} /\ task'.new = new
          /\ task'.found = files \ gone /\ task'.gone = gone /\ task'.walked = task.walked
          /\ task'.deleted = task.deleted
      BY <1>5, <2>2, <3>1 DEF Task, StepNames
    <3>3. ~task'.tree
      BY <1>4, <2>2, <3>1 DEF Task
    <3>4. TaskIsWhole'
      <4>1. state \notin {"off", "missing"} /\ state' = state
        BY <1>1, <1>4 DEF TaskIsWhole
      <4> QED
        BY <1>4, <1>5, <2>2, <3>2, <3>3, <4>1 DEF TaskIsWhole, TaskAt
    <3> QED
      BY <2>2, <3>2, <3>4 DEF WatchTypeOK
  <2> QED
    BY <1>3, <2>1, <2>2
<1>16. WatchTypeOK'
  <2>1. lost' \subseteq Paths
    BY <1>1, <1>4, <1>5 DEF WatchTypeOK, Paths
  <2>2. /\ watched' \subseteq Dirs /\ live' \subseteq watched' \cap there'
        /\ (state' \in {"off", "missing"} => watched' = {})
    BY <1>1 DEF WatchTypeOK
  <2> QED
    BY <1>1, <1>2, <1>15, <2>1, <2>2 DEF WatchTypeOK
<1>17. AbsentOutside'
  BY <1>1 DEF AbsentOutside, Present
<1>18. WalkIsDue => WalkIsDue'
  BY <1>2, <1>4 DEF WalkIsDue
<1>19. Heard' = pending
  BY <1>1, <1>15 DEF Heard
<1>20. TopIsKnown'
  BY <1>1, <1>5, <1>18, <1>19 DEF TopIsKnown, Watching, Heard
<1>21. DirsAreKnown'
  <2> SUFFICES ASSUME Watching, NEW d \in there \ {Top}, d \notin live', Top \in live', ~WalkIsDue'
               PROVE  d \in pending \cup lost' \cup new
    BY <1>1, <1>15, <1>19 DEF DirsAreKnown, Watching
  <2>1. d \in Dirs /\ d \in Paths /\ Top \in watched /\ In[d] = Top
    BY WatchAssumption DEF TopIsKnown, WatchTypeOK, Paths
  <2>2. CASE d \in live
    BY <1>1, <1>14, <2>2
  <2>3. CASE d \notin live
    <3>1. d \in Heard \cup lost
      BY <1>1, <1>4, <1>18, <2>3 DEF DirsAreKnown
    <3>2. d \in task.paths => d \in new
      BY <1>11, <1>12, <2>1
    <3> QED
      BY <1>1, <3>1, <3>2 DEF Heard
  <2> QED
    BY <2>2, <2>3
<1>22. AdoptedAreKnown'
  BY <1>1, <1>15 DEF AdoptedAreKnown
<1>23. NewAreLost'
  <2> SUFFICES ASSUME NEW f \in Files, In[f] \in new, sections[f] # NoText
               PROVE  f \in lost'
    BY <1>1, <1>15 DEF NewAreLost
  <2> QED
    BY <1>10, <1>14
\* A file that was heard of, or whose directory was, is taken up.
<1>24. ASSUME Watching, NEW f \in Files, IsKnown(f)
       PROVE  \/ IsKnown(f)' \/ f \in gone \/ (f \in files \ gone /\ Present(f))
              \/ In[f] \notin there /\ sections[f] = disk[f]
  <2>1. Top \in watched
    BY <1>24 DEF TopIsKnown
  <2>2. f # Top /\ f \notin Dirs /\ In[f] \in Dirs
    BY WithinIs
  <2>3. In[f] \in new => IsKnown(f)'
    BY <1>15 DEF IsKnown
  <2>4. f \in lost' => IsKnown(f)'
    BY DEF IsKnown
  <2>5. CASE f \in pending /\ In[f] \in watched
    <3>1. In[f] \in watched' => IsKnown(f)'
      BY <1>19, <2>5 DEF IsKnown
    <3>2. In[f] \in vanished => f \in gone \/ (sections[f] = disk[f] /\ In[f] \notin there)
      BY <1>9, <1>14
    <3> QED
      BY <1>1, <2>3, <2>5, <3>1, <3>2
  <2>6. CASE f \in task.paths /\ In[f] \in watched
    BY <1>11, <1>13, <1>14, <2>2, <2>6
  <2>7. CASE In[f] # Top /\ In[f] \in task.paths
    <3>1. In[In[f]] = Top
      BY <2>2, <2>7, WatchAssumption
    <3>2. In[f] \in ours \cap Dirs
      BY <1>11, <2>1, <2>2, <2>7, <3>1
    <3>3. In[f] \in there => In[f] \in new
      BY <1>12, <3>2
    <3>4. In[f] \in vanished => f \in gone \/ (sections[f] = disk[f] /\ In[f] \notin there)
      BY <1>9, <1>14
    <3>5. In[f] \notin there /\ sections[f] = NoText => sections[f] = disk[f]
      BY DEF AbsentOutside, Present
    <3>6. In[f] \notin vanished /\ sections[f] # NoText => f \in lost'
      BY <1>10, <3>2
    <3> QED
      BY <2>3, <2>4, <3>3, <3>4, <3>5, <3>6
  <2>8. CASE \/ WalkIsDue \/ Top \notin live \/ f \in lost
             \/ In[f] # Top /\ In[f] \in pending \cup lost
    BY <1>1, <1>18, <1>19, <2>8 DEF IsKnown
  <2> QED
    BY <1>4, <1>24, <2>5, <2>6, <2>7, <2>8 DEF IsKnown, Heard
<1>25. FilesAreKnown'
  <2> SUFFICES ASSUME Watching, NEW f \in Files, sections[f] # disk[f]
               PROVE  IsKnown(f)' \/ IsDue(f)'
    BY <1>1 DEF FilesAreKnown, Watching
  <2>1. Present(f)' <=> Present(f)
    BY <1>1 DEF Present
  <2>2. CASE IsKnown(f)
    <3>1. f \in gone => IsDue(f)'
      BY <1>8, <1>15, <2>1 DEF IsDue
    <3>2. f \in files \ gone /\ Present(f) => IsDue(f)'
      BY <1>15, <2>1 DEF IsDue
    <3> QED
      BY <1>24, <2>2, <3>1, <3>2
  <2>3. CASE IsDue(f)
    <3>1. f \in held \cup task.deleted /\ ~Present(f)
      BY <1>4, <2>3 DEF IsDue, TaskAt
    <3> QED
      BY <1>15, <2>1, <3>1 DEF IsDue
  <2> QED
    BY <2>2, <2>3 DEF FilesAreKnown
<1>26. BackAreKnown'
  <2> SUFFICES ASSUME Watching, NEW f \in held \cup task.deleted \cup gone, Present(f)
               PROVE  IsKnown(f)' \/ f \in task'.found
    BY <1>1, <1>15 DEF BackAreKnown, Watching, Present
  <2>1. f \in Files
    BY <1>4, <1>5 DEF WatchTypeOK
  <2>2. f \notin gone /\ In[f] \in there
    BY <1>8, <2>1 DEF AbsentOutside
  <2>3. IsKnown(f)
    BY <1>4, <2>2 DEF BackAreKnown, TaskAt
  <2> QED
    BY <1>15, <1>24, <2>1, <2>2, <2>3
<1> QED
  BY <1>15, <1>16, <1>17, <1>20, <1>21, <1>22, <1>23, <1>25, <1>26

\* Adopt: a directory watched afresh is live, and what it held is lost already.
LEMMA AdoptKeeps ==
  ASSUME WatchInv, NEW d \in Dirs, Adopt(d)
  PROVE  WatchInv'
<1> USE DEF WatchInv
<1>1. /\ disk' = disk /\ there' = there /\ sections' = sections /\ state' = state
      /\ pending' = pending /\ held' = held
      /\ task.step = "adopt" /\ task.walked = {} /\ d \in task.new
  BY DEF Adopt, heard, TaskAt
<1>2. rescan' = rescan
  BY DEF Adopt, heard
<1>3. \/ /\ d \in there
         /\ watched' = watched \cup {d} /\ live' = live \cup {d} /\ lost' = lost \ {d}
      \/ watched' = watched /\ live' = live /\ lost' = lost
  BY DEF Adopt
<1>4. task \in Task /\ task' = [task EXCEPT !.walked = {d}]
  BY DEF Adopt, GoesTo, WatchTypeOK
<1>5. /\ task' \in Task /\ task'.step = task.step /\ task'.paths = task.paths /\ task'.new = task.new
      /\ task'.found = task.found /\ task'.gone = task.gone /\ task'.deleted = task.deleted
      /\ task'.walked = {d}
  BY <1>4 DEF Task
<1>6. task'.tree = task.tree
  BY <1>4 DEF Task
<1>7. TaskIsWhole'
  BY <1>1, <1>5, <1>6 DEF TaskIsWhole, TaskAt
<1>8. d # Top /\ d \notin Files /\ task.new \cap watched = {}
  BY <1>1, WatchAssumption DEF TaskIsWhole, AdoptedAreKnown
<1>9. WatchTypeOK'
  <2>1. /\ watched' \subseteq Dirs /\ live' \subseteq watched' \cap there' /\ lost' \subseteq Paths
    BY <1>1, <1>3 DEF WatchTypeOK
  <2>2. state \notin {"off", "missing"}
    BY <1>1 DEF TaskIsWhole
  <2> QED
    BY <1>1, <1>2, <1>5, <2>1, <2>2 DEF WatchTypeOK
<1>10. AbsentOutside'
  BY <1>1 DEF AbsentOutside, Present
<1>11. WalkIsDue' = WalkIsDue /\ Heard' = Heard
  BY <1>1, <1>2, <1>5 DEF WalkIsDue, Heard
<1>12. TopIsKnown' /\ DirsAreKnown'
  BY <1>1, <1>3, <1>5, <1>8, <1>11 DEF TopIsKnown, DirsAreKnown, Watching
<1>13. AdoptedAreKnown'
  BY <1>1, <1>3, <1>5, <1>8 DEF AdoptedAreKnown
<1>14. NewAreLost'
  BY <1>1, <1>3, <1>5, <1>8 DEF NewAreLost
<1>15. ASSUME NEW f \in Files, IsKnown(f) PROVE IsKnown(f)'
  BY <1>1, <1>3, <1>5, <1>8, <1>11, <1>15 DEF IsKnown
<1>16. ASSUME NEW f \in Files, IsDue(f) PROVE IsDue(f)'
  BY <1>1, <1>5, <1>6, <1>16 DEF IsDue, TaskAt, Present
<1>17. FilesAreKnown'
  BY <1>1, <1>15, <1>16 DEF FilesAreKnown, Watching
<1>18. BackAreKnown'
  <2>1. held \cup task.gone \cup task.deleted \subseteq Files
    BY TaskFields DEF WatchTypeOK
  <2> QED
    BY <1>1, <1>5, <1>6, <1>15, <2>1 DEF BackAreKnown, Watching, Present, TaskAt
<1> QED
  BY <1>7, <1>9, <1>10, <1>12, <1>13, <1>14, <1>17, <1>18

\* AdoptWalk: what is in it is found, and what is not was lost when it was new.
LEMMA AdoptWalkKeeps ==
  ASSUME WatchInv, NEW d \in Dirs, AdoptWalk(d)
  PROVE  WatchInv'
<1> USE DEF WatchInv
<1>1. CASE d \notin there
  BY <1>1, StepFailsKeeps DEF AdoptWalk
<1>2. CASE d \in there
  <2> DEFINE found == task.found \cup {f \in FilesUnder(d) : Present(f)}
  <2>1. /\ disk' = disk /\ there' = there /\ sections' = sections /\ pending' = pending
        /\ watched' = watched /\ live' = live /\ lost' = lost
        /\ state' = (IF d \in watched THEN state ELSE "polling")
        /\ task.step = "adopt" /\ d \in task.walked
    BY <1>2 DEF AdoptWalk, TaskAt
  <2>2. rescan' = rescan
    BY <1>2 DEF AdoptWalk
  <2>3. \/ task.new = {d} /\ Sorted(found, task.gone)
        \/ /\ task.new # {d} /\ held' = held
           /\ task' = [task EXCEPT !.new = task.new \ {d}, !.walked = {}, !.found = found]
    <3>1. task \in Task
      BY DEF WatchTypeOK
    <3> QED
      BY <1>2, <3>1 DEF AdoptWalk, GoesTo, Task
  <2>4. /\ task.walked = {d} /\ d \in task.new /\ d # Top /\ task.paths = {} /\ ~task.tree
        /\ task.new \subseteq Dirs /\ task.gone \subseteq Files /\ task.deleted \subseteq Files
        /\ task.found \subseteq Files
    BY <2>1, TaskFields DEF TaskIsWhole, TaskAt
  <2>5. found \subseteq Files
    BY <2>4 DEF FilesUnder
  <2>6. \A f \in Files : In[f] = d /\ Present(f) => f \in found
    BY <2>4, WithinIs
  <2>7. task.found \subseteq found
    OBVIOUS
  <2> HIDE DEF found
  <2>8. /\ task' \in Task /\ TaskIsWhole' /\ task'.new = task.new \ {d} /\ task'.paths = {}
        /\ task'.found = found /\ held' \subseteq Files
        /\ held' \cup task'.gone \cup task'.deleted = held \cup task.gone \cup task.deleted
        /\ task'.step \in {"adopt", "idle", "ingest"}
    <3>1. CASE task.new = {d} /\ Sorted(found, task.gone)
      BY <2>4, <2>5, <3>1, SortedTells
    <3>2. CASE /\ task.new # {d} /\ held' = held
               /\ task' = [task EXCEPT !.new = task.new \ {d}, !.walked = {}, !.found = found]
      <4>1. task \in Task
        BY DEF WatchTypeOK
      <4>2. /\ task' \in Task /\ task'.step = task.step /\ task'.paths = task.paths
            /\ task'.new = task.new \ {d} /\ task'.found = found /\ task'.gone = task.gone
            /\ task'.walked = {} /\ task'.deleted = task.deleted
        BY <2>4, <2>5, <3>2, <4>1 DEF Task
      <4>3. ~task'.tree
        BY <2>4, <3>2, <4>1 DEF Task
      <4>4. TaskIsWhole'
        BY <2>1, <2>4, <3>2, <4>2, <4>3 DEF TaskIsWhole, TaskAt
      <4> QED
        BY <2>1, <2>4, <3>2, <4>2, <4>4 DEF WatchTypeOK
    <3> QED
      BY <2>3, <3>1, <3>2
  <2>9. WatchTypeOK'
    <3>1. /\ state' \in {"off", "starting", "watching", "polling", "missing"}
          /\ (state' \in {"off", "missing"} => watched' = {})
      BY <2>1 DEF WatchTypeOK
    <3> QED
      BY <2>1, <2>2, <2>8, <3>1 DEF WatchTypeOK
  <2>10. AbsentOutside'
    BY <2>1 DEF AbsentOutside, Present
  <2>11. Heard' = Heard /\ (WalkIsDue => WalkIsDue')
    BY <2>1, <2>2, <2>4, <2>8 DEF Heard, WalkIsDue
  <2>12. Watching' => Watching /\ d \in watched
    BY <2>1 DEF Watching
  <2>13. WalkIsDue <=> rescan
    BY <2>1 DEF WalkIsDue
  <2>14. TopIsKnown'
    BY <2>1, <2>11, <2>12 DEF TopIsKnown
  <2>15. DirsAreKnown'
    <3> SUFFICES ASSUME Watching', NEW e \in there \ {Top}
                 PROVE  \/ e \in live \/ Top \notin live \/ WalkIsDue'
                        \/ e \in Heard \cup lost \cup (task.new \ {d})
      BY <2>1, <2>8, <2>11 DEF DirsAreKnown
    <3>1. CASE e = d
      BY <1>2, <2>4, <2>11, <2>12, <2>13, <3>1 DEF AdoptedAreKnown, Heard
    <3>2. CASE e # d
      BY <2>11, <2>12, <3>2 DEF DirsAreKnown
    <3> QED
      BY <3>1, <3>2
  <2>16. AdoptedAreKnown'
    BY <2>1, <2>4, <2>8 DEF AdoptedAreKnown
  <2>17. NewAreLost'
    BY <2>1, <2>8 DEF NewAreLost
  <2>18. ASSUME NEW f \in Files, IsKnown(f) PROVE IsKnown(f)' \/ In[f] = d
    BY <2>1, <2>8, <2>11, <2>18 DEF IsKnown
  <2>19. FilesAreKnown'
    <3> SUFFICES ASSUME Watching, NEW f \in Files, sections[f] # disk[f]
                 PROVE  IsKnown(f)' \/ IsDue(f)'
      BY <2>1, <2>12 DEF FilesAreKnown
    <3>1. Present(f)' <=> Present(f)
      BY <2>1 DEF Present
    <3>2. CASE In[f] = d /\ Present(f)
      BY <2>6, <2>8, <3>1, <3>2 DEF IsDue
    <3>3. CASE In[f] = d /\ ~Present(f)
      <4>1. f \in lost
        BY <2>4, <3>3 DEF NewAreLost, Present
      <4> QED
        BY <2>1, <4>1 DEF IsKnown
    <3>4. CASE In[f] # d
      <4>1. IsDue(f) => IsDue(f)'
        BY <2>1, <2>4, <2>7, <2>8, <3>1 DEF IsDue, TaskAt
      <4> QED
        BY <2>18, <3>4, <4>1 DEF FilesAreKnown
    <3> QED
      BY <3>2, <3>3, <3>4
  <2>20. BackAreKnown'
    <3> SUFFICES ASSUME Watching, NEW f \in held \cup task.gone \cup task.deleted, Present(f)
                 PROVE  IsKnown(f)' \/ f \in task'.found
      BY <2>1, <2>8, <2>12 DEF BackAreKnown, Present
    <3>1. f \in Files
      BY <2>4 DEF WatchTypeOK
    <3>2. IsKnown(f) \/ f \in task.found
      BY <2>1, <2>4 DEF BackAreKnown, TaskAt
    <3> QED
      BY <2>6, <2>7, <2>8, <2>18, <3>1, <3>2
  <2> QED
    BY <2>8, <2>9, <2>10, <2>14, <2>15, <2>16, <2>17, <2>19, <2>20
<1> QED
  BY <1>1, <1>2

\* Ingest: what it says of each file is what was found, and what was held and is
\* back is lost.
LEMMA IngestKeeps ==
  ASSUME WatchInv, Ingest
  PROVE  WatchInv'
<1> USE DEF WatchInv
<1> DEFINE gone == task.deleted \cup (IF task.tree THEN Files \ task.found ELSE {})
<1>1. /\ disk' = disk /\ there' = there /\ state' = state /\ watched' = watched /\ live' = live
      /\ pending' = pending /\ held' = held /\ task' = NoTask
      /\ lost' = (lost \ {f \in Files : sections'[f] = disk[f]}) \cup {f \in held : Present(f)}
  BY DEF Ingest, GoesTo, watches, heard, Unseen
<1>2. rescan' = rescan
  BY DEF Ingest, heard
<1>3. sections' = [f \in Files |->
        IF f \in task.found /\ Present(f) THEN disk[f]
        ELSE IF f \in gone /\ (f \in task.deleted \/ ~Present(f)) THEN NoText
        ELSE sections[f]]
  BY DEF Ingest
<1>4. /\ task.step = "ingest" /\ task.paths = {} /\ task.new = {} /\ task.gone = {}
      /\ (task.tree => task.deleted = {})
  BY DEF Ingest, TaskAt, TaskIsWhole
<1>5. /\ task' \in Task /\ TaskIsWhole' /\ task'.step = "idle" /\ task'.new = {}
      /\ task'.paths = {} /\ task'.gone = {} /\ task'.deleted = {}
  BY <1>1, PhaseIs, PhaseIsWhole DEF StepNames
<1>6. WatchTypeOK'
  <2>1. sections' \in [Files -> FileTexts \cup {NoText}]
    BY <1>3 DEF WatchTypeOK
  <2>2. lost' \subseteq Paths
    BY <1>1 DEF WatchTypeOK, Paths
  <2> QED
    BY <1>1, <1>2, <1>5, <2>1, <2>2 DEF WatchTypeOK
<1>7. AbsentOutside'
  BY <1>1 DEF AbsentOutside, Present
<1>8. \A d \in Dirs : d \in lost => d \in lost'
  BY <1>1, WatchAssumption
<1>9. Heard' = Heard /\ (WalkIsDue => WalkIsDue')
  BY <1>1, <1>2, <1>4, <1>5 DEF Heard, WalkIsDue
<1>10. TopIsKnown' /\ DirsAreKnown'
  BY <1>1, <1>4, <1>8, <1>9, WatchAssumption DEF TopIsKnown, DirsAreKnown, Watching, WatchTypeOK
<1>11. AdoptedAreKnown' /\ NewAreLost'
  BY <1>5 DEF AdoptedAreKnown, NewAreLost
<1>12. ASSUME NEW f \in Files, IsKnown(f), sections'[f] # disk[f] PROVE IsKnown(f)'
  <2>1. In[f] \in Dirs
    BY WithinIs
  <2> QED
    BY <1>1, <1>4, <1>8, <1>9, <1>12, <2>1 DEF IsKnown
<1>13. FilesAreKnown'
  <2> SUFFICES ASSUME Watching, NEW f \in Files, sections'[f] # disk[f]
               PROVE  IsKnown(f)' \/ IsDue(f)'
    BY <1>1 DEF FilesAreKnown, Watching
  <2>1. ~(f \in task.found /\ Present(f))
    BY <1>3
  <2>2. CASE f \in gone /\ (f \in task.deleted \/ ~Present(f))
    <3>1. Present(f)
      BY <1>3, <2>1, <2>2 DEF Present
    <3>2. f \in task.deleted /\ ~task.tree
      BY <1>4, <2>2, <3>1
    <3>3. IsKnown(f)
      BY <1>4, <2>1, <3>1, <3>2 DEF BackAreKnown, TaskAt
    <3> QED
      BY <1>12, <3>3
  <2>3. CASE ~(f \in gone /\ (f \in task.deleted \/ ~Present(f)))
    <3>1. sections[f] # disk[f]
      BY <1>3, <2>1, <2>3
    <3>2. IsKnown(f) \/ IsDue(f)
      BY <3>1 DEF FilesAreKnown
    <3>3. IsDue(f) => f \in held /\ ~Present(f)
      BY <1>4, <2>1, <2>3 DEF IsDue, TaskAt
    <3>4. f \in held /\ ~Present(f) => IsDue(f)'
      BY <1>1 DEF IsDue, Present
    <3> QED
      BY <1>12, <3>2, <3>3, <3>4
  <2> QED
    BY <2>2, <2>3
<1>14. BackAreKnown'
  BY <1>1, <1>5 DEF BackAreKnown, IsKnown, Present
<1> QED
  BY <1>5, <1>6, <1>7, <1>10, <1>11, <1>13, <1>14

-----------------------------------------------------------------------------

LEMMA InitIsWatched == WatchInit => WatchInv
<1> SUFFICES ASSUME WatchInit PROVE WatchInv
  OBVIOUS
<1>1. /\ task \in Task /\ task.step = "idle" /\ task.paths = {} /\ task.new = {} /\ task.found = {}
      /\ task.gone = {} /\ task.deleted = {} /\ task.walked = {}
  BY PhaseIs DEF WatchInit, StepNames
<1>2. ~task.tree
  BY PhaseIs DEF WatchInit, StepNames
<1>3. WatchTypeOK
  BY <1>1 DEF WatchInit, WatchTypeOK
<1>4. TaskIsWhole
  BY <1>1, <1>2 DEF TaskIsWhole, TaskAt
<1>5. AbsentOutside
  BY WatchAssumption, WithinIs DEF WatchInit, AbsentOutside
<1>6. ~Watching
  BY DEF WatchInit, Watching
<1>7. AdoptedAreKnown /\ NewAreLost
  BY <1>1 DEF AdoptedAreKnown, NewAreLost
<1> QED
  BY <1>3, <1>4, <1>5, <1>6, <1>7 DEF WatchInv, TopIsKnown, DirsAreKnown, FilesAreKnown, BackAreKnown

LEMMA WatchStutters ==
  ASSUME WatchInv, UNCHANGED watchVars
  PROVE  WatchInv'
<1>1. /\ disk' = disk /\ there' = there /\ sections' = sections /\ state' = state
      /\ watched' = watched /\ live' = live /\ pending' = pending /\ rescan' = rescan
      /\ held' = held /\ task' = task /\ lost' = lost
  BY DEF watchVars
<1> QED
  BY <1>1 DEF WatchInv, WatchTypeOK, TaskIsWhole, AbsentOutside, TopIsKnown, DirsAreKnown,
              AdoptedAreKnown, NewAreLost, FilesAreKnown, BackAreKnown, IsKnown, IsDue, WalkIsDue,
              Heard, Watching, TaskAt, Present

LEMMA DiskStepsKeep ==
  ASSUME WatchInv, Disk(Paths)
  PROVE  WatchInv'
<1>1. ASSUME NEW f \in Files, NEW text \in FileTexts \cup {NoText}, Edit(f, text) PROVE WatchInv'
  BY <1>1, EditTells, DiskKeeps
<1>2. ASSUME NEW d \in Dirs, Remove(d) PROVE WatchInv'
  BY <1>2, RemoveTells, DiskKeeps
<1>3. ASSUME NEW d \in Dirs, NEW files \in SUBSET Files, NEW text \in FileTexts,
             Make(d, files, text)
      PROVE  WatchInv'
  BY <1>3, MakeTells, DiskKeeps
<1>4. Files \cap Paths = Files /\ Dirs \cap Paths = Dirs
  BY DEF Paths
<1> QED
  BY <1>1, <1>2, <1>3, <1>4 DEF Disk

LEMMA NextIsWatched == WatchInv /\ [WatchNext]_watchVars => WatchInv'
<1> SUFFICES ASSUME WatchInv, [WatchNext]_watchVars PROVE WatchInv'
  OBVIOUS
<1>1. CASE Disk(Paths)
  BY <1>1, DiskStepsKeep
<1>2. CASE Sort
  BY <1>2, SortKeeps
<1>3. CASE Walk
  BY <1>3, WalkKeeps
<1>4. CASE WatchDirs
  BY <1>4, WatchDirsKeeps
<1>5. CASE WalkAgain
  BY <1>5, WalkAgainKeeps
<1>6. CASE Ingest
  BY <1>6, IngestKeeps
<1>7. CASE \E d \in Dirs : Adopt(d) \/ AdoptWalk(d)
  BY <1>7, AdoptKeeps, AdoptWalkKeeps
<1>8. CASE FollowTop \/ Unfollow \/ PollAgain \/ Restart
  BY <1>8, UnwatchedKeeps
<1>9. CASE Flush
  BY <1>9, FlushKeeps
<1>10. CASE TaskFails
  BY <1>10, StepFailsKeeps DEF TaskFails
<1>11. CASE \E f \in Files : Freshen(f)
  BY <1>11, FreshenKeeps
<1>12. CASE UNCHANGED watchVars
  BY <1>12, WatchStutters
<1> QED
  BY <1>1, <1>2, <1>3, <1>4, <1>5, <1>6, <1>7, <1>8, <1>9, <1>10, <1>11, <1>12 DEF WatchNext, Steps

LEMMA NothingIsMissed == WatchInv => NothingMissed
<1> SUFFICES ASSUME WatchInv, TaskAt("idle"), Watching, ~rescan, NEW f \in Files
             PROVE  \/ sections[f] = disk[f]
                    \/ {f, In[f], Top} \cap pending # {} \/ f \in held
                    \/ {f, In[f], Top} \cap lost # {}
  BY DEF NothingMissed, Watching
<1>1. ~WalkIsDue
  BY DEF WalkIsDue, TaskAt
<1>2. /\ task.paths = {} /\ task.new = {} /\ task.found = {} /\ task.gone = {} /\ task.deleted = {}
      /\ ~task.tree
  BY DEF WatchInv, TaskIsWhole, TaskAt
<1>3. Top \notin live => Top \in pending \cup lost
  BY <1>1, <1>2 DEF WatchInv, TopIsKnown, Heard
<1>4. IsDue(f) => f \in held
  BY <1>2 DEF IsDue, TaskAt
<1>5. IsKnown(f) => {f, In[f], Top} \cap (pending \cup lost) # {}
  BY <1>1, <1>2, <1>3 DEF IsKnown, Heard
<1> QED
  BY <1>4, <1>5 DEF WatchInv, FilesAreKnown

\* However the files change and whatever fails, something was heard of all that
\* differs, or is to be walked, or was lost (crates/cli/src/watch.rs).
THEOREM WatchIsConsistent == WatchSpec => []WatchInv
<1>1. WatchInit => WatchInv
  BY InitIsWatched
<1>2. WatchInv /\ [WatchNext]_watchVars => WatchInv'
  BY NextIsWatched
<1> QED
  BY <1>1, <1>2, PTL DEF WatchSpec

\* While every directory is watched and nothing is left to do, the ledger says
\* what the files say, whatever was made, moved or deleted meanwhile, except what
\* is pending, held or lost (catch_up, flush and sort, crates/cli/src/watch.rs).
THEOREM ChangesAreNotMissed == WatchSpec => []NothingMissed
<1>1. WatchInv => NothingMissed
  BY NothingIsMissed
<1> QED
  BY <1>1, WatchIsConsistent, PTL

=============================================================================
