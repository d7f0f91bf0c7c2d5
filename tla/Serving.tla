------------------------------ MODULE Serving -------------------------------
(***************************************************************************)
(* One project's index while a server serves it: opened at most once and   *)
(* closed when idle (crates/cli/src/registry.rs, session.rs), written by   *)
(* the cascade, copied into another shape beside itself and swapped        *)
(* (crates/index/src/reshape.rs), rebuilt from the ledger (`reindex` of    *)
(* crates/engine/src/engine.rs), purged, and found again by whatever opens *)
(* it after a crash.                                                       *)
(*                                                                         *)
(* An index is a directory, and a handle on it goes where it is renamed    *)
(* to.  Two engines can be alive at once: a rebuild drops the registry's,  *)
(* which a request inside it keeps.  Every step is one lock's worth: what  *)
(* happens under the index's lock happens at once, unless the process dies *)
(* in it.                                                                  *)
(*                                                                         *)
(* What a document holds beside its text is left out, and the claims of a  *)
(* job but for one thing: a topic queued again is not done by the sync     *)
(* that was already reading it.  Outbox and Cascade have the rest.         *)
(***************************************************************************)
EXTENDS Integers, FiniteSets

CONSTANTS
  Topics,
  Texts,
  Absent,   \* what the ledger or an index says of a topic it does not have
  Engines,
  Nobody,   \* no engine
  Nothing   \* no directory

ASSUME ServingAssumption == Absent \notin Texts /\ Nobody \notin Engines \cup Topics

Engine == Engines \cup {Nobody}
Text == Texts \cup {Absent}
Content == [Topics -> Text]
Empty == [t \in Topics |-> Absent]

ASSUME NothingAssumption == Nothing \notin Content

\* The project's directory, and the one a swap moves aside.  Its other siblings
\* are read by nobody but whoever makes them: the copy of a reshape (`copy`), and
\* what a rebuild set aside, whose text is never taken over the ledger's.
Places == {"live", "replaced"}

\* Where an engine's handle is: on one of the two, on what a rebuild set aside, on
\* none while a swap has it closed, or on a directory that was deleted.
Handles == Places \cup {"previous", "closed", "gone"}

VARIABLES
  ledger,   \* Content: the current state of each topic
  owed,     \* topics with a sync to run
  at,       \* [Places -> Content \cup {Nothing}]
  place,    \* [Engines -> ...]: where the index an engine holds is
  slot,     \* the registry's engine
  locked,   \* whether a rebuild or a purge holds the slot across its waits
  keeping,  \* the engine opened for a rebuild, which holds the exclusion with it
  sync,     \* a drain syncing one topic
  reshape,
  rebuild,
  purge,
  spoiled,  \* topics a rebuild left wrong
  missed,   \* topics a reshape did not copy, or lost with a copy
  astray    \* a directory was opened while a reshape was moving it

\* The last three are history: no action reads them, only the properties do.
history == <<spoiled, missed, astray>>
registry == <<slot, locked, keeping>>
vars == <<ledger, owed, at, place, registry, sync, reshape, rebuild, purge, history>>

NoSync == [step |-> "idle", engine |-> Nobody, topic |-> Nobody, text |-> Absent,
           claimed |-> FALSE]
NoReshape == [step |-> "idle", engine |-> Nobody, todo |-> {}, topic |-> Nobody, text |-> Absent,
              caught |-> FALSE, touched |-> {}, copy |-> Empty]
NoRebuild == [step |-> "idle", engine |-> Nobody, states |-> Empty, crossed |-> {}]
NoPurge == [step |-> "idle", engine |-> Nobody]

Directories == [Places -> Content \cup {Nothing}]
Syncings ==
  [step : {"idle", "read", "write", "done"}, engine : Engine, topic : Topics \cup {Nobody},
   text : Text, claimed : BOOLEAN]
Reshapes ==
  [step : {"idle", "list", "copy", "apply", "aside", "in", "serve"}, engine : Engine,
   todo : SUBSET Topics, topic : Topics \cup {Nobody}, text : Text, caught : BOOLEAN,
   touched : SUBSET Topics, copy : Content]
Reindexes ==
  [step : {"idle", "wait", "aside", "open", "read", "write"}, engine : Engine,
   states : Content, crossed : SUBSET Topics]
Purges == [step : {"idle", "wait"}, engine : Engine]

TypeOK ==
  /\ ledger \in Content /\ owed \subseteq Topics
  /\ spoiled \subseteq Topics /\ missed \subseteq Topics /\ astray \in BOOLEAN
  /\ at \in Directories
  /\ place \in [Engines -> Handles]
  /\ slot \in Engine /\ keeping \in Engine /\ locked \in BOOLEAN
  /\ sync \in Syncings /\ reshape \in Reshapes /\ rebuild \in Reindexes /\ purge \in Purges

Init ==
  /\ ledger = Empty /\ owed = {}
  /\ at = [p \in Places |-> Nothing]
  /\ place = [e \in Engines |-> "gone"]
  /\ slot = Nobody /\ locked = FALSE /\ keeping = Nobody
  /\ sync = NoSync /\ reshape = NoReshape /\ rebuild = NoRebuild /\ purge = NoPurge
  /\ spoiled = {} /\ missed = {} /\ astray = FALSE

-----------------------------------------------------------------------------

\* An engine is open for as long as anybody holds it.
Users == {sync.engine, reshape.engine, rebuild.engine, purge.engine}
Held(e) == e \in Engines \cap ({slot} \cup Users)
On(p) == {e \in Engines : Held(e) /\ place[e] = p}

\* EXCLUSIVE: one reshape or rebuild of a directory at a time.
Free == /\ reshape.step = "idle"
        /\ rebuild.step \in {"idle", "wait"}
        /\ ~Held(keeping)

\* The index's lock, which a swap holds from its last catch-up on.
Swapping == reshape.step \in {"aside", "in", "serve"}
Unlocked(e) == ~(reshape.engine = e /\ Swapping)

\* A directory renamed over another, and the handles on it, which go with it.
Moved(dirs, from, to) == [dirs EXCEPT ![to] = dirs[from], ![from] = Nothing]
Carried(handles, from, to) ==
  [e \in Engines |-> IF handles[e] = from THEN to ELSE handles[e]]

\* `recover`: what a swap that died left aside is put back where nothing is.
Recovered ==
  IF at["replaced"] = Nothing THEN at
  ELSE IF at["live"] = Nothing THEN Moved(at, "replaced", "live")
  ELSE [at EXCEPT !["replaced"] = Nothing]
Recarried ==
  Carried(place, "replaced", IF at["live"] = Nothing THEN "live" ELSE "gone")

\* Opening creates what is not there.
Created(dirs) == [dirs EXCEPT !["live"] = IF @ = Nothing THEN Empty ELSE @]

\* The index when deleting it stopped half way, and took these with it.
Without(swept) ==
  [at EXCEPT !["live"] = [t \in Topics |-> IF t \in swept THEN Absent ELSE @[t]]]

-----------------------------------------------------------------------------
(* The ledger and the registry.                                            *)

\* A memory is written or retired.  Its sync is owed again.
Write(t, text) ==
  /\ text # ledger[t]
  /\ ledger' = [ledger EXCEPT ![t] = text]
  /\ owed' = owed \cup {t}
  /\ sync' = IF sync.topic = t THEN [sync EXCEPT !.claimed = FALSE] ELSE sync
  /\ UNCHANGED <<at, place, registry, reshape, rebuild, purge, history>>

\* `get_or_open`, of a slot with nothing in it.  An index another engine still
\* has open refuses.  `recover` does not run while a reshape or a rebuild has the
\* directory, and what is there then is opened all the same: a rebuild that fails
\* before it has the exclusion leaves the slot empty while a reshape goes on.
Open(e) ==
  /\ slot = Nobody /\ ~locked /\ ~Held(e)
  /\ LET handles == IF Free THEN Recarried ELSE place
     IN  /\ \A d \in Engines : Held(d) => handles[d] # "live"
         /\ place' = [handles EXCEPT ![e] = "live"]
  /\ at' = Created(IF Free THEN Recovered ELSE at)
  /\ slot' = e
  /\ keeping' = IF keeping = e THEN Nobody ELSE keeping
  /\ astray' = (astray \/ Swapping)
  /\ UNCHANGED <<ledger, owed, locked, sync, reshape, rebuild, purge, spoiled, missed>>

\* Closed when idle, or to make room, if nobody is inside it.
Close ==
  /\ slot # Nobody /\ slot \notin Users /\ ~locked
  /\ slot' = Nobody
  /\ UNCHANGED <<ledger, owed, at, place, locked, keeping, sync, reshape, rebuild, purge, history>>

-----------------------------------------------------------------------------
(* A sync: read and written under the engine's `syncing` lock.             *)

SyncBegin(t) ==
  /\ sync.step = "idle" /\ t \in owed
  /\ slot # Nobody /\ ~locked
  /\ sync' = [NoSync EXCEPT !.step = "read", !.engine = slot, !.topic = t, !.claimed = TRUE]
  /\ UNCHANGED <<ledger, owed, at, place, registry, reshape, rebuild, purge, history>>

SyncRead ==
  /\ sync.step = "read"
  /\ sync' = [sync EXCEPT !.step = "write", !.text = ledger[sync.topic]]
  /\ UNCHANGED <<ledger, owed, at, place, registry, reshape, rebuild, purge, history>>

\* What a reshape and a rebuild see of a write that reached p.
Recording(t, writes) ==
  IF writes /\ reshape.engine = sync.engine
  THEN [reshape EXCEPT !.touched = @ \cup {t}] ELSE reshape

\* A topic that was retired when a reshape listed what to copy, and is back before
\* its sync has run: the index has it, so nothing is written, nor recorded, and the
\* copy goes without it.
NotCopied(t) ==
  /\ reshape.engine = sync.engine /\ reshape.step \in {"copy", "apply"}
  /\ t \notin reshape.todo \cup reshape.touched \cup {reshape.topic}
  /\ reshape.copy[t] # sync.text

\* Nothing, when the index has it already; refused, when no index is open.  A
\* directory set aside or deleted under its handle takes the write and loses it.
SyncWrite ==
  /\ sync.step = "write" /\ Unlocked(sync.engine)
  /\ LET t == sync.topic
         p == place[sync.engine]
         writes == p \in Places /\ at[p][t] # sync.text
         loses == p \in {"gone", "previous"} /\ sync.claimed
     IN  /\ at' = IF writes THEN [at EXCEPT ![p][t] = sync.text] ELSE at
         /\ sync' = IF p = "closed" THEN NoSync ELSE [sync EXCEPT !.step = "done"]
         /\ reshape' = Recording(t, writes)
         /\ rebuild' = IF rebuild.step = "write" /\ p = "live"
                       THEN [rebuild EXCEPT !.crossed = @ \cup {t}] ELSE rebuild
         /\ spoiled' = (spoiled \ IF p = "live" THEN {t} ELSE {}) \cup IF loses THEN {t} ELSE {}
         /\ missed' = (missed \ IF p = "live" THEN {t} ELSE {})
                         \cup IF ~writes /\ NotCopied(t) THEN {t} ELSE {}
  /\ UNCHANGED <<ledger, owed, place, registry, purge, astray>>

SyncDone ==
  /\ sync.step = "done"
  /\ owed' = IF sync.claimed THEN owed \ {sync.topic} ELSE owed
  /\ sync' = NoSync
  /\ UNCHANGED <<ledger, at, place, registry, reshape, rebuild, purge, history>>

-----------------------------------------------------------------------------
(* A reshape: a copy beside the index, and a swap.                         *)

\* The exclusion is tried and not waited for, and a closed index has no shape.
\* Writes are recorded from here on.
ReshapeBegin ==
  /\ slot # Nobody /\ ~locked /\ Free
  /\ place[slot] = "live"
  /\ reshape' = [NoReshape EXCEPT !.step = "list", !.engine = slot]
  /\ UNCHANGED <<ledger, owed, at, place, registry, sync, rebuild, purge, history>>

\* `current_topic_ids`, once writes are recorded.
ReshapeList ==
  /\ reshape.step = "list"
  /\ reshape' = [reshape EXCEPT !.step = "copy", !.todo = {t \in Topics : ledger[t] # Absent}]
  /\ UNCHANGED <<ledger, owed, at, place, registry, sync, rebuild, purge, history>>

\* A batch is read under the index's lock and written without it.
ReshapeRead(t) ==
  /\ reshape.step = "copy" /\ t \in reshape.todo
  /\ reshape' = [reshape EXCEPT !.step = "apply", !.todo = @ \ {t}, !.topic = t,
                                !.text = at["live"][t]]
  /\ UNCHANGED <<ledger, owed, at, place, registry, sync, rebuild, purge, history>>

ReshapeApply ==
  /\ reshape.step = "apply"
  /\ reshape' = [reshape EXCEPT !.step = "copy", !.topic = Nobody, !.text = Absent,
                                !.copy[reshape.topic] = reshape.text]
  /\ UNCHANGED <<ledger, owed, at, place, registry, sync, rebuild, purge, history>>

\* Mutant: the topic copied last is caught up with as well.
CatchUpToo ==
  /\ reshape.step = "copy" /\ reshape.todo = {} /\ ~reshape.caught
  /\ reshape' = [reshape EXCEPT !.todo = reshape.touched \cup {reshape.topic}, !.touched = {},
                                !.caught = TRUE]
  /\ UNCHANGED <<ledger, owed, at, place, registry, sync, rebuild, purge, history>>

\* `build`: what was written while the copy was made.
CatchUp ==
  /\ reshape.step = "copy" /\ reshape.todo = {} /\ ~reshape.caught
  /\ reshape' = [reshape EXCEPT !.todo = reshape.touched, !.touched = {}, !.caught = TRUE]
  /\ UNCHANGED <<ledger, owed, at, place, registry, sync, rebuild, purge, history>>

\* Mutant: swapped after the one catch-up.
NoLastCatchUp == reshape.copy

\* `swap`, which keeps the index's lock from its last catch-up on.
LastCatchUp ==
  [t \in Topics |-> IF t \in reshape.touched THEN at["live"][t] ELSE reshape.copy[t]]

Swap ==
  /\ reshape.step = "copy" /\ reshape.todo = {} /\ reshape.caught
  /\ place' = [place EXCEPT ![reshape.engine] = "closed"]
  /\ reshape' = [reshape EXCEPT !.step = "aside", !.copy = LastCatchUp, !.touched = {}]
  /\ UNCHANGED <<ledger, owed, at, registry, sync, rebuild, purge, history>>

MoveAside ==
  /\ reshape.step = "aside"
  /\ at' = Moved(at, "live", "replaced")
  /\ place' = Carried(Carried(place, "replaced", "gone"), "live", "replaced")
  /\ reshape' = [reshape EXCEPT !.step = "in"]
  /\ UNCHANGED <<ledger, owed, registry, sync, rebuild, purge, history>>

\* Where somebody has opened the directory meanwhile, it cannot be moved over, nor
\* opened again.
Obstructed ==
  \/ reshape.step = "in" /\ at["live"] # Nothing
  \/ reshape.step = "serve" /\ On("live") # {}

MoveIn ==
  /\ reshape.step = "in" /\ ~Obstructed
  /\ at' = [at EXCEPT !["live"] = reshape.copy]
  /\ reshape' = [reshape EXCEPT !.step = "serve", !.copy = Empty]
  /\ UNCHANGED <<ledger, owed, place, registry, sync, rebuild, purge, history>>

\* The copy replaced is deleted, or left for `recover`.
Serve ==
  /\ reshape.step = "serve" /\ ~Obstructed
  /\ place' = [Carried(place, "replaced", "gone") EXCEPT ![reshape.engine] = "live"]
  /\ \E left \in {at["replaced"], Nothing} : at' = [at EXCEPT !["replaced"] = left]
  /\ reshape' = NoReshape
  /\ UNCHANGED <<ledger, owed, registry, sync, rebuild, purge, history>>

\* `Drop`: a step that fails before the swap.
Abandon ==
  /\ reshape.step \in {"list", "copy", "apply"}
  /\ reshape' = NoReshape
  /\ UNCHANGED <<ledger, owed, at, place, registry, sync, rebuild, purge, history>>

\* A swap that fails reopens what is there, if it will open.
Reopened(dirs, handles) ==
  /\ at' = dirs
  /\ \E open \in {"live", "closed"} :
       /\ open = "live" => dirs["live"] # Nothing /\ \A d \in Engines : Held(d) => handles[d] # "live"
       /\ place' = [handles EXCEPT ![reshape.engine] = open]
  /\ reshape' = NoReshape

\* Before the copy is in place: what was served is where it was, or is moved back,
\* or cannot be and is left aside.
SwapFails ==
  /\ \/ reshape.step \in {"aside", "in"} /\ Reopened(at, place)
     \/ /\ reshape.step = "in" /\ at["live"] = Nothing
        /\ Reopened(Moved(at, "replaced", "live"), Carried(place, "replaced", "live"))
  /\ UNCHANGED <<ledger, owed, registry, sync, rebuild, purge, history>>

\* A copy that is in place and does not open is deleted, and what was served is
\* moved back, or cannot be.  When it is not deleted whole, what was served is
\* not moved back, and the next `recover` takes what is left for the index.
CopyFails ==
  /\ reshape.step = "serve"
  /\ LET deleted == Carried(place, "live", "gone")
     IN  \/ /\ \/ Reopened([at EXCEPT !["live"] = Nothing], deleted)
               \/ Reopened(Moved(at, "replaced", "live"), Carried(deleted, "replaced", "live"))
            /\ UNCHANGED missed
         \/ \E swept \in SUBSET Topics :
              /\ Reopened(Without(swept), place)
              /\ missed' = missed \cup swept
  /\ UNCHANGED <<ledger, owed, registry, sync, rebuild, purge, spoiled, astray>>

-----------------------------------------------------------------------------
(* A rebuild: the index set aside and written again from the ledger.       *)

\* Mutant: the registry keeps its engine until there is another.
RebuildBeginKeeping ==
  /\ ~locked /\ rebuild.step = "idle"
  /\ locked' = TRUE
  /\ rebuild' = [NoRebuild EXCEPT !.step = "wait"]
  /\ UNCHANGED <<ledger, owed, at, place, slot, keeping, sync, reshape, purge, history>>

\* `reopen`: the registry lets go of its engine, and holds the slot.
RebuildBegin ==
  /\ ~locked /\ rebuild.step = "idle"
  /\ locked' = TRUE /\ slot' = Nobody
  /\ rebuild' = [NoRebuild EXCEPT !.step = "wait"]
  /\ UNCHANGED <<ledger, owed, at, place, keeping, sync, reshape, purge, history>>

\* The exclusion is waited for.
Exclude ==
  /\ rebuild.step = "wait" /\ Free
  /\ at' = Recovered /\ place' = Recarried
  /\ rebuild' = [rebuild EXCEPT !.step = "aside"]
  /\ UNCHANGED <<ledger, owed, registry, sync, reshape, purge, history>>

\* Moved aside to lend its vectors, over what another rebuild left there, or
\* deleted if it cannot lend them; the handles on it go with it.
Follow(aside) == Carried(Carried(place, "previous", "gone"), "live", aside)

SetAside ==
  /\ rebuild.step = "aside"
  /\ \/ at["live"] # Nothing /\ place' = Follow("previous")
     \/ place' = Follow("gone")
  /\ at' = [at EXCEPT !["live"] = Nothing]
  /\ rebuild' = [rebuild EXCEPT !.step = "open"]
  /\ spoiled' = Topics
  /\ UNCHANGED <<ledger, owed, registry, sync, reshape, purge, missed, astray>>

\* The new engine, and the exclusion with it.
OpenEmpty(e) ==
  /\ rebuild.step = "open" /\ ~Held(e)
  /\ On("previous") = {}
  /\ at' = Created(at)
  /\ place' = [place EXCEPT ![e] = "live"]
  /\ slot' = e /\ keeping' = e /\ locked' = FALSE
  /\ rebuild' = [rebuild EXCEPT !.step = "read", !.engine = e]
  /\ UNCHANGED <<ledger, owed, sync, reshape, purge, history>>

\* Or not: an index set aside with a request still inside it cannot be opened
\* to lend, and another step of the open may fail, the first of them before it has
\* the exclusion and whatever a reshape is doing.
RebuildFails ==
  /\ rebuild.step \in {"wait", "aside", "open"}
  /\ locked' = FALSE
  /\ rebuild' = NoRebuild
  /\ UNCHANGED <<ledger, owed, at, place, slot, keeping, sync, reshape, purge, history>>

\* An index that cannot lend is deleted, and that fails half way.
DiscardFails ==
  /\ rebuild.step = "aside" /\ at["live"] # Nothing
  /\ \E swept \in SUBSET Topics : at' = Without(swept) /\ spoiled' = spoiled \cup swept
  /\ locked' = FALSE
  /\ rebuild' = NoRebuild
  /\ UNCHANGED <<ledger, owed, place, slot, keeping, sync, reshape, purge, missed, astray>>

ReindexRead ==
  /\ rebuild.step = "read"
  /\ rebuild' = [rebuild EXCEPT !.step = "write", !.states = ledger]
  /\ UNCHANGED <<ledger, owed, at, place, registry, sync, reshape, purge, history>>

\* Everything the ledger had, over what is there, a sync's newer text included.
Overwritten(index) ==
  [t \in Topics |-> IF rebuild.states[t] # Absent THEN rebuild.states[t] ELSE index[t]]
Stale == {t \in rebuild.crossed : rebuild.states[t] \notin {Absent, ledger[t]}}

\* What a rebuild that stops leaves.
HalfWritten ==
  IF rebuild.step = "write" THEN {at, [at EXCEPT !["live"] = Overwritten(@)]} ELSE {at}

ReindexWrite ==
  /\ rebuild.step = "write"
  /\ at' = [at EXCEPT !["live"] = Overwritten(@)]
  /\ keeping' = Nobody
  /\ rebuild' = NoRebuild
  /\ spoiled' = Stale /\ missed' = {}
  /\ UNCHANGED <<ledger, owed, place, slot, locked, sync, reshape, purge, astray>>

\* A rebuild that fails before the write keeps its exclusion for as long as its
\* engine is open; one that fails in it has let go of it.
ReindexFails ==
  /\ rebuild.step \in {"read", "write"}
  /\ keeping' \in IF rebuild.step = "read" THEN {keeping} ELSE {keeping, Nobody}
  /\ at' \in HalfWritten
  /\ spoiled' = spoiled \cup Stale
  /\ rebuild' = NoRebuild
  /\ UNCHANGED <<ledger, owed, place, slot, locked, sync, reshape, purge, missed, astray>>

-----------------------------------------------------------------------------
(* A purge, and a crash.                                                   *)

\* `take_then`.
PurgeBegin ==
  /\ ~locked /\ purge.step = "idle"
  /\ locked' = TRUE /\ slot' = Nobody
  /\ purge' = [step |-> "wait", engine |-> slot]
  /\ UNCHANGED <<ledger, owed, at, place, keeping, sync, reshape, rebuild, history>>

\* Once nobody is inside the engine.  The next engine opens another project's
\* directory: one that a rebuild had let go of is left with a directory nothing
\* opens again.
Purge ==
  /\ purge.step = "wait"
  /\ purge.engine # Nobody => purge.engine \notin {sync.engine, reshape.engine, rebuild.engine}
  /\ ledger' = Empty /\ owed' = {}
  /\ at' = [p \in Places |-> Nothing]
  /\ place' = [e \in Engines |-> "gone"]
  /\ locked' = FALSE /\ keeping' = Nobody
  /\ purge' = NoPurge
  /\ spoiled' = {} /\ missed' = {}
  /\ sync' = [sync EXCEPT !.claimed = FALSE] /\ reshape' = NoReshape
  /\ UNCHANGED <<slot, rebuild, astray>>

\* After PURGE_PATIENCE, or when the deletion fails.
GiveUp ==
  /\ purge.step = "wait"
  /\ locked' = FALSE
  /\ \/ /\ slot' = purge.engine
     \/ /\ purge.engine \notin {sync.engine, reshape.engine, rebuild.engine}
        /\ slot' = Nobody
  /\ purge' = NoPurge
  /\ UNCHANGED <<ledger, owed, at, place, keeping, sync, reshape, rebuild, history>>

\* The process dies.
Crash ==
  /\ at' \in HalfWritten
  /\ spoiled' = spoiled \cup Stale
  /\ place' = [e \in Engines |-> "gone"]
  /\ slot' = Nobody /\ locked' = FALSE /\ keeping' = Nobody
  /\ sync' = NoSync /\ reshape' = NoReshape /\ rebuild' = NoRebuild /\ purge' = NoPurge
  /\ UNCHANGED <<ledger, owed, missed, astray>>

-----------------------------------------------------------------------------

Syncs == (\E t \in Topics : SyncBegin(t)) \/ SyncRead \/ SyncWrite \/ SyncDone
Copies == ReshapeList \/ (\E t \in Topics : ReshapeRead(t)) \/ ReshapeApply \/ CatchUp
Swaps ==
  Swap \/ MoveAside \/ MoveIn \/ Serve \/ (Obstructed /\ (SwapFails \/ CopyFails))
Rebuilds == Exclude \/ SetAside \/ (\E e \in Engines : OpenEmpty(e)) \/ ReindexRead \/ ReindexWrite
Fails == Abandon \/ SwapFails \/ CopyFails \/ RebuildFails \/ DiscardFails \/ ReindexFails \/ GiveUp \/ Crash

Next ==
  \/ \E t \in Topics, text \in Text : Write(t, text)
  \/ \E e \in Engines : Open(e)
  \/ Close
  \/ Syncs
  \/ ReshapeBegin \/ Copies \/ Swaps
  \/ RebuildBegin \/ Rebuilds
  \/ PurgeBegin \/ Purge
  \/ Fails

Fairness == /\ WF_vars(SyncRead \/ SyncWrite \/ SyncDone)
            /\ WF_vars(Copies \/ Swaps) /\ WF_vars(Rebuilds)

Spec == Init /\ [][Next]_vars /\ Fairness

-----------------------------------------------------------------------------

\* What whatever opens the index next finds in it, at any moment the process
\* may die.
Served == LET dirs == Recovered IN IF dirs["live"] = Nothing THEN Empty ELSE dirs["live"]

(***************************************************************************)
(* A search after a restart finds what the ledger says of every topic that *)
(* is not waiting for its sync: no write that an index took is lost to a   *)
(* copy made of it, and none to a swap that the process dies in, between   *)
(* any two of its renames or with one of them failing.                     *)
(*                                                                         *)
(* The code does lose three, each by name.  What a rebuild leaves wrong is *)
(* `spoiled`.  `missed` is what a reshape loses: a topic that was retired  *)
(* when it listed what to copy and is written again as the index still has *)
(* it, so that nothing is recorded; and what goes with a copy that did not *)
(* open, when deleting that fails too and the next open takes what is left *)
(* for the index and deletes the good one.  And nothing is claimed once    *)
(* the index went `astray`.                                                *)
(***************************************************************************)
Findable == astray \/ \A t \in Topics \ (owed \cup spoiled \cup missed) : Served[t] = ledger[t]

(***************************************************************************)
(* No two engines are open on one directory, and it is there: `reopen` and *)
(* `take_then` let go of an engine before anything moves, `open` refuses a *)
(* directory that is held, whatever fails and whenever.  And the engine    *)
(* the registry hands out serves the directory the next process will open, *)
(* or answers that it has none, but for one order of events, after which   *)
(* the index is `astray`: a rebuild fails before it has the exclusion,     *)
(* and, the slot it emptied being empty, the project is opened while a     *)
(* reshape that was running meanwhile swaps.  That opens a directory about *)
(* to be moved aside and deleted, or an empty one where a moment later the *)
(* copy is due.                                                            *)
(***************************************************************************)
OneIndex ==
  /\ \A p \in Places : Cardinality(On(p)) <= 1 /\ (On(p) # {} => at[p] # Nothing)
  /\ slot # Nobody => astray \/ place[slot] \in {"live", "closed"}

(***************************************************************************)
(* What makes the two inductive.  Who holds what: a rebuild or a purge the *)
(* slot, a reshape its engine, which is the slot's or about to be let go   *)
(* of by one of those, and a rebuild that writes the only engine there is. *)
(***************************************************************************)
Emptying == rebuild.step \in {"wait", "aside", "open"}
Rebuilding == rebuild.step \in {"read", "write"}
Purging == purge.step = "wait"
Reshaping == reshape.step # "idle"
Copying == reshape.step \in {"copy", "apply"}

\* The slot's engine, or the one a purge has taken from it.
Kept(e) == slot = e \/ (Purging /\ purge.engine = e)

Slots ==
  /\ locked <=> Emptying \/ Purging
  /\ ~(Emptying /\ Purging)
  /\ locked => slot = Nobody
  /\ sync.step = "idle" => sync = NoSync
  /\ sync.step # "idle" => sync.engine \in Engines /\ sync.topic \in Topics
  /\ reshape.step = "idle" => reshape = NoReshape
  /\ purge.step = "idle" => purge = NoPurge
  /\ ~Rebuilding => rebuild.engine = Nobody
  /\ rebuild.step # "write" => rebuild.crossed = {}

Alone ==
  \A p \in Places :
    /\ \A d, e \in On(p) : d = e
    /\ On(p) # {} => at[p] # Nothing

Exclusion ==
  /\ Reshaping =>
       /\ reshape.engine \in Engines
       /\ rebuild.step \in {"idle", "wait"}
       /\ place[reshape.engine] = IF Swapping THEN "closed" ELSE "live"
       /\ reshape.step = "apply" => reshape.topic \in Topics
       /\ reshape.step # "apply" => reshape.topic = Nobody
       /\ reshape.step = "list" => reshape.copy = Empty
  /\ Rebuilding =>
       /\ rebuild.engine \in Engines /\ Kept(rebuild.engine)
       /\ place[rebuild.engine] = "live"
  /\ rebuild.step = "open" =>
       /\ \A e \in Engines : place[e] # "live"
       /\ at["live"] = Nothing /\ spoiled = Topics
  /\ Held(keeping) =>
       /\ place[keeping] = "live"
       /\ ~Reshaping /\ rebuild.step \notin {"aside", "open"}

OnDisk ==
  /\ reshape.step \in {"list", "copy", "apply", "aside", "serve"} => at["live"] # Nothing
  /\ reshape.step \in {"in", "serve"} => at["replaced"] # Nothing
  /\ reshape.step = "apply" /\ reshape.topic \notin reshape.touched =>
       reshape.text = at["live"][reshape.topic]

\* Whatever the registry or a purge keeps is open on the index, a reshape's engine
\* is the only one they keep, and nothing is in the way of its swap.
InPlace ==
  /\ \A e \in Engines : Kept(e) =>
       place[e] \in {"live", "closed"} /\ (Reshaping => e = reshape.engine)
  /\ On("replaced") = {}
  /\ Swapping => On("live") = {}
  /\ reshape.step = "in" => at["live"] = Nothing

\* Nothing is owed for a topic, or a sync is about to say so.
Done(t) == t \notin owed \/ (sync.step = "done" /\ sync.claimed /\ sync.topic = t)

\* What the copy will say of a topic once it is swapped, as things are.
WillSay(t) ==
  IF t \in reshape.todo \cup reshape.touched THEN at["live"][t]
  ELSE IF reshape.step = "apply" /\ t = reshape.topic THEN reshape.text
  ELSE reshape.copy[t]

\* A topic is right in every directory that may come to be served.
Right(t) ==
  \/ t \in spoiled \cup missed
  \/ /\ Served[t] = ledger[t]
     /\ Copying => WillSay(t) = ledger[t]
     /\ reshape.step \in {"aside", "in"} => reshape.copy[t] = ledger[t]
     /\ reshape.step = "serve" => at["replaced"][t] = ledger[t]

\* What a sync has read is what the ledger says, for as long as it may still call
\* the topic done.
Syncing ==
  /\ sync.step # "idle" /\ ~sync.claimed =>
       sync.topic \in owed \/ place[sync.engine] = "gone"
  /\ sync.step = "write" /\ sync.claimed => sync.text = ledger[sync.topic]

\* A topic a rebuild finds in its index, or is about to write over, is what the
\* ledger says of it or will be seen to have crossed it.
Ready(t) ==
  /\ at["live"][t] \in {ledger[t], Absent}
  /\ rebuild.step = "write" =>
       IF t \in rebuild.crossed THEN at["live"][t] = ledger[t]
       ELSE rebuild.states[t] = ledger[t]

\* A sync left from before a rebuild is of an engine that went with the index.
Left ==
  /\ at["live"] = Empty /\ rebuild.crossed = {}
  /\ rebuild.step = "write" /\ sync.claimed =>
       rebuild.states[sync.topic] = ledger[sync.topic]

Rewriting ==
  Rebuilding =>
    /\ \A t \in Topics : Done(t) => Ready(t)
    /\ sync.step # "idle" /\ place[sync.engine] # "live" => Left

\* What an index that is not astray keeps, beside.
Faithful ==
  /\ InPlace /\ Syncing /\ Rewriting
  /\ \A t \in Topics : Done(t) => Right(t)

ServingInv ==
  /\ TypeOK /\ Slots /\ Alone /\ Exclusion /\ OnDisk
  /\ astray \/ Faithful

(***************************************************************************)
(* A rebuild ends, whatever it waits for: the exclusion of a reshape, and  *)
(* the engine of a rebuild that failed, are let go of without the slot it  *)
(* holds meanwhile.                                                        *)
(***************************************************************************)
RebuildsEnd == rebuild.step = "wait" ~> rebuild.step = "idle"
=============================================================================
