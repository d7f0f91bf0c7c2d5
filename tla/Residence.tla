----------------------------- MODULE Residence -------------------------------
(***************************************************************************)
(* The projects a server holds open: the registry of their engines         *)
(* (crates/cli/src/registry.rs), the session around it (session.rs) and    *)
(* the upkeep loop that works through what they owe (CatchingUp of         *)
(* server.rs).  Every step is what happens between two awaits, or under    *)
(* one lock.  What is in an index is Serving's, what a round does is       *)
(* Cascade's.                                                              *)
(*                                                                         *)
(* Time passes in ticks of the upkeep.  A slot is known by what holds it:  *)
(* it is one for as long as anybody does.                                  *)
(***************************************************************************)
EXTENDS Integers, FiniteSets, FiniteSetsExt, SequencesExt

CONSTANTS
  Projects,     \* 1 .. n, in the order of their names
  Broken,       \* the projects whose index does not open at first
  Callers,
  Calls,        \* [Callers -> SUBSET {"use", "name", "purge"}]: what each asks
  Loop,
  Nobody,
  Capacity,     \* OPEN_INDEXES
  IdleTicks,    \* the idle window
  ReopenAfter,  \* REOPEN_AFTER
  MaxRequests,  \* requests in a behaviour
  MaxOwed       \* rounds a project owes at most

ASSUME ResidenceAssumption ==
  /\ IsFiniteSet(Projects) /\ Projects = 1 .. Cardinality(Projects)
  /\ IsFiniteSet(Callers) /\ Callers \cap Projects = {}
  /\ Loop \notin Callers \cup Projects /\ Nobody \notin Callers \cup Projects \cup {Loop}
  /\ \A c \in Callers : Calls[c] \subseteq {"use", "name", "purge"}
  /\ Capacity \in Nat \ {0} /\ IdleTicks \in Nat /\ ReopenAfter \in Nat

\* Whoever is on the way into an engine: a request, the warming of a project, or
\* the upkeep.
Actors == Callers \cup Projects \cup {Loop}
Slots == 1 .. Cardinality(Projects) + 1
NoSlot == 0
NoId == 0

NoEngine == [id |-> 0, project |-> 0, row |-> NoId]
EmptySlot == [lock |-> Nobody, engine |-> NoEngine]
Out == [step |-> "out", kind |-> "use", project |-> 0, slot |-> NoSlot, engine |-> NoEngine,
        row |-> NoId]

VARIABLES
  uses,      \* Registry.slots: the projects with a place, least recently used first
  slotOf,    \* [Projects -> Slots \cup {NoSlot}]
  slots,     \* [Slots -> [lock : Actors \cup {Nobody}, engine : ...]]
  age,       \* [Projects -> 0 .. IdleTicks]: ticks since it was last used
  actor,     \* [Actors -> ...]: how far each has come, and the Arcs it holds
  rows,      \* [Projects -> [there, id, owed]]: the ledger's row of each project
  dirs,      \* <<project, row>> with an index directory
  cache,     \* Session.projects
  naming,    \* who holds its lock
  tick,      \* the upkeep's tick
  refused,   \* [Projects -> 0 .. ReopenAfter]: CatchingUp.refused, ticks left
  broken,    \* the projects whose index does not open
  requests   \* requests still to come

registryVars == <<uses, slotOf, slots, age>>
residenceVars ==
  <<registryVars, actor, rows, dirs, cache, naming, tick, refused, broken, requests>>

TickOver == [step |-> "rest", todo |-> <<>>, opened |-> FALSE, spent |-> FALSE]

ResidenceInit ==
  /\ uses = <<>> /\ slotOf = [p \in Projects |-> NoSlot]
  /\ slots = [s \in Slots |-> EmptySlot] /\ age = [p \in Projects |-> 0]
  /\ actor = [a \in Actors |-> Out]
  /\ rows \in [Projects -> [there : {TRUE}, id : {1}, owed : 0 .. MaxOwed]]
  /\ dirs = {<<p, 1>> : p \in Projects}
  /\ cache = [p \in Projects |-> NoId] /\ naming = Nobody
  /\ tick = TickOver /\ refused = [p \in Projects |-> 0]
  /\ broken = Broken
  /\ requests = MaxRequests

-----------------------------------------------------------------------------
(* The registry.                                                           *)

IsOpenFor(p) == p \in ToSet(uses)       \* Registry::holds
InSlot(s) == {a \in Actors : actor[a].slot = s}
Inside(engine) == {a \in Actors : actor[a].engine = engine /\ engine # NoEngine}
Engines == {actor[a].engine : a \in Actors} \cup {slots[s].engine : s \in Slots}

\* A mutant: an entry is unused as soon as nobody waits for its slot.
SlotIsUnused(p) == InSlot(slotOf[p]) = {}

\* is_unused: nobody waits for the slot, and nobody is inside what it holds.
IsUnused(p) == InSlot(slotOf[p]) = {} /\ Inside(slots[slotOf[p]].engine) = {}

\* Those of a sequence that are in a set, in their order.
Only(order, some) ==
  LET kept[i \in 0 .. Len(order)] ==
        IF i = 0 THEN <<>>
        ELSE IF order[i] \in some THEN Append(kept[i - 1], order[i]) ELSE kept[i - 1]
  IN kept[Len(order)]

\* make_room: the least recently used of those nothing is using, while there are
\* as many as the capacity.  When everything is in use the bound gives way.
MakeRoom ==
  LET unused == Only(uses, {p \in ToSet(uses) : IsUnused(p)})
      many == IF Len(uses) < Capacity THEN 0 ELSE Len(uses) - Capacity + 1
  IN {unused[i] : i \in {i \in DOMAIN unused : i <= many}}

\* The entries of `closing` are removed, their engines closed with them.
Without(closing) ==
  [uses |-> Only(uses, Projects \ closing),
   slotOf |-> [p \in Projects |-> IF p \in closing THEN NoSlot ELSE slotOf[p]],
   slots |-> [s \in Slots |->
                IF \E p \in closing : slotOf[p] = s THEN EmptySlot ELSE slots[s]]]

Used(p, order) == Only(order, Projects \ {p}) \o <<p>>

\* slot: the project's slot, made if it has none, counted as a use.
Slot(a) ==
  LET p == actor[a].project
      kept == Without(IF IsOpenFor(p) THEN {} ELSE MakeRoom)
      slot == IF IsOpenFor(p) THEN slotOf[p]
              ELSE Min({s \in Slots : InSlot(s) = {} /\ \A q \in Projects : kept.slotOf[q] # s})
  IN /\ actor[a].step = "asked"
     /\ uses' = Used(p, kept.uses)
     /\ slotOf' = [kept.slotOf EXCEPT ![p] = slot]
     /\ slots' = kept.slots
     /\ age' = [age EXCEPT ![p] = 0]
     /\ actor' = [actor EXCEPT ![a].step = "slot", ![a].slot = slot]
     /\ UNCHANGED <<rows, dirs, cache, naming, tick, refused, broken, requests>>

\* fill, once it has the slot: what is there is taken, or it is opened.
Enter(a) ==
  LET slot == actor[a].slot
  IN /\ actor[a].step = "slot" /\ actor[a].kind = "use"
     /\ slots[slot].lock = Nobody
     /\ IF slots[slot].engine # NoEngine
          THEN /\ actor' = [actor EXCEPT ![a].step = "using", ![a].slot = NoSlot,
                                         ![a].engine = slots[slot].engine]
               /\ UNCHANGED slots
          ELSE /\ actor' = [actor EXCEPT ![a].step = "opening"]
               /\ slots' = [slots EXCEPT ![slot].lock = a]
     /\ UNCHANGED <<uses, slotOf, age, rows, dirs, cache, naming, tick, refused, broken, requests>>

\* ensure_project.
Ensured(p) ==
  IF rows[p].there THEN rows
  ELSE [rows EXCEPT ![p] = [there |-> TRUE, id |-> @.id + 1, owed |-> 0]]

\* Engine::attached, of an index that opens.
Opens(a) ==
  LET p == actor[a].project
      engine == [id |-> Min((1 .. Cardinality(Actors)) \ {e.id : e \in Engines}),
                 project |-> p, row |-> rows'[p].id]
  IN /\ actor[a].step = "opening" /\ p \notin broken
     /\ rows' = Ensured(p)
     /\ dirs' = dirs \cup {<<p, rows'[p].id>>}
     /\ slots' = [slots EXCEPT ![actor[a].slot] = [lock |-> Nobody, engine |-> engine]]
     /\ actor' = [actor EXCEPT ![a].step = "using", ![a].slot = NoSlot, ![a].engine = engine]
     /\ UNCHANGED <<uses, slotOf, age, cache, naming, tick, refused, broken, requests>>

\* And of one that does not: the slot stays, empty.
Refuses(a) ==
  LET p == actor[a].project
  IN /\ actor[a].step = "opening" /\ p \in broken
     /\ rows' = Ensured(p)
     /\ slots' = [slots EXCEPT ![actor[a].slot].lock = Nobody]
     /\ actor' = [actor EXCEPT ![a] = Out]
     /\ UNCHANGED <<uses, slotOf, age, dirs, cache, naming, broken, requests>>

\* opened_counting: the engine of an entry whose slot nobody holds.
Opened(p) == IF slots[slotOf[p]].lock = Nobody THEN slots[slotOf[p]].engine ELSE NoEngine

-----------------------------------------------------------------------------
(* Requests.                                                               *)

\* A request of one of the kinds: into the engine, by way of the project's row
\* alone, or a purge.  All but a purge warm the project (Session::warm).
Asks(c, p, kind) ==
  /\ requests > 0 /\ actor[c] = Out
  /\ requests' = requests - 1
  /\ LET begun == [actor EXCEPT ![c] = [Out EXCEPT !.step = IF kind = "name" THEN "name"
                                                            ELSE "asked",
                                                   !.kind = kind, !.project = p]]
     IN actor' = IF kind # "purge" /\ ~IsOpenFor(p) /\ actor[p] = Out
                   THEN [begun EXCEPT ![p] = [Out EXCEPT !.step = "asked", !.project = p]]
                   ELSE begun
  /\ UNCHANGED <<registryVars, rows, dirs, cache, naming, tick, refused, broken>>

\* A request leaves, having deferred some work or none.
Leave(c) ==
  LET p == actor[c].project
  IN /\ c \in Callers \cup Projects /\ actor[c].step = "using"
     /\ actor' = [actor EXCEPT ![c] = Out]
     /\ \/ UNCHANGED rows
        \/ /\ c \in Callers /\ rows[p].owed < MaxOwed
           /\ rows[p].there /\ rows[p].id = actor[c].engine.row
           /\ rows' = [rows EXCEPT ![p].owed = @ + 1]
     /\ UNCHANGED <<registryVars, dirs, cache, naming, tick, refused, broken, requests>>

\* Session::project, under its lock: cached, or made sure of and then cached.
NameCached(c) ==
  /\ actor[c].step = "name" /\ naming = Nobody
  /\ cache[actor[c].project] # NoId
  /\ actor' = [actor EXCEPT ![c] = Out]
  /\ UNCHANGED <<registryVars, rows, dirs, cache, naming, tick, refused, broken, requests>>

\* A mutant: the lock is let go of for the statement.
NameEnsureUnlocked(c) ==
  LET p == actor[c].project
  IN /\ actor[c].step = "name" /\ naming = Nobody
     /\ cache[p] = NoId
     /\ rows' = Ensured(p)
     /\ actor' = [actor EXCEPT ![c].step = "named", ![c].row = rows'[p].id]
     /\ UNCHANGED <<registryVars, dirs, cache, naming, tick, refused, broken, requests>>

NameEnsure(c) ==
  LET p == actor[c].project
  IN /\ actor[c].step = "name" /\ naming = Nobody
     /\ cache[p] = NoId
     /\ naming' = c
     /\ rows' = Ensured(p)
     /\ actor' = [actor EXCEPT ![c].step = "named", ![c].row = rows'[p].id]
     /\ UNCHANGED <<registryVars, dirs, cache, tick, refused, broken, requests>>

NameInsert(c) ==
  /\ actor[c].step = "named"
  /\ cache' = [cache EXCEPT ![actor[c].project] = actor[c].row]
  /\ naming' = Nobody
  /\ actor' = [actor EXCEPT ![c] = Out]
  /\ UNCHANGED <<registryVars, rows, dirs, tick, refused, broken, requests>>

-----------------------------------------------------------------------------
(* A purge: take_then, and what it runs.                                   *)

PurgeEnter(c) ==
  LET slot == actor[c].slot
  IN /\ actor[c].step = "slot" /\ actor[c].kind = "purge"
     /\ slots[slot].lock = Nobody
     /\ slots' = [slots EXCEPT ![slot] = [lock |-> c, engine |-> NoEngine]]
     /\ actor' = [actor EXCEPT ![c].step = "waiting", ![c].engine = slots[slot].engine]
     /\ UNCHANGED <<uses, slotOf, age, rows, dirs, cache, naming, tick, refused, broken, requests>>

\* PURGE_PATIENCE runs out: the engine is put back.
PurgeGivesUp(c) ==
  LET slot == actor[c].slot
  IN /\ actor[c].step = "waiting" /\ Inside(actor[c].engine) # {c}
     /\ actor[c].engine # NoEngine
     /\ slots' = [slots EXCEPT ![slot] = [lock |-> Nobody, engine |-> actor[c].engine]]
     /\ actor' = [actor EXCEPT ![c] = Out]
     /\ UNCHANGED <<uses, slotOf, age, rows, dirs, cache, naming, tick, refused, broken, requests>>

\* Nobody else is inside: the rows are deleted, in a transaction that is open yet.
PurgeDelete(c) ==
  LET p == actor[c].project
  IN /\ actor[c].step = "waiting"
     /\ Inside(actor[c].engine) \subseteq {c}
     /\ actor' = [actor EXCEPT ![c].step = "deleting", ![c].engine = NoEngine,
                               ![c].row = IF rows[p].there THEN rows[p].id ELSE NoId]
     /\ UNCHANGED <<registryVars, rows, dirs, cache, naming, tick, refused, broken, requests>>

\* The index directory goes before the commit.
PurgeRemoveDir(c) ==
  /\ actor[c].step = "deleting"
  /\ dirs' = dirs \ {<<actor[c].project, actor[c].row>>}
  /\ actor' = [actor EXCEPT ![c].step = "removed"]
  /\ UNCHANGED <<registryVars, rows, cache, naming, tick, refused, broken, requests>>

PurgeCommit(c) ==
  /\ actor[c].step = "removed"
  /\ rows' = IF actor[c].row = NoId THEN rows
             ELSE [rows EXCEPT ![actor[c].project] =
                          [there |-> FALSE, id |-> @.id, owed |-> 0]]
  /\ actor' = [actor EXCEPT ![c].step = "committed"]
  /\ UNCHANGED <<registryVars, dirs, cache, naming, tick, refused, broken, requests>>

\* The directory cannot be removed, or the commit fails: nothing is deleted but,
\* in the second case, the directory.
PurgeFails(c) ==
  /\ actor[c].step \in {"deleting", "removed"}
  /\ slots' = [slots EXCEPT ![actor[c].slot].lock = Nobody]
  /\ actor' = [actor EXCEPT ![c] = Out]
  /\ UNCHANGED <<uses, slotOf, age, rows, dirs, cache, naming, tick, refused, broken, requests>>

\* The row is forgotten once it is gone, and the slot let go of.
PurgeForget(c) ==
  /\ actor[c].step = "committed" /\ naming = Nobody
  /\ cache' = [cache EXCEPT ![actor[c].project] = NoId]
  /\ slots' = [slots EXCEPT ![actor[c].slot].lock = Nobody]
  /\ actor' = [actor EXCEPT ![c] = Out]
  /\ UNCHANGED <<uses, slotOf, age, rows, dirs, naming, tick, refused, broken, requests>>

-----------------------------------------------------------------------------
(* The upkeep's tick: owed work, a pass over what is open, the idle sweep. *)

\* No request is being answered.
NobodyAsks == \A c \in Callers : actor[c] = Out

UpkeepIs(to) == actor' = [actor EXCEPT ![Loop] = to]
Ticked(step, todo, opened, spent) ==
  tick' = [step |-> step, todo |-> todo, opened |-> opened, spent |-> spent]
OnTo(todo) == Ticked("owed", todo, tick.opened, tick.spent)

\* jobs::owing, by name, each with the row it is of.
Owing ==
  LET owing == Only([p \in Projects |-> p],
                    {p \in Projects : rows[p].there /\ rows[p].owed > 0})
  IN [i \in DOMAIN owing |-> <<owing[i], rows[owing[i]].id>>]

TickBegin ==
  /\ tick.step = "rest"
  /\ Ticked("owed", Owing, FALSE, FALSE)
  /\ refused' = [p \in Projects |-> IF refused[p] > 0 THEN refused[p] - 1 ELSE 0]
  /\ UNCHANGED <<registryVars, actor, rows, dirs, cache, naming, broken, requests>>

\* Nothing is left, or no budget.
OwedOver ==
  /\ tick.step = "owed"
  /\ tick.todo = <<>> \/ tick.spent
  /\ Ticked("pass", uses, tick.opened, tick.spent)
  /\ UNCHANGED <<registryVars, actor, rows, dirs, cache, naming, refused, broken, requests>>

Considering == tick.step = "owed" /\ tick.todo # <<>> /\ ~tick.spent /\ actor[Loop] = Out
NextOwed == Head(tick.todo)[1]

\* No index, so nothing to catch up; or closed, and not to be opened in this tick.
PassedOver ==
  /\ Considering
  /\ \/ Head(tick.todo) \notin dirs
     \/ ~IsOpenFor(NextOwed) /\ (tick.opened \/ refused[NextOwed] > 0)
  /\ OnTo(Tail(tick.todo))
  /\ UNCHANGED <<registryVars, actor, rows, dirs, cache, naming, refused, broken, requests>>

\* opened_for_work: it has a place, which this is a use of.  One that is being
\* opened, or holds nothing, waits for the next tick.
TakeOpen ==
  /\ Considering /\ Head(tick.todo) \in dirs /\ IsOpenFor(NextOwed)
  /\ uses' = Used(NextOwed, uses)
  /\ age' = [age EXCEPT ![NextOwed] = 0]
  /\ LET engine == Opened(NextOwed)
     IN IF engine = NoEngine THEN OnTo(Tail(tick.todo)) /\ UNCHANGED actor
        ELSE /\ UpkeepIs([Out EXCEPT !.step = "using", !.project = NextOwed, !.engine = engine])
             /\ Ticked("rounds", tick.todo, tick.opened, tick.spent)
  /\ UNCHANGED <<slotOf, slots, rows, dirs, cache, naming, refused, broken, requests>>

\* One closed project a tick is opened: asked for here, and then as by any request.
OpenForWork ==
  /\ Considering /\ Head(tick.todo) \in dirs
  /\ ~IsOpenFor(NextOwed) /\ ~tick.opened /\ refused[NextOwed] = 0
  /\ UpkeepIs([Out EXCEPT !.step = "asked", !.project = NextOwed])
  /\ Ticked("open", tick.todo, TRUE, tick.spent)
  /\ UNCHANGED <<registryVars, rows, dirs, cache, naming, refused, broken, requests>>

\* It is open, and that may have taken all the time there was.
OpenedForWork ==
  /\ tick.step = "open" /\ actor[Loop].step = "using"
  /\ \E spent \in BOOLEAN : Ticked("rounds", tick.todo, TRUE, spent)
  /\ UNCHANGED <<registryVars, actor, rows, dirs, cache, naming, refused, broken, requests>>

\* A mutant: what would not open is not remembered.
RefusedUnnoticed == refused

\* Opening failed.
Refusal == [refused EXCEPT ![NextOwed] = ReopenAfter]

RefusedForWork ==
  /\ tick.step = "open"
  /\ Refuses(Loop)
  /\ refused' = Refusal
  /\ \E spent \in BOOLEAN : Ticked("owed", Tail(tick.todo), TRUE, spent)

\* A round, between requests.  A round that fails is Cascade's.
OwedRound ==
  LET p == actor[Loop].project
  IN /\ tick.step = "rounds" /\ ~tick.spent /\ NobodyAsks
     /\ rows[p].owed > 0
     /\ rows' = [rows EXCEPT ![p].owed = @ - 1]
     /\ \E spent \in BOOLEAN : Ticked("rounds", tick.todo, tick.opened, spent)
     /\ UNCHANGED <<registryVars, actor, dirs, cache, naming, refused, broken, requests>>

\* A request is waited for inside the engine, for as long as the budget lasts.
WaitForQuiet ==
  /\ tick.step = "rounds" /\ ~tick.spent /\ ~NobodyAsks
  /\ Ticked("rounds", tick.todo, tick.opened, TRUE)
  /\ UNCHANGED <<registryVars, actor, rows, dirs, cache, naming, refused, broken, requests>>

RoundsOver ==
  /\ tick.step = "rounds"
  /\ tick.spent \/ (NobodyAsks /\ rows[actor[Loop].project].owed = 0)
  /\ UpkeepIs(Out)
  /\ OnTo(Tail(tick.todo))
  /\ UNCHANGED <<registryVars, rows, dirs, cache, naming, refused, broken, requests>>

\* Each open project in turn is flushed and maintained, which is not a use of it.
PassOn ==
  /\ tick.step = "pass" /\ tick.todo # <<>>
  /\ LET p == Head(tick.todo)
         engine == IF IsOpenFor(p) THEN Opened(p) ELSE NoEngine
     IN UpkeepIs(IF engine = NoEngine THEN Out
           ELSE [Out EXCEPT !.step = "using", !.project = p, !.engine = engine])
  /\ Ticked("pass", Tail(tick.todo), tick.opened, tick.spent)
  /\ UNCHANGED <<registryVars, rows, dirs, cache, naming, refused, broken, requests>>

PassOver ==
  /\ tick.step = "pass" /\ tick.todo = <<>> /\ actor[Loop] # Out
  /\ UpkeepIs(Out)
  /\ UNCHANGED <<registryVars, rows, dirs, cache, naming, tick, refused, broken, requests>>

\* close_idle.  Until the next tick everything grows older.
Sweep ==
  /\ tick.step = "pass" /\ tick.todo = <<>> /\ actor[Loop] = Out
  /\ LET closing == {p \in ToSet(uses) : age[p] = IdleTicks /\ IsUnused(p)}
         kept == Without(closing)
     IN /\ uses' = kept.uses /\ slotOf' = kept.slotOf /\ slots' = kept.slots
        /\ age' = [p \in Projects |->
                     IF ~\E i \in DOMAIN kept.uses : kept.uses[i] = p THEN 0
                     ELSE IF age[p] = IdleTicks THEN age[p] ELSE age[p] + 1]
  /\ tick' = TickOver
  /\ UNCHANGED <<actor, rows, dirs, cache, naming, refused, broken, requests>>

\* Another process lets go of an index, or a rebuild makes one that opens.
Mend(p) ==
  /\ p \in broken
  /\ broken' = broken \ {p}
  /\ UNCHANGED <<registryVars, actor, rows, dirs, cache, naming, tick, refused, requests>>

-----------------------------------------------------------------------------

IntoEngine(a) == Slot(a) \/ Enter(a) \/ Opens(a)
Goes(a) ==
  \/ IntoEngine(a)
  \/ a # Loop /\ Refuses(a) /\ UNCHANGED <<tick, refused>>
Answers(c) ==
  \/ Leave(c) \/ NameCached(c) \/ NameEnsure(c) \/ NameInsert(c)
  \/ PurgeEnter(c) \/ PurgeDelete(c) \/ PurgeRemoveDir(c) \/ PurgeCommit(c) \/ PurgeForget(c)
Ticks ==
  \/ TickBegin \/ OwedOver \/ PassedOver \/ TakeOpen \/ OpenForWork \/ OpenedForWork
  \/ RefusedForWork \/ OwedRound \/ WaitForQuiet \/ RoundsOver \/ PassOn \/ PassOver \/ Sweep

ResidenceNext ==
  \/ \E c \in Callers, p \in Projects : \E kind \in Calls[c] : Asks(c, p, kind)
  \/ \E a \in Actors : Goes(a) \/ Answers(a)
  \/ \E c \in Callers : PurgeGivesUp(c) \/ PurgeFails(c)
  \/ Ticks
  \/ \E p \in Projects : Mend(p)

\* The runtime runs every task, and tokio's locks are handed on in the order they
\* were asked for.
ResidenceFairness ==
  /\ \A a \in Actors : WF_residenceVars(Goes(a) \/ Answers(a))
  /\ WF_residenceVars(Ticks)

ResidenceSpec == ResidenceInit /\ [][ResidenceNext]_residenceVars /\ ResidenceFairness

-----------------------------------------------------------------------------
(* Properties.                                                             *)

Steps == {"out", "asked", "slot", "opening", "using", "name", "named", "waiting",
          "deleting", "removed", "committed"}
Engine == [id : 1 .. Cardinality(Actors), project : Projects, row : Nat]

ResidenceTypeOK ==
  /\ uses \in Seq(Projects) /\ slotOf \in [Projects -> Slots \cup {NoSlot}]
  /\ slots \in [Slots -> [lock : Actors \cup {Nobody}, engine : Engine \cup {NoEngine}]]
  /\ actor \in [Actors -> [step : Steps, kind : {"use", "name", "purge"},
                          project : Projects \cup {0}, slot : Slots \cup {NoSlot},
                          engine : Engine \cup {NoEngine}, row : Nat]]
  /\ rows \in [Projects -> [there : BOOLEAN, id : Nat, owed : Int]]
  /\ cache \in [Projects -> Nat] /\ naming \in Callers \cup {Nobody}
  /\ tick.step # "pass" => tick.todo \in Seq(Projects \X Nat)

\* At most one engine of a project is alive, whoever holds it: a second would find
\* the index locked and the request fail (Registry's is_unused).  And an engine is of
\* the project's present row: one purged is gone from every hand before its rows are.
OneEngineEach ==
  /\ \A e, f \in Engines \ {NoEngine} : e.project = f.project => e = f
  /\ \A e \in Engines \ {NoEngine} : rows[e.project].there /\ rows[e.project].id = e.row

\* What Session::project answers from memory is the project's row, but while a purge
\* that has committed is on its way to forget it.
CacheIsTrue ==
  \A p \in Projects :
    cache[p] # NoId =>
      \/ rows[p].there /\ rows[p].id = cache[p]
      \/ \E c \in Callers : actor[c].step = "committed" /\ actor[c].project = p

Owes(p) == rows[p].owed > 0 /\ <<p, rows[p].id>> \in dirs
Emptied(p) == IsOpenFor(p) /\ slots[slotOf[p]] = EmptySlot /\ InSlot(slotOf[p]) = {}

\* What a project owes is paid, though another before it never opens, requests come
\* and go and there is room for fewer than all (CatchingUp's three rules): unless
\* its index does not open, or it keeps a place with nothing in it.
NothingStarves ==
  \A p \in Projects :
    (Owes(p) /\ p \notin broken)
      ~> (~Owes(p) \/ Emptied(p))

\* A project that would not open is left alone for a while (REOPEN_AFTER), and tried
\* again: once it opens, what it owes is paid.
RefusedForAWhile ==
  \A p \in Projects : (Owes(p) /\ p \notin broken) ~> ~Owes(p)

-----------------------------------------------------------------------------
(* What they rest on.                                                      *)

\* An actor that waits for a slot or works on one, and one that has its lock.
Working(a) == actor[a].step \in {"opening", "waiting", "deleting", "removed", "committed"}
Waits(a) == actor[a].step = "slot" \/ Working(a)

\* A project has a place or none, of its own, and keeps it while anyone waits for it.
PlacesAreKept ==
  /\ \A p \in Projects : (slotOf[p] # NoSlot) <=> IsOpenFor(p)
  /\ \A p, q \in Projects : slotOf[p] = slotOf[q] /\ slotOf[p] # NoSlot => p = q
  /\ \A a \in Actors :
       /\ actor[a].step # "out" => actor[a].project \in Projects
       /\ IF Waits(a) THEN slotOf[actor[a].project] = actor[a].slot /\ actor[a].slot # NoSlot
          ELSE actor[a].slot = NoSlot
       /\ actor[a].kind # "use" \/ actor[a].step \in {"name", "named"} => a \in Callers
       /\ Working(a) => actor[a].step = "opening" \/ actor[a].kind = "purge"

\* Whoever works on a slot has its lock, and there is nothing in it meanwhile.
LocksAreHeld ==
  /\ \A a \in Actors : Working(a) => slots[actor[a].slot].lock = a
  /\ \A s \in Slots :
       LET a == slots[s].lock
       IN a # Nobody => Working(a) /\ actor[a].slot = s /\ slots[s].engine = NoEngine

\* The engine of a project with a place: the slot's, or what a purge took out of it.
EngineOf(p) ==
  LET slot == slots[slotOf[p]]
  IN IF slot.lock = Nobody THEN slot.engine ELSE actor[slot.lock].engine

EnginesAreHeld ==
  /\ \A s \in Slots : slots[s].engine # NoEngine => slotOf[slots[s].engine.project] = s
  /\ \A a \in Actors :
       LET engine == actor[a].engine
       IN engine # NoEngine =>
            /\ actor[a].step \in {"using", "waiting"}
            /\ engine.project = actor[a].project
            /\ slotOf[engine.project] # NoSlot /\ EngineOf(engine.project) = engine

Committed(p) == \E c \in Callers : actor[c].step = "committed" /\ actor[c].project = p

\* Whoever names a project holds the lock until what it was told is cached.
NamesAreTrue ==
  /\ \A c \in Callers : actor[c].step = "named" => naming = c
  /\ \A c \in Callers :
       actor[c].step = "named" =>
         LET p == actor[c].project
         IN (rows[p].there /\ rows[p].id = actor[c].row) \/ Committed(p)

\* Outside of opening an index the upkeep waits for no slot; and what it has opened or
\* works in is the first of what is left.
LoopIsFree ==
  /\ tick.step # "open" => actor[Loop].step \in {"out", "using"}
  /\ tick.step \in {"open", "rounds"} => tick.todo # <<>>

ResidenceInv ==
  /\ ResidenceTypeOK /\ PlacesAreKept /\ LocksAreHeld /\ EnginesAreHeld /\ OneEngineEach
  /\ NamesAreTrue /\ CacheIsTrue /\ LoopIsFree

=============================================================================
