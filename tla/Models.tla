-------------------------------- MODULE Models --------------------------------
(***************************************************************************)
(* The models a process has loaded: Models of crates/engine/src/engine.rs, *)
(* the embedder each engine keeps once it has asked for it, the loads a    *)
(* search or a session starts ahead of their need, and the upkeep's sweep  *)
(* (close_what_is_idle, crates/cli/src/session.rs).                        *)
(*                                                                         *)
(* A copy is the weights in memory, as many as a gigabyte and a half of    *)
(* them.  The kinds are the embedder, the reranker and the embedder's      *)
(* tokenizer alone, which is kept.                                         *)
(***************************************************************************)
EXTENDS Integers, FiniteSets

CONSTANTS
  Users,      \* what asks for a model: requests, rounds, preloads, warm-ups
  Engines,    \* the projects' engines
  NoEngine,
  Weights,
  NoCopy,
  NoUser

ASSUME ModelsAssumption == NoCopy \notin Weights /\ NoUser \notin Users /\ NoEngine \notin Engines

VARIABLES
  resident,   \* the registry's copy of each kind
  loading,    \* who holds the registry's lock of each kind, which is held across a load
  stale,      \* the kinds nobody was handed for Settings::model_idle
  cell,       \* the embedder each engine keeps
  user,       \* what each has asked for, and what it holds
  sweep       \* what the sweep comes to next

modelsVars == <<resident, loading, stale, cell, user, sweep>>

Kind == {"embedder", "reranker", "tokens"}
Released == Kind \ {"tokens"}

Out == [at |-> "out", kind |-> "embedder", engine |-> NoEngine, loads |-> FALSE,
        copy |-> NoCopy]

ModelsInit ==
  /\ resident = [k \in Kind |-> NoCopy] /\ loading = [k \in Kind |-> NoUser]
  /\ stale = {} /\ cell = [e \in Engines |-> NoCopy]
  /\ user = [u \in Users |-> Out] /\ sweep = "engines"

-----------------------------------------------------------------------------

Is(u, phase) == user[u].at = phase
User(u, with) == user' = [user EXCEPT ![u] = with]

CellsOf(kind) == IF kind = "embedder" THEN {cell[e] : e \in Engines} ELSE {}
HeldBy(kind) == {user[u].copy : u \in {v \in Users : user[v].kind = kind}}

\* The copies of a kind there are in memory, one still being loaded among them.
InMemory(kind) == ({resident[kind]} \cup CellsOf(kind) \cup HeldBy(kind)) \ {NoCopy}

Free(kind) == loading[kind] = NoUser

-----------------------------------------------------------------------------
(* Asking for a model.                                                     *)

\* Embedding goes through the engine, and finds what the engine keeps.  `loads` is FALSE
\* of counted, passes, scores and reranker_plans, which never load.
Wants(u, kind, engine, loads) ==
  LET kept == IF engine = NoEngine THEN NoCopy ELSE cell[engine]
  IN /\ Is(u, "out")
     /\ engine # NoEngine => kind = "embedder" /\ loads
     /\ ~loads => kind = "reranker"
     /\ User(u, [at |-> IF kept = NoCopy THEN "waiting" ELSE "using", kind |-> kind,
                 engine |-> engine, loads |-> loads, copy |-> kept])
     /\ UNCHANGED <<resident, loading, stale, cell, sweep>>

\* It is resident: handed out, and stamped by those who would have loaded it.
IsHanded(u) ==
  LET kind == user[u].kind
  IN /\ Is(u, "waiting") /\ Free(kind) /\ resident[kind] # NoCopy
     /\ User(u, [user[u] EXCEPT !.at = "handed", !.copy = resident[kind]])
     /\ stale' = IF user[u].loads THEN stale \ {kind} ELSE stale
     /\ UNCHANGED <<resident, loading, cell, sweep>>

\* reranker_plans does not wait for the lock, either.
FindsNone(u) ==
  /\ Is(u, "waiting") /\ ~user[u].loads
  /\ Free(user[u].kind) => resident[user[u].kind] = NoCopy
  /\ User(u, Out)
  /\ UNCHANGED <<resident, loading, stale, cell, sweep>>

BeginsToLoad(u) ==
  LET kind == user[u].kind
  IN /\ Is(u, "waiting") /\ user[u].loads
     /\ Free(kind) /\ resident[kind] = NoCopy
     /\ loading' = [loading EXCEPT ![kind] = u]
     /\ \E c \in Weights \ UNION {InMemory(k) : k \in Kind} :
          User(u, [user[u] EXCEPT !.at = "loading", !.copy = c])
     /\ UNCHANGED <<resident, stale, cell, sweep>>

HasLoaded(u) ==
  LET kind == user[u].kind
  IN /\ Is(u, "loading")
     /\ resident' = [resident EXCEPT ![kind] = user[u].copy]
     /\ loading' = [loading EXCEPT ![kind] = NoUser]
     /\ stale' = stale \ {kind}
     /\ User(u, [user[u] EXCEPT !.at = "handed"])
     /\ UNCHANGED <<cell, sweep>>

LoadFails(u) ==
  /\ Is(u, "loading")
  /\ loading' = [loading EXCEPT ![user[u].kind] = NoUser]
  /\ User(u, Out)
  /\ UNCHANGED <<resident, stale, cell, sweep>>

\* The engine keeps the first it is given, and a loser of the race drops its own.
Keeps(u) ==
  LET e == user[u].engine
  IN /\ Is(u, "handed")
     /\ cell' = IF e = NoEngine \/ cell[e] # NoCopy THEN cell
                ELSE [cell EXCEPT ![e] = user[u].copy]
     /\ User(u, [user[u] EXCEPT !.at = "using",
                                !.copy = IF e = NoEngine THEN @ ELSE cell'[e]])
     /\ UNCHANGED <<resident, loading, stale, sweep>>

IsDone(u) ==
  /\ Is(u, "using")
  /\ User(u, Out)
  /\ UNCHANGED <<resident, loading, stale, cell, sweep>>

-----------------------------------------------------------------------------
(* Giving back.                                                            *)

TimeGoesBy(kind) ==
  /\ stale' = stale \cup {kind}
  /\ UNCHANGED <<resident, loading, cell, user, sweep>>

\* Engines nobody has: those idle, or evicted by the bound on open indexes.
Unused == Engines \ {user[u].engine : u \in Users}

CloseIdle ==
  /\ sweep = "engines" /\ sweep' = "embedder"
  /\ \E closed \in SUBSET Unused :
       cell' = [e \in Engines |-> IF e \in closed THEN NoCopy ELSE cell[e]]
  /\ UNCHANGED <<resident, loading, stale, user>>

Evict(e) ==
  /\ e \in Unused
  /\ cell' = [cell EXCEPT ![e] = NoCopy]
  /\ UNCHANGED <<resident, loading, stale, user, sweep>>

\* A mutant: the window alone decides.
NobodyAsked(kind) == kind \in stale

\* Arc::strong_count is one, and the window has passed.
NobodyHas(kind) == resident[kind] \notin CellsOf(kind) \cup HeldBy(kind)
IsIdle(kind) == resident[kind] # NoCopy /\ kind \in stale /\ NobodyHas(kind)

\* try_lock: a model being loaded is passed over.
ReleaseIdle(kind) ==
  /\ sweep = kind /\ kind \in Released
  /\ sweep' = IF kind = "embedder" THEN "reranker" ELSE "engines"
  /\ resident' = IF Free(kind) /\ IsIdle(kind) THEN [resident EXCEPT ![kind] = NoCopy]
                 ELSE resident
  /\ UNCHANGED <<loading, stale, cell, user>>

-----------------------------------------------------------------------------

Uses(u) ==
  \/ \E kind \in Kind, engine \in Engines \cup {NoEngine}, loads \in BOOLEAN :
       Wants(u, kind, engine, loads)
  \/ IsHanded(u) \/ FindsNone(u) \/ BeginsToLoad(u) \/ HasLoaded(u) \/ LoadFails(u)
  \/ Keeps(u) \/ IsDone(u)

ModelsNext ==
  \/ \E u \in Users : Uses(u)
  \/ \E kind \in Kind : TimeGoesBy(kind) \/ ReleaseIdle(kind)
  \/ CloseIdle \/ \E e \in Engines : Evict(e)

ModelsSpec == ModelsInit /\ [][ModelsNext]_modelsVars

-----------------------------------------------------------------------------

\* The weights are in memory once, whoever loads, keeps or gives back meanwhile
\* (crates/engine/src/engine.rs:496-502, 565-570, 787-792, 1218-1221).
OneCopy == \A kind \in Kind : Cardinality(InMemory(kind)) <= 1

-----------------------------------------------------------------------------
(* What it rests on.                                                       *)

UserAt == {"out", "waiting", "handed", "loading", "using"}

ModelsTypeOK ==
  /\ resident \in [Kind -> Weights \cup {NoCopy}] /\ loading \in [Kind -> Users \cup {NoUser}]
  /\ stale \subseteq Kind /\ cell \in [Engines -> Weights \cup {NoCopy}]
  /\ user \in [Users -> [at : UserAt, kind : Kind, engine : Engines \cup {NoEngine},
                         loads : BOOLEAN, copy : Weights \cup {NoCopy}]]
  /\ sweep \in {"engines"} \cup Released

\* The lock of a kind is held by whoever loads it, and there is none of it meanwhile.
LoadsHoldTheLock ==
  /\ \A u \in Users : Is(u, "loading") => loading[user[u].kind] = u
  /\ \A kind \in Kind : ~Free(kind) =>
       /\ Is(loading[kind], "loading") /\ user[loading[kind]].kind = kind
       /\ resident[kind] = NoCopy

\* What engines keep and what is in hand is what is resident, but for a load's own.
HeldIsResident ==
  /\ \A e \in Engines : cell[e] # NoCopy => cell[e] = resident["embedder"]
  /\ \A u \in Users : user[u].copy # NoCopy /\ ~Is(u, "loading") =>
       user[u].copy = resident[user[u].kind]

\* An engine is asked for the embedder alone.
EnginesEmbed == \A u \in Users : user[u].engine # NoEngine => user[u].kind = "embedder"

ModelsInv == ModelsTypeOK /\ LoadsHoldTheLock /\ HeldIsResident /\ EnginesEmbed
=============================================================================
