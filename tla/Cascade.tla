------------------------------- MODULE Cascade ------------------------------
(***************************************************************************)
(* What a write owes the projection, and the drains, the upkeep loop and   *)
(* the failures that pay it: crates/engine/src/cascade.rs over the outbox, *)
(* and the index writes of crates/engine/src/engine.rs.                    *)
(*                                                                         *)
(* The ledger says what each topic's document should be and the outbox     *)
(* what is owed; both are PostgreSQL's and commit together.  `buffer` is   *)
(* the document the index reads back for each topic, buffered writes       *)
(* included, and `dirty` the topics whose document differs, or may, from   *)
(* what the last flush left on disk: what a power loss can take.           *)
(*                                                                         *)
(* Drains run concurrently in one process, over one engine.  Each is a     *)
(* sequence of steps that touch shared state once: a statement, a lock     *)
(* taken, a document written, a flush.  Between any two of them another    *)
(* drain, a write, or a crash can come.                                    *)
(***************************************************************************)
EXTENDS Outbox

CONSTANTS
  Contents,            \* what a topic can say: its text, and the name over it
  Gone,                \* a topic that resolves to no state, or no document
  Torn,                \* a document some of whose spans are of another write
  Drains,              \* the requests that drain: write, import, cascade drain
  Owed,                \* the drains they ask for, out of the source's two
  Upkeep,              \* the server's upkeep loop, if there is a server
  NoOne,               \* nobody holds the lock
  AwaitingDurability   \* AWAITING_DURABILITY, 128 in the source

Agents == Drains \cup Upkeep
Says == Contents \cup {Gone}
Document == Says \cup {Torn}

ASSUME CascadeAssumption ==
  /\ Gone \notin Contents /\ Torn \notin Says
  /\ Owed \subseteq {"Everything", "WhatAMemoryNeeds"}
  /\ Drains \cap Upkeep = {}
  /\ NoOne \notin Agents
  /\ AwaitingDurability \in Nat \ {0}

VARIABLES
  ledger,     \* [Topics -> Says]: what each topic currently says
  queue,      \* the outbox
  abandoned,  \* the work `discard` dropped and nothing has asked for since
  buffer,     \* [Topics -> Document]
  dirty,      \* SUBSET Topics
  opened,     \* whether the project's engine is open
  unflushed,  \* Engine::unflushed: jobs applied, their claims kept
  syncing,    \* Engine::syncing: who holds it
  agent       \* where each drain, and the upkeep loop, has got to

vars == <<ledger, queue, abandoned, buffer, dirty, opened, unflushed, syncing,
          agent>>

indexVars == <<buffer, dirty>>
engineVars == <<opened, unflushed, syncing>>

SyncOf(t) == [kind |-> "Sync", topic |-> t]
DeriveOf(t) == [kind |-> "Derive", topic |-> t]
BackfillOf(t) == [kind |-> "Backfill", topic |-> t]
OptimizeIndex == [kind |-> "Optimize", topic |-> Project]

SyncJob == {job \in Job : job.key.kind = "Sync"}

\* Owed, and what the upkeep loop does besides: a drain that stops when a
\* request comes, and maintenance.
Modes == {"Everything", "WhatAMemoryNeeds", "CatchUp", "Maintain"}

Phases == {"idle", "ask", "sync", "apply", "settle", "reads", "record",
           "tidy", "poll", "count", "report",
           "take", "flush", "recordFlush", "wasteful", "maintain"}

\* Where flush_what_is_applied returns to.
Returns == {"idle", "ask", "tidy", "maintain"}

\* How many jobs can be counted as applied.
Counts == {Cardinality(jobs) : jobs \in SUBSET SyncJob}

\* A drain's local state.  `syncs` and `reads` are the jobs of its round still
\* to run, `applied` the writes the index has and no flush covers, `done` and
\* `failed` the outcomes still to record, `seen` the states the round read.
\* `after` is where a flush returns to.  `counted` is the first of the two
\* numbers a drain reports and `missing` what a search misses at that moment,
\* which only a property reads.
Agent == [phase : Phases, mode : Modes,
          syncs : SUBSET SyncJob, reads : SUBSET (Job \ SyncJob),
          applied : SUBSET SyncJob, done : SUBSET Job, failed : SUBSET Job,
          seen : [Topics -> Says], completed : BOOLEAN, tidied : BOOLEAN,
          after : Returns, counted : Counts,
          missing : SUBSET Topics]

Unread == [t \in Topics |-> Gone]

Idle == [phase |-> "idle", mode |-> "CatchUp", syncs |-> {}, reads |-> {},
         applied |-> {}, done |-> {}, failed |-> {}, seen |-> Unread,
         completed |-> FALSE, tidied |-> FALSE, after |-> "idle",
         counted |-> 0, missing |-> {}]

TypeOK ==
  /\ ledger \in [Topics -> Says]
  /\ queue \in [Key -> Row \cup {NoRow}]
  /\ abandoned \subseteq Key
  /\ buffer \in [Topics -> Document]
  /\ dirty \subseteq Topics
  /\ opened \in BOOLEAN
  /\ unflushed \subseteq SyncJob
  /\ syncing \in Agents \cup {NoOne}
  /\ agent \in [Agents -> Agent]

\* The kinds a drain of this mode claims.
KindsOf(mode) ==
  CASE mode = "Everything" -> Kinds
    [] mode = "Maintain" -> Kinds \cap Maintenance
    [] OTHER -> Kinds \cap Urgent

Due(mode) ==
  {k \in Key : k.kind \in KindsOf(mode) /\ Claimable(queue[k])}

CopiesOf(a) == agent[a].syncs \cup agent[a].reads \cup agent[a].applied
                 \cup agent[a].done \cup agent[a].failed

\* Every copy of a job an attempt still has.
Copies == unflushed \cup UNION {CopiesOf(a) : a \in Agents}

\* `Session::is_quiet`, of the requests modelled here.
Quiet == \A d \in Drains : agent[d].phase = "idle"

At(a, phase) == agent[a].phase = phase

Goto(a, phase) == agent' = [agent EXCEPT ![a].phase = phase]

Finish(a) == agent' = [agent EXCEPT ![a] = Idle]

\* At flush_what_is_applied, which returns to `after`.
Flushing(after) == [Idle EXCEPT !.phase = "take", !.after = after]

\* Back from it: in the middle of a drain, or at the end of one.
Back(local) ==
  IF local.after \in {"idle", "maintain"}
  THEN [Idle EXCEPT !.phase = local.after]
  ELSE [local EXCEPT !.phase = local.after, !.after = "idle"]

Init ==
  /\ ledger = [t \in Topics |-> Gone]
  /\ queue = [k \in Key |-> NoRow]
  /\ abandoned = {}
  /\ buffer = [t \in Topics |-> Gone]
  /\ dirty = {}
  /\ opened = FALSE
  /\ unflushed = {}
  /\ syncing = NoOne
  /\ agent = [a \in Agents |-> Idle]

-----------------------------------------------------------------------------
(* The ledger: transactions that change what a topic says and queue what   *)
(* they owe, together.                                                     *)

\* Queues work, of the kinds in play.
Request(keys) ==
  LET asked == keys \cap Key
  IN  /\ CanEnqueue(queue, asked, Copies)
      /\ queue' = Enqueue(queue, asked, Copies)
      /\ abandoned' = abandoned \ asked

\* A promoted write.  A topic nobody has named before owes a backfill as well,
\* whether this write creates it or finds it created by an ingest.
WriteMemory(t, c) ==
  /\ ledger' = [ledger EXCEPT ![t] = c]
  /\ \E named \in {{}, {BackfillOf(t)}} :
       Request({SyncOf(t), DeriveOf(t)} \cup named)
  /\ UNCHANGED <<indexVars, engineVars, agent>>

\* A section whose file no longer has it, while something survives under it.
RetireTopic(t) ==
  /\ ledger[t] # Gone
  /\ ledger' = [ledger EXCEPT ![t] = Gone]
  /\ Request({SyncOf(t), DeriveOf(t)})
  /\ UNCHANGED <<indexVars, engineVars, agent>>

\* A section under another name: its document carries the name.
RenameTopic(t, c) ==
  /\ ledger[t] # Gone /\ ledger[t] # c
  /\ ledger' = [ledger EXCEPT ![t] = c]
  /\ Request({SyncOf(t)})
  /\ UNCHANGED <<indexVars, engineVars, agent>>

\* `cascade replay` and `cascade discard`.
ReplayExhausted ==
  /\ Exhausted(queue) # {}
  /\ queue' = Replay(queue)
  /\ UNCHANGED <<ledger, abandoned, indexVars, engineVars, agent>>

DiscardExhausted ==
  /\ Exhausted(queue) # {}
  /\ queue' = Discard(queue)
  /\ abandoned' = abandoned \cup Exhausted(queue)
  /\ UNCHANGED <<ledger, indexVars, engineVars, agent>>

\* A lease runs out, or the hour before a retry.
TimePasses(k) ==
  /\ queue[k] # NoRow /\ ~queue[k].due
  /\ queue' = FallDue(queue, k)
  /\ UNCHANGED <<ledger, abandoned, indexVars, engineVars, agent>>

-----------------------------------------------------------------------------
(* A round of drain_cascade_while.                                         *)

\* A request opens the engine if nothing has, and drains.
Start(d, mode) ==
  /\ At(d, "idle")
  /\ agent' = [agent EXCEPT ![d] = [Idle EXCEPT !.phase = "ask", !.mode = mode]]
  /\ opened' = TRUE
  /\ UNCHANGED <<ledger, queue, abandoned, indexVars, unflushed, syncing>>

\* What comes after the writes of a round, and after its reads.
AfterWrites(a) == IF agent[a].reads = {} THEN "record" ELSE "reads"

\* Takes some of the jobs that are due.  Any of them: the statement takes them
\* by priority but skips a row another transaction has locked.
ClaimJobs(a) ==
  /\ At(a, "ask")
  /\ agent[a].mode = "CatchUp" => Quiet
  /\ \E keys \in SUBSET Due(agent[a].mode) :
       /\ keys # {} /\ Cardinality(keys) <= Batch
       /\ LET used == ClaimsOf(Copies, keys)
              jobs == Claimed(queue, keys, Fresh(used))
              syncs == jobs \cap SyncJob
          IN  /\ Tokens \ used # {}
              /\ queue' = Claim(queue, keys, Fresh(used))
              /\ agent' = [agent EXCEPT
                   ![a].phase = IF syncs = {} THEN "reads" ELSE "sync",
                   ![a].syncs = syncs,
                   ![a].reads = jobs \ syncs]
  /\ UNCHANGED <<ledger, abandoned, indexVars, engineVars>>

\* How a drain with nothing left to claim goes on.
AfterTidying(a) ==
  CASE agent[a].mode = "Everything" -> [agent[a] EXCEPT !.phase = "poll"]
    [] agent[a].mode = "CatchUp" -> Flushing("maintain")
    [] OTHER -> [agent[a] EXCEPT !.phase = "count"]

\* Whether a drain with nothing left to claim asks if the index wants a tidy-up.
AsksToTidy(a) ==
  /\ agent[a].completed /\ ~agent[a].tidied
  /\ OptimizeIndex \in Key

\* Finds nothing to take, or every row locked.  A drain owing everything
\* flushes what others applied before it decides whether it is finished.
ClaimNothing(a) ==
  /\ At(a, "ask")
  /\ agent' = [agent EXCEPT
       ![a] = CASE @.mode = "Everything" -> [@ EXCEPT !.phase = "take",
                                                      !.after = "tidy"]
                [] @.mode # "Everything" /\ AsksToTidy(a) ->
                     [@ EXCEPT !.phase = "tidy"]
                [] OTHER -> AfterTidying(a)]
  /\ UNCHANGED <<ledger, queue, abandoned, indexVars, engineVars>>

\* Catching up stops between rounds: a request came, or its time is spent.
StopCatchingUp(u) ==
  /\ At(u, "ask") /\ agent[u].mode = "CatchUp"
  /\ agent' = [agent EXCEPT ![u] = Flushing("maintain")]
  /\ UNCHANGED <<ledger, queue, abandoned, indexVars, engineVars>>

\* Mutant: a round that does not wait for the lock.
ReadLedgerUnlocked(a) ==
  /\ At(a, "sync")
  /\ syncing' = a
  /\ agent' = [agent EXCEPT ![a].phase = "apply", ![a].seen = ledger]
  /\ UNCHANGED <<ledger, queue, abandoned, indexVars, opened, unflushed>>

\* `sync_indexes` takes the lock and reads the states it owes.
ReadLedger(a) ==
  /\ At(a, "sync") /\ syncing = NoOne
  /\ syncing' = a
  /\ agent' = [agent EXCEPT ![a].phase = "apply", ![a].seen = ledger]
  /\ UNCHANGED <<ledger, queue, abandoned, indexVars, opened, unflushed>>

\* The read fails for all of them.
ReadLedgerFails(a) ==
  /\ At(a, "sync") /\ syncing = NoOne
  /\ agent' = [agent EXCEPT ![a].phase = "settle",
                            ![a].failed = agent[a].syncs, ![a].syncs = {}]
  /\ UNCHANGED <<ledger, queue, abandoned, indexVars, engineVars>>

\* The last write of the round gives the lock up.
AfterWriting(a, job, outcome) ==
  LET left == agent[a].syncs \ {job}
  IN  /\ syncing' = IF left = {} THEN NoOne ELSE a
      /\ agent' = [agent EXCEPT
           ![a] = [outcome EXCEPT
                     !.syncs = left,
                     !.phase = IF left = {} THEN "settle" ELSE "apply",
                     !.seen = IF left = {} THEN Unread ELSE @]]

\* What this round read of the job's topic.
Reading(a, job) == agent[a].seen[job.key.topic]

Write(t, document) ==
  /\ buffer' = [buffer EXCEPT ![t] = document]
  /\ dirty' = IF buffer[t] = document THEN dirty ELSE dirty \cup {t}

\* Writes or deletes one topic's document, or finds the index holds it already.
ApplyOne(a, job) ==
  /\ At(a, "apply") /\ job \in agent[a].syncs
  /\ Write(job.key.topic, Reading(a, job))
  /\ AfterWriting(a, job, [agent[a] EXCEPT !.applied = @ \cup {job}])
  /\ UNCHANGED <<ledger, queue, abandoned, opened, unflushed>>

\* Mutant: a batch that failed half way taken for one that was written.
ApplyOneFailsUnnoticed(a, job) ==
  /\ At(a, "apply") /\ job \in agent[a].syncs
  /\ UNCHANGED indexVars
  /\ AfterWriting(a, job, [agent[a] EXCEPT !.applied = @ \cup {job}])
  /\ UNCHANGED <<ledger, queue, abandoned, opened, unflushed>>

\* A topic that could not be written, before or after some of its spans were,
\* or after all of them: a batch that fails is tried again topic by topic.
ApplyOneFails(a, job) ==
  /\ At(a, "apply") /\ job \in agent[a].syncs
  /\ \E document \in {buffer[job.key.topic], Reading(a, job), Torn} :
       /\ buffer[job.key.topic] = Reading(a, job) => document # Torn
       /\ Write(job.key.topic, document)
  /\ AfterWriting(a, job, [agent[a] EXCEPT !.failed = @ \cup {job}])
  /\ UNCHANGED <<ledger, queue, abandoned, opened, unflushed>>

\* With the server behind it a drain leaves its writes applied and their claims
\* held; a drain owing everything flushes and records them.
Settle(a) ==
  /\ At(a, "settle")
  /\ IF agent[a].mode = "Everything"
     THEN /\ dirty' = IF agent[a].applied = {} THEN dirty ELSE {}
          /\ agent' = [agent EXCEPT ![a].phase = AfterWrites(a),
                                    ![a].done = agent[a].applied,
                                    ![a].applied = {}]
          /\ UNCHANGED unflushed
     ELSE /\ unflushed' = unflushed \cup agent[a].applied
          /\ agent' = [agent EXCEPT ![a].phase = AfterWrites(a),
                                    ![a].applied = {}]
          /\ UNCHANGED dirty
  /\ UNCHANGED <<ledger, queue, abandoned, buffer, opened, syncing>>

\* Deriving, backfilling and compacting, each job with its own outcome.
RunReads(a) ==
  /\ At(a, "reads")
  /\ \E failing \in SUBSET agent[a].reads :
       agent' = [agent EXCEPT ![a].phase = "record",
                              ![a].failed = @ \cup failing,
                              ![a].done = @ \cup (agent[a].reads \ failing),
                              ![a].reads = {}]
  /\ UNCHANGED <<ledger, queue, abandoned, indexVars, engineVars>>

RecordFailure(a, job) ==
  /\ At(a, "record") /\ job \in agent[a].failed
  /\ queue' = Fail(queue, job)
  /\ agent' = [agent EXCEPT ![a].failed = @ \ {job}]
  /\ UNCHANGED <<ledger, abandoned, indexVars, engineVars>>

\* Records the round's completions, then flushes for everybody if too many
\* claims wait for it.
RecordDone(a) ==
  /\ At(a, "record") /\ agent[a].failed = {}
  /\ queue' = Complete(queue, agent[a].done)
  /\ LET full == Cardinality(unflushed) >= AwaitingDurability
         recorded == [agent[a] EXCEPT
                        !.phase = IF full THEN "take" ELSE "ask",
                        !.after = IF full THEN "ask" ELSE @,
                        !.completed = @ \/ queue' # queue,
                        !.done = {}]
     IN  agent' = [agent EXCEPT
           ![a] = IF agent[a].mode = "Maintain" THEN Idle ELSE recorded]
  /\ UNCHANGED <<ledger, abandoned, indexVars, engineVars>>

-----------------------------------------------------------------------------
(* flush_what_is_applied, and how a drain ends.                            *)

\* Takes the whole list, and returns at once when it is empty.
TakeApplied(a) ==
  /\ At(a, "take")
  /\ unflushed' = {}
  /\ agent' = [agent EXCEPT
       ![a] = IF unflushed = {}
              THEN Back(@)
              ELSE [@ EXCEPT !.phase = "flush", !.applied = unflushed]]
  /\ UNCHANGED <<ledger, queue, abandoned, indexVars, opened, syncing>>

\* Mutant: the claims recorded before the flush that covers them.
FlushAppliedLate(a) ==
  /\ At(a, "flush")
  /\ agent' = [agent EXCEPT ![a].phase = "recordFlush",
                            ![a].done = agent[a].applied, ![a].applied = {}]
  /\ UNCHANGED <<ledger, queue, abandoned, indexVars, engineVars>>

FlushApplied(a) ==
  /\ At(a, "flush")
  /\ dirty' = {}
  /\ agent' = [agent EXCEPT ![a].phase = "recordFlush",
                            ![a].done = agent[a].applied, ![a].applied = {}]
  /\ UNCHANGED <<ledger, queue, abandoned, buffer, engineVars>>

\* Records what the flush covered.  A drain about to end that recorded any of
\* it asks again whether to tidy.  The index may turn out wasteful.
RecordFlushed(a) ==
  /\ At(a, "recordFlush")
  /\ queue' = Complete(queue, agent[a].done)
  /\ LET recorded == [agent[a] EXCEPT
                        !.completed = @ \/ queue' # queue,
                        !.tidied = @ /\ (agent[a].after = "tidy"
                                           => queue' = queue),
                        !.done = {}]
     IN  \/ agent' = [agent EXCEPT ![a] = Back(recorded)]
         \/ /\ OptimizeIndex \in Key
            /\ agent' = [agent EXCEPT ![a] =
                 [recorded EXCEPT !.phase = "wasteful"]]
  /\ UNCHANGED <<ledger, abandoned, indexVars, engineVars>>

\* queue_compaction_if_wasteful, of an index that is.
QueueIfWasteful(a) ==
  /\ At(a, "wasteful")
  /\ Request({OptimizeIndex})
  /\ agent' = [agent EXCEPT ![a] = Back(@)]
  /\ UNCHANGED <<ledger, indexVars, engineVars>>

\* Mutant: a drain that forgets it tidied.
QueueTidyUpAgain(a) ==
  /\ At(a, "tidy")
  /\ AsksToTidy(a)
  /\ Request({OptimizeIndex})
  /\ agent' = [agent EXCEPT
       ![a] = IF @.mode = "Everything" THEN [@ EXCEPT !.phase = "ask"]
              ELSE AfterTidying(a)]
  /\ UNCHANGED <<ledger, indexVars, engineVars>>

\* A drain that wrote anything queues a tidy-up if the index wants one, once,
\* and one owing everything goes round again to run it.
QueueTidyUp(a) ==
  /\ At(a, "tidy")
  /\ AsksToTidy(a)
  /\ Request({OptimizeIndex})
  /\ agent' = [agent EXCEPT
       ![a] = IF @.mode = "Everything"
              THEN [@ EXCEPT !.phase = "ask", !.tidied = TRUE]
              ELSE AfterTidying(a)]
  /\ UNCHANGED <<ledger, indexVars, engineVars>>

NothingToTidy(a) ==
  /\ At(a, "tidy")
  /\ agent' = [agent EXCEPT ![a] = AfterTidying(a)]
  /\ UNCHANGED <<ledger, queue, abandoned, indexVars, engineVars>>

\* A drain owing everything waits for what other rounds hold.
Poll(a) ==
  /\ At(a, "poll")
  /\ Goto(a, IF AnyInFlight(queue) THEN "ask" ELSE "count")
  /\ UNCHANGED <<ledger, queue, abandoned, indexVars, engineVars>>

\* What a search misses now.
Missing == {t \in Topics : buffer[t] # ledger[t]}

\* The drain's report: what is applied first, and what is owed after.
CountApplied(a) ==
  /\ At(a, "count")
  /\ agent' = [agent EXCEPT ![a].phase = "report",
                            ![a].counted = Cardinality(unflushed),
                            ![a].missing = Missing]
  /\ UNCHANGED <<ledger, queue, abandoned, indexVars, engineVars>>

\* A request ends with its report, or, an import, with a flush.
Report(a) ==
  /\ At(a, "report")
  /\ \/ Finish(a)
     \/ /\ agent[a].mode = "WhatAMemoryNeeds"
        /\ agent' = [agent EXCEPT ![a] = Flushing("idle")]
  /\ UNCHANGED <<ledger, queue, abandoned, indexVars, engineVars>>

-----------------------------------------------------------------------------
(* The server's upkeep loop.                                               *)

\* Mutant: a tick that only looks at engines already open.
TickOpened(u) ==
  /\ At(u, "idle") /\ opened
  /\ agent' = [agent EXCEPT ![u] = IF Due("CatchUp") # {}
                                  THEN [Idle EXCEPT !.phase = "ask"]
                                  ELSE Flushing("maintain")]
  /\ UNCHANGED <<ledger, queue, abandoned, indexVars, engineVars>>

\* A tick: catch up if work is due, opening the engine only for work that has
\* never failed; then flush, then maintain.
Tick(u) ==
  LET owing == \E k \in Due("CatchUp") : opened \/ ~queue[k].failed
  IN  /\ At(u, "idle")
      /\ owing \/ opened
      /\ agent' = [agent EXCEPT ![u] = IF owing
                                      THEN [Idle EXCEPT !.phase = "ask"]
                                      ELSE Flushing("maintain")]
      /\ opened' = TRUE
      /\ UNCHANGED <<ledger, queue, abandoned, indexVars, unflushed, syncing>>

\* Runs what maintenance is owed, while no request is being answered.
MaintainIndex(u) ==
  /\ At(u, "maintain")
  /\ Quiet
  /\ \E keys \in (SUBSET Due("Maintain")) \ {{}} :
       LET used == ClaimsOf(Copies, keys)
           jobs == Claimed(queue, keys, Fresh(used))
       IN  /\ Tokens \ used # {}
           /\ queue' = Claim(queue, keys, Fresh(used))
           /\ agent' = [agent EXCEPT ![u] = [Idle EXCEPT !.phase = "reads",
                                                         !.mode = "Maintain",
                                                         !.reads = jobs]]
  /\ UNCHANGED <<ledger, abandoned, indexVars, engineVars>>

NothingToMaintain(u) ==
  /\ At(u, "maintain")
  /\ Finish(u)
  /\ UNCHANGED <<ledger, queue, abandoned, indexVars, engineVars>>

-----------------------------------------------------------------------------
(* What goes wrong.                                                        *)

\* The steps that can fail as a whole: a statement, or a flush.
Fallible == {"ask", "settle", "record", "flush", "recordFlush", "tidy", "poll",
             "report", "maintain"}

\* A drain returns the error, and its claims stay until they lapse.  The upkeep
\* loop says so and goes on to what it does next.
AfterError(a) ==
  CASE a \in Drains \/ agent[a].mode = "Maintain" \/ At(a, "maintain") -> Idle
    [] agent[a].after = "maintain" -> [Idle EXCEPT !.phase = "maintain"]
    [] OTHER -> Flushing("maintain")

Abort(a) ==
  /\ agent[a].phase \in Fallible
  /\ agent' = [agent EXCEPT ![a] = AfterError(a)]
  /\ UNCHANGED <<ledger, queue, abandoned, indexVars, engineVars>>

\* The engine goes: nothing an attempt holds outlives it.
EngineGone ==
  /\ agent' = [a \in Agents |-> Idle]
  /\ unflushed' = {}
  /\ syncing' = NoOne
  /\ opened' = FALSE

\* Closed while nothing uses it: idle, or evicted to make room for another.
Close ==
  /\ opened
  /\ \A a \in Agents : At(a, "idle")
  /\ EngineGone
  /\ UNCHANGED <<ledger, queue, abandoned, indexVars>>

\* A topic a round still has to write, and does not find written already.
Writing(t) ==
  \E a \in Agents : \E job \in agent[a].syncs :
    At(a, "apply") /\ job.key.topic = t /\ buffer[t] # Reading(a, job)

\* The process dies.  What it wrote survives in the engine's log, and a batch
\* it was in the middle of leaves any of its topics written, or half written.
Kill ==
  /\ opened
  /\ EngineGone
  /\ \E found \in [Topics -> Document] :
       /\ \A t \in Topics : found[t] # buffer[t] =>
            /\ Writing(t)
            /\ found[t] = Torn \/ \E a \in Agents : At(a, "apply")
                                       /\ found[t] = agent[a].seen[t]
       /\ buffer' = found
       /\ dirty' = dirty \cup {t \in Topics : found[t] # buffer[t]}
  /\ UNCHANGED <<ledger, queue, abandoned>>

\* The machine loses power, and with it any of what no flush covered.
PowerLoss ==
  /\ opened \/ dirty # {}
  /\ EngineGone
  /\ \E found \in [Topics -> Document] :
       /\ \A t \in Topics \ dirty : found[t] = buffer[t]
       /\ buffer' = found
  /\ dirty' = {}
  /\ UNCHANGED <<ledger, queue, abandoned>>

-----------------------------------------------------------------------------
\* What people and machines do, which nothing obliges them to.
Environment ==
  \/ \E t \in Topics, c \in Contents : WriteMemory(t, c) \/ RenameTopic(t, c)
  \/ \E t \in Topics : RetireTopic(t)
  \/ ReplayExhausted \/ DiscardExhausted
  \/ \E d \in Drains, mode \in Owed :
       Start(d, mode)
  \/ \E a \in Agents : Abort(a)
  \/ Close \/ Kill \/ PowerLoss

\* What a drain does of its own accord.
Round(a) ==
  \/ ClaimJobs(a) \/ ClaimNothing(a)
  \/ ReadLedger(a) \/ ReadLedgerFails(a)
  \/ \E job \in agent[a].syncs : ApplyOne(a, job) \/ ApplyOneFails(a, job)
  \/ Settle(a) \/ RunReads(a)
  \/ \E job \in agent[a].failed : RecordFailure(a, job)
  \/ RecordDone(a)

Ending(a) ==
  \/ TakeApplied(a) \/ FlushApplied(a) \/ RecordFlushed(a) \/ QueueIfWasteful(a)
  \/ QueueTidyUp(a) \/ NothingToTidy(a) \/ Poll(a)
  \/ CountApplied(a) \/ Report(a)

Looping(u) ==
  Tick(u) \/ StopCatchingUp(u) \/ MaintainIndex(u) \/ NothingToMaintain(u)

Next ==
  \/ Environment
  \/ \E a \in Agents : Round(a) \/ Ending(a)
  \/ \E u \in Upkeep : Looping(u)
  \/ \E k \in Key : TimePasses(k)

Spec == Init /\ [][Next]_vars

\* Every drain goes on, and takes a row or a lock it is offered again and
\* again: no row stays locked, the lock is served in order, and a server whose
\* requests have ended is quiet.  A lease runs out and an hour passes.
Fairness ==
  /\ \A a \in Agents :
       /\ WF_vars(Round(a) \/ Ending(a))
       /\ SF_vars(ClaimJobs(a))
       /\ SF_vars(ReadLedger(a) \/ ReadLedgerFails(a))
  /\ \A u \in Upkeep : WF_vars(Looping(u)) /\ SF_vars(MaintainIndex(u))
  /\ \A k \in Key : WF_vars(TimePasses(k))

FairSpec == Spec /\ Fairness

-----------------------------------------------------------------------------
(* Properties.                                                             *)

\* Nothing written is lost: a topic no sync is owed for is found saying what it
\* says, on disk, whatever crashed, lapsed, raced or was recorded in between.
\* The one exception is a sync that ran out of attempts and was discarded.
NothingLost ==
  \A t \in Topics :
    queue[SyncOf(t)] = NoRow =>
      \/ SyncOf(t) \in abandoned
      \/ buffer[t] = ledger[t] /\ t \notin dirty

\* The writes some attempt counts as applied: waiting for a flush, or flushed
\* and waiting to be recorded.
AppliedCopies ==
  unflushed \cup UNION {agent[a].applied \cup (agent[a].done \cap SyncJob) :
                       a \in Agents}

\* A write waiting for its flush is findable, as long as its claim stands: what
\* await_durability rests on when it does not flush.
AppliedIsFindable ==
  \A job \in AppliedCopies :
    Holds(queue, job) => buffer[job.key.topic] = ledger[job.key.topic]

\* A flush covers every write about to be recorded as done.
DurableBeforeDone ==
  \A a \in Agents : \A job \in agent[a].done \cap SyncJob :
    Holds(queue, job) => job.key.topic \notin dirty

\* Two syncs of a topic do not cross: while one holds an older reading of the
\* topic than the ledger, the topic is still owed, and nobody is about to
\* record it done.
SyncsDoNotCross ==
  \A a \in Agents : At(a, "apply") =>
    \A job \in agent[a].syncs :
      Reading(a, job) # ledger[job.key.topic] =>
        /\ queue[job.key] # NoRow \/ job.key \in abandoned
        /\ \A other \in AppliedCopies :
             other.key = job.key => ~Holds(queue, other)

\* What makes these inductive.  A round whose claim stands read what the ledger
\* says now, one round at a time is between its reading and its last write, and
\* a round has one job of each topic.
ReadingIsCurrent ==
  \A a \in Agents : At(a, "apply") =>
    \A job \in agent[a].syncs :
      Holds(queue, job) => Reading(a, job) = ledger[job.key.topic]

LockIsHeld == \A a \in Agents : At(a, "apply") => syncing = a

OneJobEach ==
  \A a \in Agents : \A job, other \in agent[a].syncs :
    job.key = other.key => job = other

CascadeInv ==
  /\ TypeOK
  /\ NothingLost
  /\ AppliedIsFindable
  /\ DurableBeforeDone
  /\ SyncsDoNotCross
  /\ ReadingIsCurrent
  /\ LockIsHeld
  /\ OneJobEach

\* The promise the outbox is there for.
Promise == INSTANCE Findable WITH
  says <- ledger, finds <- buffer,
  owed <- {t \in Topics : queue[SyncOf(t)] # NoRow},
  givenUp <- {t \in Topics : SyncOf(t) \in abandoned}

\* Every step of the cascade keeps it: only an owed topic's document changes,
\* and only a topic found saying what it says stops being owed.
KeepsThePromise == Promise!Spec

\* Nothing but what the code does of itself, from some point on.
EnvironmentRests == <>[][~Environment]_vars

\* Whether nothing will be done about this work until somebody asks: it ran out
\* of attempts, or it failed, or is maintenance, and the engine is closed.
Resting(k) ==
  \/ queue[k] = NoRow
  \/ queue[k].attempts >= MaxAttempts
  \/ ~opened /\ (queue[k].failed \/ k.kind \in Maintenance)

\* Left alone, the server pays everything that can be paid: work a dead process
\* had claimed, deferred writes, failures, claims that lapsed unflushed.
CatchesUp ==
  EnvironmentRests => <>[](\A k \in Key : Resting(k))

\* Left alone, every drain returns, one that waits for what others hold and
\* queues its own tidy-up included.
DrainsEnd ==
  EnvironmentRests => \A d \in Drains : []<>At(d, "idle")

-----------------------------------------------------------------------------
(* Two things the source says that its code does not keep.                 *)

\* A failure gives up only the claim of the attempt that failed
\* (crates/store/src/jobs.rs:48 says what identifies a claim; `complete`
\* compares it and `fail` does not).
FailureIsItsOwn ==
  [][\A a \in Agents : \A job \in agent[a].failed :
       RecordFailure(a, job) => queue' = queue \/ Holds(queue, job)]_vars

\* What the queue holds when a drain that applied this many reports, less those
\* it has applied: `still_owed`.
StillOwed(a) ==
  Cardinality({k \in Key : queue[k] # NoRow}) - agent[a].counted

\* A write that reports nothing owed leaves nothing a search would miss
\* (crates/cli/src/command/write.rs:93): no topic missing when it counted is
\* missing still, unless its sync was given up on, or is due: asked for again
\* by a write that will report for itself.
ReportedFindable ==
  \A d \in Drains :
    At(d, "report") /\ agent[d].mode = "WhatAMemoryNeeds" /\ StillOwed(d) <= 0 =>
      \A t \in agent[d].missing \cap Missing :
        SyncOf(t) \in abandoned \/ Claimable(queue[SyncOf(t)])

=============================================================================
