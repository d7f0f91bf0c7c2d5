# A specification of Påmin Memory

TLA+ modules, TLC runs and TLAPS proofs about the parts of Påmin Memory whose
correctness depends on order, concurrency and failure. Paths below are relative
to the repository's root.

## The system

Påmin Memory keeps memories in PostgreSQL (the *authority*) and finds them
through an in-process search index (the *projection*). A write commits the
memory and what the projection now owes it in one transaction. Drains settle
what is owed; the resident server's upkeep loop settles what nobody waits for.

### Components

| component | code | state it keeps | operations | hard behaviour | what makes it correct |
|---|---|---|---|---|---|
| Outbox | `crates/store/src/jobs.rs`, `crates/core/src/cascade.rs` | rows of `index_jobs`: claim, attempts, due time, last error | enqueue, claim, complete, fail, replay, discard, any_in_flight, owing | leases that lapse while the holder works; a request while its work runs | an attempt settles only its own claim; work asked for is done after it was asked for |
| Cascade | `crates/engine/src/cascade.rs` | per drain: the jobs of a round, their outcomes; per engine: applied writes awaiting a flush, the syncing lock | drain (everything, or what a memory needs), flush, sync, maintain | drains run concurrently; any step can fail; the process or the machine can die between two | nothing owed is lost; nothing is recorded done before it is on disk; every drain ends |
| Index writes | `crates/index/src/projection.rs`, `write_unheld` in `crates/engine/src/engine.rs` | a document per span of each topic | replace, delete, holds | no transaction over a topic's spans | a topic recorded done reads back as it was cut |
| Engine | `crates/engine/src/engine.rs` | index handle, locks, unflushed list, widest name | write, retire, rename, derive mentions, backfill, search, reindex | derived state read and written in separate statements; a rebuild beside everything else | edges and documents say what current states say |
| Ledger | `crates/store/src/repository.rs` | sources, evidence, topics, states, pointers, aliases | append, promote, name, rename, retire, soft delete | locks per source and topic | versions have no gap; the pointer is the newest surviving state; names go on reaching |
| Graph | `crates/store/src/graph.rs` | edges and their versions | assert, retract, close, walk | two assertions of one edge; a walk cut to the strongest edges | one live version of an edge; a cut walk answers as a full one |
| Reshape, reindex | `crates/index/src/reshape.rs`, `crates/engine/src/reshape.rs`, `Engine::reindex` | a copy beside the served index, the topics touched meanwhile | begin, copy, build, catch up, swap, recover | writes during the copy; a death between two renames | what is served holds what the ledger says of every topic nothing is owed for |
| Registry, session | `crates/cli/src/registry.rs`, `session.rs` | open engines by project, uses, requests being served | open, reopen, take and delete, evict, close idle, purge | one open at a time per project; eviction beside use; purge | one engine per index; none closed while used |
| Server | `crates/cli/src/server.rs` | refused projects, the tick | upkeep: catch up, flush, maintain, reshape, sweep | requests beside upkeep; several projects, one budget | owed work is done without being asked for |
| Ingest | `crates/cli/src/command/ingest.rs` | a record per file | ingest files, a part of a tree, a whole tree | files edited within a clock tick; hand writes beside files; a death between statements | a file skipped is one that says what its record says |
| Watcher | `crates/cli/src/watch.rs` | watched directories, pending changes, held deletions | follow, hear, flush, poll, freshen | events late, lost, or of directories that are replaced | every change is heard, held or still to be walked |
| Search and fusion | the search path of `engine.rs`, `crates/core/src/fusion.rs` | one search | recall, fuse, rerank, place | topics retired between its statements; crowded channels | a recall is deep enough; a pass touches only what it was shown |
| Client, database start | `crates/client/src/client.rs`, `crates/store/src/database.rs`, `server.rs` | socket, spawn lock, server.json, the cluster | ask, spawn, serve, stop | two clients starting one server; processes killed at any point | one server per workspace, with the settings it was started with |
| Text | `crates/index/src/{segmentation,spans,sections,tokenizer}.rs` | none | segment, tokenize, cut into spans | a piece counted on its own is more tokens than it was in place | spans fit, lose nothing and break where they may |
| Model files | `crates/index/src/hub.rs` | a cached repository: refs, entries, blobs, a lock file | open at a revision, get, remove a download | main moves on the hub; other processes and other tools use the directory; a death at any step | a load reads one commit; no entry outlives its blob |
| Models | `Models` in `crates/engine/src/engine.rs`, the sweep of `session.rs` | the copy of each model, how long it has been idle | load, hand out, release what is idle | loads race, engines keep what the sweep would give back | weights are in memory once |
| Inference | `crates/index/src/{embedding,encoder,reranking,inference}.rs` | a model's sessions and plan | embed, rerank | a model moving to another plan during a pass | numeric |
| Contract, settings | `crates/contract`, `crates/core/src/{settings,workspace}.rs` | none | parse, render | none | what is asked is what is done |

They interact through the database (a write's transaction, a drain's statements),
through the engine (every drain, flush and search of a process shares one per
project), and through files (an index directory is locked by one process).

### What is hard to test here

`PROJECT.json` lists forty hazards, each at its line. Four more belong beside
them. `replay` (`jobs.rs:590`) leaves `last_error` set, so the upkeep, which opens a
closed project only for work that never failed, does not open one for replayed
work. `rename_section` (`engine.rs:1554`) locks the topic and then its source, a
write the source and then the topic: they can deadlock, and PostgreSQL ends one of
them. `name_topic` (`engine.rs:1767`) runs on the first evidence of a manual source, so
a hand write the filter held before there was a topic keeps its name from being
filed for the next one. `synchronous_commit` is off (`database.rs:353`), so a power loss
can take the last commits.

## The modules

| module | what it is | beside |
|---|---|---|
| `Outbox` | The queue as a function from work to rows, and one operator per statement of `jobs.rs`. No behaviour of its own. | a helper of `Cascade` |
| `Findable` | The promise: a topic is found saying what it says, or is owed an update, or was given up on by hand; and nothing touches the document of a topic that is neither of the last two. | abstract specification |
| `Cascade` | The ledger, the outbox, the index and any number of drains and upkeep loops over them, one action per statement, lock, document write or flush. | implements `Findable` |
| `Spans` | One round's index writes, span by span: what `Cascade` takes for one step. | |
| `Ledger` | The transactions of `write_from`, `retire_section`, `rename_section` and a deletion, a statement and a row lock at a time. | |
| `Mentions` | Derived edges: restatements and backfills by drains that cross, fail, lapse or die, explicit links, the widest name. | |
| `Edges` | `assert_edges`, `retract_derived_all` and `close_edge` over the identities and versions of edges, a lock at a time. | |
| `Walk` | Recall over the graph, walked in full and by the strongest edges side by side. | |
| `Search` | One search: channels, the walk, fusion, the reranker's pass. | extends `Walk` |
| `Serving` | One project's index directories: engines, syncs, a reshape and its swap, rebuilds, purges, crashes. | |
| `Residence` | The projects a server holds open: registry, session, upkeep over several projects. | |
| `Startup` | Clients reaching, starting, replacing and stopping the server of a workspace, and its cluster. | |
| `Ingest` | One followed tree, its records, and the runs over it. | |
| `Watch` | The watcher of a synced directory. | |
| `Packing` | A text cut into blocks, units and spans, and the header of each span. | |
| `Hub` | One model repository in the cache, and the loads of any number of processes over it. | |
| `Models` | The models a process has loaded, what its engines keep, and the sweep. | |
| `CascadeProofs` | What each statement of the outbox does; the invariants of `Cascade`; that it implements `Findable`. | proofs |
| `SpansProofs`, `LedgerProofs`, `EdgesProofs`, `ResidenceProofs` | The inductive invariants of `Spans`, `Ledger`, `Edges` and `Residence`, and what follows from them. | proofs |
| `RoundsProofs`, `ServingProofs`, `IngestProofs` | The same for `Startup` and `Hub`, for `Serving` and `Watch`, and for `Ingest` and `Models`, as `EdgesProofs` is for `Edges` and `Mentions`: each two share nothing but the run that checks both, if that. | proofs |
| `MCCascade`, `MCRounds`, `MCServer`, `MCWrites`, `MCSpans`, `MCGraph`, `MCIngest`, `MCServing` | The instances TLC checks. | |

`MCRounds`, `MCServer`, `MCWrites`, `MCGraph`, `MCIngest` and `MCServing` each hold
several modules that share no variable. The variable `part` says which of them a behaviour
is of; the others do not move. Their fairness is that of the module, while the
behaviour is of it.

### Outbox

A row is its id, the claim on it, its attempts, whether it is due and whether
it has failed. `NoRow` is the absence of a row; the unique constraint on
project, kind and subject makes the table a function. Timestamps are kept only as
they are compared: `available_at <= now` is a Boolean that a claim and a failure
clear and time sets, and `claimed_at`, compared only for equality, is a token.
A new token is any that no attempt still alive has a copy of, which is what a
timestamp that never repeats looks like to the code that compares it. `fail`
matches by id and worker, as the statement does, not by claim.

`claimed_by` is one string per process. Only one process has a project's index
open for writing, and a dead process has no live attempts, so a claimed row is
the caller's process's own exactly when the caller has a copy of it.

### Cascade

| variable | code |
|---|---|
| `ledger` | the content and name a topic's current state resolves to, or `Gone` |
| `queue` | `index_jobs` of the project |
| `abandoned` | nothing in the code: the work `discard` deleted, so that properties can except it |
| `buffer` | the document the index reads back for each topic, buffered writes included |
| `dirty` | topics whose document may differ from what the last flush left on disk |
| `opened` | whether the engine registry holds the project's engine |
| `unflushed` | `Engine::unflushed`: applied jobs and their claims |
| `syncing` | who holds `Engine::syncing` |
| `agent` | for each drain and upkeep loop, its local variables and where it has got to |

A drain goes `ask` (claim), `sync` (waits for the lock and reads the ledger),
`apply` (a document at a time, with the lock), `settle` (flush, or leave the
claims to await one), `reads` (derive, backfill, compact), `record` (failures,
then completions), and round again; when nothing is left to claim it goes
through `take`, `flush`, `recordFlush` (flush_what_is_applied), `wasteful`,
`tidy`, `poll`, and ends with `count` and `report`. Each phase is one access to
shared state. A statement or a flush that fails ends the drain, or sends the
upkeep loop on to what it does next (`Abort`); a sync, a read job and a document write
have outcomes of their own. `Kill` ends every agent and may leave a round's
topics written, unwritten or half written. `PowerLoss` may leave anything in the
place of a document no flush covered.

Choices made in the abstraction:

- A claim takes any of the due rows, up to `Batch`. The statement orders by
  priority, and skips rows another transaction has locked; leaving the choice
  open covers both. It also lets a claim find nothing while work is due.
- `Torn` is a document some of whose spans are of another write. What spans
  past the end can do is in `Spans`.
- What a derive or a backfill writes to the graph is left out; its claim, its
  outcome and its place in the round are not.
- Several drains of a process run concurrently, as requests of the server do.
  A drain owing everything is `cascade drain`; one owing what a memory needs is
  a write, or an import, which then flushes.
- Every commit is durable. The server runs with `synchronous_commit = off`
  (`crates/store/src/database.rs:353`), so a power loss can also take the last
  commits; see the plan.

### Spans

`held` is every span the index holds, reachable by `fetch` or not. A round
claims some topics and reads their cuts; `Write` is one upsert of up to
`WriteBatch` spans, `Truncate` and `Delete` one delete of a turn over the
ordinals, `CallFails` the failure of any of them, after which the batch is
tried again topic by topic. `WritingEvery` is the second pass of `write_unheld`
when the model moved to another plan during the first. Vectors and plans are
not kept; a topic held under another plan is one that is written although the
index holds its text.

### Ledger

A topic is a row with its states, a source a row with how much evidence is filed
under it, an alias a name that reaches a topic. `txn` is each caller's call: what it
does, the transaction it runs, what it has read and locked. A statement is an
action; a row lock is held from the statement that takes it to the commit, and a
statement that needs a row held by another waits. Under READ COMMITTED an update
sees what is committed when it gets its lock. Locators are a name's file section
or what was written by hand; a text is short (the filter holds it) or promotable.

Seen while modelling, and stated in the module or left out of its properties:

- `NamesAreFiled` does not hold (`engine.rs:1767-1795`, `repository.rs:552-558`): the
  hazard of `name_topic` above. It is stated in the module; TLC violates it as an
  invariant of `Spans.cfg`.
- A rename can wait for a write that waits for it (`engine.rs:1554`).
- A section whose text the filter holds when it is stated again is not protected
  from the retirement that follows (`engine.rs:1430`).

### Mentions, Edges, Walk, Search

In `Mentions` a text is the set of topics its words name. A topic's edge follows from its
text and from which names are filed; a job restates the one, a job backfills the
other, each a row of statements without a transaction. Drains cross: nothing is
locked from reading a state to the statements that follow from it
(`engine.rs:1838-1842, 2076-2078`), so one whose jobs were asked for again, or whose
lease lapsed, goes on with what it read while another has claimed them. In each drain
`overtaken` notes the pairs of which that has happened, and `crossed` those whose edge
the drain then changed. That is the one way in which `OnlyWhatIsSaid` (no derived edge
without its text, unless a restatement is owed) and `NothingUnnamed` (no edge missing
that nothing is owed for) go wrong, and both leave `crossed` out by name. Without it TLC
violates both with two drains: the older reading's assertion comes after the newer
one's retraction and leaves an edge nothing will close; or the topic is rewritten to name
another, the newer drain asserts the edge, the older one's retraction closes it, and the
newer one records the job done. A restatement asked for later puts either right. An explicit `link` of the
kind `mentions` is superseded by a derived claim and then closed with it
(`graph.rs`, near 614). A sync that comes late is overlooked by a backfill's probe;
`overlooked` keeps such pairs, and pairs somebody unlinked, for `NothingUnnamed`.

`Edges` has the identities locked in one order, each version of an edge with its
claim. `ClosesWhatIsLive` (what `close_edge` and `retract_derived_all` say they do) does
not hold: both take their locks in the statement that has already read the versions
(`graph.rs:604-625, 706-712`). It is stated in the module; TLC violates it as an
invariant of `Graph.cfg`.

`Walk` numbers the confidences, and keeps the walk of `expand` and that of
`expand_reading` side by side, so that `BoundedIsExact` compares them. The graph stands
still during a walk. The comment near `graph.rs:1266` is not true of two arrivals of
one origin over two frontier positions, and `Expansion::keep`'s "not an approximation"
(866-873) is true of the seeds' own walk but not of what `recall_graph` returns under
ties; `RecallIsExact` states what is.

`Search` has integer scores, and a model's rating of a text is any. `RecallsAreDeep`
holds for rankings without ties. Beside the properties: the comment near
`engine.rs:2549` says a deleted topic drops out before fusion, while fusion is given
the unfiltered lists and a `retain` follows; `can_be_seen` (near 3720) says a pass only
permutes, while it adds `Why::Reranked` and inserts graph finds; and the ordinal
of a best span may be stale by the time its window is cut. Parents of hits, what the
reranker is given to read, and the filters a caller asks for are not modelled.

### Serving

| variable | code |
|---|---|
| `at` | the index directory and the one a swap moves aside, with what each holds |
| `place` | for each engine, whether its handle is on the directory, on one moved aside, closed by a swap, or gone |
| `slot`, `locked` | the registry's engine; a rebuild or a purge holding the slot across its waits |
| `keeping` | the engine opened for a rebuild, which holds EXCLUSIVE with it |
| `sync`, `reshape`, `rebuild`, `purge` | how far each has come, and what it has in its hands |
| `ledger`, `owed` | the current state of each topic, and whether its sync is owed |
| `spoiled`, `missed`, `astray` | history, which no action reads: topics a rebuild leaves wrong, topics a reshape loses, and whether the project was opened in the middle of a swap |

A handle on an index goes where its directory is renamed to. What happens under the
index's lock is one step, unless the process dies in it, for which `Crash` has
outcomes of its own. EXCLUSIVE (`crates/engine/src/reshape.rs:18-35`) is keyed by
directory; a purged project's directory is not opened again, so `Purge` lets go of it.

Every step of the code that can fail has a failing action, which leaves what the
code leaves: a rename, the reopen and the discard of a swap (`SwapFails`, `CopyFails`), a
rebuild before it has the exclusion, while a reshape may be anywhere, and after it
(`RebuildFails`, `DiscardFails`, `ReindexFails`). The project can be opened whenever its
slot is empty and free, also by a request that comes while a reshape swaps.

The code does lose what it has synced, in three ways, and `Findable` leaves out each by name:

- `spoiled`, by a rebuild. It writes over a sync that came between its reading and its
  writing (`engine.rs:2810`); it fails when the old index is aside and leaves an empty one or
  a part; deleting an index that cannot lend its vectors stops half way; or a sync of an
  engine whose directory was set aside or deleted is recorded done.
- `missed`, by a reshape. A topic that was retired when the reshape listed what to copy,
  and is written again with what the index still holds, is neither listed nor recorded,
  because nothing is written: the copy is swapped in without it and nothing is owed. Against
  `engine/src/reshape.rs:57-59` ("either listed or recorded") and
  `index/src/reshape.rs:416-421` ("none can be missed"). And when a copy in its place does
  not open and deleting it fails half way (`index/src/reshape.rs:409-412`), the next
  `recover` (314-320) takes what is left of it for the index and deletes the good one beside it.
- `astray`. A rebuild fails before it has the exclusion (`engine.rs:949-963`); its slot is
  empty by then (`registry.rs:138-147`); and a request opens the project between a running
  reshape's renames, which gives it a directory about to be moved aside and deleted, or an
  empty one where the copy is due. From then on nothing is claimed of what is found, nor that
  the registry's engine is on the project's directory. That no two engines are on one
  directory and that it is there is claimed all the same.

The run follows an index gone astray only as far as the process's death; the theorems cover
every step. Without that cut `ServingInv` was checked with two engines (961,296 states)
and with three (10.3 million).

### Residence, Startup

`Residence` counts time in ticks of the upkeep. A slot of the registry is known by
what holds it. Rounds, and the distinction of work that never failed, are
`Cascade`'s; rebuilds and reshapes `Serving`'s; `ensure_project` is one step. A project
whose open failed for catching up keeps an empty slot (finding 4). `NothingStarves`
needs `ReopenAfter` to exceed the number of projects opened in a window: with two
projects and `ReopenAfter = 2` it fails. A purge that dies can leave a directory
removed with its rows kept.

`Startup` has clients, servers, and the files they share. A wait may run out at any
time, and `Kill` any process. `past` notes what has happened that the properties are
not about: `trouble`, a kill, a stop or a wait that ran out, without which
`OneStarts` is stated; `crossing`, two starts or ends that passed each other through the
spawn lock, which is removed by its path (`client.rs:170, 213-215`) and is left behind
if the log cannot be opened, without which `Reachable` is; and `unrecorded`, a server that died between
starting the cluster and `write_server`: `SettingsAreHonoured` is without either. A stop whose
removal of a stale `postmaster.pid` races a start, and races of `initdb`, are not
modelled.

### Ingest, Watch

`Ingest` has one root. A file's state is a record per section; a stat is the text and
whether the clock has moved on since. Between two statements of a run, files are
edited and topics written by hand, `Meanwhile` times. `untrue` marks the files whose
record the code leaves saying too much:

1. a refreshed record put back over a hand write that forgot it;
2. the catch-up of a tree retires or renames sections of files that left it while
   their records stand;
3. a hand write to a topic without a file source forgets no record;
4. a death between `put_file_records` and `forget_file_records_written_since`;
5. `record.sections` counts thin sections that were held;
6. a section taken for one that moved because its text is much the same
   (`sections.rs:216-248`, called at `ingest.rs:902`) keeps the old text when the filter holds
   the new one: only a section that was on the surface under its own name is looked for among
   those its file emptied (`ingest.rs:668-672`), against the comment at `ingest.rs:732-736`. A
   heading renamed while "go fast!" under it becomes "go fast" is enough; the next ingest that
   reads the file puts it right.

A hand write whose transaction is open across both of the statements of 4 is not
modelled. `Alike` is the similarity of texts, as a relation; that equal texts are paired
first is modelled, which of several similar ones is paired is left open. `Plan` makes one step of several statements and
looks at the disk: a file that changes between two of them could as well have changed before
all or after all, and a topic written by hand between them is neither renamed nor retired.

`Watch` follows one directory with one level under it. The kernel says only that
something of a name moved, in directories whose watch is live. A directory the system
refuses to watch has the whole path polled, and is not lost: `ChangesAreIngested` waits
for the poll. `lost` marks what a
failure or a gap leaves unseen: a sort, walk or ingest that failed is not tried again;
a directory created between a catch-up's walk and its watches is not watched; one
deleted and made again is kept as watched; the synced directory made again within a
flush; files that left with a directory that moved, or leave one made again before it
is watched, even those a search has ingested meanwhile; a held deletion survives a
catch-up. A catch-up clears what was lost before it, and with a refusal all of it, since
the polls to come look at everything. `NothingMissed` is about a path that is watched, where
nothing lost is looked at again. `ChangesAreIngested` excuses a lost file only there: while the
path is polled or missing every change is ingested in the end, unless polls or tasks fail for
ever, the server keeps restarting, or the file keeps changing. Not modelled: `status.error`, an add racing a remove, two paths, the limit on
watches, and the streams of macOS.

### Packing

A text is its lines, and a line what the cut looks at: what it opens (a fence, a
heading, a turn), its cells, and how many tokens each of its sentences is. Between
tokens is whitespace, except inside a word. A range that ends inside a word counts
one token more than it held in place, since the tokenizer reads what is cut off
differently; that is what makes `cut` try finer pieces and `fit` look for a shorter
opening. `pack` is taken in the steps of its loops: `ReadsLine` finds a block,
`CutsBlock` and `CutsPart` make its units, and `Begins`, `Pushes`, `CutsFor`, `Flushes`
and `Ends` fill spans with them. Which tokens a text has, and bytes, are left out.

### Hub

| variable | code |
|---|---|
| `refs` | the files of `refs/`; `Broken` is one that is empty or cut short |
| `entries`, `blobs` | the snapshots' links, and what they link to, by content |
| `held` | who holds `.pamin-snapshots.lock` |
| `owned` | whether the directory is this program's alone, without which nothing is removed |
| `load` | each load's `Repository` and the call it is in |
| `upstream` | what main names on the hub |

`get` is a phase for each thing it reads or writes: it looks in the cache, asks the hub
what main names, records that, and lets the client fetch. The client is a library and
external: `Downloads`, `Links` and `Names` are what the code relies on it to do, and
`pin_fetched` reads the commit off the path it answers. A directory that cannot be
written is read without the lock (`peeking`). `Ends` is a load that is done or a
process that is gone, at any phase.

Seen while modelling: with nothing pinned, a file that `cached` finds through the ref
does not pin the commit it was found at (`hub.rs:118, 168-205`), so a later file may be of
another one; `astray` marks such a load, and `OneCommit` leaves it out. A process that
dies between its fetch and the removal of the ref the fetch made leaves
`refs/<commit>`, and `revision_references` then keeps that commit's files from being
removed.

### Models

A copy is a model's weights in memory. `InMemory` is what the registry holds, what
engines keep in their cells and what requests have in hand, a load under way
included. The registry's lock of a kind is held across a load; `FindsNone` is what does
not load or wait. The sweep closes idle engines and then releases each kind in the
order of `close_what_is_idle`. An engine in use is not closed.

## Runs

All sizes are small because the interesting cases involve two attempts at one job,
two actors on one row, or two steps of a rewrite with one step of somebody else
between; nothing in the code compares more.

| run | instance | what it shows |
|---|---|---|
| `syncs` | one topic, two drains that leave their writes for a flush; attempts up to 2, two tokens, a flush at 1 claim awaiting | `NothingLost`, `AppliedIsFindable`, `SyncsDoNotCross`. Two drains are enough for a claim to lapse under one and be taken by the other, and for two flushes to share the list; two attempts for work to run out of them. |
| `rounds` | Cascade: two topics, rounds of two, one drain, one attempt. Startup: two clients of different builds and settings, one of which also stops; two servers, two kills. Hub: two commits, of which one file of two is the same; two loads of that file in a directory of this program's, or one load of both beside other tools | `CascadeInv`, where a round has several jobs and each its own outcome. `OneStarts`, `Reachable`, `SettingsAreHonoured`. `OneCommit`, `NothingDangles`. |
| `everything` | one topic, two contents, one drain of either kind, syncs and compactions, one attempt | `DrainsEnd`. |
| `server` | Cascade: one topic, the upkeep loop alone, rounds of two. Residence: two projects, room for one, the first of which does not open for a while; two callers, or one beside the ticks | `CatchesUp`; every step is a step of `Findable` (`KeepsThePromise`). `OneEngineEach`, `CacheIsTrue`, `NothingStarves`. |
| `spans` | Spans: two topics of up to two spans, two texts, an upsert of one span. Ledger: two names, two writers, two topics, two pieces of evidence | `ReadsBackAsCut`; `NumbersAreFree`, `History`, `HandWrittenStays`, `NamesStillReach`. |
| `graph` | Mentions: two topics, one naming the other; two drains, one after another and no bound on what changes (`alone`), or crossing, with up to four changes, failures and deaths (`crossing`). Edges: two edges, two callers, three versions. Walk and Search: the graphs of four topics | `OnlyWhatIsSaid`, `NothingUnnamed`; `OneLiveVersion`, `NobodyWaitsInACircle`; `BoundedIsExact`, `RecallIsExact`; `RecallsAreDeep`, `AgreementWins`, `HitsAreSound`. |
| `ingest` | Ingest: two files of a section each, three texts, one of them thin, two pairs of them alike, one hand write, two changes during a run. Packing: every text of up to three lines of ten sorts, spans of three tokens. Models: two users, two engines, two copies of weights | `TrustedIsUnchanged`, `RecordIsTrue`, `TrustedIsLeftAlone`, `NothingOverlooked`. `CutsAreSound`. `OneCopy`. |
| `serving` | Serving: one topic, there with one text or not there, two engines, any step failing; nothing but a death once the index is astray. Watch: a file in the directory and one under it, two of the paths changing; where they are the directory under it and its file, two texts | `Findable`, `OneIndex`, `RebuildsEnd`; `NothingMissed`, `ChangesAreIngested`. |
| `stale_failure` | as `syncs` | `FailureIsItsOwn` is violated (finding 1). |
| `still_owed` | one drain, two contents | `ReportedFindable` is violated (finding 2). |
| `spans_left` | one topic of up to three spans | `HoldsNothingElse` is violated (finding 3). |
| `reopened` | two projects, one of which did not open | `RefusedForAWhile` is violated (finding 4). |

The bounds, all constants: `Tokens` (row ids and claims alive at once),
`MaxAttempts` (8 in the code), `Batch` (64, or less when catching up),
`AwaitingDurability` (128), `MaxSpans` and `WriteBatch` (1024), `MaxTopics` and
`MaxEvidence` of the ledger, `MaxVersions` of an edge, `MaxFrontier`, `PerTopic` and
`MaxSeeds` of a walk, `Capacity`, `IdleTicks`, `ReopenAfter` and `MaxRequests` of the
server, `MaxKills`, `Meanwhile`, `MaxChanges` (while drains cross); `MaxLines`, `Cap` (a span's tokens), `HeaderTokens` and
`NameTokens` of `Packing`. The ten sorts of line are prose of sentences of one, two and six tokens, with
words of several, headings that fit and that do not, two fences, a turn, a table's row
and its rule, and a blank one; with three of them a block can lie between two others,
and with three tokens to a span each has to be cut. An operation that would pass one is not taken. With `n`
copies of a job alive, `n + 1` tokens are enough. Documents are model values.
`Derive` and `Backfill` jobs are handled by the same steps as a compaction, which is
the read job of the runs; the proofs cover all four kinds.

Symmetry is used in `syncs` and `graph` (drains) and `spans` (topics, texts); `spans` checks an
action property besides invariants, and none of them a liveness property. `serving` has
no symmetry set; of the engines that nobody holds, which are alike, `MCServing` opens one.

### Fairness

- `WF` on a drain's own steps: a drain is a task the runtime goes on polling.
- `SF` on claiming and on taking the syncing lock: rows are locked only for
  the length of a statement, so a drain is not passed over for ever, and a
  tokio mutex is first come, first served.
- `WF` on the upkeep loop's steps and `SF` on its maintenance: the loop runs
  every few seconds for as long as the server lives, and requests end.
- `WF` on `TimePasses`: a lease lapses and an hour passes.
- `WF` on the steps of a sync, of a reshape and of a rebuild (`Serving`): each is a
  task or a thread of its own, and waits only for engines to be let go of.
- `WF` on each caller's steps and on ticks (`Residence`).
- `WF` on the watcher's own steps, `SF` on its flush and its poll (`Watch`): `select!`
  chooses at random among what is ready, so neither is passed over for ever.
- Nothing on the environment: writes, requests, errors, crashes, evictions and
  changes of files happen or not. The liveness properties assume that from some
  point on they do not, since a drain cannot end while work is asked for faster than
  it is done, and a server cannot catch up while it is killed at every tick. `ChangesAreIngested`
says the same of the watcher's own failures: not every poll, walk and ingest fails.

## What is proved

Eight modules of proofs, for every value of the constants that satisfies the
assumptions of the modules: the values standing for "none" are none of the others,
and the numbers are natural, or positive where zero would mean that nothing is ever
done. `PROJECT.json` lists each theorem with the property of a run it states.

### Cascade and its promise

`CascadeProofs` states

- `TypeCorrect`: `Spec => []TypeOK`;
- `CascadeIsSafe`: `Spec => []CascadeInv`;
- `NothingIsLost`, `AppliedCanBeFound`, `SyncsNeverCross`, the safety properties of
  `syncs`, and `DurableWhenDone`: each a conjunct of it.

The argument. `NothingLost` is about rows that are gone, so what matters is the
step that removes one: `Complete` removes it only for a copy that *holds* the
claim. That copy waits in some attempt's `done`, so `DurableBeforeDone` and
`AppliedIsFindable` are what make the removal right: a copy that holds its claim
is of a write the index has and a flush has covered. They in turn rest on when a
copy enters `applied`: the round that wrote it read the ledger after its claim
was taken, and anything that changed the ledger since has cleared the claim
(`ReadingIsCurrent`). Two rounds with the same topic are where this could break,
since the older one can still write after the newer; `LockIsHeld` says that only one
round is between its reading and its last write, so a round with an older reading
took the lock before the newer request was served, and the newer one is still to
read (`SyncsDoNotCross`). `OneJobEach` is what lets a round's step be about one
topic. None of these is inductive alone.

Its first part gives what the argument needs of each statement of the outbox: what it does to
`Holds` for any copy, and which rows it removes. Every step of `Cascade` but
seven leaves the ledger and the index alone and can only take claims away, so
one lemma, `StepKeepsInv`, covers them, and `LocalStep` restates it for a step
of one agent. The steps that change the ledger (`ChangeInv`), read it
(`ReadLedgerInv`), write a document (`WritingInv`, `ApplyInv`), flush, or lose
the engine (`EngineGoneInv`, `FailureInv`) have lemmas of their own.

Its last part proves `CascadeKeepsThePromise`: `Spec => KeepsThePromise`, that
`Cascade` implements `Findable` under the mapping `says <- ledger`,
`finds <- buffer`, `owed` the topics with a row for their sync and `givenUp`
those whose sync was discarded. A write, rename or retirement is `Change`
(`ChangeStep`); the two steps that complete are `Settle`, because what is
recorded done is findable (`SettleStep`); a document write, a crash and a power
loss are `Reindex`, because only what is owed or given up on is being written or
is dirty (`WritingStep`, `FailureStep`); `DiscardExhausted` is `GiveUp`; every
other step leaves all four alone (`Unseen`). `CascadeInv` is the invariant this
rests on.

### Index writes

`SpansProofs`: `SpansInv` is inductive, and `ReadsBackAsCut` a conjunct of it. What is
recorded done reads back as cut because a claim that stands after the round's
reading says the ledger has not moved (`ClaimsAreTheRounds`); because what a round
skips, the index held under the lock (`SkippedIsHeld`); and because a call writes and
deletes what is its batch's (`CallKeepsToItsBatch`) in order (`CallGoesForward`), so that a
topic whose call ended is whole. `HoldsNothingElse` is not in it: it is false.

### Ledger

`LedgerProofs`: `LedgerInv` is inductive. A row has one holder (`RowsAreLocked`), and what
a call has found under its locks is still so at each later statement (`WriteHolds`,
`SectionHolds`, `DeleteHolds`); with them the pointer is the newest version that survives
(`PointsAtTheNewest`), each version supersedes the newest before it
(`SupersedesTheNewest`), and what was written by hand has a manual source
(`HandHasSource`). From it `NumbersStayFree`, `HandsAreRespected` and `HistoryIsKept`
follow, and `NamesReachForEver`, which is about steps: a rename leaves an alias, and
`FindTopic` prefers a topic's own name to an alias. That there is a newest version
(`HasGreatest`) follows from the well-foundedness of the subsets of a finite set, since the
library's induction theorems cannot be applied here.

### Edges

`EdgesProofs`: `EdgesInv` is inductive, with `OneLiveVersion` a conjunct. A caller has
passed, or locked, every identity of its call that comes before the one it is at
(`OrderIsKept`), and what it read under its locks is still so when it writes
(`ReadIsTrue`). `NobodyWaits`: whoever waits, waits for one that has got further in the
one order, so a circle of any length is ruled out.

### Mentions

Also in `EdgesProofs`: `Spec => []MentionsInv`, for any drains, topics, texts,
names and pairs, with `OnlyWhatIsSaid` and `NothingUnnamed` as conjuncts: what an
overtaken drain changes late (`crossed`) is all that can break them, however many drains
there are. Lapsed leases, batches that fail half way, jobs run alone and crashes
are covered. The two properties are not inductive: they say nothing of what a drain
has read and has still to write. `MentionsInv` says of each drain that it is `Sound`, in
terms of `Completes`, the jobs it would record now, and of `overtaken`, the pairs another
has claimed since. What it claims it has read (`JobsAreKnown`); a text it restates is
current (`TextsAreCurrent`), a filed name is among those it has seen
(`NamesAreAllSeen`), and the memories a backfill found name the topic
(`CandidatesNameIt`), or it has been asked for again or overtaken. From the last
retraction to the record a topic it restated has no edge its text does not imply
(`RestatedIsSaid`), and the edges it implies, and those to a name it backfilled, are on their
way or stand (`RestatedIsLinked`, `BackfilledIsLinked`), or are left to the other job that
bears on the pair (`LeftTo`): one that is `Due` will see the pair afresh, since whoever
completes it has not been overtaken. That is what two drains that restate the one end of a
pair and backfill the other rest on. The topics are assumed finite, for the widest name to exist.

### Serving

`ServingProofs`: `ServingInv` is inductive, and `OneIndex` and `Findable` follow. Neither
is inductive alone. `Slots` and `Exclusion` say who holds the slot, which engine a
reshape or a rebuild works in, and that one excludes the other; `Alone` that the
engines on a directory are at most one; `OnDisk` what is there in each phase of a swap. These
four hold whatever happens. The others, together `Faithful`, hold until the index goes
`astray`: `InPlace` that what the registry or a purge keeps is on the project's directory, and
nothing in the way of a swap; `Syncing` and `Rewriting` what a sync and a rebuild have in hand. `Right(t)` is `Findable` for a
topic, extended to whatever may come to be served: the copy a reshape makes, with
what was touched since taken from the index it will be caught up from (`WillSay`), and
the directory a swap has moved aside. It holds of a topic as soon as a sync is
about to call it done (`Done`), which is where the step that clears `owed` needs it. A
rebuild writes over the index while it is served, so `Rewriting` says of each topic
what it finds there and what it will be seen to have crossed (`Ready`). There is one
lemma for each of the actions, the failing ones included; `SwapGoesOn`, `SwapEnds`, `ReshapeGoesOn`,
`ContentsStay` and `HalfWrittenIsRight` are what they share.

### Watch

`ServingProofs`: `WatchInv` is inductive, and `NothingMissed` follows. Only a walk of
everything makes the path watched, so every step that leaves it in another state, or
that has it walked, needs nothing to be known (`WalkCatchesUp`). From there on a file
that differs is known or due (`FilesAreKnown`): something heard of will have it looked
at (`IsKnown`), or the ingest that is coming says what it says (`IsDue`). What was heard
of a file counts only while its directory is watched, since `sort` drops the rest; that
is enough because a directory whose watch is not live is itself known (`DirsAreKnown`,
`TopIsKnown`), and what an adopted one held before is lost already (`NewAreLost`,
`AdoptedAreKnown`). `BackAreKnown` keeps a deletion that was held from being the last
word on a file that is back. What any change on the disk tells is one pair of
predicates, `Hears` and `Tells`, and `DiskKeeps` needs no more of it. Any files, any texts
and any number of directories under the one that is followed. Proving it showed that a
search could clear what it should not from `lost` (a file ingested between the sorting
and the watching of its directory, which then goes), in a state that takes two texts of
one file to reach: `Freshen` and the instance of `serving` are as they are for it.

### Hub

`RoundsProofs`: `HubInv` is inductive, and `OneCommit` and `NothingDangles` are conjuncts. A
load is given the commit its fetch was of, which is the one it has pinned because
`commit` was taken from `pinned` before the fetch (`FetchedIsPinned`) and a ref named by
a commit never names another (`CommitsNameThemselves`); when nothing was pinned, nothing
had been given. A blob goes only after its entry, and between the two nobody can link to
it: whoever links holds the lock, and whoever does not take the lock uses a directory
from which nothing is removed (`CallsHoldTheLock`, `BlobsAreWaitedFor`). `IsRight` gathers
what is so of one load, and `StepKeeps` says that a step under the lock leaves the others
as right as they were; there is a lemma for each action under it. Nothing bounds the
loads, commits and files, and what a file says at a commit is any.

### Startup

`RoundsProofs`: `StartupInv` is inductive; `OneStarts`, `Reachable` and
`SettingsAreHonoured` follow. One client has the spawn lock, and only that one starts a
server (`LockIsOnes`); as long as there was no trouble, what starts is the child the
holder waits for, or will find another listening (`StartsAreAwaited`), which gives
`OneStarts`. Crossing is noted in the step it happens in (`CrossingIsNoted`); until then a
server that is past its check for another serves alone, and one that was asked to stop was
the only one (`Alone`), so the path a start or an end removes is nobody's, which keeps
`Reachable`. `ClusterIsRecorded` relates the settings of servers, of the cluster and of
`server.json` in each phase between them. Any number of clients, servers, builds and
kills; `Clients` and `Servers` are finite because `OneStarts` counts.

### Residence

`ResidenceProofs`: `ResidenceInv` is inductive, `CacheIsTrue` a conjunct of it, and
`OneEngineEach` follows. A project has a place of its own, and keeps it while anyone
waits for it or works on it (`PlacesAreKept`): this is what `is_unused` is for, and it is why
`MakeRoom`, which may take away several entries at once, cannot take one that somebody
is about to open an engine in. Who works on a slot has its lock and finds it empty
(`LocksAreHeld`), and every engine, whoever has it in hand, is that of its project's place
(`EnginesAreHeld`): so two engines of a project are one. A purge commits only when it has
waited for all of them, and it has taken theirs out of the slot. `NamesAreTrue` is about
the lock under which a name is resolved and remembered: what it was told is so until it
is in the cache, or the purge that made it false is still to forget it. `Only`, which
keeps what the code's filters keep, is a recursive function; the lemmas on it are proved
by descent on the least index at which they would fail (`SomeIsLeast`), since the library's
induction theorems cannot be applied here. Any number of projects, callers, places and ticks.

### Ingest

`IngestProofs`: `IngestInv` is inductive. `TrustedIsUnchanged` and `RecordIsTrue` are
conjuncts of it, and `TrustedIsLeftAlone` and `NothingOverlooked`, which are about steps,
follow: all four properties of the module. A stat that still holds was taken of what was read
(`LooksAreTrue`), which is what a record put last rests on. `RecordIsTrue` is not inductive:
what makes a record true is put together between reading and recording, so
`RecordingGoesOn` says of each section of a file read that it is on the surface as it was
cut, or off it, or somebody's, or still in `rest`, `emptied` or `gone`, or kept with a new name (`stale`), or its file is
among the `unsettled`; when those are empty, what is left is what a record may say
(`SettledIsTrue`). While sections are written the records of their files are gone
(`CutIsForgotten`), and nobody but the ingest that runs records anything (`ReadIsRecorded`),
so a record that is put back unread is the one that was read. `SurfaceHasSource` is why
nothing on the surface is overlooked: what no file and nobody said is not there. That the
count of sections finds what no record counts needs `Sections` to be finite. Files, texts,
sections, requests and what happens meanwhile are any.

### Models

`IngestProofs`: `ModelsInv` is inductive, and `OneCopy` follows. A load of a kind holds the
registry's lock of it, and nothing of the kind is resident meanwhile
(`LoadsHoldTheLock`); what an engine keeps or a request holds is what is resident
(`HeldIsResident`), which is why the sweep, that gives back only what nobody else holds, leaves
no copy beside the next one loaded.

The inductive invariants of `Spans`, `Ledger`, `Edges`, `Serving`, `Watch`, `Hub`, `Startup`,
`Residence`, `Ingest` and `Models` were each checked by TLC before they were proved, and are not in
a run: the theorems say more.

### Only model-checked

- Liveness and fairness (`DrainsEnd`, `CatchesUp`, `NothingStarves`, `RebuildsEnd`,
  `ChangesAreIngested`), which the prover does not do.
- `BoundedIsExact`, `RecallIsExact`, `RecallsAreDeep`, `AgreementWins` and `HitsAreSound`
  compare what recursive definitions compute; what such a definition computes for
  every input needs induction with an operator as its parameter, which none of the
  provers here can instantiate.
- `CutsAreSound`, which is about sequences of any length that loops build: its
  invariant would be about what `FlattenSeq` and the folds under it compute.

## Findings

1. `fail` compares the worker and not the claim (`crates/store/src/jobs.rs:400`),
   though `Job::claimed_at` is documented as what identifies a claim
   (`jobs.rs:48-53`) and `complete` compares it. An attempt that outlived its
   lease and then failed clears the claim of the attempt that replaced it and
   puts the work off for an hour. Nothing is lost (`syncs` holds with it), but
   the write the replacement makes cannot be recorded, and the work is shown as
   failed.
2. `still_owed` (`crates/cli/src/command/write.rs:82-98`) subtracts every
   applied write awaiting a flush, stale ones included. After a write of a topic is
   applied and before it is flushed, a second write of the topic clears its
   claim; the row is then owed work, and the stale applied copy cancels it in the count.
   A failed retry of that topic, or one whose round is still running in another
   drain, is then reported as nothing owed. `ReportedFindable` leaves out topics
   asked for again by a write that will report for itself, so what it
   finds is a report that is wrong for the request it was made to.
3. `truncate` (`crates/index/src/projection.rs:2035-2054`) relies on ordinals
   having no gap, and its own interruption makes one. What lies past the gap is
   recalled by searches and is found by no later `fetch`, `holds`, `replace` of
   as few spans, or `delete`, until the topic grows past it or the index is
   rebuilt. `docs/cli.md:1708` and `projection.rs:115, 189, 289` assume otherwise.
4. A project that did not open for catching up leaves an empty slot in the registry
   (`crates/cli/src/registry.rs`), and `session.holds` (`crates/cli/src/server.rs:376`) takes a
   slot for an engine that is being opened: the upkeep passes the project over and
   does not try it again when `REOPEN_AFTER` has passed, as the comment there says it
   will.

## Not modelled, and why

Segmentation, the tokenizer, sections, inference, parsing, rendering and settings keep no
state that others change: their difficulty is in numbers and text. Installing and initialising
PostgreSQL, pools and migrations are process and file I/O. Of what is modelled, the
notes of `PROJECT.json` and the sections above say what each module leaves out.

## Plan

Done: the modules above, and the proofs of `Cascade`, `Spans`, `Ledger`, `Edges`,
`Mentions`, `Serving`, `Watch`, `Residence`, `Ingest`, `Models`, `Startup` and `Hub`. Next:

1. `Cascade` under `synchronous_commit = off`: a power loss takes a suffix of the
   commits as well.
