------------------------------- MODULE Outbox -------------------------------
(***************************************************************************)
(* The outbox: the rows of `index_jobs` and the statements                 *)
(* crates/store/src/jobs.rs runs against them.                             *)
(*                                                                         *)
(* A queue is a function from the work that can be owed to the row that    *)
(* says it is owed, or to NoRow.  The unique constraint on project, kind   *)
(* and subject is what makes a function of it.  One project is modelled:   *)
(* every statement but `owing` names one.                                  *)
(*                                                                         *)
(* Time is kept only as far as the statements compare it.  `due` is        *)
(* `available_at <= now`: a claim pushes it a lease ahead, a failure an    *)
(* hour ahead, and time passing brings it back.  `failed` is whether       *)
(* `last_error` is set.                                                    *)
(*                                                                         *)
(* A claim is identified by `claimed_at`, a timestamp that is only ever    *)
(* compared for equality, and a row by its id: both are tokens here, and a *)
(* new one is any token no attempt still alive has a copy of, so a bounded *)
(* set of them stands for values that never repeat.                        *)
(*                                                                         *)
(* `claimed_by` is one string per process.  Only one process at a time can *)
(* have a project's index open for writing, and what a dead process held   *)
(* no live attempt has a copy of, so a row is claimed by the caller's own  *)
(* process exactly when it is claimed at all and the caller has a copy.    *)
(***************************************************************************)
EXTENDS Integers, FiniteSets

CONSTANTS
  Topics,       \* the topics of the project
  Project,      \* the subject of project-wide work: no topic
  Kinds,        \* the kinds of work in play, out of those the source names
  Tokens,       \* row ids, and claim timestamps
  NoRow,        \* nothing is owed
  MaxAttempts,  \* memory_core::MAX_ATTEMPTS, 8 in the source
  Batch         \* how many jobs one claim takes at most

AllKinds == {"Sync", "Derive", "Backfill", "Optimize"}

\* JobKind::URGENT and JobKind::MAINTENANCE.
Urgent == {"Sync", "Derive", "Backfill"}
Maintenance == {"Optimize"}

Key == [kind : Kinds \cap Urgent, topic : Topics]
         \cup [kind : Kinds \cap Maintenance, topic : {Project}]

Unclaimed == 0

Row == [id : Tokens, claim : Tokens \cup {Unclaimed},
        attempts : 0 .. MaxAttempts, due : BOOLEAN, failed : BOOLEAN]

\* A copy of a claimed row, as the attempt that claimed it keeps it.
Job == [key : Key, id : Tokens, claim : Tokens, attempts : 1 .. MaxAttempts]

ASSUME OutboxAssumption ==
  /\ Project \notin Topics
  /\ "Sync" \in Kinds /\ Kinds \subseteq AllKinds
  /\ Tokens \subseteq Nat \ {0} /\ Tokens # {}
  /\ NoRow \notin Row
  /\ MaxAttempts \in Nat \ {0}
  /\ Batch \in Nat \ {0}

-----------------------------------------------------------------------------

\* A token none of these is: what an identifier nobody has seen stands for.
Fresh(used) == CHOOSE token \in Tokens : token \notin used

\* Whether `claim` would take this row: due, with attempts left.
Claimable(row) ==
  /\ row # NoRow
  /\ row.due
  /\ row.attempts < MaxAttempts

\* The row ids and the claims among these copies of one key's job.
IdsOf(copies, k) == {job.id : job \in {j \in copies : j.key = k}}
ClaimsOf(copies, keys) == {job.claim : job \in {j \in copies : j.key \in keys}}

\* Mutant: a pending row already says the work is owed.
RequestedOnce(row, id) ==
  IF row # NoRow
  THEN row
  ELSE [id |-> id, claim |-> Unclaimed, attempts |-> 0, due |-> TRUE,
        failed |-> FALSE]

\* The row a request for work leaves: a new one, or the pending one with its
\* claim and its error cleared, its attempts reset, and due.
Requested(row, id) ==
  [id |-> IF row = NoRow THEN id ELSE row.id,
   claim |-> Unclaimed, attempts |-> 0, due |-> TRUE, failed |-> FALSE]

\* `enqueue` and `enqueue_all`.  `copies` are the jobs attempts still hold.
Enqueue(queue, keys, copies) ==
  [k \in Key |-> IF k \in keys
                 THEN Requested(queue[k], Fresh(IdsOf(copies, k)))
                 ELSE queue[k]]

\* Whether the bound on tokens leaves an id for each row this would insert.
CanEnqueue(queue, keys, copies) ==
  \A k \in keys : queue[k] = NoRow => Tokens \ IdsOf(copies, k) # {}

\* `claim`, of the rows of `keys`, at the time `claim`.
Claim(queue, keys, claim) ==
  [k \in Key |->
     IF k \in keys
     THEN [queue[k] EXCEPT !.claim = claim, !.attempts = @ + 1, !.due = FALSE]
     ELSE queue[k]]

\* What the claim returns: a copy of each row it took.
Claimed(queue, keys, claim) ==
  {[key |-> k, id |-> queue[k].id, claim |-> claim,
    attempts |-> queue[k].attempts + 1] : k \in keys}

\* Whether the claim an attempt took is still the one on the row.
Holds(queue, job) ==
  /\ queue[job.key] # NoRow
  /\ queue[job.key].id = job.id
  /\ queue[job.key].claim = job.claim

\* Mutant: completing by worker alone, which a re-claimed row cannot be told by.
CompleteByWorker(queue, jobs) ==
  [k \in Key |->
     IF queue[k] # NoRow /\ \E job \in jobs :
          job.key = k /\ queue[k].id = job.id /\ queue[k].claim # Unclaimed
     THEN NoRow
     ELSE queue[k]]

\* `complete`: the rows whose claim is still the one these attempts took.
Complete(queue, jobs) ==
  [k \in Key |-> IF \E job \in jobs : job.key = k /\ Holds(queue, job)
                 THEN NoRow
                 ELSE queue[k]]

\* The row `fail` matches: by id and by who claimed it, and not by which
\* claim it is.
Fails(queue, job) ==
  /\ queue[job.key] # NoRow
  /\ queue[job.key].id = job.id
  /\ queue[job.key].claim # Unclaimed

\* `fail`: gives the claim up, and waits an hour unless the attempts of the
\* copy that failed are used up.
Fail(queue, job) ==
  IF Fails(queue, job)
  THEN [queue EXCEPT ![job.key].claim = Unclaimed,
                     ![job.key].failed = TRUE,
                     ![job.key].due = @ /\ job.attempts >= MaxAttempts]
  ELSE queue

\* `any_in_flight`.
AnyInFlight(queue) ==
  \E k \in Key :
    /\ queue[k] # NoRow
    /\ \/ queue[k].claim # Unclaimed /\ ~queue[k].due
       \/ /\ queue[k].attempts < MaxAttempts
          /\ queue[k].claim # Unclaimed \/ queue[k].due

\* The jobs `exhausted` lists, and `replay` and `discard` act on.
Exhausted(queue) ==
  {k \in Key : queue[k] # NoRow /\ queue[k].attempts >= MaxAttempts}

\* `replay`.
Replay(queue) ==
  [k \in Key |->
     IF k \in Exhausted(queue)
     THEN [queue[k] EXCEPT !.claim = Unclaimed, !.attempts = 0, !.due = TRUE]
     ELSE queue[k]]

\* `discard`.
Discard(queue) ==
  [k \in Key |-> IF k \in Exhausted(queue) THEN NoRow ELSE queue[k]]

\* Time passes: a lease runs out, or the hour before a retry.
FallDue(queue, k) == [queue EXCEPT ![k].due = TRUE]

=============================================================================
