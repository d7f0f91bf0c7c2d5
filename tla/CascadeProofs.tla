--------------------------- MODULE CascadeProofs ----------------------------
(***************************************************************************)
(* That the cascade loses nothing, for every number of topics, drains,     *)
(* attempts and tokens: Cascade's invariants, proved from CascadeInv.      *)
(*                                                                         *)
(* Every step but seven changes only the outbox, and what attempts hold.   *)
(* The lemma StepKeepsInv says what such a step may do, LocalStep puts     *)
(* that in terms of the one agent that takes it, and the lemmas on the     *)
(* statements of the outbox discharge the rest.  The other seven change    *)
(* the ledger or the index, or read one to write the other, and each has a *)
(* lemma of its own.                                                       *)
(***************************************************************************)
EXTENDS Cascade, FiniteSetTheorems, TLAPS

-----------------------------------------------------------------------------
(***************************************************************************)
(* What each statement of the outbox does to the rows, for every queue:    *)
(* it leaves a queue, drops only the rows it says it drops, and lets no    *)
(* claim stand that did not stand before, but the one a claim takes.       *)
(***************************************************************************)

\* A fresh token is one nobody has a copy of.
LEMMA FreshToken ==
  ASSUME NEW used, Tokens \ used # {}
  PROVE  Fresh(used) \in Tokens /\ Fresh(used) \notin used
BY DEF Fresh

\* Token zero is nobody's claim.
LEMMA NobodysClaim == Unclaimed \notin Tokens /\ NoRow \notin Row
BY OutboxAssumption DEF Unclaimed, OutboxAssumption

Queue == [Key -> Row \cup {NoRow}]

\* Asking for work leaves a queue, with the rows asked for and nobody's claim
\* on them, and no row fewer.
LEMMA EnqueueQueues ==
  ASSUME NEW q \in Queue, NEW keys \in SUBSET Key, NEW copies,
         CanEnqueue(q, keys, copies)
  PROVE  /\ Enqueue(q, keys, copies) \in Queue
         /\ \A k \in Key : Enqueue(q, keys, copies)[k] = NoRow =>
              k \notin keys /\ q[k] = NoRow
         /\ \A job \in Job : Holds(Enqueue(q, keys, copies), job) =>
              job.key \notin keys /\ Holds(q, job)
<1> DEFINE new == Enqueue(q, keys, copies)
<1>1. \A k \in keys : new[k] \in Row /\ new[k].claim = Unclaimed
  <2> SUFFICES ASSUME NEW k \in keys
               PROVE  new[k] \in Row /\ new[k].claim = Unclaimed
      OBVIOUS
  <2>1. new[k] = Requested(q[k], Fresh(IdsOf(copies, k)))
    BY DEF Enqueue
  <2>2. IF q[k] = NoRow THEN Fresh(IdsOf(copies, k)) \in Tokens
                        ELSE q[k].id \in Tokens
    BY FreshToken DEF CanEnqueue, Queue, Row
  <2>3. (IF q[k] = NoRow THEN Fresh(IdsOf(copies, k)) ELSE q[k].id) \in Tokens
    BY <2>2
  <2>4. 0 \in 0 .. MaxAttempts
    BY OutboxAssumption DEF OutboxAssumption
  <2> QED
    BY <2>1, <2>3, <2>4 DEF Requested, Row
<1>2. \A k \in Key \ keys : new[k] = q[k]
  BY DEF Enqueue
<1>3. new \in Queue
  <2>1. new = [k \in Key |-> new[k]]
    BY DEF Enqueue
  <2>2. \A k \in Key : new[k] \in Row \cup {NoRow}
    BY <1>1, <1>2 DEF Queue
  <2> QED
    BY <2>1, <2>2 DEF Queue
<1>4. ASSUME NEW job \in Job, Holds(new, job)
      PROVE  job.key \notin keys /\ Holds(q, job)
  <2>1. job.key \in Key /\ job.claim \in Tokens
    BY DEF Job
  <2>2. job.key \notin keys
    BY <1>1, <1>4, <2>1, NobodysClaim DEF Holds
  <2> QED
    BY <1>2, <1>4, <2>1, <2>2 DEF Holds
<1> QED
  BY <1>1, <1>2, <1>3, <1>4, NobodysClaim DEF Queue

\* A claim takes rows over: no row goes, and of the jobs somebody has a copy
\* of, only those with this claim have it now.
LEMMA ClaimQueues ==
  ASSUME NEW q \in Queue, NEW keys \in SUBSET Key, NEW claim \in Tokens,
         \A k \in keys : Claimable(q[k])
  PROVE  /\ Claim(q, keys, claim) \in Queue
         /\ \A k \in Key : Claim(q, keys, claim)[k] = NoRow => q[k] = NoRow
         /\ \A job \in Job : Holds(Claim(q, keys, claim), job) =>
              \/ job.key \in keys /\ job.claim = claim
              \/ Holds(q, job)
<1> DEFINE new == Claim(q, keys, claim)
<1>1. ASSUME NEW k \in keys
      PROVE  new[k] \in Row /\ new[k].claim = claim
  <2>1. q[k] \in Row /\ q[k].attempts < MaxAttempts
    BY DEF Claimable, Queue
  <2>2. q[k].attempts + 1 \in 0 .. MaxAttempts
    BY <2>1, OutboxAssumption DEF Row, OutboxAssumption
  <2>3. new[k] = [q[k] EXCEPT !.claim = claim, !.attempts = @ + 1, !.due = FALSE]
    BY DEF Claim
  <2> QED
    BY <2>1, <2>2, <2>3 DEF Row
<1>2. \A k \in Key \ keys : new[k] = q[k]
  BY DEF Claim
<1>3. new \in Queue
  <2>1. new = [k \in Key |-> new[k]]
    BY DEF Claim
  <2>2. \A k \in Key : new[k] \in Row \cup {NoRow}
    BY <1>1, <1>2 DEF Queue
  <2> QED
    BY <2>1, <2>2 DEF Queue
<1>4. ASSUME NEW job \in Job, Holds(new, job)
      PROVE  (job.key \in keys /\ job.claim = claim) \/ Holds(q, job)
  <2>1. job.key \in Key
    BY DEF Job
  <2> QED
    BY <1>1, <1>2, <1>4, <2>1 DEF Holds
<1> QED
  BY <1>1, <1>2, <1>3, <1>4, NobodysClaim DEF Queue

\* What a claim returns are jobs of those keys, one of each.
LEMMA ClaimedJobs ==
  ASSUME NEW q \in Queue, NEW keys \in SUBSET Key, NEW claim \in Tokens,
         \A k \in keys : Claimable(q[k])
  PROVE  /\ Claimed(q, keys, claim) \subseteq Job
         /\ \A job \in Claimed(q, keys, claim) : job.key \in keys
         /\ \A job, other \in Claimed(q, keys, claim) :
              job.key = other.key => job = other
<1>1. ASSUME NEW k \in keys
      PROVE  [key |-> k, id |-> q[k].id, claim |-> claim,
              attempts |-> q[k].attempts + 1] \in Job
  <2>1. q[k] \in Row /\ q[k].attempts < MaxAttempts
    BY DEF Claimable, Queue
  <2>2. q[k].attempts + 1 \in 1 .. MaxAttempts
    BY <2>1, OutboxAssumption DEF Row, OutboxAssumption
  <2> QED
    BY <2>1, <2>2 DEF Row, Job
<1> QED
  BY <1>1 DEF Claimed

\* Completing drops the rows these attempts still hold and touches no other.
LEMMA CompleteQueues ==
  ASSUME NEW q \in Queue, NEW jobs
  PROVE  /\ Complete(q, jobs) \in Queue
         /\ \A k \in Key : Complete(q, jobs)[k] = NoRow =>
              q[k] = NoRow \/ \E job \in jobs : job.key = k /\ Holds(q, job)
         /\ \A job \in Job : Holds(Complete(q, jobs), job) => Holds(q, job)
<1> DEFINE new == Complete(q, jobs)
<1>1. \A k \in Key : new[k] =
        IF \E job \in jobs : job.key = k /\ Holds(q, job) THEN NoRow ELSE q[k]
  BY DEF Complete
<1>2. new \in Queue
  BY DEF Complete, Queue
<1>3. ASSUME NEW job \in Job, Holds(new, job)
      PROVE  Holds(q, job)
  BY <1>1, <1>3 DEF Holds, Job
<1> QED
  BY <1>1, <1>2, <1>3

\* A failure drops no row, and gives claims up.
LEMMA FailQueues ==
  ASSUME NEW q \in Queue, NEW failed \in Job
  PROVE  /\ Fail(q, failed) \in Queue
         /\ \A k \in Key : Fail(q, failed)[k] = NoRow => q[k] = NoRow
         /\ \A job \in Job : Holds(Fail(q, failed), job) => Holds(q, job)
<1> DEFINE new == Fail(q, failed)
<1>1. CASE ~Fails(q, failed)
  BY <1>1 DEF Fail
<1>2. CASE Fails(q, failed)
  <2> DEFINE k0 == failed.key
             row == [q[k0] EXCEPT
                       !.claim = Unclaimed, !.failed = TRUE,
                       !.due = q[k0].due /\ failed.attempts >= MaxAttempts]
  <2>1. k0 \in Key /\ q[k0] \in Row
    BY <1>2 DEF Fails, Job, Queue
  <2>2. new = [q EXCEPT ![k0] = row]
    BY <1>2, <2>1 DEF Fail, Queue, Row
  <2>3. row \in Row /\ row.claim = Unclaimed
    BY <2>1 DEF Row
  <2>4. new \in Queue
    BY <2>1, <2>2, <2>3 DEF Queue
  <2>5. new[k0] = row /\ \A k \in Key \ {k0} : new[k] = q[k]
    BY <2>1, <2>2 DEF Queue
  <2>6. ASSUME NEW job \in Job, Holds(new, job)
        PROVE  Holds(q, job)
    BY <2>3, <2>5, <2>6, NobodysClaim DEF Holds, Job
  <2> QED
    BY <2>3, <2>4, <2>5, <2>6, NobodysClaim
<1> QED
  BY <1>1, <1>2

\* A replay drops no row, and gives claims up.
LEMMA ReplayQueues ==
  ASSUME NEW q \in Queue
  PROVE  /\ Replay(q) \in Queue
         /\ \A k \in Key : Replay(q)[k] = NoRow => q[k] = NoRow
         /\ \A job \in Job : Holds(Replay(q), job) => Holds(q, job)
<1> DEFINE new == Replay(q)
<1>1. ASSUME NEW k \in Key, k \in Exhausted(q)
      PROVE  new[k] \in Row /\ new[k].claim = Unclaimed
  <2>1. q[k] \in Row
    BY <1>1 DEF Exhausted, Queue
  <2>2. 0 \in 0 .. MaxAttempts
    BY OutboxAssumption DEF OutboxAssumption
  <2>3. new[k] = [q[k] EXCEPT !.claim = Unclaimed, !.attempts = 0, !.due = TRUE]
    BY <1>1 DEF Replay
  <2> QED
    BY <2>1, <2>2, <2>3 DEF Row
<1>2. \A k \in Key \ Exhausted(q) : new[k] = q[k]
  BY DEF Replay
<1>3. new \in Queue
  <2>1. new = [k \in Key |-> new[k]]
    BY DEF Replay
  <2>2. \A k \in Key : new[k] \in Row \cup {NoRow}
    BY <1>1, <1>2 DEF Queue
  <2> QED
    BY <2>1, <2>2 DEF Queue
<1>4. ASSUME NEW job \in Job, Holds(new, job)
      PROVE  Holds(q, job)
  <2>1. job.key \in Key /\ job.claim \in Tokens
    BY DEF Job
  <2> QED
    BY <1>1, <1>2, <1>4, <2>1, NobodysClaim DEF Holds
<1> QED
  BY <1>1, <1>2, <1>3, <1>4, NobodysClaim

\* Discarding drops the rows out of attempts and touches no other.
LEMMA DiscardQueues ==
  ASSUME NEW q \in Queue
  PROVE  /\ Discard(q) \in Queue
         /\ \A k \in Key : Discard(q)[k] = NoRow =>
              q[k] = NoRow \/ k \in Exhausted(q)
         /\ \A job \in Job : Holds(Discard(q), job) => Holds(q, job)
<1>1. \A k \in Key : Discard(q)[k] = IF k \in Exhausted(q) THEN NoRow ELSE q[k]
  BY DEF Discard
<1>2. Discard(q) \in Queue
  BY DEF Discard, Queue
<1> QED
  BY <1>1, <1>2 DEF Holds, Job

\* Time drops nothing and touches no claim.
LEMMA FallDueQueues ==
  ASSUME NEW q \in Queue, NEW k0 \in Key, q[k0] # NoRow
  PROVE  /\ FallDue(q, k0) \in Queue
         /\ \A k \in Key : FallDue(q, k0)[k] = NoRow => q[k] = NoRow
         /\ \A job \in Job : Holds(FallDue(q, k0), job) => Holds(q, job)
<1> DEFINE row == [q[k0] EXCEPT !.due = TRUE]
<1>1. q[k0] \in Row
  BY DEF Queue
<1>2. row \in Row /\ row.id = q[k0].id /\ row.claim = q[k0].claim
  BY <1>1 DEF Row
<1>3. FallDue(q, k0) = [q EXCEPT ![k0] = row]
  BY <1>1 DEF FallDue, Queue, Row
<1>4. /\ FallDue(q, k0) \in Queue
      /\ FallDue(q, k0)[k0] = row
      /\ \A k \in Key \ {k0} : FallDue(q, k0)[k] = q[k]
  BY <1>2, <1>3 DEF Queue
<1>5. row # NoRow
  BY <1>2, NobodysClaim
<1> HIDE DEF row
<1>6. ASSUME NEW job \in Job, Holds(FallDue(q, k0), job)
      PROVE  Holds(q, job)
  BY <1>2, <1>4, <1>6 DEF Holds, Job
<1> QED
  BY <1>4, <1>5, <1>6

-----------------------------------------------------------------------------
(* Types.                                                                  *)

\* The state an agent is in when nothing is asked of it is one it can be in.
LEMMA IdleType ==
  /\ Idle \in Agent
  /\ \A after \in Returns : Flushing(after) \in Agent
  /\ \A after \in Returns : [Idle EXCEPT !.phase = after] \in Agent
  /\ \A local \in Agent : Back(local) \in Agent
<1>1. Idle \in Agent
  <2>1. 0 \in Counts
    BY FS_EmptySet DEF Counts
  <2> QED
    BY <2>1 DEF Idle, Agent, Phases, Returns, Modes, Unread, Says
<1>2. \A after \in Returns : [Idle EXCEPT !.phase = after] \in Agent
  BY <1>1 DEF Agent, Phases, Returns
<1>3. \A after \in Returns : Flushing(after) \in Agent
  BY <1>1 DEF Flushing, Agent, Phases
<1>4. ASSUME NEW local \in Agent PROVE Back(local) \in Agent
  <2>1. local.after \in Returns /\ local.after \in Phases
    BY DEF Agent, Phases, Returns
  <2>2. CASE local.after \in {"idle", "maintain"}
    BY <1>2, <2>1, <2>2 DEF Back
  <2>3. CASE local.after \notin {"idle", "maintain"}
    BY <2>1, <2>3 DEF Back, Agent, Returns
  <2> QED
    BY <2>2, <2>3
<1> QED
  BY <1>1, <1>2, <1>3, <1>4

\* What an agent has a copy of.
LEMMA CopiesType ==
  ASSUME TypeOK
  PROVE  Copies \subseteq Job
BY DEF TypeOK, Copies, CopiesOf, Agent, SyncJob

\* The cascade starts in a state of the right type.
LEMMA InitType == Init => TypeOK
<1> SUFFICES ASSUME Init PROVE TypeOK
    OBVIOUS
<1>1. agent \in [Agents -> Agent]
  BY IdleType DEF Init
<1>2. ledger \in [Topics -> Says] /\ buffer \in [Topics -> Document]
  BY DEF Init, Says, Document
<1> QED
  BY <1>1, <1>2 DEF Init, TypeOK

\* A request for work leaves an outbox.
LEMMA RequestType ==
  ASSUME TypeOK, NEW keys, Request(keys)
  PROVE  queue' \in Queue /\ abandoned' \subseteq Key
<1> DEFINE asked == keys \cap Key
<1>1. /\ CanEnqueue(queue, asked, Copies)
      /\ queue' = Enqueue(queue, asked, Copies)
      /\ abandoned' = abandoned \ asked
  BY DEF Request
<1>2. queue \in Queue /\ asked \in SUBSET Key /\ abandoned \subseteq Key
  BY DEF TypeOK, Queue
<1>3. queue' \in Queue
  BY <1>1, <1>2, EnqueueQueues
<1> QED
  BY <1>1, <1>2, <1>3

\* A write, a rename and a removal, replays and discards, requests and the
\* failures keep the types.
LEMMA EnvironmentType ==
  ASSUME TypeOK, Environment
  PROVE  TypeOK'
<1> USE DEF vars, indexVars, engineVars
<1>q. queue \in Queue
  BY DEF TypeOK, Queue
<1>1. ASSUME NEW t \in Topics, NEW c \in Contents, WriteMemory(t, c)
      PROVE  TypeOK'
  <2>1. queue' \in Queue /\ abandoned' \subseteq Key
    BY <1>1, RequestType DEF WriteMemory
  <2> QED
    BY <1>1, <2>1 DEF WriteMemory, TypeOK, Queue, Says
<1>2. ASSUME NEW t \in Topics, NEW c \in Contents, RenameTopic(t, c)
      PROVE  TypeOK'
  <2>1. queue' \in Queue /\ abandoned' \subseteq Key
    BY <1>2, RequestType DEF RenameTopic
  <2> QED
    BY <1>2, <2>1 DEF RenameTopic, TypeOK, Queue, Says
<1>3. ASSUME NEW t \in Topics, RetireTopic(t)
      PROVE  TypeOK'
  <2>1. queue' \in Queue /\ abandoned' \subseteq Key
    BY <1>3, RequestType DEF RetireTopic
  <2> QED
    BY <1>3, <2>1 DEF RetireTopic, TypeOK, Queue, Says
<1>4. CASE ReplayExhausted
  BY <1>4, <1>q, ReplayQueues DEF ReplayExhausted, TypeOK, Queue
<1>5. CASE DiscardExhausted
  BY <1>5, <1>q, DiscardQueues DEF DiscardExhausted, TypeOK, Queue, Exhausted
<1>6. ASSUME NEW d \in Drains, NEW mode \in Owed, Start(d, mode)
      PROVE  TypeOK'
  <2>1. mode \in Modes /\ d \in Agents
    BY CascadeAssumption DEF CascadeAssumption, Modes, Agents
  <2>2. [Idle EXCEPT !.phase = "ask", !.mode = mode] \in Agent
    <3>1. Idle \in Agent
      BY IdleType
    <3> QED
      BY <2>1, <3>1 DEF Agent, Phases
  <2> QED
    BY <1>6, <2>1, <2>2 DEF Start, TypeOK
<1>7. ASSUME NEW a \in Agents, Abort(a)
      PROVE  TypeOK'
  <2>1. AfterError(a) \in Agent
    BY IdleType DEF AfterError, Phases, Returns
  <2> QED
    BY <1>7, <2>1 DEF Abort, TypeOK
<1>8. ASSUME EngineGone, UNCHANGED <<ledger, queue, abandoned>>,
             buffer' \in [Topics -> Document], dirty' \subseteq Topics
      PROVE  TypeOK'
  BY <1>8, IdleType DEF EngineGone, TypeOK
<1>9. CASE Close
  BY <1>8, <1>9 DEF Close, TypeOK
<1>10. CASE Kill
  BY <1>8, <1>10 DEF Kill, TypeOK
<1>11. CASE PowerLoss
  BY <1>8, <1>11 DEF PowerLoss
<1> QED
  BY <1>1, <1>2, <1>3, <1>4, <1>5, <1>6, <1>7, <1>9, <1>10, <1>11
  DEF Environment

\* What a claim takes are jobs, and the claim is a token.
LEMMA ClaimType ==
  ASSUME TypeOK, NEW mode, NEW keys \in SUBSET Due(mode),
         Tokens \ ClaimsOf(Copies, keys) # {}
  PROVE  LET claim == Fresh(ClaimsOf(Copies, keys))
         IN  /\ claim \in Tokens
             /\ keys \in SUBSET Key
             /\ \A k \in keys : Claimable(queue[k])
             /\ Claim(queue, keys, claim) \in Queue
             /\ Claimed(queue, keys, claim) \subseteq Job
<1> DEFINE claim == Fresh(ClaimsOf(Copies, keys))
<1>1. claim \in Tokens
  BY FreshToken
<1>2. keys \in SUBSET Key /\ \A k \in keys : Claimable(queue[k])
  BY DEF Due
<1>3. queue \in Queue
  BY DEF TypeOK, Queue
<1>4. Claim(queue, keys, claim) \in Queue
  BY <1>1, <1>2, <1>3, ClaimQueues
<1>5. Claimed(queue, keys, claim) \subseteq Job
  BY <1>1, <1>2, <1>3, ClaimedJobs
<1> QED
  BY <1>1, <1>2, <1>4, <1>5

\* A step that leaves the outbox, the index and the engine alone keeps the
\* types if the agent that takes it does.
LEMMA AgentType ==
  ASSUME TypeOK, NEW a \in Agents, NEW local \in Agent,
         agent' = [agent EXCEPT ![a] = local],
         UNCHANGED <<ledger, opened>>,
         queue' \in Queue, abandoned' \subseteq Key,
         buffer' \in [Topics -> Document], dirty' \subseteq Topics,
         unflushed' \subseteq SyncJob, syncing' \in Agents \cup {NoOne}
  PROVE  TypeOK'
BY DEF TypeOK, Queue

\* A round of a drain keeps the types.
LEMMA RoundType ==
  ASSUME TypeOK, NEW a \in Agents, Round(a)
  PROVE  TypeOK'
<1> USE DEF indexVars, engineVars
<1>t. /\ queue \in Queue /\ abandoned \subseteq Key
      /\ buffer \in [Topics -> Document] /\ dirty \subseteq Topics
      /\ unflushed \subseteq SyncJob /\ syncing \in Agents \cup {NoOne}
      /\ agent \in [Agents -> Agent] /\ agent[a] \in Agent
      /\ ledger \in [Topics -> Says]
  BY DEF TypeOK, Queue
<1>1. CASE ClaimJobs(a)
  <2>1. PICK keys \in SUBSET Due(agent[a].mode) :
          LET used == ClaimsOf(Copies, keys)
              jobs == Claimed(queue, keys, Fresh(used))
              syncs == jobs \cap SyncJob
          IN  /\ Tokens \ used # {}
              /\ queue' = Claim(queue, keys, Fresh(used))
              /\ agent' = [agent EXCEPT
                   ![a].phase = IF syncs = {} THEN "reads" ELSE "sync",
                   ![a].syncs = syncs,
                   ![a].reads = jobs \ syncs]
    BY <1>1 DEF ClaimJobs
  <2> DEFINE jobs == Claimed(queue, keys, Fresh(ClaimsOf(Copies, keys)))
  <2>2. jobs \subseteq Job /\ queue' \in Queue
    BY <2>1, ClaimType
  <2>3. jobs \cap SyncJob \subseteq SyncJob
        /\ jobs \ (jobs \cap SyncJob) \subseteq Job \ SyncJob
    BY <2>2
  <2> HIDE DEF jobs
  <2>4. agent' \in [Agents -> Agent]
    BY <2>1, <2>3, <1>t DEF Agent, Phases, jobs
  <2> QED
    BY <1>1, <2>2, <2>4, <1>t DEF ClaimJobs, TypeOK, Queue
<1>2. CASE ClaimNothing(a)
  <2>1. AfterTidying(a) \in Agent
    <3>1. [agent[a] EXCEPT !.phase = "poll"] \in Agent
          /\ [agent[a] EXCEPT !.phase = "count"] \in Agent
      BY <1>t DEF Agent, Phases, Returns
    <3>2. Flushing("maintain") \in Agent
      BY IdleType DEF Phases, Returns
    <3> QED
      BY <3>1, <3>2 DEF AfterTidying
  <2>2. [agent[a] EXCEPT !.phase = "take", !.after = "tidy"] \in Agent
        /\ [agent[a] EXCEPT !.phase = "tidy"] \in Agent
    BY <1>t DEF Agent, Phases, Returns
  <2>3. PICK local \in Agent : agent' = [agent EXCEPT ![a] = local]
    BY <1>2, <1>t, <2>1, <2>2 DEF ClaimNothing
  <2> QED
    BY <1>2, <1>t, <2>3, AgentType DEF ClaimNothing
<1>3. CASE ReadLedger(a)
  <2>1. agent' \in [Agents -> Agent]
    BY <1>3, <1>t DEF ReadLedger, Agent, Phases
  <2> QED
    BY <1>3, <1>t, <2>1 DEF ReadLedger, TypeOK, Queue
<1>4. CASE ReadLedgerFails(a)
  <2>1. agent' \in [Agents -> Agent]
    BY <1>4, <1>t DEF ReadLedgerFails, Agent, Phases, SyncJob
  <2> QED
    BY <1>4, <1>t, <2>1 DEF ReadLedgerFails, TypeOK, Queue
<1>5. ASSUME NEW job \in agent[a].syncs, NEW outcome \in Agent,
             AfterWriting(a, job, outcome),
             NEW document \in Document, Write(job.key.topic, document),
             UNCHANGED <<ledger, queue, abandoned, opened, unflushed>>
      PROVE  TypeOK'
  <2>1. job \in SyncJob /\ job.key.topic \in Topics
    BY <1>t, OutboxAssumption
    DEF Agent, SyncJob, Job, Key, OutboxAssumption, Maintenance
  <2>2. buffer' \in [Topics -> Document] /\ dirty' \subseteq Topics
    BY <1>5, <1>t, <2>1 DEF Write
  <2>3. agent' \in [Agents -> Agent] /\ syncing' \in Agents \cup {NoOne}
    <3> DEFINE left == agent[a].syncs \ {job}
               local == [outcome EXCEPT
                           !.syncs = left,
                           !.phase = IF left = {} THEN "settle" ELSE "apply",
                           !.seen = IF left = {} THEN Unread ELSE outcome.seen]
    <3>1. left \in SUBSET SyncJob /\ Unread \in [Topics -> Says]
      BY <1>t DEF Agent, Unread, Says
    <3>2. local \in Agent
      BY <3>1 DEF Agent, Phases
    <3>3. /\ agent' = [agent EXCEPT ![a] = local]
          /\ syncing' = IF left = {} THEN NoOne ELSE a
      BY <1>5 DEF AfterWriting, Agent
    <3> QED
      BY <1>t, <3>2, <3>3
  <2> QED
    BY <1>5, <1>t, <2>2, <2>3 DEF TypeOK, Queue
<1>6. ASSUME NEW job \in agent[a].syncs, ApplyOne(a, job)
      PROVE  TypeOK'
  <2>1. job \in SyncJob /\ job.key.topic \in Topics
    BY <1>t, OutboxAssumption
    DEF Agent, SyncJob, Job, Key, OutboxAssumption, Maintenance
  <2>2. Reading(a, job) \in Document
    BY <1>t, <2>1 DEF Reading, Agent, Document
  <2>3. [agent[a] EXCEPT !.applied = @ \cup {job}] \in Agent
    BY <1>t, <2>1 DEF Agent
  <2> QED
    BY <1>5, <1>6, <2>2, <2>3 DEF ApplyOne
<1>7. ASSUME NEW job \in agent[a].syncs, ApplyOneFails(a, job)
      PROVE  TypeOK'
  <2>1. job \in Job /\ job.key.topic \in Topics
    BY <1>t, OutboxAssumption
    DEF Agent, SyncJob, Job, Key, OutboxAssumption, Maintenance
  <2>2. /\ buffer[job.key.topic] \in Document /\ Torn \in Document
        /\ Reading(a, job) \in Document
    BY <1>t, <2>1 DEF Document, Reading, Agent
  <2>3. [agent[a] EXCEPT !.failed = @ \cup {job}] \in Agent
    BY <1>t, <2>1 DEF Agent
  <2> QED
    BY <1>5, <1>7, <2>2, <2>3 DEF ApplyOneFails
<1>8. CASE Settle(a)
  <2>1. agent' \in [Agents -> Agent]
    <3>1. /\ AfterWrites(a) \in Phases
          /\ agent[a].applied \in SUBSET Job /\ {} \in SUBSET SyncJob
      BY <1>t DEF AfterWrites, Phases, Agent, SyncJob
    <3>2. CASE agent[a].mode = "Everything"
      BY <1>8, <1>t, <3>1, <3>2 DEF Settle, Agent
    <3>3. CASE agent[a].mode # "Everything"
      BY <1>8, <1>t, <3>1, <3>3 DEF Settle, Agent
    <3> QED
      BY <3>2, <3>3
  <2>2. unflushed' \subseteq SyncJob /\ dirty' \subseteq Topics
    BY <1>8, <1>t DEF Settle, Agent
  <2> QED
    BY <1>8, <1>t, <2>1, <2>2 DEF Settle, TypeOK, Queue
<1>9. CASE RunReads(a)
  <2>1. PICK failing \in SUBSET agent[a].reads :
          agent' = [agent EXCEPT
                      ![a].phase = "record",
                      ![a].failed = @ \cup failing,
                      ![a].done = @ \cup (agent[a].reads \ failing),
                      ![a].reads = {}]
    BY <1>9 DEF RunReads
  <2>2. /\ agent[a].failed \cup failing \in SUBSET Job
        /\ agent[a].done \cup (agent[a].reads \ failing) \in SUBSET Job
        /\ {} \in SUBSET (Job \ SyncJob) /\ "record" \in Phases
    BY <1>t DEF Agent, Phases, Returns
  <2>3. agent' \in [Agents -> Agent]
    BY <1>t, <2>1, <2>2 DEF Agent
  <2> QED
    BY <1>9, <1>t, <2>3 DEF RunReads, TypeOK, Queue
<1>10. ASSUME NEW job \in agent[a].failed, RecordFailure(a, job)
       PROVE  TypeOK'
  <2>1. job \in Job
    BY <1>t DEF Agent
  <2>2. queue' \in Queue
    BY <1>10, <1>t, <2>1, FailQueues DEF RecordFailure
  <2>3. agent' \in [Agents -> Agent]
    BY <1>10, <1>t DEF RecordFailure, Agent
  <2> QED
    BY <1>10, <1>t, <2>2, <2>3 DEF RecordFailure, TypeOK, Queue
<1>11. CASE RecordDone(a)
  <2>1. queue' \in Queue
    BY <1>11, <1>t, CompleteQueues DEF RecordDone
  <2>2. PICK local \in Agent : agent' = [agent EXCEPT ![a] = local]
    <3> DEFINE full == Cardinality(unflushed) >= AwaitingDurability
               on == [agent[a] EXCEPT
                        !.phase = IF full THEN "take" ELSE "ask",
                        !.after = IF full THEN "ask" ELSE agent[a].after,
                        !.completed = agent[a].completed \/ queue' # queue,
                        !.done = {}]
    <3>1. on \in Agent
      BY <1>t DEF Agent, Phases, Returns
    <3>2. agent' = [agent EXCEPT
                      ![a] = IF agent[a].mode = "Maintain" THEN Idle ELSE on]
      BY <1>11 DEF RecordDone
    <3> QED
      BY <3>1, <3>2, IdleType
  <2> QED
    BY <1>11, <1>t, <2>1, <2>2, AgentType DEF RecordDone
<1> QED
  BY <1>1, <1>2, <1>3, <1>4, <1>6, <1>7, <1>8, <1>9, <1>10, <1>11 DEF Round

\* Flushing what is applied, and ending a drain, keep the types.
LEMMA EndingType ==
  ASSUME TypeOK, NEW a \in Agents, Ending(a)
  PROVE  TypeOK'
<1> USE DEF indexVars, engineVars
<1>t. /\ queue \in Queue /\ abandoned \subseteq Key
      /\ buffer \in [Topics -> Document] /\ dirty \subseteq Topics
      /\ unflushed \subseteq SyncJob /\ syncing \in Agents \cup {NoOne}
      /\ agent \in [Agents -> Agent] /\ agent[a] \in Agent
  BY DEF TypeOK, Queue
<1>b. Back(agent[a]) \in Agent
  BY <1>t, IdleType
<1>a. AfterTidying(a) \in Agent
  <2>1. [agent[a] EXCEPT !.phase = "poll"] \in Agent
        /\ [agent[a] EXCEPT !.phase = "count"] \in Agent
    BY <1>t DEF Agent, Phases, Returns
  <2>2. Flushing("maintain") \in Agent
    BY IdleType DEF Phases, Returns
  <2> QED
    BY <2>1, <2>2 DEF AfterTidying
<1>1. CASE TakeApplied(a)
  <2>1. [agent[a] EXCEPT !.phase = "flush", !.applied = unflushed] \in Agent
    BY <1>t DEF Agent, Phases, Returns
  <2>2. PICK local \in Agent : agent' = [agent EXCEPT ![a] = local]
    BY <1>1, <1>b, <2>1 DEF TakeApplied
  <2> QED
    BY <1>1, <1>t, <2>2, AgentType DEF TakeApplied
<1>2. CASE FlushApplied(a)
  <2>1. agent[a].applied \in SUBSET Job /\ {} \in SUBSET SyncJob
    BY <1>t DEF Agent, SyncJob
  <2>2. agent' \in [Agents -> Agent]
    BY <1>2, <1>t, <2>1 DEF FlushApplied, Agent, Phases
  <2> QED
    BY <1>2, <1>t, <2>2 DEF FlushApplied, TypeOK, Queue
<1>3. CASE RecordFlushed(a)
  <2>1. queue' \in Queue
    BY <1>3, <1>t, CompleteQueues DEF RecordFlushed
  <2> DEFINE recorded == [agent[a] EXCEPT
                            !.completed = @ \/ queue' # queue,
                            !.tidied = @ /\ (agent[a].after = "tidy"
                                               => queue' = queue),
                            !.done = {}]
  <2>2. recorded \in Agent
    BY <1>t DEF Agent
  <2>3. Back(recorded) \in Agent
        /\ [recorded EXCEPT !.phase = "wasteful"] \in Agent
    <3> HIDE DEF recorded
    <3>1. Back(recorded) \in Agent
      BY <2>2, IdleType
    <3>2. [recorded EXCEPT !.phase = "wasteful"] \in Agent
      BY <2>2 DEF Agent, Phases
    <3> QED
      BY <3>1, <3>2
  <2>4. PICK local \in Agent : agent' = [agent EXCEPT ![a] = local]
    BY <1>3, <2>3 DEF RecordFlushed
  <2> QED
    BY <1>3, <1>t, <2>1, <2>4, AgentType DEF RecordFlushed
<1>4. CASE QueueIfWasteful(a)
  <2>1. queue' \in Queue /\ abandoned' \subseteq Key
    BY <1>4, RequestType DEF QueueIfWasteful
  <2> QED
    BY <1>4, <1>t, <1>b, <2>1, AgentType DEF QueueIfWasteful
<1>5. CASE QueueTidyUp(a)
  <2>1. queue' \in Queue /\ abandoned' \subseteq Key
    BY <1>5, RequestType DEF QueueTidyUp
  <2>2. [agent[a] EXCEPT !.phase = "ask", !.tidied = TRUE] \in Agent
    BY <1>t DEF Agent, Phases, Returns
  <2>3. PICK local \in Agent : agent' = [agent EXCEPT ![a] = local]
    BY <1>5, <1>a, <2>2 DEF QueueTidyUp
  <2> QED
    BY <1>5, <1>t, <2>1, <2>3, AgentType DEF QueueTidyUp
<1>6. CASE NothingToTidy(a)
  BY <1>6, <1>t, <1>a, AgentType DEF NothingToTidy
<1>7. CASE Poll(a)
  <2>1. agent' \in [Agents -> Agent]
    BY <1>7, <1>t DEF Poll, Goto, Agent, Phases
  <2> QED
    BY <1>7, <1>t, <2>1 DEF Poll, TypeOK, Queue
<1>8. CASE CountApplied(a)
  <2>1. Cardinality(unflushed) \in Counts
    BY <1>t DEF Counts
  <2>2. agent' \in [Agents -> Agent]
    BY <1>8, <1>t, <2>1 DEF CountApplied, Missing, Agent, Phases
  <2> QED
    BY <1>8, <1>t, <2>2 DEF CountApplied, TypeOK, Queue
<1>9. CASE Report(a)
  <2>1. Idle \in Agent /\ Flushing("idle") \in Agent
    BY IdleType DEF Phases, Returns
  <2>2. PICK local \in Agent : agent' = [agent EXCEPT ![a] = local]
    BY <1>9, <2>1 DEF Report, Finish
  <2> QED
    BY <1>9, <1>t, <2>2, AgentType DEF Report
<1> QED
  BY <1>1, <1>2, <1>3, <1>4, <1>5, <1>6, <1>7, <1>8, <1>9 DEF Ending

\* The upkeep loop keeps the types.
LEMMA LoopingType ==
  ASSUME TypeOK, NEW u \in Upkeep, Looping(u)
  PROVE  TypeOK'
<1> USE DEF indexVars, engineVars
<1>t. /\ queue \in Queue /\ abandoned \subseteq Key
      /\ buffer \in [Topics -> Document] /\ dirty \subseteq Topics
      /\ unflushed \subseteq SyncJob /\ syncing \in Agents \cup {NoOne}
      /\ agent \in [Agents -> Agent] /\ agent[u] \in Agent /\ u \in Agents
  BY DEF TypeOK, Queue, Agents
<1>i. /\ Idle \in Agent /\ Flushing("maintain") \in Agent
  BY IdleType DEF Phases, Returns
<1>1. CASE Tick(u)
  <2>1. [Idle EXCEPT !.phase = "ask"] \in Agent
    BY IdleType DEF Phases, Returns
  <2> QED
    BY <1>1, <1>t, <1>i, <2>1 DEF Tick, TypeOK, Queue
<1>2. CASE StopCatchingUp(u)
  BY <1>2, <1>t, <1>i, AgentType DEF StopCatchingUp
<1>3. CASE MaintainIndex(u)
  <2>1. PICK keys \in SUBSET Due("Maintain") :
          LET used == ClaimsOf(Copies, keys)
              jobs == Claimed(queue, keys, Fresh(used))
          IN  /\ Tokens \ used # {}
              /\ queue' = Claim(queue, keys, Fresh(used))
              /\ agent' = [agent EXCEPT ![u] =
                   [Idle EXCEPT !.phase = "reads", !.mode = "Maintain",
                                !.reads = jobs]]
    BY <1>3 DEF MaintainIndex
  <2> DEFINE claim == Fresh(ClaimsOf(Copies, keys))
             jobs == Claimed(queue, keys, claim)
  <2>2. queue' \in Queue /\ jobs \subseteq Job /\ claim \in Tokens
    BY <2>1, ClaimType
  <2>3. jobs \subseteq Job \ SyncJob
    <3>1. \A job \in jobs : job.key \in keys
      BY <1>t, <2>1, <2>2, ClaimedJobs DEF Due
    <3>2. \A k \in keys : k.kind # "Sync"
      BY DEF Due, KindsOf, Maintenance
    <3> QED
      BY <2>2, <3>1, <3>2 DEF SyncJob
  <2>4. [Idle EXCEPT !.phase = "reads", !.mode = "Maintain", !.reads = jobs]
          \in Agent
    <3> HIDE DEF jobs
    <3> QED
      BY <1>i, <2>3 DEF Agent, Phases, Modes
  <2> QED
    BY <1>3, <1>t, <2>1, <2>2, <2>4, AgentType DEF MaintainIndex
<1>4. CASE NothingToMaintain(u)
  BY <1>4, <1>t, <1>i, AgentType DEF NothingToMaintain, Finish
<1> QED
  BY <1>1, <1>2, <1>3, <1>4 DEF Looping

\* Every step keeps the types.
LEMMA NextType == TypeOK /\ [Next]_vars => TypeOK'
<1> SUFFICES ASSUME TypeOK, [Next]_vars PROVE TypeOK'
    OBVIOUS
<1>1. CASE Environment
  BY <1>1, EnvironmentType
<1>2. CASE \E a \in Agents : Round(a) \/ Ending(a)
  BY <1>2, RoundType, EndingType
<1>3. CASE \E u \in Upkeep : Looping(u)
  BY <1>3, LoopingType
<1>4. ASSUME NEW k \in Key, TimePasses(k)
      PROVE  TypeOK'
  <2>1. queue \in Queue
    BY DEF TypeOK, Queue
  <2>2. queue' \in Queue
    BY <1>4, <2>1, FallDueQueues DEF TimePasses
  <2> QED
    BY <1>4, <2>2 DEF TimePasses, TypeOK, Queue, indexVars, engineVars
<1>5. CASE UNCHANGED vars
  BY <1>5 DEF vars, TypeOK
<1> QED
  BY <1>1, <1>2, <1>3, <1>4, <1>5 DEF Next

\* The cascade's state always has the type it is meant to have: no agent is
\* left at a step the code does not have, no read job is taken for a write, and
\* no row is claimed more often than MAX_ATTEMPTS.
THEOREM TypeCorrect == Spec => []TypeOK
BY InitType, NextType, PTL DEF Spec

-----------------------------------------------------------------------------
(* What a step may do to the invariant.                                    *)

\* A topic's sync is work the outbox can owe, of that topic alone.
LEMMA SyncKeys ==
  /\ \A t \in Topics : SyncOf(t) \in Key /\ SyncOf(t).topic = t
  /\ \A job \in SyncJob : job.key.topic \in Topics /\ job.key = SyncOf(job.key.topic)
<1>1. \A t \in Topics : SyncOf(t) \in Key /\ SyncOf(t).topic = t
  BY OutboxAssumption DEF OutboxAssumption, SyncOf, Key, Urgent
<1>2. ASSUME NEW job \in SyncJob
      PROVE  job.key.topic \in Topics /\ job.key = SyncOf(job.key.topic)
  BY DEF SyncJob, Job, Key, Maintenance, SyncOf
<1> QED
  BY <1>1, <1>2

\* Who counts a write as applied.
LEMMA AppliedBy ==
  /\ \A job : job \in AppliedCopies <=>
       \/ job \in unflushed
       \/ \E a \in Agents :
            job \in agent[a].applied \/ job \in agent[a].done \cap SyncJob
  /\ \A job : job \in AppliedCopies' <=>
       \/ job \in unflushed'
       \/ \E a \in Agents :
            job \in agent'[a].applied \/ job \in agent'[a].done \cap SyncJob
BY DEF AppliedCopies

\* All of them are syncs.
LEMMA AppliedType ==
  ASSUME TypeOK
  PROVE  AppliedCopies \subseteq SyncJob /\ AppliedCopies \subseteq Copies
BY DEF TypeOK, Agent, AppliedCopies, Copies, CopiesOf

\* A sync goes unowed only if it was, or was given up on, or is recorded done
\* by an attempt that still holds it, of a topic that is on disk.
MayDrop(t) ==
  \/ SyncOf(t) \in abandoned'
  \/ queue[SyncOf(t)] = NoRow /\ SyncOf(t) \notin abandoned
  \/ /\ t \notin dirty
     /\ \E job \in AppliedCopies : job.key = SyncOf(t) /\ Holds(queue, job)

\* A step that changes neither the ledger nor what the index reads back keeps
\* the invariant if it lets no claim stand that did not, drops only what may be
\* dropped, counts no write as applied that was not, and lets no round write
\* that was not writing.
LEMMA StepKeepsInv ==
  ASSUME CascadeInv, TypeOK',
         UNCHANGED <<ledger, buffer>>, dirty' \subseteq dirty,
         \A job \in Copies : Holds(queue', job) => Holds(queue, job),
         \A t \in Topics : queue'[SyncOf(t)] = NoRow => MayDrop(t),
         AppliedCopies' \subseteq AppliedCopies,
         \A a \in Agents : \A job \in agent'[a].done \cap SyncJob :
           job \in agent[a].done \/ job.key.topic \notin dirty',
         \A a \in Agents : agent'[a].phase = "apply" =>
           /\ agent[a].phase = "apply"
           /\ agent'[a].seen = agent[a].seen
           /\ agent'[a].syncs = agent[a].syncs
           /\ syncing' = syncing,
         OneJobEach'
  PROVE  CascadeInv'
<1>t. TypeOK
  BY DEF CascadeInv
<1>a. \A job \in AppliedCopies : job \in SyncJob /\ job \in Copies
  BY <1>t, AppliedType
<1>1. NothingLost'
  <2> SUFFICES ASSUME NEW t \in Topics,
                      queue'[SyncOf(t)] = NoRow, SyncOf(t) \notin abandoned'
               PROVE  buffer'[t] = ledger'[t] /\ t \notin dirty'
      BY DEF NothingLost
  <2>1. CASE queue[SyncOf(t)] = NoRow /\ SyncOf(t) \notin abandoned
    BY <2>1 DEF CascadeInv, NothingLost
  <2>2. CASE /\ t \notin dirty
             /\ \E job \in AppliedCopies : job.key = SyncOf(t) /\ Holds(queue, job)
    BY <2>2, <1>a, SyncKeys DEF CascadeInv, AppliedIsFindable
  <2> QED
    BY <2>1, <2>2 DEF MayDrop
<1>2. AppliedIsFindable'
  BY <1>a DEF CascadeInv, AppliedIsFindable
<1>3. DurableBeforeDone'
  <2> SUFFICES ASSUME NEW a \in Agents, NEW job \in agent'[a].done \cap SyncJob,
                      Holds(queue', job)
               PROVE  job.key.topic \notin dirty'
      BY DEF DurableBeforeDone
  <2>1. CASE job \in agent[a].done
    <3>1. job \in Copies
      BY <2>1 DEF Copies, CopiesOf
    <3> QED
      BY <2>1, <3>1 DEF CascadeInv, DurableBeforeDone
  <2> QED
    BY <2>1
<1>4. SyncsDoNotCross'
  <2> SUFFICES ASSUME NEW a \in Agents, agent'[a].phase = "apply",
                      NEW job \in agent'[a].syncs,
                      Reading(a, job)' # ledger'[job.key.topic]
               PROVE  /\ queue'[job.key] # NoRow \/ job.key \in abandoned'
                      /\ \A other \in AppliedCopies' :
                           other.key = job.key => ~Holds(queue', other)
      BY DEF SyncsDoNotCross, At
  <2>1. /\ At(a, "apply") /\ job \in agent[a].syncs
        /\ Reading(a, job) # ledger[job.key.topic]
    BY DEF At, Reading
  <2>2. /\ queue[job.key] # NoRow \/ job.key \in abandoned
        /\ \A other \in AppliedCopies :
             other.key = job.key => ~Holds(queue, other)
    BY <2>1 DEF CascadeInv, SyncsDoNotCross
  <2>3. job \in SyncJob
    BY <2>1, <1>t DEF TypeOK, Agent
  <2>4. queue'[job.key] # NoRow \/ job.key \in abandoned'
    BY <2>2, <2>3, SyncKeys DEF MayDrop
  <2> QED
    BY <2>2, <2>4, <1>a
<1>5. ReadingIsCurrent'
  <2> SUFFICES ASSUME NEW a \in Agents, agent'[a].phase = "apply",
                      NEW job \in agent'[a].syncs, Holds(queue', job)
               PROVE  Reading(a, job)' = ledger'[job.key.topic]
      BY DEF ReadingIsCurrent, At
  <2>1. /\ At(a, "apply") /\ job \in agent[a].syncs
        /\ Reading(a, job)' = Reading(a, job)
    BY DEF At, Reading
  <2>2. job \in Copies
    BY <2>1 DEF Copies, CopiesOf
  <2> QED
    BY <2>1, <2>2 DEF CascadeInv, ReadingIsCurrent
<1>6. LockIsHeld'
  BY DEF CascadeInv, LockIsHeld, At
<1> QED
  BY <1>1, <1>2, <1>3, <1>4, <1>5, <1>6 DEF CascadeInv

\* The same of a step only one agent takes, and after which it is not writing.
LEMMA LocalStep ==
  ASSUME CascadeInv, TypeOK', NEW a \in Agents, NEW local \in Agent,
         agent' = [agent EXCEPT ![a] = local],
         UNCHANGED <<ledger, buffer, syncing>>, dirty' \subseteq dirty,
         \A job \in Copies : Holds(queue', job) => Holds(queue, job),
         \A t \in Topics : queue'[SyncOf(t)] = NoRow => MayDrop(t),
         unflushed' \subseteq AppliedCopies,
         local.applied \subseteq AppliedCopies,
         \A job \in local.done \cap SyncJob :
           /\ job \in AppliedCopies
           /\ job \in agent[a].done \/ job.key.topic \notin dirty',
         local.phase # "apply",
         \A job, other \in local.syncs : job.key = other.key => job = other
  PROVE  CascadeInv'
<1>1. /\ agent'[a] = local
      /\ \A b \in Agents \ {a} : agent'[b] = agent[b]
  BY DEF CascadeInv, TypeOK
<1>2. AppliedCopies' \subseteq AppliedCopies
  <2> SUFFICES ASSUME NEW job \in AppliedCopies' PROVE job \in AppliedCopies
      OBVIOUS
  <2>1. CASE job \in unflushed'
    BY <2>1
  <2>2. ASSUME NEW b \in Agents,
               job \in agent'[b].applied \/ job \in agent'[b].done \cap SyncJob
        PROVE  job \in AppliedCopies
    <3>1. CASE b = a
      BY <1>1, <2>2, <3>1
    <3>2. CASE b # a
      BY <1>1, <2>2, <3>2, AppliedBy
    <3> QED
      BY <3>1, <3>2
  <2> QED
    BY <2>1, <2>2, AppliedBy
<1>3. \A b \in Agents : \A job \in agent'[b].done \cap SyncJob :
        job \in agent[b].done \/ job.key.topic \notin dirty'
  BY <1>1
<1>4. \A b \in Agents : agent'[b].phase = "apply" =>
        /\ agent[b].phase = "apply"
        /\ agent'[b].seen = agent[b].seen
        /\ agent'[b].syncs = agent[b].syncs
        /\ syncing' = syncing
  BY <1>1
<1>5. OneJobEach'
  <2> SUFFICES ASSUME NEW b \in Agents,
                      NEW job \in agent'[b].syncs, NEW other \in agent'[b].syncs,
                      job.key = other.key
               PROVE  job = other
      BY DEF OneJobEach
  <2>1. CASE b = a
    BY <1>1, <2>1
  <2>2. CASE b # a
    BY <1>1, <2>2 DEF CascadeInv, OneJobEach
  <2> QED
    BY <2>1, <2>2
<1> QED
  BY <1>2, <1>3, <1>4, <1>5, StepKeepsInv

\* A local state that holds no more than the agent held, and is not writing.
Fewer(local, a) ==
  /\ local.phase # "apply"
  /\ local.syncs \subseteq agent[a].syncs
  /\ local.applied \subseteq agent[a].applied
  /\ local.done \subseteq agent[a].done

\* A step after which its agent holds no more than it did.
LEMMA FewerStep ==
  ASSUME CascadeInv, TypeOK', NEW a \in Agents, NEW local \in Agent,
         agent' = [agent EXCEPT ![a] = local], Fewer(local, a),
         UNCHANGED <<ledger, buffer, syncing>>, dirty' \subseteq dirty,
         \A job \in Copies : Holds(queue', job) => Holds(queue, job),
         \A t \in Topics : queue'[SyncOf(t)] = NoRow => MayDrop(t),
         unflushed' \subseteq unflushed
  PROVE  CascadeInv'
<1>1. /\ unflushed' \subseteq AppliedCopies
      /\ local.applied \subseteq AppliedCopies
      /\ \A job \in local.done \cap SyncJob :
           job \in AppliedCopies /\ job \in agent[a].done
  BY AppliedBy DEF Fewer
<1>2. \A job, other \in local.syncs : job.key = other.key => job = other
  BY DEF Fewer, CascadeInv, OneJobEach
<1> QED
  BY <1>1, <1>2, LocalStep DEF Fewer

\* A step that leaves the outbox alone drops nothing and lets no claim stand.
LEMMA SameQueue ==
  ASSUME UNCHANGED <<queue, abandoned>>
  PROVE  /\ \A job \in Copies : Holds(queue', job) => Holds(queue, job)
         /\ \A t \in Topics : queue'[SyncOf(t)] = NoRow => MayDrop(t)
BY DEF MayDrop

\* The local states an agent gives its jobs up in hold no more than it held.
LEMMA FewerStates ==
  ASSUME TypeOK, NEW a \in Agents
  PROVE  /\ Fewer(Idle, a) /\ Idle \in Agent
         /\ \A after \in Returns :
              Fewer(Flushing(after), a) /\ Flushing(after) \in Agent
         /\ \A phase \in Phases \ {"apply"} :
              /\ Fewer([Idle EXCEPT !.phase = phase], a)
              /\ Fewer([agent[a] EXCEPT !.phase = phase], a)
              /\ [agent[a] EXCEPT !.phase = phase] \in Agent
         /\ Fewer(AfterError(a), a) /\ AfterError(a) \in Agent
         /\ Fewer(AfterTidying(a), a) /\ AfterTidying(a) \in Agent
<1>t. agent[a] \in Agent
  BY DEF TypeOK
<1>1. Fewer(Idle, a) /\ Idle \in Agent
  BY <1>t, IdleType DEF Fewer, Idle
<1>2. \A after \in Returns :
        Fewer(Flushing(after), a) /\ Flushing(after) \in Agent
  BY <1>t, IdleType DEF Fewer, Flushing, Idle
<1>3. \A phase \in Phases \ {"apply"} :
        /\ Fewer([Idle EXCEPT !.phase = phase], a)
        /\ Fewer([agent[a] EXCEPT !.phase = phase], a)
        /\ [agent[a] EXCEPT !.phase = phase] \in Agent
  BY <1>t DEF Fewer, Idle, Agent
<1>4. Fewer(AfterError(a), a) /\ AfterError(a) \in Agent
  <2>1. [Idle EXCEPT !.phase = "maintain"] \in Agent
    BY IdleType DEF Returns
  <2> QED
    BY <1>1, <1>2, <1>3, <2>1 DEF AfterError, Phases, Returns
<1>5. Fewer(AfterTidying(a), a) /\ AfterTidying(a) \in Agent
  BY <1>2, <1>3 DEF AfterTidying, Phases, Returns
<1> QED
  BY <1>1, <1>2, <1>3, <1>4, <1>5

\* Asking for work takes claims away, and drops nothing; what is asked for is
\* owed, and nobody's.
LEMMA RequestDrops ==
  ASSUME TypeOK, NEW keys, Request(keys)
  PROVE  /\ \A job \in Copies : Holds(queue', job) =>
              job.key \notin keys /\ Holds(queue, job)
         /\ \A t \in Topics : queue'[SyncOf(t)] = NoRow =>
              SyncOf(t) \notin keys /\ MayDrop(t)
<1> DEFINE asked == keys \cap Key
<1>1. /\ CanEnqueue(queue, asked, Copies)
      /\ queue' = Enqueue(queue, asked, Copies)
      /\ abandoned' = abandoned \ asked
  BY DEF Request
<1>2. queue \in Queue /\ asked \in SUBSET Key
  BY DEF TypeOK, Queue
<1> HIDE DEF asked
<1>3. /\ \A k \in Key : queue'[k] = NoRow => k \notin asked /\ queue[k] = NoRow
      /\ \A job \in Job : Holds(queue', job) =>
           job.key \notin asked /\ Holds(queue, job)
  BY <1>1, <1>2, EnqueueQueues
<1>4. \A job \in Copies : job \in Job /\ job.key \in Key
  BY CopiesType DEF Job
<1>5. \A t \in Topics : queue'[SyncOf(t)] = NoRow =>
        SyncOf(t) \notin keys /\ MayDrop(t)
  BY <1>1, <1>3, SyncKeys DEF MayDrop, asked
<1> QED
  BY <1>3, <1>4, <1>5 DEF asked

\* Recording an attempt's writes as done drops only what they wrote, and only
\* once it is on disk.
LEMMA CompleteDrops ==
  ASSUME CascadeInv, NEW a \in Agents,
         queue' = Complete(queue, agent[a].done), UNCHANGED abandoned
  PROVE  /\ \A job \in Copies : Holds(queue', job) => Holds(queue, job)
         /\ \A t \in Topics : queue'[SyncOf(t)] = NoRow => MayDrop(t)
<1>t. TypeOK /\ queue \in Queue /\ agent[a].done \subseteq Job
  BY DEF CascadeInv, TypeOK, Queue, Agent
<1>1. /\ \A k \in Key : queue'[k] = NoRow =>
           \/ queue[k] = NoRow
           \/ \E job \in agent[a].done : job.key = k /\ Holds(queue, job)
      /\ \A job \in Job : Holds(queue', job) => Holds(queue, job)
  BY <1>t, CompleteQueues
<1>2. ASSUME NEW t \in Topics, queue'[SyncOf(t)] = NoRow
      PROVE  MayDrop(t)
  <2>1. CASE queue[SyncOf(t)] = NoRow
    BY <2>1 DEF MayDrop
  <2>2. ASSUME NEW job \in agent[a].done,
               job.key = SyncOf(t), Holds(queue, job)
        PROVE  MayDrop(t)
    <3>1. job \in SyncJob
      BY <1>t, <2>2 DEF SyncJob, SyncOf
    <3>2. job \in AppliedCopies
      BY <3>1, AppliedBy
    <3>3. t \notin dirty
      BY <2>2, <3>1, SyncKeys DEF CascadeInv, DurableBeforeDone
    <3> QED
      BY <2>2, <3>2, <3>3 DEF MayDrop
  <2> QED
    BY <1>1, <1>2, <2>1, <2>2, SyncKeys
<1>3. \A job \in Copies : job \in Job
  BY <1>t, CopiesType
<1> QED
  BY <1>1, <1>2, <1>3

\* A claim takes rows over from whoever held them, and drops nothing.
LEMMA ClaimDrops ==
  ASSUME TypeOK, NEW mode, NEW keys \in SUBSET Due(mode),
         Tokens \ ClaimsOf(Copies, keys) # {},
         queue' = Claim(queue, keys, Fresh(ClaimsOf(Copies, keys))),
         UNCHANGED abandoned
  PROVE  /\ \A job \in Copies : Holds(queue', job) => Holds(queue, job)
         /\ \A t \in Topics : queue'[SyncOf(t)] = NoRow => MayDrop(t)
<1> DEFINE claim == Fresh(ClaimsOf(Copies, keys))
<1>1. claim \in Tokens /\ claim \notin ClaimsOf(Copies, keys)
  BY FreshToken
<1>2. /\ queue \in Queue /\ keys \in SUBSET Key
      /\ \A k \in keys : Claimable(queue[k])
  BY DEF TypeOK, Queue, Due
<1> HIDE DEF claim
<1>3. /\ \A k \in Key : queue'[k] = NoRow => queue[k] = NoRow
      /\ \A job \in Job : Holds(queue', job) =>
           (job.key \in keys /\ job.claim = claim) \/ Holds(queue, job)
  BY <1>1, <1>2, ClaimQueues DEF claim
<1>4. ASSUME NEW job \in Copies, Holds(queue', job)
      PROVE  Holds(queue, job)
  <2>1. job \in Job
    BY CopiesType
  <2>2. job.key \in keys => job.claim # claim
    BY <1>1 DEF ClaimsOf
  <2> QED
    BY <1>3, <1>4, <2>1, <2>2
<1>5. \A t \in Topics : queue'[SyncOf(t)] = NoRow => MayDrop(t)
  BY <1>3, SyncKeys DEF MayDrop
<1> QED
  BY <1>4, <1>5

-----------------------------------------------------------------------------
(* The steps that change only the outbox, and what attempts hold.          *)

\* A claim: whoever held those rows holds them no longer, and nothing is lost.
LEMMA ClaimJobsInv ==
  ASSUME CascadeInv, TypeOK', NEW a \in Agents, ClaimJobs(a)
  PROVE  CascadeInv'
<1>t. TypeOK /\ queue \in Queue /\ agent[a] \in Agent
  BY DEF CascadeInv, TypeOK, Queue
<1>1. PICK keys \in SUBSET Due(agent[a].mode) :
        LET used == ClaimsOf(Copies, keys)
            jobs == Claimed(queue, keys, Fresh(used))
            syncs == jobs \cap SyncJob
        IN  /\ Tokens \ used # {}
            /\ queue' = Claim(queue, keys, Fresh(used))
            /\ agent' = [agent EXCEPT
                 ![a].phase = IF syncs = {} THEN "reads" ELSE "sync",
                 ![a].syncs = syncs,
                 ![a].reads = jobs \ syncs]
  BY DEF ClaimJobs
<1> DEFINE claim == Fresh(ClaimsOf(Copies, keys))
           jobs == Claimed(queue, keys, claim)
           syncs == jobs \cap SyncJob
           local == [agent[a] EXCEPT
                       !.phase = IF syncs = {} THEN "reads" ELSE "sync",
                       !.syncs = syncs, !.reads = jobs \ syncs]
<1>2. \A job, other \in jobs : job.key = other.key => job = other
  <2>1. claim \in Tokens /\ keys \in SUBSET Key
        /\ \A k \in keys : Claimable(queue[k])
    BY <1>t, <1>1, ClaimType
  <2> HIDE DEF claim
  <2> QED
    BY <1>t, <2>1, ClaimedJobs
<1> HIDE DEF jobs
<1>3. agent' = [agent EXCEPT ![a] = local]
  BY <1>1 DEF jobs, CascadeInv, TypeOK, Agent
<1>4. /\ local.phase # "apply" /\ local.syncs = syncs
      /\ local.applied = agent[a].applied /\ local.done = agent[a].done
  BY <1>t DEF Agent
<1>5. /\ agent' \in [Agents -> Agent] /\ agent[a] \in Agent /\ agent'[a] = local
      /\ agent \in [Agents -> Agent]
  BY <1>3, <1>t DEF TypeOK, CascadeInv
<1> HIDE DEF local
<1>6. /\ \A job \in Copies : Holds(queue', job) => Holds(queue, job)
      /\ \A t \in Topics : queue'[SyncOf(t)] = NoRow => MayDrop(t)
  BY <1>t, <1>1, ClaimDrops DEF ClaimJobs
<1>7. /\ local.applied \subseteq AppliedCopies /\ unflushed \subseteq AppliedCopies
      /\ \A job \in local.done \cap SyncJob :
           job \in AppliedCopies /\ job \in agent[a].done
  BY <1>4, AppliedBy
<1>8. \A job, other \in local.syncs : job.key = other.key => job = other
  BY <1>2, <1>4
<1> QED
  BY <1>3, <1>4, <1>5, <1>6, <1>7, <1>8, LocalStep
  DEF ClaimJobs, indexVars, engineVars

\* A round's other steps that write nothing: finding nothing to claim, failing
\* to read, settling, reading, and recording what came of it.
LEMMA RecordingInv ==
  ASSUME CascadeInv, TypeOK', NEW a \in Agents,
         \/ ClaimNothing(a) \/ ReadLedgerFails(a) \/ Settle(a) \/ RunReads(a)
         \/ \E job \in agent[a].failed : RecordFailure(a, job)
         \/ RecordDone(a)
  PROVE  CascadeInv'
<1> USE DEF indexVars, engineVars
<1>t. /\ TypeOK /\ queue \in Queue /\ agent \in [Agents -> Agent]
      /\ agent[a] \in Agent
      /\ agent' \in [Agents -> Agent] /\ agent'[a] \in Agent
  BY DEF CascadeInv, TypeOK, Queue
<1>1. CASE ClaimNothing(a)
  <2>1. [agent[a] EXCEPT !.phase = "take", !.after = "tidy"] \in Agent
        /\ Fewer([agent[a] EXCEPT !.phase = "take", !.after = "tidy"], a)
    BY <1>t DEF Agent, Phases, Returns, Fewer
  <2>2. [agent[a] EXCEPT !.phase = "tidy"] \in Agent
        /\ Fewer([agent[a] EXCEPT !.phase = "tidy"], a)
    BY <1>t, FewerStates DEF Phases
  <2>3. AfterTidying(a) \in Agent /\ Fewer(AfterTidying(a), a)
    BY <1>t, FewerStates
  <2>4. PICK local \in Agent :
          agent' = [agent EXCEPT ![a] = local] /\ Fewer(local, a)
    BY <1>1, <2>1, <2>2, <2>3 DEF ClaimNothing
  <2> QED
    BY <1>1, <2>4, SameQueue, FewerStep DEF ClaimNothing
<1>2. CASE ReadLedgerFails(a)
  <2> DEFINE local == [agent[a] EXCEPT !.phase = "settle",
                         !.failed = agent[a].syncs, !.syncs = {}]
  <2>1. agent' = [agent EXCEPT ![a] = local] /\ Fewer(local, a)
    BY <1>2, <1>t DEF ReadLedgerFails, Agent, Fewer
  <2>2. local \in Agent
    BY <1>t, <2>1
  <2> QED
    BY <1>2, <2>1, <2>2, SameQueue, FewerStep DEF ReadLedgerFails
<1>3. CASE Settle(a)
  <2>1. /\ agent[a].applied \subseteq AppliedCopies
        /\ unflushed \subseteq AppliedCopies
        /\ \A job \in agent[a].done \cap SyncJob : job \in AppliedCopies
    BY AppliedBy
  <2>2. AfterWrites(a) # "apply" /\ \A job, other \in agent[a].syncs :
          job.key = other.key => job = other
    BY DEF AfterWrites, CascadeInv, OneJobEach
  <2>3. CASE agent[a].mode = "Everything"
    <3> DEFINE local == [agent[a] EXCEPT !.phase = AfterWrites(a),
                           !.done = agent[a].applied, !.applied = {}]
    <3>1. /\ agent' = [agent EXCEPT ![a] = local] /\ agent'[a] = local
          /\ local.applied = {} /\ local.done = agent[a].applied
          /\ local.phase = AfterWrites(a) /\ local.syncs = agent[a].syncs
      BY <1>3, <1>t, <2>3 DEF Settle, Agent
    <3>2. /\ agent[a].applied # {} => dirty' = {}
          /\ dirty' \subseteq dirty /\ unflushed' = unflushed
      BY <1>3, <2>3 DEF Settle
    <3> HIDE DEF local
    <3>3. UNCHANGED <<ledger, queue, abandoned, buffer, syncing>>
      BY <1>3 DEF Settle
    <3>4. /\ unflushed' \subseteq AppliedCopies /\ local.applied \subseteq AppliedCopies
          /\ \A job \in local.done \cap SyncJob :
               /\ job \in AppliedCopies
               /\ job \in agent[a].done \/ job.key.topic \notin dirty'
      BY <2>1, <3>1, <3>2
    <3> QED
      BY <1>t, <2>2, <3>1, <3>2, <3>3, <3>4, SameQueue, LocalStep
  <2>4. CASE agent[a].mode # "Everything"
    <3> DEFINE local == [agent[a] EXCEPT !.phase = AfterWrites(a),
                                         !.applied = {}]
    <3>1. /\ agent' = [agent EXCEPT ![a] = local] /\ agent'[a] = local
          /\ local.applied = {} /\ local.done = agent[a].done
          /\ local.phase = AfterWrites(a) /\ local.syncs = agent[a].syncs
      BY <1>3, <1>t, <2>4 DEF Settle, Agent
    <3>2. dirty' = dirty /\ unflushed' = unflushed \cup agent[a].applied
      BY <1>3, <2>4 DEF Settle
    <3> HIDE DEF local
    <3>3. UNCHANGED <<ledger, queue, abandoned, buffer, syncing>>
      BY <1>3 DEF Settle
    <3>4. /\ unflushed' \subseteq AppliedCopies /\ local.applied \subseteq AppliedCopies
          /\ \A job \in local.done \cap SyncJob :
               job \in AppliedCopies /\ job \in agent[a].done
      BY <2>1, <3>1, <3>2
    <3> QED
      BY <1>t, <2>2, <3>1, <3>2, <3>3, <3>4, SameQueue, LocalStep
  <2> QED
    BY <2>3, <2>4
<1>4. CASE RunReads(a)
  <2>1. PICK failing \in SUBSET agent[a].reads :
          agent' = [agent EXCEPT
                      ![a].phase = "record",
                      ![a].failed = @ \cup failing,
                      ![a].done = @ \cup (agent[a].reads \ failing),
                      ![a].reads = {}]
    BY <1>4 DEF RunReads
  <2> DEFINE local == [agent[a] EXCEPT
                         !.phase = "record",
                         !.failed = @ \cup failing,
                         !.done = @ \cup (agent[a].reads \ failing),
                         !.reads = {}]
  <2>2. /\ agent' = [agent EXCEPT ![a] = local] /\ agent'[a] = local
        /\ local.applied = agent[a].applied
        /\ local.done = agent[a].done \cup (agent[a].reads \ failing)
        /\ local.phase = "record" /\ local.syncs = agent[a].syncs
    BY <2>1, <1>t DEF Agent
  <2> HIDE DEF local
  <2>3. local.done \cap SyncJob = agent[a].done \cap SyncJob
    BY <2>2, <1>t DEF Agent
  <2>4. /\ local.applied \subseteq AppliedCopies
        /\ unflushed \subseteq AppliedCopies
        /\ \A job \in local.done \cap SyncJob :
             job \in AppliedCopies /\ job \in agent[a].done
    BY <2>2, <2>3, AppliedBy
  <2>5. \A job, other \in local.syncs : job.key = other.key => job = other
    BY <2>2 DEF CascadeInv, OneJobEach
  <2> QED
    BY <1>4, <1>t, <2>2, <2>4, <2>5, SameQueue, LocalStep DEF RunReads
<1>5. ASSUME NEW job \in agent[a].failed, RecordFailure(a, job)
      PROVE  CascadeInv'
  <2> DEFINE local == [agent[a] EXCEPT !.failed = @ \ {job}]
  <2>1. agent' = [agent EXCEPT ![a] = local] /\ agent'[a] = local
        /\ Fewer(local, a)
    BY <1>5, <1>t DEF RecordFailure, Agent, Fewer, At
  <2>2. job \in Job /\ \A copy \in Copies : copy \in Job
    BY <1>t, CopiesType DEF Agent
  <2>3. queue' = Fail(queue, job) /\ UNCHANGED abandoned
    BY <1>5 DEF RecordFailure
  <2>4. /\ \A k \in Key : queue'[k] = NoRow => queue[k] = NoRow
        /\ \A copy \in Job : Holds(queue', copy) => Holds(queue, copy)
    BY <1>t, <2>2, <2>3, FailQueues
  <2>5. /\ \A copy \in Copies : Holds(queue', copy) => Holds(queue, copy)
        /\ \A t \in Topics : queue'[SyncOf(t)] = NoRow => MayDrop(t)
    BY <2>2, <2>3, <2>4, SyncKeys DEF MayDrop
  <2> HIDE DEF local
  <2> QED
    BY <1>5, <1>t, <2>1, <2>5, FewerStep DEF RecordFailure
<1>6. CASE RecordDone(a)
  <2> DEFINE full == Cardinality(unflushed) >= AwaitingDurability
             recorded == [agent[a] EXCEPT
                            !.phase = IF full THEN "take" ELSE "ask",
                            !.after = IF full THEN "ask" ELSE @,
                            !.completed = @ \/ queue' # queue,
                            !.done = {}]
             local == IF agent[a].mode = "Maintain" THEN Idle ELSE recorded
  <2>1. agent' = [agent EXCEPT ![a] = local]
    BY <1>6 DEF RecordDone
  <2>2. Fewer(recorded, a)
    BY <1>t DEF Agent, Fewer
  <2>3. Fewer(local, a)
    BY <1>t, <2>2, FewerStates
  <2> HIDE DEF local
  <2>4. agent'[a] = local
    BY <1>t, <2>1
  <2>5. /\ \A job \in Copies : Holds(queue', job) => Holds(queue, job)
        /\ \A t \in Topics : queue'[SyncOf(t)] = NoRow => MayDrop(t)
    BY <1>6, CompleteDrops DEF RecordDone
  <2> QED
    BY <1>6, <1>t, <2>1, <2>3, <2>4, <2>5, FewerStep DEF RecordDone
<1> QED
  BY <1>1, <1>2, <1>3, <1>4, <1>5, <1>6

\* Flushing, and recording what the flush covered; and how a drain ends.
LEMMA EndingInv ==
  ASSUME CascadeInv, TypeOK', NEW a \in Agents, Ending(a)
  PROVE  CascadeInv'
<1> USE DEF indexVars, engineVars
<1>t. /\ TypeOK /\ queue \in Queue /\ agent \in [Agents -> Agent]
      /\ agent[a] \in Agent
      /\ agent' \in [Agents -> Agent] /\ agent'[a] \in Agent
  BY DEF CascadeInv, TypeOK, Queue
<1>a. /\ agent[a].applied \subseteq AppliedCopies
      /\ unflushed \subseteq AppliedCopies
      /\ \A job \in agent[a].done \cap SyncJob : job \in AppliedCopies
  BY AppliedBy
<1>o. \A job, other \in agent[a].syncs : job.key = other.key => job = other
  BY DEF CascadeInv, OneJobEach
<1>f. ASSUME NEW local \in Agent, agent' = [agent EXCEPT ![a] = local],
             Fewer(local, a), UNCHANGED <<ledger, buffer, dirty, syncing>>,
             \A job \in Copies : Holds(queue', job) => Holds(queue, job),
             \A t \in Topics : queue'[SyncOf(t)] = NoRow => MayDrop(t),
             unflushed' = unflushed
      PROVE  CascadeInv'
  BY <1>f, FewerStep
<1>b. \A local \in Agent : Fewer(local, a) => Fewer(Back(local), a)
  <2> SUFFICES ASSUME NEW local \in Agent, Fewer(local, a)
               PROVE  Fewer(Back(local), a)
      OBVIOUS
  <2>1. local.after \in Returns
    BY DEF Agent
  <2>2. CASE local.after \in {"idle", "maintain"}
    BY <1>t, <2>2, FewerStates DEF Back, Phases
  <2>3. CASE local.after \notin {"idle", "maintain"}
    <3>1. Back(local) = [local EXCEPT !.phase = local.after, !.after = "idle"]
      BY <2>3 DEF Back
    <3>2. local.after # "apply"
      BY <2>1 DEF Returns
    <3> QED
      BY <3>1, <3>2 DEF Fewer, Agent
  <2> QED
    BY <2>2, <2>3
<1>c. agent[a].phase # "apply" => Fewer(agent[a], a) /\ Fewer(Back(agent[a]), a)
  BY <1>t, <1>b DEF Fewer
<1>1. CASE TakeApplied(a)
  <2>1. CASE unflushed = {}
    <3>1. agent' = [agent EXCEPT ![a] = Back(agent[a])] /\ unflushed' = unflushed
      BY <1>1, <2>1 DEF TakeApplied
    <3>2. Fewer(Back(agent[a]), a) /\ Back(agent[a]) \in Agent
      BY <1>1, <1>c, <1>t, IdleType DEF TakeApplied, At
    <3> QED
      BY <1>1, <1>f, <3>1, <3>2, SameQueue DEF TakeApplied
  <2>2. CASE unflushed # {}
    <3> DEFINE local == [agent[a] EXCEPT !.phase = "flush", !.applied = unflushed]
    <3>1. /\ agent' = [agent EXCEPT ![a] = local] /\ agent'[a] = local
          /\ local.applied = unflushed /\ local.done = agent[a].done
          /\ local.phase = "flush" /\ local.syncs = agent[a].syncs
      BY <1>1, <1>t, <2>2 DEF TakeApplied, Agent
    <3> HIDE DEF local
    <3>2. /\ UNCHANGED <<ledger, queue, abandoned, buffer, syncing, dirty>>
          /\ unflushed' = {}
      BY <1>1 DEF TakeApplied
    <3>3. /\ unflushed' \subseteq AppliedCopies
          /\ local.applied \subseteq AppliedCopies
          /\ \A job \in local.done \cap SyncJob :
               job \in AppliedCopies /\ job \in agent[a].done
      BY <1>a, <3>1, <3>2
    <3> QED
      BY <1>t, <1>o, <3>1, <3>2, <3>3, SameQueue, LocalStep
  <2> QED
    BY <2>1, <2>2
<1>2. CASE FlushApplied(a)
  <2> DEFINE local == [agent[a] EXCEPT !.phase = "recordFlush",
                         !.done = agent[a].applied, !.applied = {}]
  <2>1. /\ agent' = [agent EXCEPT ![a] = local] /\ agent'[a] = local
        /\ local.applied = {} /\ local.done = agent[a].applied
        /\ local.phase = "recordFlush" /\ local.syncs = agent[a].syncs
    BY <1>2, <1>t DEF FlushApplied, Agent
  <2> HIDE DEF local
  <2>2. /\ UNCHANGED <<ledger, queue, abandoned, buffer, unflushed, syncing>>
        /\ dirty' = {}
    BY <1>2 DEF FlushApplied
  <2>3. /\ unflushed' \subseteq AppliedCopies
        /\ local.applied \subseteq AppliedCopies
        /\ \A job \in local.done \cap SyncJob :
             job \in AppliedCopies /\ job.key.topic \notin dirty'
    BY <1>a, <2>1, <2>2
  <2> QED
    BY <1>t, <1>o, <2>1, <2>2, <2>3, SameQueue, LocalStep
<1>3. CASE RecordFlushed(a)
  <2> DEFINE recorded == [agent[a] EXCEPT
                            !.completed = @ \/ queue' # queue,
                            !.tidied = @ /\ (agent[a].after = "tidy"
                                               => queue' = queue),
                            !.done = {}]
             wasteful == [recorded EXCEPT !.phase = "wasteful"]
  <2>1. recorded \in Agent /\ Fewer(recorded, a)
    BY <1>3, <1>t DEF RecordFlushed, At, Agent, Fewer
  <2>2. \/ agent' = [agent EXCEPT ![a] = Back(recorded)]
        \/ agent' = [agent EXCEPT ![a] = wasteful]
    BY <1>3 DEF RecordFlushed
  <2> HIDE DEF recorded
  <2>3. /\ Back(recorded) \in Agent /\ Fewer(Back(recorded), a)
        /\ wasteful \in Agent /\ Fewer(wasteful, a)
    <3>1. Back(recorded) \in Agent /\ Fewer(Back(recorded), a)
      BY <1>b, <2>1, IdleType
    <3>2. wasteful \in Agent /\ Fewer(wasteful, a)
      BY <2>1 DEF Agent, Phases, Fewer
    <3> QED
      BY <3>1, <3>2
  <2> HIDE DEF wasteful
  <2>4. /\ \A job \in Copies : Holds(queue', job) => Holds(queue, job)
        /\ \A t \in Topics : queue'[SyncOf(t)] = NoRow => MayDrop(t)
    BY <1>3, CompleteDrops DEF RecordFlushed
  <2> QED
    BY <1>3, <1>f, <2>2, <2>3, <2>4 DEF RecordFlushed
<1>4. CASE QueueIfWasteful(a)
  <2>1. Fewer(Back(agent[a]), a) /\ Back(agent[a]) \in Agent
    BY <1>4, <1>c, <1>t, IdleType DEF QueueIfWasteful, At
  <2> QED
    BY <1>4, <1>f, <1>t, <2>1, RequestDrops DEF QueueIfWasteful
<1>5. CASE QueueTidyUp(a)
  <2>1. /\ [agent[a] EXCEPT !.phase = "ask", !.tidied = TRUE] \in Agent
        /\ Fewer([agent[a] EXCEPT !.phase = "ask", !.tidied = TRUE], a)
    BY <1>t DEF Agent, Phases, Fewer
  <2>2. AfterTidying(a) \in Agent /\ Fewer(AfterTidying(a), a)
    BY <1>t, FewerStates
  <2>3. PICK local \in Agent :
          agent' = [agent EXCEPT ![a] = local] /\ Fewer(local, a)
    BY <1>5, <2>1, <2>2 DEF QueueTidyUp
  <2> QED
    BY <1>5, <1>f, <1>t, <2>3, RequestDrops DEF QueueTidyUp
<1>6. CASE NothingToTidy(a)
  BY <1>6, <1>f, <1>t, FewerStates, SameQueue DEF NothingToTidy
<1>7. CASE Poll(a)
  <2>1. PICK phase \in {"ask", "count"} :
          agent' = [agent EXCEPT ![a] = [agent[a] EXCEPT !.phase = phase]]
    BY <1>7, <1>t DEF Poll, Goto
  <2>2. phase \in Phases \ {"apply"}
    BY DEF Phases
  <2>3. /\ Fewer([agent[a] EXCEPT !.phase = phase], a)
        /\ [agent[a] EXCEPT !.phase = phase] \in Agent
    BY <1>t, <2>2, FewerStates
  <2> QED
    BY <1>7, <1>f, <2>1, <2>3, SameQueue DEF Poll
<1>8. CASE CountApplied(a)
  <2> DEFINE local == [agent[a] EXCEPT !.phase = "report",
                         !.counted = Cardinality(unflushed), !.missing = Missing]
  <2>1. /\ agent' = [agent EXCEPT ![a] = local] /\ agent'[a] = local
        /\ Fewer(local, a)
    BY <1>8, <1>t DEF CountApplied, Agent, Fewer
  <2> HIDE DEF local
  <2> QED
    BY <1>8, <1>f, <1>t, <2>1, SameQueue DEF CountApplied
<1>9. CASE Report(a)
  <2>1. PICK local \in {Idle, Flushing("idle")} :
          agent' = [agent EXCEPT ![a] = local]
    BY <1>9 DEF Report, Finish
  <2>2. local \in Agent /\ Fewer(local, a)
    BY <1>t, FewerStates DEF Returns
  <2> QED
    BY <1>9, <1>f, <2>1, <2>2, SameQueue DEF Report
<1> QED
  BY <1>1, <1>2, <1>3, <1>4, <1>5, <1>6, <1>7, <1>8, <1>9 DEF Ending

\* The upkeep loop's own steps.
LEMMA LoopingInv ==
  ASSUME CascadeInv, TypeOK', NEW u \in Upkeep, Looping(u)
  PROVE  CascadeInv'
<1> USE DEF indexVars, engineVars
<1>t. /\ TypeOK /\ queue \in Queue /\ agent \in [Agents -> Agent]
      /\ u \in Agents /\ agent[u] \in Agent
      /\ agent' \in [Agents -> Agent] /\ agent'[u] \in Agent
  BY DEF CascadeInv, TypeOK, Queue, Agents
<1>i. /\ Fewer(Idle, u) /\ Idle \in Agent
      /\ Fewer(Flushing("maintain"), u) /\ Flushing("maintain") \in Agent
      /\ Fewer([Idle EXCEPT !.phase = "ask"], u)
  BY <1>t, FewerStates DEF Returns, Phases
<1>1. CASE Tick(u)
  <2>1. PICK local \in {[Idle EXCEPT !.phase = "ask"], Flushing("maintain")} :
          agent' = [agent EXCEPT ![u] = local]
    BY <1>1 DEF Tick
  <2>2. agent'[u] = local
    BY <1>t, <2>1
  <2> QED
    BY <1>1, <1>t, <1>i, <2>1, <2>2, SameQueue, FewerStep DEF Tick
<1>2. CASE StopCatchingUp(u)
  BY <1>2, <1>t, <1>i, SameQueue, FewerStep DEF StopCatchingUp
<1>3. CASE MaintainIndex(u)
  <2>1. PICK keys \in SUBSET Due("Maintain") :
          LET used == ClaimsOf(Copies, keys)
              jobs == Claimed(queue, keys, Fresh(used))
          IN  /\ Tokens \ used # {}
              /\ queue' = Claim(queue, keys, Fresh(used))
              /\ agent' = [agent EXCEPT ![u] =
                   [Idle EXCEPT !.phase = "reads", !.mode = "Maintain",
                                !.reads = jobs]]
    BY <1>3 DEF MaintainIndex
  <2>2. PICK jobs : agent' = [agent EXCEPT ![u] =
          [Idle EXCEPT !.phase = "reads", !.mode = "Maintain", !.reads = jobs]]
    BY <2>1
  <2> DEFINE local == [Idle EXCEPT !.phase = "reads", !.mode = "Maintain",
                                   !.reads = jobs]
  <2>3. Fewer(local, u)
    BY <1>t DEF Fewer, Idle
  <2> HIDE DEF local
  <2>4. agent' = [agent EXCEPT ![u] = local] /\ agent'[u] = local
    BY <1>t, <2>2 DEF local
  <2>5. /\ \A job \in Copies : Holds(queue', job) => Holds(queue, job)
        /\ \A t \in Topics : queue'[SyncOf(t)] = NoRow => MayDrop(t)
    BY <1>3, <1>t, <2>1, ClaimDrops DEF MaintainIndex
  <2> QED
    BY <1>3, <1>t, <2>3, <2>4, <2>5, FewerStep DEF MaintainIndex
<1>4. CASE NothingToMaintain(u)
  BY <1>4, <1>t, <1>i, SameQueue, FewerStep DEF NothingToMaintain, Finish
<1> QED
  BY <1>1, <1>2, <1>3, <1>4 DEF Looping

\* A request that begins to drain holds nothing yet.
LEMMA StartInv ==
  ASSUME CascadeInv, TypeOK', NEW d \in Drains, NEW mode \in Owed, Start(d, mode)
  PROVE  CascadeInv'
<1>t. /\ TypeOK /\ agent \in [Agents -> Agent] /\ d \in Agents
      /\ agent' \in [Agents -> Agent] /\ agent'[d] \in Agent
  BY DEF CascadeInv, TypeOK, Agents
<1> DEFINE local == [Idle EXCEPT !.phase = "ask", !.mode = mode]
<1>1. Fewer(local, d)
  BY <1>t DEF Fewer, Idle
<1>2. agent' = [agent EXCEPT ![d] = local] /\ agent'[d] = local
  BY <1>t DEF Start
<1> HIDE DEF local
<1> QED
  BY <1>t, <1>1, <1>2, SameQueue, FewerStep DEF Start, indexVars

\* A drain that fails keeps nothing it claimed.
LEMMA AbortInv ==
  ASSUME CascadeInv, TypeOK', NEW a \in Agents, Abort(a)
  PROVE  CascadeInv'
<1>1. TypeOK
  BY DEF CascadeInv
<1>2. Fewer(AfterError(a), a) /\ AfterError(a) \in Agent
  BY <1>1, FewerStates
<1> QED
  BY <1>2, SameQueue, FewerStep DEF Abort, indexVars, engineVars

\* A step of the outbox alone.
LEMMA OutboxStep ==
  ASSUME CascadeInv, TypeOK', UNCHANGED <<ledger, indexVars, engineVars, agent>>,
         \A job \in Copies : Holds(queue', job) => Holds(queue, job),
         \A t \in Topics : queue'[SyncOf(t)] = NoRow => MayDrop(t)
  PROVE  CascadeInv'
<1>1. AppliedCopies' \subseteq AppliedCopies
  BY AppliedBy DEF engineVars
<1>2. OneJobEach'
  BY DEF CascadeInv, OneJobEach
<1> QED
  BY <1>1, <1>2, StepKeepsInv DEF indexVars, engineVars

\* Replays, discards, leases that lapse and retries that fall due.
LEMMA OutboxInv ==
  ASSUME CascadeInv, TypeOK',
         ReplayExhausted \/ DiscardExhausted \/ \E k \in Key : TimePasses(k)
  PROVE  CascadeInv'
<1>t. TypeOK /\ queue \in Queue
  BY DEF CascadeInv, TypeOK, Queue
<1>c. \A job \in Copies : job \in Job
  BY <1>t, CopiesType
<1>1. ASSUME UNCHANGED <<ledger, indexVars, engineVars, agent>>,
             abandoned \subseteq abandoned',
             \A k \in Key : queue'[k] = NoRow =>
               queue[k] = NoRow \/ k \in abandoned',
             \A job \in Job : Holds(queue', job) => Holds(queue, job)
      PROVE  CascadeInv'
  <2>1. \A t \in Topics : queue'[SyncOf(t)] = NoRow => MayDrop(t)
    BY <1>1, SyncKeys DEF MayDrop
  <2> QED
    BY <1>1, <1>c, <2>1, OutboxStep
<1>2. CASE ReplayExhausted
  BY <1>1, <1>2, <1>t, ReplayQueues DEF ReplayExhausted
<1>3. CASE DiscardExhausted
  BY <1>1, <1>3, <1>t, DiscardQueues DEF DiscardExhausted
<1>4. ASSUME NEW k \in Key, TimePasses(k)
      PROVE  CascadeInv'
  BY <1>1, <1>4, <1>t, FallDueQueues DEF TimePasses
<1> QED
  BY <1>2, <1>3, <1>4

-----------------------------------------------------------------------------
(* The steps that change the ledger.                                       *)

\* A topic that says something else is owed from that moment, and whoever was
\* writing what it said before holds it no longer.
LEMMA ChangeInv ==
  ASSUME CascadeInv, TypeOK', NEW t \in Topics, NEW says, NEW keys,
         SyncOf(t) \in keys, ledger' = [ledger EXCEPT ![t] = says],
         Request(keys), UNCHANGED <<indexVars, engineVars, agent>>
  PROVE  CascadeInv'
<1>t. TypeOK
  BY DEF CascadeInv
<1>1. \A other \in Topics \ {t} : ledger'[other] = ledger[other]
  BY <1>t DEF TypeOK
<1>2. /\ \A job \in Copies : Holds(queue', job) =>
           job.key # SyncOf(t) /\ Holds(queue, job)
      /\ \A other \in Topics : queue'[SyncOf(other)] = NoRow =>
           other # t /\ MayDrop(other)
  BY <1>t, RequestDrops
<1>3. UNCHANGED <<buffer, dirty, unflushed, syncing, agent>>
      /\ AppliedCopies' = AppliedCopies
  BY AppliedBy DEF indexVars, engineVars, AppliedCopies
<1>a. \A job \in AppliedCopies : job \in SyncJob /\ job \in Copies
  BY <1>t, AppliedType
<1>4. NothingLost'
  <2> SUFFICES ASSUME NEW other \in Topics,
                      queue'[SyncOf(other)] = NoRow,
                      SyncOf(other) \notin abandoned'
               PROVE  buffer[other] = ledger'[other] /\ other \notin dirty
      BY <1>3 DEF NothingLost
  <2>1. other # t /\ MayDrop(other)
    BY <1>2
  <2>2. CASE queue[SyncOf(other)] = NoRow /\ SyncOf(other) \notin abandoned
    BY <1>1, <2>1, <2>2 DEF CascadeInv, NothingLost
  <2>3. CASE /\ other \notin dirty
             /\ \E job \in AppliedCopies :
                  job.key = SyncOf(other) /\ Holds(queue, job)
    BY <1>1, <1>a, <2>1, <2>3, SyncKeys DEF CascadeInv, AppliedIsFindable
  <2> QED
    BY <2>1, <2>2, <2>3 DEF MayDrop
<1>5. \A job \in Copies \cap SyncJob : Holds(queue', job) =>
        /\ Holds(queue, job) /\ ledger'[job.key.topic] = ledger[job.key.topic]
  BY <1>1, <1>2, SyncKeys
<1>6. AppliedIsFindable'
  BY <1>3, <1>5, <1>a DEF CascadeInv, AppliedIsFindable
<1>7. DurableBeforeDone'
  <2>1. \A a \in Agents : \A job \in agent[a].done \cap SyncJob : job \in Copies
    BY DEF Copies, CopiesOf
  <2> QED
    BY <1>3, <1>5, <2>1 DEF CascadeInv, DurableBeforeDone
<1>8. SyncsDoNotCross' /\ ReadingIsCurrent'
  <2>1. ASSUME NEW a \in Agents, At(a, "apply"), NEW job \in agent[a].syncs
        PROVE  job \in SyncJob /\ job \in Copies
    BY <1>t, <2>1 DEF TypeOK, Agent, Copies, CopiesOf
  <2>2. \A a \in Agents : At(a, "apply")' <=> At(a, "apply")
    BY <1>3 DEF At
  <2>3. \A a \in Agents : \A job : Reading(a, job)' = Reading(a, job)
    BY <1>3 DEF Reading
  <2>4. ReadingIsCurrent'
    BY <1>3, <1>5, <2>1, <2>2, <2>3 DEF CascadeInv, ReadingIsCurrent
  <2>5. ASSUME NEW a \in Agents, At(a, "apply"), NEW job \in agent[a].syncs,
               Reading(a, job) # ledger'[job.key.topic]
        PROVE  /\ queue'[job.key] # NoRow \/ job.key \in abandoned'
               /\ \A other \in AppliedCopies :
                    other.key = job.key => ~Holds(queue', other)
    <3>1. job \in SyncJob
      BY <2>1, <2>5
    <3>2. CASE job.key.topic = t
      BY <1>2, <1>a, <3>1, <3>2, SyncKeys
    <3>3. CASE job.key.topic # t
      <4>1. /\ queue[job.key] # NoRow \/ job.key \in abandoned
            /\ \A other \in AppliedCopies :
                 other.key = job.key => ~Holds(queue, other)
        BY <1>1, <2>5, <3>1, <3>3, SyncKeys DEF CascadeInv, SyncsDoNotCross
      <4> QED
        BY <1>2, <1>a, <3>1, <4>1, SyncKeys DEF MayDrop
    <3> QED
      BY <3>2, <3>3
  <2>6. SyncsDoNotCross'
    BY <1>3, <2>2, <2>3, <2>5 DEF SyncsDoNotCross
  <2> QED
    BY <2>4, <2>6
<1>9. LockIsHeld' /\ OneJobEach'
  BY <1>3 DEF CascadeInv, LockIsHeld, OneJobEach, At
<1> QED
  BY <1>4, <1>6, <1>7, <1>8, <1>9 DEF CascadeInv

-----------------------------------------------------------------------------
(* The steps that read the ledger and write the index.                     *)

\* A round that takes the lock reads what the ledger says now, alone.
LEMMA ReadLedgerInv ==
  ASSUME CascadeInv, TypeOK', NEW a \in Agents, ReadLedger(a)
  PROVE  CascadeInv'
<1>t. /\ TypeOK /\ agent \in [Agents -> Agent] /\ agent[a] \in Agent
  BY DEF CascadeInv, TypeOK
<1>1. /\ agent'[a].phase = "apply" /\ agent'[a].seen = ledger
      /\ agent'[a].syncs = agent[a].syncs /\ agent'[a].applied = agent[a].applied
      /\ agent'[a].done = agent[a].done
      /\ \A b \in Agents \ {a} : agent'[b] = agent[b]
  BY <1>t DEF ReadLedger, Agent
<1>2. /\ UNCHANGED <<ledger, queue, abandoned, buffer, dirty, unflushed>>
      /\ syncing = NoOne /\ syncing' = a
  BY DEF ReadLedger, indexVars
<1>3. AppliedCopies' = AppliedCopies
  <2>1. \A b \in Agents : agent'[b].applied = agent[b].applied
                           /\ agent'[b].done = agent[b].done
    BY <1>1
  <2> QED
    BY <1>2, <2>1 DEF AppliedCopies
<1>4. \A b \in Agents \ {a} : agent'[b].phase # "apply"
  <2>1. NoOne \notin Agents
    BY CascadeAssumption DEF CascadeAssumption
  <2> QED
    BY <1>1, <1>2, <2>1 DEF CascadeInv, LockIsHeld, At
<1>5. NothingLost' /\ AppliedIsFindable'
  BY <1>2, <1>3 DEF CascadeInv, NothingLost, AppliedIsFindable
<1>6. DurableBeforeDone'
  <2>1. \A b \in Agents : agent'[b].done = agent[b].done
    BY <1>1
  <2> QED
    BY <1>2, <2>1 DEF CascadeInv, DurableBeforeDone
<1>7. \A job : Reading(a, job)' = ledger'[job.key.topic]
  BY <1>1, <1>2 DEF Reading
<1>8. SyncsDoNotCross' /\ ReadingIsCurrent' /\ LockIsHeld'
  BY <1>2, <1>4, <1>7 DEF SyncsDoNotCross, ReadingIsCurrent, LockIsHeld, At
<1>9. OneJobEach'
  <2>1. \A b \in Agents : agent'[b].syncs = agent[b].syncs
    BY <1>1
  <2> QED
    BY <2>1 DEF CascadeInv, OneJobEach
<1> QED
  BY <1>5, <1>6, <1>8, <1>9 DEF CascadeInv

\* A round writes one topic's document, or fails to.  A topic nobody owes, and
\* one somebody counts as applied, keep the document they have: the round read
\* what that document says.
LEMMA WritingInv ==
  ASSUME CascadeInv, TypeOK', NEW a \in Agents, At(a, "apply"),
         NEW job \in agent[a].syncs, NEW document, NEW outcome \in Agent,
         Write(job.key.topic, document), AfterWriting(a, job, outcome),
         UNCHANGED <<ledger, queue, abandoned, opened, unflushed>>,
         outcome.seen = agent[a].seen, outcome.done = agent[a].done,
         outcome.applied \subseteq agent[a].applied \cup {job},
         job \in outcome.applied /\ job \notin agent[a].applied =>
           document = Reading(a, job),
         buffer[job.key.topic] = Reading(a, job) => document = Reading(a, job)
  PROVE  CascadeInv'
<1> DEFINE t == job.key.topic
           left == agent[a].syncs \ {job}
<1>t. /\ TypeOK /\ agent \in [Agents -> Agent] /\ agent[a] \in Agent
      /\ buffer \in [Topics -> Document]
      /\ job \in SyncJob /\ t \in Topics /\ job.key = SyncOf(t)
  BY SyncKeys DEF CascadeInv, TypeOK, Agent
<1>a. \A other \in AppliedCopies : other \in SyncJob /\ other \in Copies
  BY <1>t, AppliedType
<1>1. /\ agent'[a].syncs = left /\ agent'[a].done = agent[a].done
      /\ agent'[a].applied = outcome.applied
      /\ agent'[a].phase = IF left = {} THEN "settle" ELSE "apply"
      /\ left # {} => agent'[a].seen = agent[a].seen
      /\ \A b \in Agents \ {a} : agent'[b] = agent[b]
      /\ syncing' = IF left = {} THEN NoOne ELSE a
  <2> DEFINE local == [outcome EXCEPT
                         !.syncs = left,
                         !.phase = IF left = {} THEN "settle" ELSE "apply",
                         !.seen = IF left = {} THEN Unread ELSE outcome.seen]
  <2>1. agent' = [agent EXCEPT ![a] = local]
    BY DEF AfterWriting, Agent
  <2>2. /\ local.syncs = left /\ local.done = agent[a].done
        /\ local.applied = outcome.applied
        /\ local.phase = IF left = {} THEN "settle" ELSE "apply"
        /\ left # {} => local.seen = agent[a].seen
    BY DEF Agent
  <2> HIDE DEF local
  <2>3. agent'[a] = local /\ \A b \in Agents \ {a} : agent'[b] = agent[b]
    BY <1>t, <2>1
  <2> QED
    BY <2>2, <2>3 DEF AfterWriting
<1>2. /\ buffer'[t] = document
      /\ \A other \in Topics \ {t} : buffer'[other] = buffer[other]
      /\ dirty' = IF buffer[t] = document THEN dirty ELSE dirty \cup {t}
  BY <1>t DEF Write
<1> HIDE DEF t, left
<1>3. ASSUME Reading(a, job) = ledger[t], buffer[t] = ledger[t]
      PROVE  buffer'[t] = ledger[t] /\ dirty' = dirty
  BY <1>2, <1>3 DEF t
<1>4. ASSUME NEW other \in AppliedCopies, other.key = job.key,
             Holds(queue, other)
      PROVE  buffer'[t] = ledger[t] /\ dirty' = dirty
  <2>1. Reading(a, job) = ledger[t]
    BY <1>4 DEF CascadeInv, SyncsDoNotCross, t
  <2>2. buffer[t] = ledger[t]
    BY <1>4 DEF CascadeInv, AppliedIsFindable, t
  <2> QED
    BY <1>3, <2>1, <2>2
<1>5. ASSUME NEW other \in AppliedCopies'
      PROVE  other \in AppliedCopies \/ (other = job /\ document = Reading(a, job))
  <2>1. CASE other \in unflushed'
    BY <2>1, AppliedBy
  <2>2. ASSUME NEW b \in Agents,
               other \in agent'[b].applied
                 \/ other \in agent'[b].done \cap SyncJob
        PROVE  \/ other \in AppliedCopies
               \/ other = job /\ document = Reading(a, job)
    <3>1. CASE b # a
      BY <1>1, <2>2, <3>1, AppliedBy
    <3>2. CASE b = a
      BY <1>1, <2>2, <3>2, AppliedBy
    <3> QED
      BY <3>1, <3>2
  <2> QED
    BY <1>5, <2>1, <2>2, AppliedBy
<1>6. NothingLost'
  <2> SUFFICES ASSUME NEW other \in Topics, queue[SyncOf(other)] = NoRow,
                      SyncOf(other) \notin abandoned
               PROVE  buffer'[other] = ledger[other] /\ other \notin dirty'
      BY DEF NothingLost
  <2>1. buffer[other] = ledger[other] /\ other \notin dirty
    BY DEF CascadeInv, NothingLost
  <2>2. CASE other = t
    <3>1. Reading(a, job) = ledger[t]
      BY <1>t, <2>2 DEF CascadeInv, SyncsDoNotCross, t
    <3> QED
      BY <1>3, <2>1, <2>2, <3>1
  <2>3. CASE other # t
    BY <1>2, <2>1, <2>3
  <2> QED
    BY <2>2, <2>3
<1>7. AppliedIsFindable'
  <2> SUFFICES ASSUME NEW other \in AppliedCopies', Holds(queue, other)
               PROVE  buffer'[other.key.topic] = ledger[other.key.topic]
      BY DEF AppliedIsFindable
  <2>1. CASE other \in AppliedCopies
    <3>1. CASE other.key = job.key
      BY <1>4, <2>1, <3>1 DEF t
    <3>2. CASE other.key # job.key
      <4>1. other.key.topic \in Topics \ {t}
        BY <1>a, <1>t, <2>1, <3>2, SyncKeys
      <4> QED
        BY <1>2, <2>1, <4>1 DEF CascadeInv, AppliedIsFindable
    <3> QED
      BY <3>1, <3>2
  <2>2. CASE other = job /\ document = Reading(a, job)
    <3>1. Reading(a, job) = ledger[t]
      BY <2>2 DEF CascadeInv, ReadingIsCurrent, t
    <3> QED
      BY <1>2, <2>2, <3>1 DEF t
  <2> QED
    BY <1>5, <2>1, <2>2
<1>8. DurableBeforeDone'
  <2> SUFFICES ASSUME NEW b \in Agents, NEW other \in agent'[b].done \cap SyncJob,
                      Holds(queue, other)
               PROVE  other.key.topic \notin dirty'
      BY DEF DurableBeforeDone
  <2>1. other \in agent[b].done \cap SyncJob
    BY <1>1
  <2>2. other.key.topic \notin dirty /\ other \in AppliedCopies
    BY <2>1, AppliedBy DEF CascadeInv, DurableBeforeDone
  <2>3. CASE other.key = job.key
    BY <1>4, <2>2, <2>3
  <2>4. CASE other.key # job.key
    <3>1. other.key.topic # t
      BY <1>a, <1>t, <2>2, <2>4, SyncKeys
    <3> QED
      BY <1>2, <2>2, <3>1
  <2> QED
    BY <2>3, <2>4
<1>9. \A b \in Agents \ {a} : agent'[b].phase # "apply"
  <2>1. syncing = a
    BY DEF CascadeInv, LockIsHeld
  <2> QED
    BY <1>1, <2>1 DEF CascadeInv, LockIsHeld, At
<1>10. LockIsHeld'
  BY <1>1, <1>9 DEF LockIsHeld, At
<1>11. OneJobEach'
  <2>1. \A b \in Agents : agent'[b].syncs \subseteq agent[b].syncs
    BY <1>1 DEF left
  <2> QED
    BY <2>1 DEF CascadeInv, OneJobEach
<1>12. ASSUME NEW b \in Agents, At(b, "apply")', NEW next \in agent'[b].syncs
       PROVE  /\ b = a /\ next \in agent[a].syncs /\ next # job
              /\ Reading(b, next)' = Reading(a, next)
  BY <1>1, <1>9, <1>12 DEF At, Reading, left
<1>13. SyncsDoNotCross'
  <2> SUFFICES ASSUME NEW b \in Agents, At(b, "apply")', NEW next \in agent'[b].syncs,
                      Reading(b, next)' # ledger[next.key.topic]
               PROVE  /\ queue[next.key] # NoRow \/ next.key \in abandoned
                      /\ \A other \in AppliedCopies' :
                           other.key = next.key => ~Holds(queue, other)
      BY DEF SyncsDoNotCross
  <2>1. /\ next \in agent[a].syncs /\ next # job
        /\ Reading(a, next) # ledger[next.key.topic]
    BY <1>12
  <2>2. next.key # job.key
    BY <2>1 DEF CascadeInv, OneJobEach
  <2>3. /\ queue[next.key] # NoRow \/ next.key \in abandoned
        /\ \A other \in AppliedCopies :
             other.key = next.key => ~Holds(queue, other)
    BY <2>1 DEF CascadeInv, SyncsDoNotCross
  <2> QED
    BY <1>5, <2>2, <2>3
<1>14. ReadingIsCurrent'
  <2> SUFFICES ASSUME NEW b \in Agents, At(b, "apply")', NEW next \in agent'[b].syncs,
                      Holds(queue, next)
               PROVE  Reading(b, next)' = ledger[next.key.topic]
      BY DEF ReadingIsCurrent
  <2>1. next \in agent[a].syncs /\ Reading(b, next)' = Reading(a, next)
    BY <1>12
  <2> QED
    BY <2>1 DEF CascadeInv, ReadingIsCurrent
<1> QED
  BY <1>6, <1>7, <1>8, <1>10, <1>11, <1>13, <1>14 DEF CascadeInv

\* Both outcomes of writing a document.
LEMMA ApplyInv ==
  ASSUME CascadeInv, TypeOK', NEW a \in Agents, NEW job \in agent[a].syncs,
         ApplyOne(a, job) \/ ApplyOneFails(a, job)
  PROVE  CascadeInv'
<1>t. /\ agent[a] \in Agent /\ job \in SyncJob
  BY DEF CascadeInv, TypeOK, Agent
<1>1. CASE ApplyOne(a, job)
  <2> DEFINE outcome == [agent[a] EXCEPT !.applied = @ \cup {job}]
  <2>1. /\ outcome \in Agent /\ outcome.seen = agent[a].seen
        /\ outcome.done = agent[a].done
        /\ outcome.applied = agent[a].applied \cup {job}
    BY <1>t DEF Agent
  <2>2. AfterWriting(a, job, outcome)
    BY <1>1 DEF ApplyOne
  <2> HIDE DEF outcome
  <2> QED
    BY <1>1, <2>1, <2>2, WritingInv DEF ApplyOne
<1>2. CASE ApplyOneFails(a, job)
  <2> DEFINE outcome == [agent[a] EXCEPT !.failed = @ \cup {job}]
  <2>1. /\ outcome \in Agent /\ outcome.seen = agent[a].seen
        /\ outcome.done = agent[a].done /\ outcome.applied = agent[a].applied
    BY <1>t DEF Agent, SyncJob
  <2>2. AfterWriting(a, job, outcome) /\ At(a, "apply")
        /\ UNCHANGED <<ledger, queue, abandoned, opened, unflushed>>
    BY <1>2 DEF ApplyOneFails
  <2> HIDE DEF outcome
  <2>3. PICK document \in {buffer[job.key.topic], Reading(a, job), Torn} :
          /\ buffer[job.key.topic] = Reading(a, job) => document # Torn
          /\ Write(job.key.topic, document)
    BY <1>2 DEF ApplyOneFails
  <2>4. buffer[job.key.topic] = Reading(a, job) => document = Reading(a, job)
    BY <2>3
  <2> QED
    BY <2>1, <2>2, <2>3, <2>4, WritingInv
<1> QED
  BY <1>1, <1>2

\* An engine that goes takes every copy with it: what is owed is owed still.
\* A write it dies in the middle of tears only a document that was owed, and a
\* power loss takes only what no flush covered, which was owed as well.
LEMMA EngineGoneInv ==
  ASSUME CascadeInv, TypeOK', EngineGone, UNCHANGED <<ledger, queue, abandoned>>,
         \A t \in Topics : queue[SyncOf(t)] = NoRow /\ SyncOf(t) \notin abandoned =>
           buffer'[t] = buffer[t] /\ t \notin dirty'
  PROVE  CascadeInv'
<1>1. /\ \A a \in Agents : agent'[a] = Idle
      /\ unflushed' = {}
  BY DEF EngineGone
<1>2. AppliedCopies' = {}
  BY <1>1, AppliedBy DEF Idle
<1>3. NothingLost'
  BY DEF CascadeInv, NothingLost
<1>4. AppliedIsFindable' /\ DurableBeforeDone'
  BY <1>1, <1>2 DEF AppliedIsFindable, DurableBeforeDone, Idle
<1>5. SyncsDoNotCross' /\ ReadingIsCurrent' /\ LockIsHeld' /\ OneJobEach'
  BY <1>1 DEF SyncsDoNotCross, ReadingIsCurrent, LockIsHeld, OneJobEach, At, Idle
<1> QED
  BY <1>3, <1>4, <1>5 DEF CascadeInv

\* A round has nothing to write of a topic that is neither owed nor given up on:
\* what it read of it is what the index says.
LEMMA OnlyOwedIsWritten ==
  ASSUME CascadeInv, NEW t \in Topics, queue[SyncOf(t)] = NoRow,
         SyncOf(t) \notin abandoned
  PROVE  ~Writing(t)
<1> SUFFICES ASSUME NEW a \in Agents, NEW job \in agent[a].syncs,
                    At(a, "apply"), job.key.topic = t
             PROVE  buffer[t] = Reading(a, job)
    BY DEF Writing
<1>1. job.key = SyncOf(t)
  BY SyncKeys DEF CascadeInv, TypeOK, Agent
<1>2. Reading(a, job) = ledger[t]
  BY <1>1 DEF CascadeInv, SyncsDoNotCross
<1>3. buffer[t] = ledger[t]
  BY DEF CascadeInv, NothingLost
<1> QED
  BY <1>2, <1>3

\* Closing, dying and losing power: each leaves a document that is not owed.
LEMMA FailureInv ==
  ASSUME CascadeInv, TypeOK', Close \/ Kill \/ PowerLoss
  PROVE  CascadeInv'
<1> USE DEF indexVars
<1>n. \A t \in Topics : queue[SyncOf(t)] = NoRow /\ SyncOf(t) \notin abandoned =>
        buffer[t] = ledger[t] /\ t \notin dirty
  BY DEF CascadeInv, NothingLost
<1>1. CASE Close
  BY <1>1, <1>n, EngineGoneInv DEF Close
<1>2. CASE PowerLoss
  <2>1. \A t \in Topics \ dirty : buffer'[t] = buffer[t]
    BY <1>2 DEF PowerLoss
  <2> QED
    BY <1>2, <1>n, <2>1, EngineGoneInv DEF PowerLoss
<1>3. CASE Kill
  <2>1. PICK found \in [Topics -> Document] :
          /\ \A t \in Topics : found[t] # buffer[t] => Writing(t)
          /\ buffer' = found
          /\ dirty' = dirty \cup {t \in Topics : found[t] # buffer[t]}
    BY <1>3 DEF Kill
  <2>2. \A t \in Topics : queue[SyncOf(t)] = NoRow /\ SyncOf(t) \notin abandoned =>
          ~Writing(t)
    BY OnlyOwedIsWritten
  <2> QED
    BY <1>3, <1>n, <2>1, <2>2, EngineGoneInv DEF Kill
<1> QED
  BY <1>1, <1>2, <1>3

-----------------------------------------------------------------------------
(* The invariant, and what follows from it.                                *)

\* The cascade starts with nothing to lose.
LEMMA InitInv == Init => CascadeInv
<1> SUFFICES ASSUME Init PROVE CascadeInv
    OBVIOUS
<1>1. TypeOK
  BY InitType
<1>2. \A a \in Agents : agent[a] = Idle
  BY DEF Init
<1>3. AppliedCopies = {}
  BY <1>2 DEF Init, AppliedCopies, Idle
<1>4. NothingLost
  BY DEF Init, NothingLost
<1>5. AppliedIsFindable /\ DurableBeforeDone
  BY <1>2, <1>3 DEF AppliedIsFindable, DurableBeforeDone, Idle
<1>6. SyncsDoNotCross /\ ReadingIsCurrent /\ LockIsHeld /\ OneJobEach
  BY <1>2 DEF SyncsDoNotCross, ReadingIsCurrent, LockIsHeld, OneJobEach, At, Idle
<1> QED
  BY <1>1, <1>4, <1>5, <1>6 DEF CascadeInv

\* Every step keeps the invariant.
LEMMA NextInv == CascadeInv /\ [Next]_vars => CascadeInv'
<1> SUFFICES ASSUME CascadeInv, [Next]_vars PROVE CascadeInv'
    OBVIOUS
<1>t. TypeOK'
  BY NextType DEF CascadeInv
<1>1. ASSUME NEW t \in Topics, NEW c \in Contents,
             WriteMemory(t, c) \/ RenameTopic(t, c) \/ RetireTopic(t)
      PROVE  CascadeInv'
  <2>1. CASE WriteMemory(t, c)
    BY <1>t, <2>1, ChangeInv DEF WriteMemory
  <2>2. CASE RenameTopic(t, c)
    BY <1>t, <2>2, ChangeInv DEF RenameTopic
  <2>3. CASE RetireTopic(t)
    BY <1>t, <2>3, ChangeInv DEF RetireTopic
  <2> QED
    BY <1>1, <2>1, <2>2, <2>3
<1>2. ASSUME NEW t \in Topics, RetireTopic(t)
      PROVE  CascadeInv'
  BY <1>t, <1>2, ChangeInv DEF RetireTopic
<1>3. CASE Environment
  BY <1>t, <1>1, <1>2, <1>3, OutboxInv, StartInv, AbortInv, FailureInv
  DEF Environment
<1>4. ASSUME NEW a \in Agents, Round(a)
      PROVE  CascadeInv'
  BY <1>t, <1>4, ClaimJobsInv, RecordingInv, ReadLedgerInv, ApplyInv DEF Round
<1>5. ASSUME NEW a \in Agents, Ending(a)
      PROVE  CascadeInv'
  BY <1>t, <1>5, EndingInv
<1>6. ASSUME NEW u \in Upkeep, Looping(u)
      PROVE  CascadeInv'
  BY <1>t, <1>6, LoopingInv
<1>7. ASSUME NEW k \in Key, TimePasses(k)
      PROVE  CascadeInv'
  BY <1>t, <1>7, OutboxInv
<1>8. CASE UNCHANGED vars
  <2>1. UNCHANGED <<ledger, indexVars, engineVars, agent, queue, abandoned>>
    BY <1>8 DEF vars, indexVars, engineVars
  <2> QED
    BY <1>t, <2>1, SameQueue, OutboxStep
<1> QED
  BY <1>3, <1>4, <1>5, <1>6, <1>7, <1>8 DEF Next

\* The whole invariant of the cascade.
THEOREM CascadeIsSafe == Spec => []CascadeInv
BY InitInv, NextInv, PTL DEF Spec

\* Nothing written is lost, whatever drains race and whatever crashes.
THEOREM NothingIsLost == Spec => []NothingLost
<1>1. CascadeInv => NothingLost
  BY DEF CascadeInv
<1> QED
  BY <1>1, CascadeIsSafe, PTL

\* A write waiting for its flush can be found, while its claim stands.
THEOREM AppliedCanBeFound == Spec => []AppliedIsFindable
<1>1. CascadeInv => AppliedIsFindable
  BY DEF CascadeInv
<1> QED
  BY <1>1, CascadeIsSafe, PTL

\* A write is on disk before its row is deleted.
THEOREM DurableWhenDone == Spec => []DurableBeforeDone
<1>1. CascadeInv => DurableBeforeDone
  BY DEF CascadeInv
<1> QED
  BY <1>1, CascadeIsSafe, PTL

\* No round writes an older reading over a topic that is not owed, or that
\* somebody is about to record as done.
THEOREM SyncsNeverCross == Spec => []SyncsDoNotCross
<1>1. CascadeInv => SyncsDoNotCross
  BY DEF CascadeInv
<1> QED
  BY <1>1, CascadeIsSafe, PTL

-----------------------------------------------------------------------------
(***************************************************************************)
(* That the cascade implements Findable, for every value of the constants. *)
(*                                                                         *)
(* What Findable sees of a state is the ledger, the documents, which syncs *)
(* are owed and which were given up on.  A step that leaves these alone is *)
(* a stutter; the others are a change, a reindexing, a settlement or a     *)
(* giving up.  CascadeInv is what makes a settlement settle only what is   *)
(* found saying what it says, and a reindexing touch only what is owed.    *)
(***************************************************************************)

\* The row of every key is there after the step exactly when it was before.
SameRows == \A k \in Key : queue'[k] = NoRow <=> queue[k] = NoRow

\* A topic's sync is work that can be owed, and of no other topic.
LEMMA SyncOfTopic ==
  /\ \A t \in Topics : SyncOf(t) \in Key /\ SyncOf(t) # OptimizeIndex
  /\ \A t, other \in Topics : SyncOf(t) = SyncOf(other) => t = other
BY OutboxAssumption
DEF SyncOf, OptimizeIndex, Key, Urgent, OutboxAssumption

\* A step nobody sees the ledger, a document, or what is owed change by.
LEMMA Unseen ==
  ASSUME UNCHANGED <<ledger, buffer>>, SameRows,
         \A t \in Topics : SyncOf(t) \in abandoned' <=> SyncOf(t) \in abandoned
  PROVE  UNCHANGED Promise!vars
<1>1. \A t \in Topics : queue'[SyncOf(t)] = NoRow <=> queue[SyncOf(t)] = NoRow
  BY SyncOfTopic DEF SameRows
<1>2. {t \in Topics : queue[SyncOf(t)] # NoRow}'
        = {t \in Topics : queue[SyncOf(t)] # NoRow}
  BY <1>1
<1>3. {t \in Topics : SyncOf(t) \in abandoned}'
        = {t \in Topics : SyncOf(t) \in abandoned}
  OBVIOUS
<1> QED
  BY <1>2, <1>3 DEF Promise!vars

\* Claims, failures, replays and the passing of time leave every row there.
LEMMA RowsStay ==
  ASSUME queue \in Queue,
         \/ \E keys \in SUBSET Key, claim \in Tokens :
              /\ \A k \in keys : Claimable(queue[k])
              /\ queue' = Claim(queue, keys, claim)
         \/ \E job \in Job : queue' = Fail(queue, job)
         \/ queue' = Replay(queue)
         \/ \E k \in Key : queue[k] # NoRow /\ queue' = FallDue(queue, k)
  PROVE  SameRows
<1>1. ASSUME NEW keys \in SUBSET Key, NEW claim \in Tokens,
             \A k \in keys : Claimable(queue[k]),
             queue' = Claim(queue, keys, claim)
      PROVE  SameRows
  <2>1. \A k \in Key : queue'[k] = NoRow => queue[k] = NoRow
    BY <1>1, ClaimQueues
  <2>2. \A k \in Key : queue[k] = NoRow => queue'[k] = queue[k]
    BY <1>1 DEF Claim, Claimable
  <2> QED
    BY <2>1, <2>2 DEF SameRows
<1>2. ASSUME NEW job \in Job, queue' = Fail(queue, job)
      PROVE  SameRows
  <2>1. \A k \in Key : queue'[k] = NoRow => queue[k] = NoRow
    BY <1>2, FailQueues
  <2>2. CASE ~Fails(queue, job)
    BY <1>2, <2>2 DEF Fail, SameRows
  <2>3. CASE Fails(queue, job)
    <3>1. \A k \in Key \ {job.key} : queue'[k] = queue[k]
      BY <1>2, <2>3 DEF Fail, Queue
    <3> QED
      BY <2>1, <2>3, <3>1 DEF SameRows, Fails
  <2> QED
    BY <2>2, <2>3
<1>3. CASE queue' = Replay(queue)
  <2>1. \A k \in Key : queue'[k] = NoRow => queue[k] = NoRow
    BY <1>3, ReplayQueues
  <2>2. \A k \in Key : queue[k] = NoRow => queue'[k] = queue[k]
    BY <1>3 DEF Replay, Exhausted
  <2> QED
    BY <2>1, <2>2 DEF SameRows
<1>4. ASSUME NEW k0 \in Key, queue[k0] # NoRow, queue' = FallDue(queue, k0)
      PROVE  SameRows
  <2>1. \A k \in Key : queue'[k] = NoRow => queue[k] = NoRow
    BY <1>4, FallDueQueues
  <2>2. \A k \in Key \ {k0} : queue'[k] = queue[k]
    BY <1>4 DEF FallDue, Queue
  <2> QED
    BY <1>4, <2>1, <2>2 DEF SameRows
<1> QED
  BY <1>1, <1>2, <1>3, <1>4

\* A request brings the rows it asks for and leaves the others as they were.
LEMMA RequestBrings ==
  ASSUME TypeOK, NEW keys, Request(keys)
  PROVE  /\ \A k \in Key : queue'[k] = NoRow <=> k \notin keys /\ queue[k] = NoRow
         /\ \A k \in Key : k \in abandoned' <=> k \notin keys /\ k \in abandoned
<1> DEFINE asked == keys \cap Key
<1>1. /\ CanEnqueue(queue, asked, Copies)
      /\ queue' = Enqueue(queue, asked, Copies)
      /\ abandoned' = abandoned \ asked
  BY DEF Request
<1>2. queue \in Queue /\ asked \in SUBSET Key
  BY DEF TypeOK, Queue
<1>3. \A k \in Key : queue'[k] = NoRow => k \notin asked /\ queue[k] = NoRow
  BY <1>1, <1>2, EnqueueQueues
<1>4. \A k \in Key \ asked : queue'[k] = queue[k]
  BY <1>1 DEF Enqueue
<1> QED
  BY <1>1, <1>3, <1>4

\* A request for maintenance owes no topic anything.
LEMMA RequestUnseen ==
  ASSUME TypeOK, Request({OptimizeIndex}), UNCHANGED <<ledger, buffer>>
  PROVE  UNCHANGED Promise!vars
<1>1. /\ \A t \in Topics : queue'[SyncOf(t)] = NoRow <=> queue[SyncOf(t)] = NoRow
      /\ \A t \in Topics : SyncOf(t) \in abandoned' <=> SyncOf(t) \in abandoned
  BY RequestBrings, SyncOfTopic
<1>2. {t \in Topics : queue[SyncOf(t)] # NoRow}'
        = {t \in Topics : queue[SyncOf(t)] # NoRow}
  BY <1>1
<1>3. {t \in Topics : SyncOf(t) \in abandoned}'
        = {t \in Topics : SyncOf(t) \in abandoned}
  BY <1>1
<1> QED
  BY <1>2, <1>3 DEF Promise!vars

-----------------------------------------------------------------------------
(* The steps Findable sees.                                                *)

\* A write, a rename or a removal owes its topic, and no other, a sync.
LEMMA ChangeStep ==
  ASSUME TypeOK, NEW t \in Topics, NEW saying \in Says,
         ledger' = [ledger EXCEPT ![t] = saying],
         NEW more, \A other \in Topics : SyncOf(other) \notin more,
         Request({SyncOf(t)} \cup more), UNCHANGED buffer
  PROVE  Promise!Change(t)
<1> DEFINE keys == {SyncOf(t)} \cup more
<1>1. /\ \A k \in Key : queue'[k] = NoRow <=> k \notin keys /\ queue[k] = NoRow
      /\ \A k \in Key : k \in abandoned' <=> k \notin keys /\ k \in abandoned
  BY RequestBrings
<1>2. \A other \in Topics : SyncOf(other) \in keys <=> other = t
  BY SyncOfTopic
<1> HIDE DEF keys
<1>3. {o \in Topics : queue[SyncOf(o)] # NoRow}'
        = {o \in Topics : queue[SyncOf(o)] # NoRow} \cup {t}
  BY <1>1, <1>2, SyncOfTopic
<1>4. {o \in Topics : SyncOf(o) \in abandoned}'
        = {o \in Topics : SyncOf(o) \in abandoned} \ {t}
  BY <1>1, <1>2, SyncOfTopic
<1> QED
  BY <1>3, <1>4 DEF Promise!Change

\* The steps that complete jobs settle only topics found saying what they say.
LEMMA SettleStep ==
  ASSUME CascadeInv, NEW jobs \in SUBSET Job,
         jobs \cap SyncJob \subseteq AppliedCopies,
         queue' = Complete(queue, jobs), UNCHANGED <<ledger, buffer, abandoned>>
  PROVE  Promise!Settle
<1> DEFINE owed == {t \in Topics : queue[SyncOf(t)] # NoRow}
<1>1. \A k \in Key : queue[k] = NoRow => queue'[k] = NoRow
  BY DEF Complete
<1>2. queue \in Queue
  BY DEF CascadeInv, TypeOK, Queue
<1>3. owed' \subseteq owed
  BY <1>1, SyncOfTopic
<1>4. ASSUME NEW t \in owed \ owed'
      PROVE  buffer[t] = ledger[t]
  <2>1. /\ t \in Topics /\ SyncOf(t) \in Key
        /\ queue[SyncOf(t)] # NoRow /\ queue'[SyncOf(t)] = NoRow
    BY SyncOfTopic
  <2>2. PICK job \in jobs : job.key = SyncOf(t) /\ Holds(queue, job)
    BY <1>2, <2>1, CompleteQueues
  <2>3. job \in AppliedCopies /\ job.key.topic = t
    BY <2>2 DEF SyncJob, SyncOf
  <2> QED
    BY <2>2, <2>3 DEF CascadeInv, AppliedIsFindable
<1>5. {t \in Topics : SyncOf(t) \in abandoned}'
        = {t \in Topics : SyncOf(t) \in abandoned}
  OBVIOUS
<1> QED
  BY <1>3, <1>4, <1>5 DEF Promise!Settle

\* A step that leaves the document of every topic neither owed nor given up on.
LEMMA ReindexStep ==
  ASSUME TypeOK', UNCHANGED <<ledger, queue, abandoned>>,
         \A t \in Topics : queue[SyncOf(t)] = NoRow /\ SyncOf(t) \notin abandoned =>
           buffer'[t] = buffer[t]
  PROVE  Promise!Reindex
<1>1. buffer' \in [Topics -> Document]
  BY DEF TypeOK
<1>2. /\ {t \in Topics : queue[SyncOf(t)] # NoRow}'
           = {t \in Topics : queue[SyncOf(t)] # NoRow}
      /\ {t \in Topics : SyncOf(t) \in abandoned}'
           = {t \in Topics : SyncOf(t) \in abandoned}
  OBVIOUS
<1> QED
  BY <1>1, <1>2 DEF Promise!Reindex

\* A round writes a topic that is owed or given up on, or writes what is there.
LEMMA WritingStep ==
  ASSUME CascadeInv, TypeOK', NEW a \in Agents, At(a, "apply"),
         NEW job \in agent[a].syncs,
         NEW document, Write(job.key.topic, document),
         UNCHANGED <<ledger, queue, abandoned>>,
         buffer[job.key.topic] = Reading(a, job) => document = Reading(a, job)
  PROVE  Promise!Reindex
<1>1. /\ job \in SyncJob /\ job.key.topic \in Topics
      /\ job.key = SyncOf(job.key.topic) /\ buffer \in [Topics -> Document]
  BY SyncKeys DEF CascadeInv, TypeOK, Agent
<1>2. ASSUME NEW t \in Topics, queue[SyncOf(t)] = NoRow,
             SyncOf(t) \notin abandoned
      PROVE  buffer'[t] = buffer[t]
  <2>1. CASE t # job.key.topic
    BY <1>1, <2>1 DEF Write
  <2>2. CASE t = job.key.topic
    <3>1. Reading(a, job) = ledger[t]
      BY <1>1, <1>2, <2>2 DEF CascadeInv, SyncsDoNotCross
    <3>2. buffer[t] = ledger[t]
      BY <1>2 DEF CascadeInv, NothingLost
    <3> QED
      BY <1>1, <2>2, <3>1, <3>2 DEF Write
  <2> QED
    BY <2>1, <2>2
<1> QED
  BY <1>2, ReindexStep

\* A crash in the middle of a write, and a power loss.
LEMMA FailureStep ==
  ASSUME CascadeInv, TypeOK', Kill \/ PowerLoss
  PROVE  Promise!Reindex
<1>n. \A t \in Topics : queue[SyncOf(t)] = NoRow /\ SyncOf(t) \notin abandoned =>
        buffer[t] = ledger[t] /\ t \notin dirty
  BY DEF CascadeInv, NothingLost
<1>1. CASE PowerLoss
  <2>1. \A t \in Topics \ dirty : buffer'[t] = buffer[t]
    BY <1>1 DEF PowerLoss
  <2> QED
    BY <1>1, <1>n, <2>1, ReindexStep DEF PowerLoss
<1>2. CASE Kill
  <2>1. \A t \in Topics : buffer'[t] # buffer[t] => Writing(t)
    BY <1>2 DEF Kill
  <2>2. \A t \in Topics : queue[SyncOf(t)] = NoRow /\ SyncOf(t) \notin abandoned =>
          ~Writing(t)
    BY OnlyOwedIsWritten
  <2> QED
    BY <1>2, <2>1, <2>2, ReindexStep DEF Kill
<1> QED
  BY <1>1, <1>2

\* Discarding gives up on the syncs it drops.
LEMMA GiveUpStep ==
  ASSUME TypeOK, DiscardExhausted
  PROVE  Promise!GiveUp
<1> DEFINE owed == {t \in Topics : queue[SyncOf(t)] # NoRow}
           givenUp == {t \in Topics : SyncOf(t) \in abandoned}
<1>1. /\ queue' = Discard(queue) /\ abandoned' = abandoned \cup Exhausted(queue)
      /\ UNCHANGED <<ledger, buffer>>
  BY DEF DiscardExhausted, indexVars
<1>2. \A k \in Key : queue'[k] = IF k \in Exhausted(queue) THEN NoRow ELSE queue[k]
  BY <1>1 DEF Discard
<1>3. \A k \in Exhausted(queue) : queue[k] # NoRow
  BY DEF Exhausted
<1>4. owed' \subseteq owed
  BY <1>2, SyncOfTopic
<1>5. givenUp' = givenUp \cup (owed \ owed')
  BY <1>1, <1>2, <1>3, SyncOfTopic
<1> QED
  BY <1>1, <1>4, <1>5 DEF Promise!GiveUp

-----------------------------------------------------------------------------
(* Every step.                                                             *)

\* What people ask for and what goes wrong.
LEMMA EnvironmentStep ==
  ASSUME CascadeInv, TypeOK', Environment
  PROVE  [Promise!Next]_Promise!vars
<1> USE DEF indexVars, engineVars
<1>t. TypeOK /\ queue \in Queue /\ ledger \in [Topics -> Says]
  BY DEF CascadeInv, TypeOK, Queue
<1>1. ASSUME NEW t \in Topics, NEW c \in Contents, WriteMemory(t, c)
      PROVE  Promise!Next
  <2>1. PICK named \in {{}, {BackfillOf(t)}} :
          Request({SyncOf(t), DeriveOf(t)} \cup named)
    BY <1>1 DEF WriteMemory
  <2> DEFINE more == {DeriveOf(t)} \cup named
  <2>2. {SyncOf(t), DeriveOf(t)} \cup named = {SyncOf(t)} \cup more
    OBVIOUS
  <2>3. \A other \in Topics : SyncOf(other) \notin more
    BY DEF SyncOf, DeriveOf, BackfillOf
  <2> HIDE DEF more
  <2> QED
    BY <1>1, <1>t, <2>1, <2>2, <2>3, ChangeStep
    DEF WriteMemory, Says, Promise!Next
<1>2. ASSUME NEW t \in Topics, NEW c \in Contents, RenameTopic(t, c)
      PROVE  Promise!Next
  <2> DEFINE more == {}
  <2>1. {SyncOf(t)} = {SyncOf(t)} \cup more
        /\ \A other \in Topics : SyncOf(other) \notin more
    OBVIOUS
  <2> HIDE DEF more
  <2> QED
    BY <1>2, <1>t, <2>1, ChangeStep DEF RenameTopic, Says, Promise!Next
<1>3. ASSUME NEW t \in Topics, RetireTopic(t)
      PROVE  Promise!Next
  <2>1. {SyncOf(t), DeriveOf(t)} = {SyncOf(t)} \cup {DeriveOf(t)}
        /\ \A other \in Topics : SyncOf(other) \notin {DeriveOf(t)}
    BY DEF SyncOf, DeriveOf
  <2> QED
    BY <1>3, <1>t, <2>1, ChangeStep DEF RetireTopic, Says, Promise!Next
<1>4. CASE ReplayExhausted
  BY <1>4, <1>t, RowsStay, Unseen DEF ReplayExhausted
<1>5. CASE DiscardExhausted
  BY <1>5, <1>t, GiveUpStep DEF Promise!Next
<1>6. ASSUME NEW d \in Drains, NEW mode \in Owed, Start(d, mode)
      PROVE  UNCHANGED Promise!vars
  BY <1>6, Unseen DEF Start, SameRows
<1>7. ASSUME NEW a \in Agents, Abort(a)
      PROVE  UNCHANGED Promise!vars
  BY <1>7, Unseen DEF Abort, SameRows
<1>8. CASE Close
  BY <1>8, Unseen DEF Close, SameRows
<1>9. CASE Kill \/ PowerLoss
  BY <1>9, FailureStep DEF Promise!Next
<1> QED
  BY <1>1, <1>2, <1>3, <1>4, <1>5, <1>6, <1>7, <1>8, <1>9 DEF Environment

\* A claim of a drain or of maintenance.
LEMMA ClaimUnseen ==
  ASSUME TypeOK, NEW mode, NEW keys \in SUBSET Due(mode),
         Tokens \ ClaimsOf(Copies, keys) # {},
         queue' = Claim(queue, keys, Fresh(ClaimsOf(Copies, keys))),
         UNCHANGED <<ledger, abandoned, buffer>>
  PROVE  UNCHANGED Promise!vars
<1>1. /\ queue \in Queue /\ keys \in SUBSET Key
      /\ \A k \in keys : Claimable(queue[k])
      /\ Fresh(ClaimsOf(Copies, keys)) \in Tokens
  BY ClaimType DEF TypeOK, Queue
<1>2. SameRows
  BY <1>1, RowsStay
<1> QED
  BY <1>2, Unseen

\* A round of a drain.
LEMMA RoundStep ==
  ASSUME CascadeInv, TypeOK', NEW a \in Agents, Round(a)
  PROVE  [Promise!Next]_Promise!vars
<1> USE DEF indexVars, engineVars
<1>t. /\ TypeOK /\ queue \in Queue /\ agent[a] \in Agent
      /\ agent[a].done \subseteq Job
  BY DEF CascadeInv, TypeOK, Queue, Agent
<1>1. CASE ClaimJobs(a)
  <2>1. PICK keys \in SUBSET Due(agent[a].mode) :
          /\ Tokens \ ClaimsOf(Copies, keys) # {}
          /\ queue' = Claim(queue, keys, Fresh(ClaimsOf(Copies, keys)))
    BY <1>1 DEF ClaimJobs
  <2> QED
    BY <1>1, <1>t, <2>1, ClaimUnseen DEF ClaimJobs
<1>2. CASE ClaimNothing(a)
  BY <1>2, Unseen DEF ClaimNothing, SameRows
<1>3. CASE ReadLedger(a)
  BY <1>3, Unseen DEF ReadLedger, SameRows
<1>4. CASE ReadLedgerFails(a)
  BY <1>4, Unseen DEF ReadLedgerFails, SameRows
<1>5. ASSUME NEW job \in agent[a].syncs, ApplyOne(a, job)
      PROVE  Promise!Next
  BY <1>5, WritingStep DEF ApplyOne, Promise!Next
<1>6. ASSUME NEW job \in agent[a].syncs, ApplyOneFails(a, job)
      PROVE  Promise!Next
  <2>1. PICK document \in {buffer[job.key.topic], Reading(a, job), Torn} :
          /\ buffer[job.key.topic] = Reading(a, job) => document # Torn
          /\ Write(job.key.topic, document)
    BY <1>6 DEF ApplyOneFails
  <2>2. buffer[job.key.topic] = Reading(a, job) => document = Reading(a, job)
    BY <2>1
  <2> QED
    BY <1>6, <2>1, <2>2, WritingStep DEF ApplyOneFails, Promise!Next
<1>7. CASE Settle(a)
  BY <1>7, Unseen DEF Settle, SameRows
<1>8. CASE RunReads(a)
  BY <1>8, Unseen DEF RunReads, SameRows
<1>9. ASSUME NEW job \in agent[a].failed, RecordFailure(a, job)
      PROVE  UNCHANGED Promise!vars
  <2>1. job \in Job
    BY <1>t DEF Agent
  <2>2. SameRows
    BY <1>9, <1>t, <2>1, RowsStay DEF RecordFailure
  <2> QED
    BY <1>9, <2>2, Unseen DEF RecordFailure
<1>10. CASE RecordDone(a)
  <2>1. agent[a].done \cap SyncJob \subseteq AppliedCopies
    BY AppliedBy
  <2> QED
    BY <1>10, <1>t, <2>1, SettleStep DEF RecordDone, Promise!Next
<1> QED
  BY <1>1, <1>2, <1>3, <1>4, <1>5, <1>6, <1>7, <1>8, <1>9, <1>10 DEF Round

\* Flushing what is applied, and ending a drain.
LEMMA EndingStep ==
  ASSUME CascadeInv, NEW a \in Agents, Ending(a)
  PROVE  [Promise!Next]_Promise!vars
<1> USE DEF indexVars, engineVars
<1>t. TypeOK /\ agent[a].done \subseteq Job
  BY DEF CascadeInv, TypeOK, Agent
<1>1. CASE TakeApplied(a)
  BY <1>1, Unseen DEF TakeApplied, SameRows
<1>2. CASE FlushApplied(a)
  BY <1>2, Unseen DEF FlushApplied, SameRows
<1>3. CASE RecordFlushed(a)
  <2>1. agent[a].done \cap SyncJob \subseteq AppliedCopies
    BY AppliedBy
  <2> QED
    BY <1>3, <1>t, <2>1, SettleStep DEF RecordFlushed, Promise!Next
<1>4. CASE QueueIfWasteful(a)
  BY <1>4, <1>t, RequestUnseen DEF QueueIfWasteful
<1>5. CASE QueueTidyUp(a)
  BY <1>5, <1>t, RequestUnseen DEF QueueTidyUp
<1>6. CASE NothingToTidy(a)
  BY <1>6, Unseen DEF NothingToTidy, SameRows
<1>7. CASE Poll(a)
  BY <1>7, Unseen DEF Poll, SameRows
<1>8. CASE CountApplied(a)
  BY <1>8, Unseen DEF CountApplied, SameRows
<1>9. CASE Report(a)
  BY <1>9, Unseen DEF Report, SameRows
<1> QED
  BY <1>1, <1>2, <1>3, <1>4, <1>5, <1>6, <1>7, <1>8, <1>9 DEF Ending

\* The upkeep loop.
LEMMA LoopingStep ==
  ASSUME CascadeInv, NEW u \in Upkeep, Looping(u)
  PROVE  UNCHANGED Promise!vars
<1> USE DEF indexVars, engineVars
<1>t. TypeOK
  BY DEF CascadeInv
<1>1. CASE Tick(u)
  BY <1>1, Unseen DEF Tick, SameRows
<1>2. CASE StopCatchingUp(u)
  BY <1>2, Unseen DEF StopCatchingUp, SameRows
<1>3. CASE MaintainIndex(u)
  <2>1. PICK keys \in SUBSET Due("Maintain") :
          /\ Tokens \ ClaimsOf(Copies, keys) # {}
          /\ queue' = Claim(queue, keys, Fresh(ClaimsOf(Copies, keys)))
    BY <1>3 DEF MaintainIndex
  <2> QED
    BY <1>3, <1>t, <2>1, ClaimUnseen DEF MaintainIndex
<1>4. CASE NothingToMaintain(u)
  BY <1>4, Unseen DEF NothingToMaintain, SameRows
<1> QED
  BY <1>1, <1>2, <1>3, <1>4 DEF Looping

\* Every step of the cascade is one of Findable's, or a stutter.
LEMMA PromiseStep ==
  CascadeInv /\ TypeOK' /\ [Next]_vars => [Promise!Next]_Promise!vars
<1> SUFFICES ASSUME CascadeInv, TypeOK', [Next]_vars
             PROVE  [Promise!Next]_Promise!vars
    OBVIOUS
<1>1. ASSUME NEW k \in Key, TimePasses(k)
      PROVE  UNCHANGED Promise!vars
  <2>1. SameRows
    BY <1>1, RowsStay DEF TimePasses, CascadeInv, TypeOK, Queue
  <2> QED
    BY <1>1, <2>1, Unseen DEF TimePasses, indexVars
<1>2. CASE UNCHANGED vars
  BY <1>2, Unseen DEF vars, SameRows
<1> QED
  BY <1>1, <1>2, EnvironmentStep, RoundStep, EndingStep, LoopingStep DEF Next

\* Nothing is owed, and nothing is found, to begin with.
LEMMA PromiseInit == Init => Promise!Init
BY SyncOfTopic DEF Init, Promise!Init

\* The cascade keeps the promise: a topic is found saying what it says, or is
\* owed a sync, or was given up on by hand, and only the first or the last of
\* these ends its being owed one.
THEOREM CascadeKeepsThePromise == Spec => KeepsThePromise
<1>1. CascadeInv /\ CascadeInv' /\ [Next]_vars => [Promise!Next]_Promise!vars
  BY PromiseStep DEF CascadeInv
<1> QED
  BY <1>1, PromiseInit, CascadeIsSafe, PTL
  DEF Spec, KeepsThePromise, Promise!Spec

=============================================================================
