------------------------------- MODULE Ledger -------------------------------
(***************************************************************************)
(* The transactions that change what topics say, statement by statement    *)
(* and with the row locks they take: write_from, retire_section and        *)
(* rename_section of crates/engine/src/engine.rs, over the statements of   *)
(* crates/store/src/repository.rs, and soft_delete_topic_state, which no   *)
(* command calls yet.                                                      *)
(*                                                                         *)
(* PostgreSQL runs them at READ COMMITTED: a statement reads what was      *)
(* committed when it began, one that needs a locked row waits for the      *)
(* holder, and an insert of a key another transaction has inserted waits   *)
(* for that one.  A step is a statement; one that has to wait is disabled. *)
(* What a transaction writes stays in its record until it commits.  What   *)
(* it queues is the business of Cascade, and what it says of file records  *)
(* that of Ingest.                                                         *)
(***************************************************************************)
EXTENDS Integers, Sequences, FiniteSets, FiniteSetsExt

CONSTANTS
  Names,        \* names topics go by
  Promotable,        \* contents the filter can promote
  Short,        \* one it never does
  Writers,      \* callers, each with at most one transaction
  NoRow,
  MaxTopics,
  MaxEvidence   \* a bound: how much evidence there is when the last is numbered

Contents == Promotable \cup {Short}
TopicId == 1 .. MaxTopics
Kinds == {"manual", "file"}
Locator == Kinds \X Names
State == [text : Promotable, by : Kinds, after : Nat, deleted : BOOLEAN]

VARIABLES
  topic,    \* [TopicId -> a row of topics with its states, or NoRow]
  source,   \* [Locator -> how much evidence is filed there, or NoRow]
  alias,    \* [Names -> TopicId \cup {NoRow}]: topic_aliases
  txn       \* [Writers -> a caller's call and the transaction it runs]

tableVars == <<topic, source, alias, txn>>

Topic == [name : Names, states : Seq(State), current : Nat,
          named : BOOLEAN]   \* whether its name is in topic_name_tokens

\* `short` is whether the last evidence of a file's section was Short.
Source == [evidence : Nat, short : BOOLEAN]

ASSUME LedgerAssumption ==
  /\ Short \notin Promotable
  /\ NoRow \notin Names /\ NoRow \notin Locator /\ NoRow \notin Topic /\ NoRow \notin Source
  /\ NoRow \notin TopicId
  /\ MaxTopics \in Nat /\ MaxEvidence \in Nat

\* `does` is the call, `name`, `to` and `text` its arguments, `seen` the state a
\* section was found at; `source` and `topic` are the rows it has locked, `first`
\* and `made` whether it inserted them; `created` is write_from's, `version` and
\* `number` what it numbers its evidence and its state, `after` the state that
\* one supersedes, and `naming` the topic whose name it files.
NoCall == [at |-> "idle", does |-> "write", kind |-> "manual", name |-> NoRow, to |-> NoRow,
         text |-> Short, promoted |-> FALSE, seen |-> <<0, 0>>, source |-> NoRow,
         first |-> FALSE, topic |-> 0, made |-> FALSE, created |-> FALSE, version |-> 0,
         number |-> 0, after |-> 0, naming |-> 0]

Statements == {"idle", "source", "topic", "create", "append", "lock", "check", "move",
           "refile", "commit"}

Live == {i \in TopicId : topic[i] # NoRow}
Called(n) == {i \in Live : topic[i].name = n}
Surviving(i) == {v \in DOMAIN topic[i].states : ~topic[i].states[v].deleted}
Newest(versions) == IF versions = {} THEN 0 ELSE Max(versions)

\* The state a name resolves to through the pointer: a topic and a version.
Current(n) == {<<i, topic[i].current>> : i \in {j \in Called(n) : topic[j].current # 0}}
SaidBy(n) == {topic[s[1]].states[s[2]].text : s \in Current(n)}

Transaction ==
  [at : Statements, does : {"write", "retire", "rename", "delete"}, kind : Kinds,
   name : Names \cup {NoRow}, to : Names \cup {NoRow}, text : Contents, promoted : BOOLEAN,
   seen : Nat \X Nat, source : Locator \cup {NoRow}, first : BOOLEAN,
   topic : TopicId \cup {0}, made : BOOLEAN, created : BOOLEAN, version : Nat,
   number : Nat, after : Nat, naming : TopicId \cup {0}]

LedgerTypeOK ==
  /\ topic \in [TopicId -> Topic \cup {NoRow}]
  /\ source \in [Locator -> Source \cup {NoRow}]
  /\ alias \in [Names -> TopicId \cup {NoRow}]
  /\ txn \in [Writers -> Transaction]

LedgerInit ==
  /\ topic = [i \in TopicId |-> NoRow]
  /\ source = [l \in Locator |-> NoRow]
  /\ alias = [n \in Names |-> NoRow]
  /\ txn = [w \in Writers |-> NoCall]

Doing(w, phase) == txn[w].at = phase
Does(w, call) == txn[w].does = call
Locate(w) == <<txn[w].kind, txn[w].name>>

\* Who else has the row locked, or has inserted or moved to a row with the key.
Lockers(w, i) == {v \in Writers \ {w} : txn[v].topic = i}
Renamed(v) == txn[v].does = "rename" /\ txn[v].at \in {"refile", "commit"}
Filers(w, l) ==
  {v \in Writers \ {w} : txn[v].source = l \/ (Renamed(v) /\ l = <<"file", txn[v].to>>)}
Makers(w, n) ==
  {v \in Writers \ {w} : \/ txn[v].made /\ txn[v].name = n
                         \/ Renamed(v) /\ txn[v].to = n}

\* A statement that changes nothing another transaction can read yet.
Stays(w, record) == txn' = [txn EXCEPT ![w] = record] /\ UNCHANGED <<topic, source, alias>>
End(w) == Stays(w, NoCall)

-----------------------------------------------------------------------------
(* The calls, and what they read before their transaction begins.          *)

\* The filter: long enough, and not what the topic says already.
Judge(text, n) == text # Short /\ text \notin SaidBy(n)

\* latest_hash_at, for a section that was held the last time as well.
HeldBefore(n) == source[<<"file", n>>] # NoRow /\ source[<<"file", n>>].short

\* remember, and remember_section, which writes nothing for a section that says
\* what its topic does or is held as it was before.
RememberText(w) ==
  /\ Doing(w, "idle")
  /\ \E kind \in Kinds, n \in Names, text \in Contents :
       LET promoted == Judge(text, n)
       IN /\ kind = "file" =>
               /\ text \notin SaidBy(n)
               /\ ~promoted /\ SaidBy(n) = {} => ~HeldBefore(n)
          /\ Stays(w, [NoCall EXCEPT !.at = "source", !.kind = kind, !.name = n,
                                  !.text = text, !.promoted = promoted])

\* An ingest asks where a section's topic stands, to retire or rename it.
LookUp(w) ==
  /\ Doing(w, "idle")
  /\ \E n \in Names, to \in Names \cup {NoRow} : \E seen \in Current(n) :
       /\ to # n
       /\ Stays(w, [NoCall EXCEPT !.at = "lock", !.kind = "file", !.name = n, !.to = to,
                               !.does = IF to = NoRow THEN "retire" ELSE "rename",
                               !.seen = seen])

\* A caller names a topic and one of its versions.
Forget(w) ==
  /\ Doing(w, "idle")
  /\ \E i \in Live : \E v \in DOMAIN topic[i].states :
       Stays(w, [NoCall EXCEPT !.at = "lock", !.does = "delete", !.seen = <<i, v>>])

-----------------------------------------------------------------------------
(* A write.                                                                *)

\* (mutant) the source is found without a lock on it.
EnsureSourceUnlocked(w) ==
  /\ Doing(w, "source")
  /\ Stays(w, [txn[w] EXCEPT !.source = Locate(w), !.first = source[Locate(w)] = NoRow,
                            !.at = IF txn[w].promoted THEN "topic" ELSE "append"])

\* ensure_source_created: finds the source and locks it, or inserts it.
EnsureSource(w) ==
  /\ Doing(w, "source") /\ Filers(w, Locate(w)) = {}
  /\ Stays(w, [txn[w] EXCEPT !.source = Locate(w), !.first = source[Locate(w)] = NoRow,
                            !.at = IF txn[w].promoted THEN "topic" ELSE "append"])

\* lock_topic: the topic, its pointer read under the lock, or no topic.
LockTopic(w) ==
  /\ Doing(w, "topic")
  /\ \/ \E i \in Called(txn[w].name) :
          /\ Lockers(w, i) = {}
          /\ Stays(w, [txn[w] EXCEPT !.topic = i, !.after = topic[i].current,
                                    !.at = "append"])
     \/ /\ Called(txn[w].name) = {}
        /\ Stays(w, [txn[w] EXCEPT !.at = "create", !.created = txn[w].kind = "manual"])

\* The next identifier nothing uses.
Unused == TopicId \ (Live \cup {txn[v].topic : v \in Writers})

\* create_topic: the insert, or the topic another writer made first.
CreateTopic(w) ==
  /\ Doing(w, "create") /\ Makers(w, txn[w].name) = {}
  /\ \/ \E i \in Called(txn[w].name) :
          /\ Lockers(w, i) = {}
          /\ Stays(w, [txn[w] EXCEPT !.topic = i, !.after = topic[i].current,
                                    !.at = "append"])
     \/ /\ Called(txn[w].name) = {} /\ Unused # {}
        /\ Stays(w, [txn[w] EXCEPT !.topic = Min(Unused), !.made = TRUE, !.at = "append"])

Filed(l) == IF source[l] = NoRow THEN 0 ELSE source[l].evidence
Written == MapThenSumSet(LAMBDA l : Filed(l), Locator)
States(i) == IF i \in Live THEN topic[i].states ELSE <<>>

\* name_topic: the first write by hand of a topic an ingest made files its name.
NamedBy(w) ==
  IF txn[w].kind = "manual" /\ txn[w].first /\ ~txn[w].created
    THEN Newest({i \in Called(txn[w].name) : ~topic[i].named}) ELSE 0

\* insert_evidence: numbers the evidence and, if promoted, the state.
Number(w) ==
  /\ Doing(w, "append")
  /\ Written < MaxEvidence
  /\ Stays(w, [txn[w] EXCEPT
       !.version = Filed(Locate(w)) + 1,
       !.number = IF txn[w].promoted THEN Len(States(txn[w].topic)) + 1 ELSE 0,
       !.naming = NamedBy(w),
       !.at = "commit"])

\* The topic's row once its new state is in it.
Appended(t) ==
  LET state == [text |-> t.text, by |-> t.kind, after |-> t.after, deleted |-> FALSE]
  IN IF t.made
       THEN [name |-> t.name, states |-> <<state>>, current |-> 1, named |-> t.created]
       ELSE [topic[t.topic] EXCEPT !.states = Append(@, state), !.current = t.number]

CommitWrite(w) ==
  LET t == txn[w]
      named(row, i) == IF i = t.naming THEN [row EXCEPT !.named = TRUE] ELSE row
  IN /\ Doing(w, "commit") /\ Does(w, "write")
     /\ source' = [source EXCEPT ![t.source] =
                   [evidence |-> t.version, short |-> t.kind = "file" /\ t.text = Short]]
     /\ topic' = [i \in TopicId |->
                   IF topic[i] = NoRow /\ i # t.topic THEN NoRow
                   ELSE named(IF i = t.topic THEN Appended(t) ELSE topic[i], i)]
     /\ txn' = [txn EXCEPT ![w] = NoCall]
     /\ UNCHANGED alias

-----------------------------------------------------------------------------
(* A retirement, a rename, and the deletion of one version.                *)

\* (mutant) whoever has the name by now is taken for what was seen.
LockAny(w) ==
  /\ Doing(w, "lock")
  /\ LET t == txn[w]
         rows == IF t.does = "delete" THEN {t.seen[1]} ELSE Called(t.name)
     IN /\ \A i \in rows : Lockers(w, i) = {}
        /\ \/ rows = {} /\ End(w)
           \/ \E i \in rows :
                Stays(w, [t EXCEPT !.topic = i,
                                  !.at = IF t.does = "delete" THEN "commit" ELSE "check"])

\* retire_section and rename_section lock the topic that has the name, and go on
\* only if it still says what was seen; soft_delete_topic_state locks by id.
Lock(w) ==
  /\ Doing(w, "lock")
  /\ LET t == txn[w]
         rows == IF t.does = "delete" THEN {t.seen[1]} ELSE Called(t.name)
         wanted == {i \in rows : t.does = "delete" \/ <<i, topic[i].current>> = t.seen}
     IN /\ \A i \in rows : Lockers(w, i) = {}
        /\ \/ wanted = {} /\ End(w)
           \/ \E i \in wanted :
                Stays(w, [t EXCEPT !.topic = i,
                                  !.at = IF t.does = "delete" THEN "commit" ELSE "check"])

\* source_at: a topic somebody wrote by hand is left alone.
CheckSource(w) ==
  /\ Doing(w, "check")
  /\ IF source[<<"manual", txn[w].name>>] # NoRow THEN End(w)
     ELSE Stays(w, [txn[w] EXCEPT !.at = IF Does(w, "retire") THEN "commit" ELSE "move"])

\* rename_topic: the topic gets its name, unless a topic or a file's source has it
\* by then.
MoveTopic(w) ==
  /\ Doing(w, "move") /\ Makers(w, txn[w].to) = {}
  /\ IF Called(txn[w].to) # {} \/ source[<<"file", txn[w].to>>] # NoRow THEN End(w)
     ELSE Stays(w, [txn[w] EXCEPT !.at = "refile"])

\* Its source moves with it, which waits for whoever has the source locked.
MoveSource(w) ==
  LET from == Locate(w)
      to == <<"file", txn[w].to>>
  IN /\ Doing(w, "refile")
     /\ source[from] # NoRow => Filers(w, from) = {} /\ Filers(w, to) = {} /\ source[to] = NoRow
     /\ Stays(w, [txn[w] EXCEPT !.at = "commit",
                               !.source = IF source[from] # NoRow THEN from ELSE NoRow])

\* (mutant) the name it had is forgotten.
CommitRenameForgetting(w) ==
  LET t == txn[w]
  IN /\ Doing(w, "commit") /\ Does(w, "rename")
     /\ topic' = [topic EXCEPT ![t.topic].name = t.to]
     /\ source' = IF t.source = NoRow THEN source
                  ELSE [source EXCEPT ![t.source] = NoRow,
                                      ![<<"file", t.to>>] = source[t.source]]
     /\ alias' = [alias EXCEPT ![t.to] = NoRow]
     /\ txn' = [txn EXCEPT ![w] = NoCall]

\* The name it had becomes an alias, and the one it has stops being one.
CommitRename(w) ==
  LET t == txn[w]
  IN /\ Doing(w, "commit") /\ Does(w, "rename")
     /\ topic' = [topic EXCEPT ![t.topic].name = t.to]
     /\ source' = IF t.source = NoRow THEN source
                  ELSE [source EXCEPT ![t.source] = NoRow,
                                      ![<<"file", t.to>>] = source[t.source]]
     /\ alias' = [alias EXCEPT ![t.to] = NoRow, ![t.name] = t.topic]
     /\ txn' = [txn EXCEPT ![w] = NoCall]

\* (mutant) the pointer steps back to what the current state superseded.
SteppedBack(i, versions) ==
  [topic[i] EXCEPT !.states = [v \in DOMAIN @ |-> IF v \in versions
                                                  THEN [@[v] EXCEPT !.deleted = TRUE] ELSE @[v]],
                   !.current = IF @ \in versions THEN topic[i].states[@].after ELSE @]

\* The topic's row once `versions` of it are deleted.
Without(i, versions) ==
  [topic[i] EXCEPT !.states = [v \in DOMAIN @ |-> IF v \in versions
                                                  THEN [@[v] EXCEPT !.deleted = TRUE] ELSE @[v]],
                   !.current = Newest(Surviving(i) \ versions)]

\* retire_topic, of every version, and soft_delete_topic_state, of one.
CommitDelete(w) ==
  LET t == txn[w]
      versions == IF t.does = "retire" THEN Surviving(t.topic) ELSE {t.seen[2]}
  IN /\ Doing(w, "commit") /\ t.does \in {"retire", "delete"}
     /\ topic' = [topic EXCEPT ![t.topic] = Without(t.topic, versions)]
     /\ txn' = [txn EXCEPT ![w] = NoCall]
     /\ UNCHANGED <<source, alias>>

-----------------------------------------------------------------------------
(* A statement fails: a unique key, a row that is gone, a deadlock the     *)
(* server breaks, a lost connection.  The transaction rolls back.          *)
Abort(w) == ~Doing(w, "idle") /\ End(w)

LedgerNext ==
  \E w \in Writers :
    \/ RememberText(w) \/ LookUp(w) \/ Forget(w)
    \/ EnsureSource(w) \/ LockTopic(w) \/ CreateTopic(w) \/ Number(w)
    \/ Lock(w) \/ CheckSource(w) \/ MoveTopic(w) \/ MoveSource(w)
    \/ CommitWrite(w) \/ CommitRename(w) \/ CommitDelete(w)
    \/ Abort(w)

LedgerSpec == LedgerInit /\ [][LedgerNext]_tableVars

-----------------------------------------------------------------------------
(* What is read.                                                           *)

\* find_topic: the topic with the name, or one renamed from it.
FindTopic(n) == IF Called(n) # {} THEN Called(n) ELSE {alias[n]} \ {NoRow}

\* resolve: the surviving version `offset` back from the newest, or the oldest.
Resolve(i, offset) ==
  LET newer(v) == {u \in Surviving(i) : u > v}
  IN CHOOSE v \in Surviving(i) :
       IF offset < Cardinality(Surviving(i)) THEN Cardinality(newer(v)) = offset
       ELSE \A u \in Surviving(i) : v <= u

-----------------------------------------------------------------------------
(* Properties.                                                             *)

\* What a statement has numbered is still the next number when the transaction
\* commits, so that no append is lost to a unique key: every write locked the
\* source, and a promoted one the topic, in a statement before it numbered
\* (append_evidence, append_promoted).
NumbersAreFree ==
  \A w \in Writers : Doing(w, "commit") /\ Does(w, "write") =>
    /\ txn[w].version = Filed(txn[w].source) + 1
    /\ txn[w].promoted => txn[w].number = Len(States(txn[w].topic)) + 1

\* The pointer is the newest surviving version, and one step back through
\* `resolve` reaches what the state superseded, or the newest version before it
\* if that one is deleted.  Each state superseded what the pointer said under
\* the topic's lock, and every deletion asks the ledger again for the pointer.
History ==
  \A i \in Live :
    /\ topic[i].current = Newest(Surviving(i))
    /\ \A offset \in 0 .. Cardinality(Surviving(i)) - 2 :
         Resolve(i, offset + 1) =
           Newest(Surviving(i) \cap 1 .. topic[i].states[Resolve(i, offset)].after)

\* What is about to be retired is what the ingest saw, and nobody wrote any of it
\* by hand, also when such a write began before the retirement took its lock
\* (retire_section).
HandWrittenStays ==
  \A w \in Writers : Doing(w, "commit") /\ Does(w, "retire") =>
    /\ topic[txn[w].topic].current = txn[w].seen[2]
    /\ \A v \in Surviving(txn[w].topic) : topic[txn[w].topic].states[v].by = "file"

\* What makes them inductive.  Nobody has a row that another transaction has, or
\* is about to move another there.
Moves(t) == t.does = "rename" /\ t.at = "commit" /\ t.source # NoRow
Apart(t, u) ==
  /\ t.topic # 0 => t.topic # u.topic
  /\ t.source # NoRow => t.source # u.source /\ (Moves(u) => t.source # <<"file", u.to>>)
RowsAreLocked == \A w \in Writers : \A v \in Writers \ {w} : Apart(txn[w], txn[v])

\* What a write has found out stays true until it commits.
WriteHolds(t) ==
  t.does = "write" /\ t.at # "idle" =>
    /\ t.at \in {"source", "topic", "create", "append", "commit"}
    /\ t.name \in Names
    /\ t.promoted => t.text \in Promotable
    /\ t.at \in {"topic", "create"} => t.promoted
    /\ t.source = IF t.at = "source" THEN NoRow ELSE <<t.kind, t.name>>
    /\ t.topic # 0 <=> t.at \in {"append", "commit"} /\ t.promoted
    /\ t.topic = 0 => ~t.made /\ t.after = 0
    /\ t.topic # 0 =>
         IF t.made THEN topic[t.topic] = NoRow /\ t.after = 0
         ELSE /\ topic[t.topic] # NoRow
              /\ topic[t.topic].name = t.name
              /\ topic[t.topic].current = t.after
    /\ t.at = "commit" =>
         /\ t.version = Filed(t.source) + 1
         /\ t.promoted => t.number = Len(States(t.topic)) + 1

\* And so does what a retirement or a rename has found out.
ByFile(i) == \A v \in DOMAIN topic[i].states : topic[i].states[v].by = "file"
SectionHolds(t) ==
  t.does \in {"retire", "rename"} =>
    /\ \/ t.at \in {"lock", "check", "commit"}
       \/ t.does = "rename" /\ t.at \in {"move", "refile"}
    /\ t.kind = "file" /\ t.name \in Names /\ ~t.made
    /\ t.does = "rename" => t.to \in Names
    /\ t.source # NoRow => t.at = "commit" /\ t.does = "rename" /\ t.source = <<"file", t.name>>
    /\ t.at # "lock" =>
         /\ t.topic # 0 /\ topic[t.topic] # NoRow
         /\ topic[t.topic].name = t.name
         /\ topic[t.topic].current = t.seen[2]
    /\ t.at \notin {"lock", "check"} => ByFile(t.topic)

DeleteHolds(t) ==
  t.does = "delete" =>
    /\ t.at \in {"lock", "commit"}
    /\ t.source = NoRow /\ ~t.made
    /\ t.seen[1] \in Live
    /\ t.at = "commit" => t.topic = t.seen[1]

\* What somebody wrote by hand has a source, and a state supersedes the newest
\* that had survived before it.
HandHasSource ==
  \A i \in Live : ~ByFile(i) => source[<<"manual", topic[i].name>>] # NoRow
SupersedesTheNewest ==
  \A i \in Live : \A v \in DOMAIN topic[i].states :
    /\ topic[i].states[v].after < v
    /\ \A u \in DOMAIN topic[i].states :
         topic[i].states[v].after < u /\ u < v => topic[i].states[u].deleted
PointsAtTheNewest == \A i \in Live : topic[i].current = Newest(Surviving(i))

\* The inductive invariant: rows are locked by one transaction at a time, and what
\* a transaction found under its locks is still so whenever it goes on.  Each of
\* them takes the rows it is to change, in its own statement, before the one that
\* reads what it writes over (ensure_source_created, lock_topic, source_at).
LedgerInv ==
  /\ LedgerTypeOK
  /\ RowsAreLocked
  /\ \A w \in Writers :
       /\ txn[w].at = "idle" => txn[w] = NoCall
       /\ WriteHolds(txn[w]) /\ SectionHolds(txn[w]) /\ DeleteHolds(txn[w])
  /\ HandHasSource /\ SupersedesTheNewest /\ PointsAtTheNewest

\* What the comments say of names, and no run checks, since it does not hold: a
\* write that the filter holds back is the source's first evidence, and the one
\* that is promoted after it no longer names the topic.  A topic somebody wrote by
\* hand has its name filed: "from then on it is theirs too, and a name somebody
\* wrote is one a memory may name" (name_topic, write_from).
NamesAreFiled ==
  \A i \in Live : (\E v \in DOMAIN topic[i].states : topic[i].states[v].by = "manual")
                   => topic[i].named

\* A name that reached a topic reaches it for ever, unless another topic goes by
\* that name now (rename_topic, find_topic).
NamesReachOn ==
  \A n \in Names : FindTopic(n) \subseteq FindTopic(n)' \/ Called(n)' # {}
NamesStillReach == [][NamesReachOn]_tableVars

=============================================================================
