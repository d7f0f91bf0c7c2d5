--------------------------------- MODULE Hub ---------------------------------
(***************************************************************************)
(* One model repository of the hub, cached under a model directory:        *)
(* crates/index/src/hub.rs.  A load opens it at a revision, reads several  *)
(* files at one commit, fetches those that are not there, and removes a    *)
(* download once a mapped copy has replaced it.  Loads are of several      *)
(* processes; what they share is the directory and, in it, the lock.       *)
(*                                                                         *)
(* The hub client is external: it puts a blob named by its content, links  *)
(* the snapshot's entry to it if there is none, and writes the ref that    *)
(* was asked for.                                                          *)
(***************************************************************************)
EXTENDS Integers

CONSTANTS
  Loads,
  Commits,    \* in the order main comes to name them
  Files,
  Content,    \* [Commits -> [Files -> what the file says]]
  Main,       \* the revision that moves
  NoCommit,
  Broken,     \* a ref that is empty or cut short
  Nobody

ASSUME HubAssumption ==
  /\ Commits \subseteq Nat /\ Commits # {}
  /\ Main \notin Commits /\ NoCommit \notin Commits \cup {Main}
  /\ Broken \notin Commits \cup {NoCommit} /\ Nobody \notin Loads

VARIABLES
  refs,       \* what each file of refs names; NoCommit when there is none
  entries,    \* of the snapshots, a commit and a file
  blobs,      \* by content
  upstream,   \* the commit main names on the hub
  held,       \* who holds .pamin-snapshots.lock
  owned,      \* whether the directory is this program's alone
  load        \* each load's Repository, and the call it is in

hubVars == <<refs, entries, blobs, upstream, held, owned, load>>

Revisions == Commits \cup {Main}

\* `answer` is what the hub said main names, `commit` what is fetched at, `source` what
\* that was, `made` whether the fetch makes a ref of its own; `got` the commits of the
\* files it was given, and `astray` whether one was found by a ref it did not pin.
Closed == [at |-> "closed", revision |-> Main, pinned |-> NoCommit, file |-> NoCommit,
           answer |-> NoCommit, commit |-> NoCommit, source |-> NoCommit, made |-> FALSE,
           got |-> {}, astray |-> FALSE]

HubInit ==
  /\ refs = [r \in Revisions |-> NoCommit] /\ entries = {} /\ blobs = {}
  /\ upstream \in Commits /\ held = Nobody /\ owned \in BOOLEAN
  /\ load = [l \in Loads |-> Closed]

-----------------------------------------------------------------------------

LoadAt(l, phase) == load[l].at = phase
Load(l, with) == load' = [load EXCEPT ![l] = with]
LetGo(l) == held' = IF held = l THEN Nobody ELSE held

\* The call is over, and the load has `with` to show for it.
Over(l, with) ==
  /\ Load(l, [with EXCEPT !.at = "open", !.file = NoCommit, !.answer = NoCommit,
                          !.commit = NoCommit, !.source = NoCommit, !.made = FALSE])
  /\ LetGo(l)

\* What a load of `revision` pins now, having pinned `pinned`.
Pin(revision, pinned) ==
  IF pinned # NoCommit THEN pinned
  ELSE IF revision \in Commits THEN revision
  ELSE IF refs[revision] \in Commits THEN refs[revision]
  ELSE NoCommit
PinnedBy(l) == Pin(load[l].revision, load[l].pinned)

SaidBy(entry) == Content[entry[1]][entry[2]]

\* What opening the entry finds: it is there, and what it links to is.
Exists(commit, file) == <<commit, file>> \in entries /\ Content[commit][file] \in blobs

\* Repository::cached: the commit `file` is found at.
CachedAt(revision, pinned) == IF pinned # NoCommit THEN pinned ELSE refs[revision]
IsCached(commit, file) == commit \in Commits /\ Exists(commit, file)

-----------------------------------------------------------------------------
(* Opening, and asking for a file.                                         *)

OpenAt(l, revision) ==
  /\ LoadAt(l, "closed")
  /\ Load(l, [Closed EXCEPT !.at = "open", !.revision = revision,
                            !.pinned = Pin(revision, NoCommit)])
  /\ UNCHANGED <<refs, entries, blobs, upstream, held, owned>>

\* A cache that cannot be written is read without the lock.
Get(l, file) ==
  /\ LoadAt(l, "open")
  /\ \E readOnly \in BOOLEAN :
       /\ ~readOnly => held = Nobody
       /\ held' = IF readOnly THEN held ELSE l
       /\ Load(l, [load[l] EXCEPT !.at = IF readOnly THEN "peeking" ELSE "looking",
                                  !.file = file, !.pinned = PinnedBy(l)])
  /\ UNCHANGED <<refs, entries, blobs, upstream, owned>>

Looks(l) ==
  LET commit == CachedAt(load[l].revision, load[l].pinned)
  IN /\ LoadAt(l, "looking") \/ LoadAt(l, "peeking")
     /\ IF IsCached(commit, load[l].file)
          THEN Over(l, [load[l] EXCEPT !.got = @ \cup {commit},
                                       !.astray = @ \/ load[l].pinned = NoCommit])
        ELSE IF LoadAt(l, "peeking") THEN Over(l, load[l])
        ELSE Load(l, [load[l] EXCEPT !.at = "asking"]) /\ UNCHANGED held
     /\ UNCHANGED <<refs, entries, blobs, upstream, owned>>

\* remote_ref.  Offline there is no answer.
Asks(l) ==
  /\ LoadAt(l, "asking")
  /\ \E answer \in {NoCommit} \cup (IF load[l].revision = Main THEN {upstream} ELSE {}) :
       Load(l, [load[l] EXCEPT !.at = "recording", !.answer = answer])
  /\ UNCHANGED <<refs, entries, blobs, upstream, held, owned>>

\* record_ref, which may fail.
Records(l) ==
  /\ LoadAt(l, "recording")
  /\ \/ load[l].answer # NoCommit /\ refs' = [refs EXCEPT ![load[l].revision] = load[l].answer]
     \/ UNCHANGED refs
  /\ Load(l, [load[l] EXCEPT !.at = "fetching"])
  /\ UNCHANGED <<entries, blobs, upstream, held, owned>>

Fetches(l) ==
  LET pinned == PinnedBy(l)
      commit == IF pinned = NoCommit THEN load[l].revision ELSE pinned
  IN /\ LoadAt(l, "fetching")
     /\ Load(l, [load[l] EXCEPT !.at = "downloading", !.pinned = pinned, !.commit = commit,
                                !.made = commit # load[l].revision /\ refs[commit] = NoCommit])
     /\ UNCHANGED <<refs, entries, blobs, upstream, held, owned>>

-----------------------------------------------------------------------------
(* What the hub client does.                                               *)

\* It looks for itself, by the ref it was asked for.
Downloads(l) ==
  LET commit == load[l].commit
      file == load[l].file
      source == IF commit = Main THEN upstream ELSE commit
  IN /\ LoadAt(l, "downloading")
     /\ IF IsCached(refs[commit], file)
          THEN /\ Load(l, [load[l] EXCEPT !.at = "fetched", !.source = refs[commit]])
               /\ UNCHANGED blobs
          ELSE /\ Load(l, [load[l] EXCEPT !.at = "linking", !.source = source])
               /\ blobs' = blobs \cup {Content[source][file]}
     /\ UNCHANGED <<refs, entries, upstream, held, owned>>

Links(l) ==
  /\ LoadAt(l, "linking")
  /\ entries' = entries \cup {<<load[l].source, load[l].file>>}
  /\ Load(l, [load[l] EXCEPT !.at = "naming"])
  /\ UNCHANGED <<refs, blobs, upstream, held, owned>>

Names(l) ==
  /\ LoadAt(l, "naming")
  /\ refs' = [refs EXCEPT ![load[l].commit] = load[l].source]
  /\ Load(l, [load[l] EXCEPT !.at = "fetched"])
  /\ UNCHANGED <<entries, blobs, upstream, held, owned>>

-----------------------------------------------------------------------------

\* A ref this fetch made goes again.
Unmade(l) ==
  refs' = IF load[l].made THEN [refs EXCEPT ![load[l].commit] = NoCommit] ELSE refs

\* A mutant: by the ref.
PinFetchedByRef(l) == PinnedBy(l)

\* pin_fetched: by the file's own path.
PinFetched(l) == IF load[l].pinned = NoCommit THEN load[l].source ELSE load[l].pinned

GetEnds(l) ==
  /\ LoadAt(l, "fetched")
  /\ Unmade(l)
  /\ Over(l, [load[l] EXCEPT !.pinned = PinFetched(l), !.got = @ \cup {load[l].source}])
  /\ UNCHANGED <<entries, blobs, upstream, owned>>

FetchFails(l) ==
  /\ load[l].at \in {"downloading", "linking", "naming"}
  /\ Unmade(l) /\ Over(l, load[l])
  /\ UNCHANGED <<entries, blobs, upstream, owned>>

-----------------------------------------------------------------------------
(* Removing a download: of a directory that is this program's alone.       *)

Remove(l, file) ==
  /\ LoadAt(l, "open") /\ owned /\ held = Nobody
  /\ held' = l
  /\ Load(l, [load[l] EXCEPT !.at = "removing", !.file = file, !.pinned = PinnedBy(l)])
  /\ UNCHANGED <<refs, entries, blobs, upstream, owned>>

\* revision_references and referenced_elsewhere.
RevisionReferences(own, commit) == \E r \in Revisions \ {own} : refs[r] = commit
ReferencedElsewhere(entry) == \E other \in entries \ {entry} : SaidBy(other) = SaidBy(entry)

\* A mutant: other snapshots are not asked for the blob.
MayRemoveAlone(revision, entry) == ~RevisionReferences(revision, entry[1])

MayRemove(revision, entry) ==
  ~RevisionReferences(revision, entry[1]) /\ ~ReferencedElsewhere(entry)

\* The entry first, so that none is left without its blob.
RemovesEntry(l) ==
  LET commit == CachedAt(load[l].revision, load[l].pinned)
      entry == <<commit, load[l].file>>
  IN /\ LoadAt(l, "removing")
     /\ IF IsCached(commit, load[l].file) /\ MayRemove(load[l].revision, entry)
          THEN /\ entries' = entries \ {entry}
               /\ Load(l, [load[l] EXCEPT !.at = "unlinked", !.source = commit])
               /\ UNCHANGED held
          ELSE Over(l, load[l]) /\ UNCHANGED entries
     /\ UNCHANGED <<refs, blobs, upstream, owned>>

RemovesBlob(l) ==
  /\ LoadAt(l, "unlinked")
  /\ \/ blobs' = blobs \ {Content[load[l].source][load[l].file]}
     \/ UNCHANGED blobs   \* it cannot be removed
  /\ Over(l, load[l])
  /\ UNCHANGED <<refs, entries, upstream, owned>>

-----------------------------------------------------------------------------
(* The environment.                                                        *)

\* The load is done, or its process is gone, perhaps in the middle of writing a ref.
Ends(l) ==
  /\ ~LoadAt(l, "closed")
  /\ \/ UNCHANGED refs
     \/ LoadAt(l, "naming") /\ refs' = [refs EXCEPT ![load[l].commit] = Broken]
  /\ Load(l, Closed) /\ LetGo(l)
  /\ UNCHANGED <<entries, blobs, upstream, owned>>

MainMoves ==
  /\ \E c \in Commits : c > upstream /\ upstream' = c
  /\ UNCHANGED <<refs, entries, blobs, held, owned, load>>

\* Another tool fetches a file of main into a directory that is not this program's alone.
OthersFetch(file) ==
  /\ ~owned
  /\ blobs' = blobs \cup {Content[upstream][file]}
  /\ entries' = entries \cup {<<upstream, file>>}
  /\ refs' = [refs EXCEPT ![Main] = upstream]
  /\ UNCHANGED <<upstream, held, owned, load>>

Gets(l) ==
  \/ \E file \in Files : Get(l, file)
  \/ Looks(l) \/ Asks(l) \/ Records(l) \/ Fetches(l)
  \/ Downloads(l) \/ Links(l) \/ Names(l) \/ GetEnds(l) \/ FetchFails(l)

Removes(l) == (\E file \in Files : Remove(l, file)) \/ RemovesEntry(l) \/ RemovesBlob(l)

HubNext ==
  \/ \E l \in Loads :
       (\E r \in Revisions : OpenAt(l, r)) \/ Gets(l) \/ Removes(l) \/ Ends(l)
  \/ MainMoves \/ \E file \in Files : OthersFetch(file)

HubSpec == HubInit /\ [][HubNext]_hubVars

-----------------------------------------------------------------------------

LoadPhases == {"closed", "open", "peeking", "looking", "asking", "recording", "fetching",
           "downloading", "linking", "naming", "fetched", "removing", "unlinked"}

HubTypeOK ==
  /\ refs \in [Revisions -> Commits \cup {NoCommit, Broken}]
  /\ entries \subseteq Commits \X Files /\ upstream \in Commits
  /\ held \in Loads \cup {Nobody} /\ owned \in BOOLEAN
  /\ load \in [Loads ->
       [at : LoadPhases, revision : Revisions, pinned : Commits \cup {NoCommit},
        file : Files \cup {NoCommit}, answer : Commits \cup {NoCommit},
        commit : Revisions \cup {NoCommit}, source : Commits \cup {NoCommit},
        made : BOOLEAN, got : SUBSET Commits, astray : BOOLEAN]]

\* Every file a load is given is of the one commit it has pinned, whatever main comes to
\* name and whoever moves the ref meanwhile (crates/index/src/hub.rs:11-18, 256-260).
OneCommit == \A l \in Loads : ~load[l].astray => load[l].got \subseteq {load[l].pinned}

\* No entry is left pointing at a blob that is gone, which no fetch could mend
\* (crates/index/src/hub.rs:337-351, 371-373).
NothingDangles == \A entry \in entries : SaidBy(entry) \in blobs

-----------------------------------------------------------------------------
(* What the two rest on.                                                   *)

\* A call that changes the cache has the lock, and one that removes, a directory that is
\* this program's alone.
CallsHoldTheLock ==
  \A l \in Loads :
    /\ load[l].at \notin {"closed", "open", "peeking"} => held = l
    /\ load[l].at \in {"removing", "unlinked"} => owned

\* A ref named by a commit names that commit, if any.
CommitsNameThemselves == \A c \in Commits : refs[c] \in {c, NoCommit, Broken}

\* The hub is asked of main alone, and a fetch is at what the load has pinned.
FetchedIsPinned ==
  \A l \in Loads :
    LET r == load[l]
    IN /\ r.answer # NoCommit => r.revision = Main
       /\ r.at \in {"downloading", "linking", "naming", "fetched"} =>
            r.commit = IF r.pinned = NoCommit THEN Main ELSE r.pinned
       /\ r.at \in {"linking", "naming", "fetched"} =>
            r.source \in Commits /\ (r.commit \in Commits => r.source = r.commit)

\* The blob an entry is about to be linked to is there, and nothing but the entry that is
\* gone was linked to the one about to be removed.
BlobsAreWaitedFor ==
  \A l \in Loads :
    LET said == Content[load[l].source][load[l].file]
    IN /\ load[l].at # "closed" /\ load[l].at # "open" => load[l].file \in Files
       /\ load[l].at = "linking" => said \in blobs
       /\ load[l].at = "unlinked" =>
            load[l].source \in Commits /\ \A entry \in entries : SaidBy(entry) # said

HubInv ==
  /\ HubTypeOK /\ OneCommit /\ NothingDangles
  /\ CallsHoldTheLock /\ CommitsNameThemselves /\ FetchedIsPinned /\ BlobsAreWaitedFor
=============================================================================
