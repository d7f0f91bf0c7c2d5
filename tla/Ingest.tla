------------------------------- MODULE Ingest -------------------------------
(***************************************************************************)
(* What `ingest` of crates/cli/src/command/ingest.rs makes of a directory: *)
(* the sections of its files become topics, and a record of each file lets *)
(* the next ingest leave it unread.  With remember_section, retire_section *)
(* and rename_section of crates/engine/src/engine.rs and the file records  *)
(* of crates/store/src/repository.rs.                                      *)
(*                                                                         *)
(* An ingest holds its project's lock, so there is one at a time; files    *)
(* change and memories are written by hand between any two of its steps,   *)
(* and it can fail or die at each.  Every step below is one statement or   *)
(* one transaction on the ledger, or one look at the disk.                 *)
(*                                                                         *)
(* A file's content is the sections it is cut into and their texts.  One   *)
(* root: another tree whose files are named alike is left out.             *)
(***************************************************************************)
EXTENDS Integers, FiniteSets, FiniteSetsExt

CONSTANTS
  Files,
  Sections,
  Of,        \* [Sections -> Files]: the file a section's name begins with
  Texts,
  Thin,      \* the texts too short for the sensory filter
  Alike,     \* the pairs of texts of SAME_SECTION or more in common
  ByHand,    \* the sections and texts somebody writes
  Requests,  \* what an ingest is asked: the files found, those known gone, the tree
  Meanwhile, \* how often the disk and memories change at most while one runs
  Contents,  \* [Files -> sets of functions from sections of it to texts]
  NoFile,    \* the content of a file that is not there
  NoRecord,
  Never,     \* says[s] of a section there is no topic for
  Off        \* says[s] of a section that is not on the retrieval surface

Content == UNION {Contents[f] : f \in Files}
Empty == [s \in {} |-> Off]
SectionsOf(f) == {s \in Sections : Of[s] = f}

\* How much of the tree a request walked and could read.
Tree == {"none", "partly", "whole"}

ASSUME IngestAssumption ==
  /\ IsFiniteSet(Sections)
  /\ Of \in [Sections -> Files]
  /\ Thin \subseteq Texts /\ Alike \subseteq Texts \X Texts
  /\ \A f \in Files : \A c \in Contents[f] :
       DOMAIN c \subseteq SectionsOf(f) /\ \A s \in DOMAIN c : c[s] \in Texts
  /\ NoFile \notin Content /\ {Never, Off} \cap Texts = {}
  /\ ByHand \subseteq Sections \X (Texts \ Thin)
  /\ \A r \in Requests : r \in (SUBSET Files) \X (SUBSET Files) \X Tree
                          /\ (r[3] # "none" => r[2] = {})
  /\ Meanwhile \in Nat

\* How a stat taken earlier compares with the file's stat now: it is the same
\* and was taken more than RACY after the file last changed, or the same and
\* taken sooner, or another.
Stat == {"settled", "racy", "moved"}
Record == [says : Content, stat : Stat]

\* Mutant: a stat taken a moment after the file changed is as good as any.
trustedWhenRacy(r) == r # NoRecord /\ r.stat # "moved"

trusted(r) == r # NoRecord /\ r.stat = "settled"

Phases == {"idle", "look", "read", "forget", "plan", "record", "left", "put", "since"}

\* What an ingest found of a file: left unread under its record, read and found
\* the same as its record, read and cut, not readable, or not there any more.
How == {"no", "unchanged", "refreshed", "cut", "unread"}

VARIABLES
  disk,     \* [Files -> Content \cup {NoFile}]
  says,     \* [Sections -> Texts \cup {Never, Off}]: the current state
  filed,    \* sections with a file's source
  byHand,   \* sections with a manual source
  record,   \* [Files -> Record \cup {NoRecord}]
  run,      \* the ingest that is running
  untrue    \* files whose record the code leaves saying too much, see README

vars == <<disk, says, filed, byHand, record, run, untrue>>
topics == <<says, filed, byHand>>

Look == [how : How, stat : Stat, says : Content \cup {NoFile}]
Unlooked == [how |-> "no", stat |-> "moved", says |-> NoFile]

\* `todo` are the files still to look at, `deleted` those the caller knows are
\* gone, `read` the records as they were read, `known` the sections on the
\* surface and `seen` those of them still in the state it found them in, `gone`
\* those it did not cut again, `new` those cut and not known, `rest` those still
\* to remember, `stale` those that keep under a new name a text their file no
\* longer has (history: only what is said of it reads it), `since` those written
\* by hand since it started.
Run == [phase : Phases, todo : SUBSET Files, deleted : SUBSET Files, tree : Tree,
        read : [Files -> Record \cup {NoRecord}], look : [Files -> Look],
        known : SUBSET Sections, seen : SUBSET Sections, gone : SUBSET Sections,
        retirable : SUBSET Sections, new : SUBSET Sections, rest : SUBSET Sections,
        emptied : SUBSET Sections, stale : SUBSET Sections,
        left : SUBSET Files, unsettled : SUBSET Files,
        since : SUBSET Sections, meanwhile : 0..Meanwhile]

Idle == [phase |-> "idle", todo |-> {}, deleted |-> {}, tree |-> "none",
         read |-> [f \in Files |-> NoRecord], look |-> [f \in Files |-> Unlooked],
         known |-> {}, seen |-> {}, gone |-> {}, retirable |-> {}, new |-> {},
         rest |-> {}, emptied |-> {}, stale |-> {}, left |-> {}, unsettled |-> {},
         since |-> {}, meanwhile |-> 0]

TypeOK ==
  /\ disk \in [Files -> Content \cup {NoFile}]
  /\ says \in [Sections -> Texts \cup {Never, Off}]
  /\ filed \subseteq Sections /\ byHand \subseteq Sections
  /\ record \in [Files -> Record \cup {NoRecord}]
  /\ run \in Run
  /\ run.phase = "idle" => run = Idle
  /\ untrue \subseteq Files

Init ==
  /\ disk = [f \in Files |-> NoFile]
  /\ says = [s \in Sections |-> Never]
  /\ filed = {} /\ byHand = {}
  /\ record = [f \in Files |-> NoRecord]
  /\ run = Idle
  /\ untrue = {}

\* The sections the record of a file counts.
Recorded(f) == IF record[f] = NoRecord THEN {} ELSE DOMAIN record[f].says

OnSurface(s) == says[s] \in Texts
FileTopics == {s \in filed : OnSurface(s)}

-----------------------------------------------------------------------------
(* What changes meanwhile: the disk, and memories written by hand.         *)

\* Something happens, while an ingest runs or not, that changes what it knows.
Happens(known) ==
  /\ run.phase # "idle" => run.meanwhile < Meanwhile
  /\ run' = IF run.phase = "idle" THEN Idle ELSE [known EXCEPT !.meanwhile = @ + 1]

\* The file's stat is another, or, where `hidden`, for all the clock can tell the
\* one it was soon after the file had changed.
Restat(f, hidden) ==
  LET stat(old) == IF hidden /\ old = "racy" THEN old ELSE "moved"
      restat(r) == IF r = NoRecord THEN r ELSE [r EXCEPT !.stat = stat(@)]
  IN  /\ Happens([run EXCEPT !.look[f].stat = stat(@), !.read[f] = restat(@)])
      /\ record' = [record EXCEPT ![f] = restat(@)]

\* A file is written, created or deleted.
Change(f, content) ==
  /\ content \in Contents[f] \cup {NoFile}
  /\ content # disk[f]
  /\ disk' = [disk EXCEPT ![f] = content]
  /\ \E hidden \in BOOLEAN : (hidden => NoFile \notin {content, disk[f]}) /\ Restat(f, hidden)
  /\ UNCHANGED <<topics, untrue>>

\* A write by hand that the filter promotes.  It forgets the record of the file
\* the topic is a section of, if the topic and the file's source are there.
WriteByHand(s, text) ==
  /\ <<s, text>> \in ByHand /\ text # says[s]
  /\ says' = [says EXCEPT ![s] = text]
  /\ byHand' = byHand \cup {s}
  /\ LET forgets == says[s] # Never /\ s \in filed
     IN  /\ record' = [record EXCEPT ![Of[s]] = IF forgets THEN NoRecord ELSE @]
         /\ untrue' = IF forgets THEN untrue \ {Of[s]}
                      ELSE untrue \cup {f \in Files : s \in Recorded(f)}
  /\ Happens([run EXCEPT !.seen = @ \ {s}, !.since = @ \cup {s}])
  /\ UNCHANGED <<disk, filed>>

\* A write by hand that the filter holds: evidence, and a source of its own.
WriteHeld(s) ==
  /\ \E text \in Texts : <<s, text>> \in ByHand
  /\ byHand' = byHand \cup {s}
  /\ Happens([run EXCEPT !.since = @ \cup {s}])
  /\ UNCHANGED <<disk, says, filed, record, untrue>>

-----------------------------------------------------------------------------
(* Looking at the files.                                                   *)

At(phase) == run.phase = phase
Found == {f \in Files : run.look[f].how # "no"}
Kept == {f \in Files : run.look[f].how \in {"unchanged", "refreshed"}}
Cut == {f \in Files : run.look[f].how = "cut"}
Read == Cut \cup run.deleted
CutSections == UNION {DOMAIN run.look[f].says : f \in Cut}

Start(phase, found, deleted, tree) ==
  [Idle EXCEPT !.phase = phase, !.todo = found, !.deleted = deleted, !.tree = tree,
               !.read = [f \in Files |-> IF f \in found THEN record[f] ELSE NoRecord]]

\* The lock is taken and the records are read.  What was found was found before
\* the lock, by a walk, the watcher or a search, and may have changed since.
Begin(found, deleted, tree) ==
  /\ At("idle")
  /\ <<found, deleted, tree>> \in Requests
  /\ run' = Start(IF found = {} THEN "forget" ELSE "look", found, deleted, tree)
  /\ UNCHANGED <<disk, topics, record, untrue>>

\* In name order, one file after another.
Next1 == CHOOSE f \in run.todo : TRUE

Looked(f, look) ==
  /\ run' = [run EXCEPT !.todo = @ \ {f},
                        !.phase = IF run.todo = {f} THEN "forget" ELSE "look",
                        !.look[f] = look]
  /\ UNCHANGED <<disk, topics, record, untrue>>

Unreadable(f) == Looked(f, [Unlooked EXCEPT !.how = "unread"])

\* The stat, before anything is read.  A file whose record is trusted is left;
\* another may have been written, or touched, a moment ago.
LookAt(f) ==
  /\ At("look") /\ f = Next1
  /\ \/ Unreadable(f)
     \/ /\ disk[f] # NoFile /\ trusted(run.read[f])
        /\ Looked(f, [Unlooked EXCEPT !.how = "unchanged"])
     \/ /\ disk[f] # NoFile /\ ~trusted(run.read[f])
        /\ \E stat \in {"settled", "racy"} :
             run' = [run EXCEPT !.phase = "read", !.look[f].stat = stat]
        /\ UNCHANGED <<disk, topics, record, untrue>>

\* The text: what its record says it was, or cut again.
ReadFile(f) ==
  /\ At("read") /\ f = Next1
  /\ \/ Unreadable(f)
     \/ /\ disk[f] # NoFile
        /\ LET known == run.read[f] # NoRecord /\ run.read[f].says = disk[f]
           IN  Looked(f, [how |-> IF known THEN "refreshed" ELSE "cut",
                          stat |-> run.look[f].stat, says |-> disk[f]])

Forgetting(files) == [f \in Files |-> IF f \in files THEN NoRecord ELSE record[f]]

\* Mutant: the records of what is read are put, and not forgotten first.
ForgetNothing ==
  /\ At("forget")
  /\ untrue' = untrue \ Read
  /\ run' = [run EXCEPT !.phase = "plan"]
  /\ UNCHANGED <<disk, topics, record>>

\* forget_records_of_files: before anything is written.
ForgetRead ==
  /\ At("forget")
  /\ record' = Forgetting(Read)
  /\ untrue' = untrue \ Read
  /\ run' = [run EXCEPT !.phase = "plan"]
  /\ UNCHANGED <<disk, topics>>

\* left_trees: what the records under the tree name and the walk did not find.
Left == IF run.tree = "none" THEN {}
        ELSE {f \in Files : record[f] # NoRecord} \ (Found \cup run.deleted)

\* Mutant: only a file without a record is one nothing is known of.
UnknownFile == \E f \in Cut : run.read[f] = NoRecord

\* Whether every section under the tree is looked at: a file had no record, or
\* there are more sections on the surface than the records count.
Unknown ==
  \/ \E f \in Cut : run.read[f] = NoRecord
  \/ Cardinality(FileTopics) > Cardinality(UNION {Recorded(f) : f \in Files})

InPlay ==
  {s \in FileTopics : \/ Of[s] \in Read
                      \/ run.tree # "none" /\ (Unknown \/ Of[s] \in Left)}

\* Not cut again by an ingest that would have: `gone`.
Gone == {s \in InPlay \ CutSections :
           Of[s] \notin Kept /\ (Of[s] \in Read \/ run.look[Of[s]].how = "no")}

\* Mutant: what the walk did not find is not there.
RetirableAsWalked == {s \in Gone : Of[s] \in Read \/ run.tree = "whole"}

\* A file the walk did not find may only have been skipped by it: whether it is
\* there is asked again.
Retirable == {s \in Gone : \/ Of[s] \in Read
                           \/ run.tree = "whole" /\ disk[Of[s]] = NoFile}

\* Where the sections go next: nothing cut and nothing to retire ends here, with
\* what is gone left missing.
\* Several statements and looks at the disk, one step here: a file that changes
\* between them could as well have changed before them or after, and a topic
\* written by hand between them is neither renamed nor retired.
Plan ==
  /\ At("plan")
  /\ LET nothing == CutSections = {} /\ Retirable = {}
     IN  run' = [run EXCEPT
           !.phase = "record", !.read = [f \in Files |-> NoRecord],
           !.known = InPlay, !.seen = InPlay,
           !.gone = IF nothing THEN {} ELSE Gone,
           !.retirable = Retirable,
           !.new = CutSections \ InPlay, !.rest = CutSections, !.left = Left,
           !.unsettled = IF nothing THEN {Of[s] : s \in Gone} ELSE {}]
  /\ UNCHANGED <<disk, topics, record, untrue>>

-----------------------------------------------------------------------------
(* Recording the sections: `record`, one transaction a step.               *)

TextOf(s) == run.look[Of[s]].says[s]

Losable == {s \in run.gone \cap run.retirable : OnSurface(s)}

\* `pairs`: a section the file loses under one name and has under a new one says
\* the same or, where neither is the same as another, much the same.
Pair(from, to) ==
  /\ from \in Losable /\ to \in run.new
  /\ \/ says[from] = TextOf(to)
     \/ /\ <<says[from], TextOf(to)>> \in Alike
        /\ \A s \in Losable : says[s] # TextOf(to)
        /\ \A s \in run.new : TextOf(s) # says[from]

\* Its file's record, if it stands, no longer says what is on the surface.
Disowned(s) == {f \in Files : s \in Recorded(f)}

\* rename_section: refused when the topic changed, is somebody's, or the new
\* name is taken.
Rename(from, to) ==
  /\ At("record") /\ Pair(from, to)
  /\ IF from \in run.seen \ byHand /\ says[to] = Never /\ to \notin filed
     THEN /\ says' = [says EXCEPT ![to] = says[from], ![from] = Never]
          /\ filed' = (filed \ {from}) \cup {to}
          /\ run' = [run EXCEPT !.gone = @ \ {from}, !.new = @ \ {to}]
          /\ untrue' = untrue \cup Disowned(from)
     ELSE /\ run' = [run EXCEPT !.new = @ \ {to}]
          /\ UNCHANGED <<says, filed, untrue>>
  /\ UNCHANGED <<disk, byHand, record>>

NoPair == \A from, to \in Sections : ~Pair(from, to)

\* remember_section: nothing when it says what its topic does; evidence only,
\* when the filter holds it; or what the topic says from now on.  Only a section
\* that was there is looked for among those its file emptied, so one renamed and
\* cut down at once keeps what it said.
Remember(s) ==
  /\ At("record") /\ NoPair /\ s \in run.rest
  /\ LET text == TextOf(s)
         held == text \in Thin
         same == text = says[s]
         stays == held /\ OnSurface(s)
     IN  /\ says' = [says EXCEPT ![s] = IF held THEN @ ELSE text]
         /\ filed' = IF same THEN filed ELSE filed \cup {s}
         /\ run' = [run EXCEPT
              !.rest = @ \ {s}, !.new = {},
              !.seen = IF held \/ same THEN @ ELSE @ \ {s},
              !.emptied = IF stays /\ s \in run.known THEN @ \cup {s} ELSE @,
              !.stale = IF stays /\ s \notin run.known \cup byHand THEN @ \cup {s} ELSE @]
  /\ UNCHANGED <<disk, byHand, record, untrue>>

\* retire_section: what was found of the topic is off the surface, unless it
\* changed since or is somebody's.
Retire(s) ==
  /\ says' = [says EXCEPT ![s] = IF s \in run.seen \ byHand THEN Off ELSE @]
  /\ untrue' = IF s \in run.seen \ byHand THEN untrue \cup Disowned(s) ELSE untrue
  /\ UNCHANGED <<disk, filed, byHand, record>>

Unsettles(s) == IF OnSurface(s) THEN {Of[s]} ELSE {}

RetireGone(s) ==
  /\ At("record") /\ run.rest = {} /\ s \in run.gone
  /\ IF s \in run.retirable
     THEN /\ Retire(s)
          /\ run' = [run EXCEPT !.gone = @ \ {s},
               !.unsettled = IF s \in run.seen \ byHand THEN @ ELSE @ \cup Unsettles(s)]
     ELSE /\ run' = [run EXCEPT !.gone = @ \ {s}, !.unsettled = @ \cup {Of[s]}]
          /\ UNCHANGED <<disk, topics, record, untrue>>

\* A section its file emptied.  One somebody also wrote by hand stays, settled.
RetireEmptied(s) ==
  /\ At("record") /\ run.rest = {} /\ run.gone = {} /\ s \in run.emptied
  /\ Retire(s)
  /\ run' = [run EXCEPT !.emptied = @ \ {s},
       !.unsettled = IF s \in run.seen THEN @ ELSE @ \cup Unsettles(s)]

-----------------------------------------------------------------------------
(* The records, last.                                                      *)

Settled ==
  {f \in Cut \ run.unsettled : run.look[f].stat # "moved" /\ disk[f] # NoFile}

\* still_as_read, after the drain and the flush, which are Cascade's: the record
\* of a file that changed meanwhile is not written.
Check ==
  /\ At("record") /\ run.rest \cup run.gone \cup run.emptied = {}
  /\ run' = [run EXCEPT
       !.phase = "left", !.tree = "none", !.deleted = {},
       !.known = {}, !.seen = {}, !.retirable = {}, !.new = {},
       !.left = (IF run.tree = "whole" THEN @ ELSE {}) \cup run.deleted,
       !.look = [f \in Files |-> IF f \in Settled \/ @[f].how = "refreshed"
                                  THEN @[f] ELSE Unlooked]]
  /\ UNCHANGED <<disk, topics, record, untrue>>

\* write_records: those of the files that left, but for one with a section that
\* was left where it is.
ForgetLeft ==
  /\ At("left")
  /\ record' = Forgetting(run.left \ run.unsettled)
  /\ untrue' = untrue \ (run.left \ run.unsettled)
  /\ run' = [run EXCEPT !.phase = "put", !.left = {}, !.unsettled = {}]
  /\ UNCHANGED <<disk, topics>>

\* The files read a section of which was written by hand meanwhile.
WrittenSince == {f \in Cut : DOMAIN run.look[f].says \cap run.since # {}}
KeptStale == {f \in Cut : SectionsOf(f) \cap run.stale # {}}

\* And those of the files read.  A record put back that a write by hand has
\* forgotten meanwhile is not true any more.
PutRecords ==
  /\ At("put")
  /\ LET refreshed == {f \in Files : run.look[f].how = "refreshed"}
     IN  /\ record' = [f \in Files |->
              IF f \in Cut \cup refreshed
              THEN [says |-> run.look[f].says, stat |-> run.look[f].stat]
              ELSE record[f]]
         /\ untrue' = (untrue \ Cut) \cup WrittenSince \cup KeptStale
                      \cup {f \in refreshed : record[f] = NoRecord}
  /\ run' = [run EXCEPT !.phase = "since"]
  /\ UNCHANGED <<disk, topics>>

\* Mutant: the lock is let go and the run is not.
ForgetSinceAndStay ==
  /\ At("since")
  /\ record' = Forgetting(WrittenSince)
  /\ untrue' = untrue \ WrittenSince
  /\ run' = [run EXCEPT !.phase = "idle"]
  /\ UNCHANGED <<disk, topics>>

\* forget_file_records_written_since.
ForgetSince ==
  /\ At("since")
  /\ record' = Forgetting(WrittenSince)
  /\ untrue' = untrue \ WrittenSince
  /\ run' = Idle
  /\ UNCHANGED <<disk, topics>>

\* A statement fails, or the process dies.
Stop ==
  /\ ~At("idle")
  /\ run' = Idle
  /\ UNCHANGED <<disk, topics, record, untrue>>

-----------------------------------------------------------------------------

Environment ==
  \/ \E f \in Files : \E content \in Contents[f] \cup {NoFile} : Change(f, content)
  \/ \E s \in Sections, text \in Texts : WriteByHand(s, text)
  \/ \E s \in Sections : WriteHeld(s)

Ingesting ==
  \/ \E r \in Requests : Begin(r[1], r[2], r[3])
  \/ \E f \in Files : LookAt(f) \/ ReadFile(f)
  \/ ForgetRead \/ Plan
  \/ \E from, to \in Sections : Rename(from, to)
  \/ \E s \in Sections : Remember(s) \/ RetireGone(s) \/ RetireEmptied(s)
  \/ Check \/ ForgetLeft \/ PutRecords \/ ForgetSince
  \/ Stop

Next == Environment \/ Ingesting

Spec == Init /\ [][Next]_vars

-----------------------------------------------------------------------------

\* A file whose stat is the one on its record, taken long enough after it last
\* changed, says what it said then.
TrustedIsUnchanged ==
  \A f \in Files : trusted(record[f]) => record[f].says = disk[f]

\* The surface says of a file what its content does: every section of it that the filter
\* lets through, and no other but what somebody wrote by hand.
SurfaceSays(f, content) ==
  \A s \in SectionsOf(f) :
    IF s \in DOMAIN content /\ content[s] \notin Thin
    THEN says[s] = content[s]
    ELSE OnSurface(s) => s \in byHand

\* While a record stands, the surface says what its file said, whatever was written
\* meanwhile and wherever an ingest stopped, but for the records the code leaves
\* saying too much, in six ways each of which marks its file `untrue`.
RecordIsTrue ==
  \A f \in Files \ untrue : record[f] # NoRecord => SurfaceSays(f, record[f].says)

\* An ingest leaves the sections of a file alone whose record it can trust,
\* however stale the walk it was given.
LeavesTrustedAlone ==
  \A f \in Files : trusted(record[f]) /\ f \notin run.deleted =>
    \A s \in SectionsOf(f) \ byHand' : says'[s] = says[s]
TrustedIsLeftAlone == [][LeavesTrustedAlone]_vars

\* A walk that read the whole tree finds every section whose file is gone, with
\* a record or without, unless a record counts a section that is not there to
\* be counted.
OverlooksNothing ==
  Plan /\ run.tree = "whole" /\ (\A f \in Files : Recorded(f) \subseteq FileTopics) =>
    \A s \in FileTopics :
      disk[Of[s]] = NoFile /\ run.look[Of[s]].how = "no" => s \in run'.retirable
NothingOverlooked == [][OverlooksNothing]_vars

-----------------------------------------------------------------------------
(* What they rest on.                                                      *)

\* A content is of the file it is said to be of.
ContentsAreOfFiles ==
  \A f \in Files :
    /\ disk[f] \in Contents[f] \cup {NoFile}
    /\ record[f] # NoRecord => record[f].says \in Contents[f]
    /\ run.look[f].how \in {"cut", "refreshed"} => run.look[f].says \in Contents[f]

\* A file is looked at once.
LookedOnce ==
  /\ run.phase \in {"look", "read"} => run.todo # {}
  /\ \A f \in run.todo : run.look[f].how = "no"

\* What was read after a stat that still holds is what the file says.
LooksAreTrue ==
  \A f \in Files :
    run.look[f].how \in {"cut", "refreshed"} /\ run.look[f].stat = "settled" =>
      run.look[f].says = disk[f]

\* Only the ingest that runs records anything, last: the records it read, and those it
\* found to be as the file is, are the records there are, or were forgotten meanwhile.
ReadIsRecorded ==
  /\ \A f \in Files : record[f] # NoRecord =>
       /\ run.read[f] # NoRecord => run.read[f].says = record[f].says
       /\ run.look[f].how = "refreshed" => run.look[f].says = record[f].says
  /\ run.phase \in {"record", "left", "put", "since"} =>
       \A f \in Files : run.read[f] = NoRecord

\* Nothing is written of a file whose record stands.
CutIsForgotten ==
  run.phase \in {"plan", "record"} => \A f \in Cut : record[f] = NoRecord

\* A caller that knows what is gone has not walked the tree.
WalkedOrTold == run.tree # "none" => run.deleted = {}

\* What is on the surface somebody wrote, or a file said, and the filter let through.
SurfaceHasSource ==
  \A s \in Sections : says[s] \notin Thin /\ (OnSurface(s) => s \in filed \cup byHand)

\* What of a file read is not yet on the surface, or not yet off it, is still to be
\* remembered or retired, or its file is not settled.
IsUnderWay(s) ==
  IF s \in CutSections
  THEN IF TextOf(s) \in Thin
       THEN OnSurface(s) => \/ s \in byHand \cup run.emptied \cup run.stale \cup run.rest
                            \/ Of[s] \in run.unsettled
       ELSE s \in run.rest \cup run.since \/ says[s] = TextOf(s)
  ELSE OnSurface(s) => s \in byHand \cup run.gone \/ Of[s] \in run.unsettled

NothingEmptied == ~At("record") => run.emptied = {}

RecordingGoesOn ==
  At("record") =>
    /\ run.new \subseteq run.rest /\ run.rest \subseteq CutSections
    /\ run.gone \cap CutSections = {}
    /\ run.emptied \subseteq {s \in CutSections : TextOf(s) \in Thin}
    /\ \A s \in run.retirable : trusted(record[Of[s]]) => Of[s] \in run.deleted
    /\ \A s \in Sections : Of[s] \in Cut => IsUnderWay(s)

\* What is about to be recorded is so, but for what was written by hand since and
\* what a section renamed keeps.
SettledIsTrue ==
  run.phase \in {"left", "put"} =>
    \A f \in Cut \ (WrittenSince \cup KeptStale) : SurfaceSays(f, run.look[f].says)

IngestInv ==
  /\ TypeOK /\ ContentsAreOfFiles /\ LookedOnce /\ LooksAreTrue /\ TrustedIsUnchanged
  /\ ReadIsRecorded /\ CutIsForgotten /\ WalkedOrTold /\ SurfaceHasSource
  /\ NothingEmptied /\ RecordingGoesOn /\ SettledIsTrue /\ RecordIsTrue

=============================================================================
