-------------------------------- MODULE Watch --------------------------------
(***************************************************************************)
(* How a synced directory is kept in sync: the watcher of                  *)
(* crates/cli/src/watch.rs, which hears of what changes, sorts it and has  *)
(* it ingested.  An ingest is one step here, with the project's lock held; *)
(* Ingest takes it apart.                                                  *)
(*                                                                         *)
(* The operating system says only that something under a name moved, and   *)
(* only in a directory whose watch is live: one deleted and made again is  *)
(* another, which the watch on the first never sees.                       *)
(*                                                                         *)
(* One path is followed, the directory Top.  How long things wait -- for   *)
(* changes to stop, for the next poll -- is left out.                      *)
(***************************************************************************)
EXTENDS FiniteSets

CONSTANTS
  Files,
  Dirs,
  Top,
  In,      \* [Files \cup (Dirs \ {Top}) -> Dirs]: what each is directly inside
  FileTexts,
  NoText   \* what a file that is not there says

Paths == Files \cup Dirs
Within(d) == {d} \cup {e \in Dirs \ {Top} : In[e] = d}
FilesUnder(d) == {f \in Files : In[f] \in Within(d)}

ASSUME WatchAssumption ==
  /\ Top \in Dirs /\ Files \cap Dirs = {} /\ NoText \notin FileTexts
  /\ In \in [Paths \ {Top} -> Dirs]
  /\ \A d \in Dirs \ {Top} : In[d] = Top

VARIABLES
  disk,     \* [Files -> FileTexts \cup {NoText}]
  there,    \* SUBSET Dirs: the directories that exist
  sections, \* [Files -> FileTexts \cup {NoText}]: what the ledger says of each file
  state,    \* Followed::state, "off" when nothing is followed
  watched,  \* Followed::dirs, the directories it thinks it watches
  live,     \* those whose watch is on the directory that is there now
  pending,  \* the paths heard of since the last flush
  rescan,   \* events were lost
  held,     \* files found gone, waiting for the other half of a move
  task,     \* what the watcher's one task is doing
  lost      \* what a failure or a gap leaves unseen, for NothingMissed

watchVars == <<disk, there, sections, state, watched, live, pending, rescan, held, task, lost>>
heard == <<pending, rescan, held>>
watches == <<state, watched, live>>

StepNames == {"idle", "sort", "adopt", "walk", "watch", "again", "ingest"}
Task == [step : StepNames, paths : SUBSET Paths, new : SUBSET Dirs, tree : BOOLEAN,
         found : SUBSET Files, gone : SUBSET Files, walked : SUBSET Dirs,
         deleted : SUBSET Files]
NoTask == [step |-> "idle", paths |-> {}, new |-> {}, tree |-> FALSE, found |-> {},
         gone |-> {}, walked |-> {}, deleted |-> {}]
Phase(step) == [NoTask EXCEPT !.step = step]

WatchTypeOK ==
  /\ disk \in [Files -> FileTexts \cup {NoText}] /\ sections \in [Files -> FileTexts \cup {NoText}]
  /\ there \subseteq Dirs /\ live \subseteq watched \cap there /\ watched \subseteq Dirs
  /\ state \in {"off", "starting", "watching", "polling", "missing"}
  /\ pending \subseteq Paths /\ held \subseteq Files /\ rescan \in BOOLEAN
  /\ task \in Task /\ lost \subseteq Paths
  /\ state \in {"off", "missing"} => watched = {}

WatchInit ==
  /\ disk = [f \in Files |-> NoText] /\ sections = disk
  /\ there = Dirs
  /\ state = "off" /\ watched = {} /\ live = {}
  /\ pending = {} /\ rescan = FALSE /\ held = {}
  /\ task = NoTask
  /\ lost = {}

Present(f) == disk[f] # NoText

-----------------------------------------------------------------------------
(* The disk.  Whatever is heard of is pending, or the events were lost.    *)

Hear(paths) ==
  \/ pending' = pending \cup paths /\ UNCHANGED rescan
  \/ paths # {} /\ rescan' = TRUE /\ UNCHANGED pending

HeardIn(path) == IF path # Top /\ In[path] \in live THEN {path} ELSE {}

Edit(f, text) ==
  /\ In[f] \in there /\ text # disk[f]
  /\ disk' = [disk EXCEPT ![f] = text]
  /\ Hear(HeardIn(f))
  /\ UNCHANGED <<there, sections, watches, held, task, lost>>

\* A directory goes, with what is in it: deleted file by file, or moved away.
\* Its own watch tells of it too.
Remove(d) ==
  /\ d \in there
  /\ there' = there \ Within(d)
  /\ disk' = [f \in Files |-> IF f \in FilesUnder(d) THEN NoText ELSE disk[f]]
  /\ live' = live \ Within(d)
  /\ LET inside == {f \in FilesUnder(d) : Present(f)} \cup ((Within(d) \ {d}) \cap there)
     IN  \E gone \in {{}, {p \in inside : In[p] \in live}} :
           Hear(HeardIn(d) \cup ({d} \cap live) \cup gone)
  /\ UNCHANGED <<sections, state, watched, held, task, lost>>

\* A directory is made, empty or moved in with files.
Make(d, files, text) ==
  /\ d \notin there /\ (d # Top => In[d] \in there)
  /\ there' = there \cup {d}
  /\ files \subseteq {f \in Files : In[f] = d}
  /\ disk' = [f \in Files |-> IF f \in files THEN text ELSE disk[f]]
  /\ Hear(HeardIn(d))
  /\ UNCHANGED <<sections, watches, held, task, lost>>

-----------------------------------------------------------------------------
(* The watcher's task.                                                     *)

TaskAt(step) == task.step = step
GoesTo(next) == task' = next
Followed == state # "off"

Drop(files) == /\ watched' = watched \ files /\ live' = live \ files

\* Following a path catches up on it.
FollowTop ==
  /\ TaskAt("idle") /\ ~Followed
  /\ state' = "starting"
  /\ GoesTo(Phase("walk"))
  /\ UNCHANGED <<disk, there, sections, watched, live, heard, lost>>

Unfollow ==
  /\ TaskAt("idle") /\ Followed
  /\ state' = "off" /\ watched' = {} /\ live' = {} /\ held' = {}
  /\ lost' = {}
  /\ UNCHANGED <<disk, there, sections, pending, rescan, task>>

\* Mutant: only a path that is missing is looked at again.
LookAgain ==
  /\ TaskAt("idle") /\ state = "missing" /\ held = {}
  /\ GoesTo(Phase("walk"))
  /\ UNCHANGED <<disk, there, sections, watches, heard, lost>>

\* A poll, or a look for a path that is missing: MISSING, which is long enough
\* for what was held to be flushed first.
PollAgain ==
  /\ TaskAt("idle") /\ (state = "polling" \/ (state = "missing" /\ held = {}))
  /\ GoesTo(Phase("walk"))
  /\ UNCHANGED <<disk, there, sections, watches, heard, lost>>

\* Mutant: a flush with nothing of its own to sort lets what was held go.
FlushDropping ==
  /\ TaskAt("idle")
  /\ pending # {} \/ rescan \/ held # {}
  /\ pending' = {} /\ rescan' = FALSE /\ held' = {}
  /\ GoesTo(CASE state \in {"off", "missing"} \/ pending = {} -> NoTask
            [] state \notin {"off", "missing"} /\ (rescan \/ Top \notin there) -> Phase("walk")
            [] OTHER -> [Phase("sort") EXCEPT !.paths = pending, !.deleted = held])
  /\ UNCHANGED <<disk, there, sections, watches, lost>>

\* `flush`: what changed since the last one is sorted, unless all of it is
\* walked again.  What was held is applied now, whatever comes with it.
Flush ==
  /\ TaskAt("idle")
  /\ pending # {} \/ rescan \/ held # {}
  /\ pending' = {} /\ rescan' = FALSE /\ held' = {}
  /\ GoesTo(CASE state \in {"off", "missing"} -> NoTask
            [] state \notin {"off", "missing"} /\ (rescan \/ Top \notin there) -> Phase("walk")
            [] OTHER -> [Phase("sort") EXCEPT !.paths = pending, !.deleted = held])
  /\ UNCHANGED <<disk, there, sections, watches, lost>>

\* A file that the ledger knows the text of again is not lost.
Unseen(known) == lost \ {f \in Files : known[f] = disk[f]}

\* What this task is about, whose changes go unnoticed if it fails.
Concerned ==
  IF task.step \in {"walk", "watch", "again"} \/ task.tree THEN Paths
  ELSE task.paths \cup task.new \cup task.found \cup task.gone \cup task.deleted
         \cup UNION {FilesUnder(d) : d \in task.new \cup (task.paths \cap Dirs)}

\* Reported, and nothing asks for it again.
StepFails ==
  /\ lost' = lost \cup Concerned
  /\ GoesTo(NoTask)
  /\ UNCHANGED <<disk, there, sections, watches, heard>>

\* What sorting came to is ingested.  Files gone with nothing new beside them are
\* held for one more flush.
Sorted(found, gone) ==
  LET holds == found = {} /\ gone # {}
      deleted == task.deleted \cup (IF holds THEN {} ELSE gone)
  IN  /\ held' = held \cup (IF holds THEN gone ELSE {})
      /\ GoesTo(IF found \cup deleted = {} THEN NoTask
              ELSE [Phase("ingest") EXCEPT !.found = found, !.deleted = deleted])

\* Each path by what its directory lists now.  A path whose directory is not
\* watched is dropped.
Sort ==
  /\ TaskAt("sort")
  /\ LET ours == {p \in task.paths \ {Top} : In[p] \in watched}
         new == {d \in ours \cap Dirs : d \in there}
         vanished == {d \in ours \cap watched : d \notin there}
         files == ours \cap Files
         gone == {f \in files : ~Present(f)}
                   \cup {f \in UNION {FilesUnder(d) : d \in vanished} : sections[f] # NoText}
     IN  /\ IF new = {} THEN Sorted(files \ gone, gone)
            ELSE /\ GoesTo([task EXCEPT !.step = "adopt", !.paths = {}, !.new = new,
                                      !.found = files \ gone, !.gone = gone])
                 /\ UNCHANGED held
         /\ Drop(vanished \cup new)
         /\ lost' = lost \cup ((task.paths \cap {Top}) \ live)
                         \cup {f \in UNION {FilesUnder(d) : d \in (ours \cap Dirs) \ vanished} :
                               sections[f] # NoText}
  /\ UNCHANGED <<disk, there, sections, state, pending, rescan>>

\* A directory that lists is watched afresh, unless the system refuses.
Adopt(d) ==
  /\ TaskAt("adopt") /\ task.walked = {} /\ d \in task.new
  /\ \/ /\ d \in there
        /\ watched' = watched \cup {d} /\ live' = live \cup {d} /\ lost' = lost \ {d}
     \/ UNCHANGED <<watched, live, lost>>
  /\ GoesTo([task EXCEPT !.walked = {d}])
  /\ UNCHANGED <<disk, there, sections, state, heard>>

\* And then walked; refused, it is polled from now on.
AdoptWalk(d) ==
  /\ TaskAt("adopt") /\ d \in task.walked
  /\ IF d \in there
     THEN /\ LET found == task.found \cup {f \in FilesUnder(d) : Present(f)}
             IN  IF task.new = {d} THEN Sorted(found, task.gone)
                 ELSE /\ GoesTo([task EXCEPT !.new = @ \ {d}, !.walked = {}, !.found = found])
                      /\ UNCHANGED held
          /\ state' = IF d \in watched THEN state ELSE "polling"
          /\ UNCHANGED <<disk, there, sections, watched, live, pending, rescan, lost>>
     ELSE StepFails

\* Mutant: a path that is not there keeps its watches too.
WalkKeeping ==
  /\ TaskAt("walk")
  /\ IF Top \in there
     THEN /\ GoesTo([Phase("watch") EXCEPT !.walked = there])
          /\ UNCHANGED watches
     ELSE /\ state' = "missing" /\ UNCHANGED <<watched, live>>
          /\ GoesTo(NoTask)
  /\ UNCHANGED <<disk, there, sections, heard, lost>>

\* `catch_up`: a path that is not there keeps what it has.
Walk ==
  /\ TaskAt("walk")
  /\ IF Top \in there
     THEN /\ GoesTo([Phase("watch") EXCEPT !.walked = there])
          /\ UNCHANGED watches
     ELSE /\ state' = "missing" /\ Drop(watched)
          /\ GoesTo(NoTask)
  /\ UNCHANGED <<disk, there, sections, heard, lost>>

\* The directories walked are watched, those it watches already as they are.  If
\* the system refuses one, the whole path is polled, so that nothing is lost; or else
\* what was not walked, and what was made again behind a watch that is kept.
WatchDirs ==
  /\ TaskAt("watch")
  /\ \E refused \in SUBSET (task.walked \ watched) :
       /\ (task.walked \ watched) \ there \subseteq refused
       /\ watched' = task.walked \ refused
       /\ live' = watched' \cap (live \cup (there \ watched))
       /\ state' = IF refused = {} THEN "watching" ELSE "polling"
       /\ lost' = IF refused = {} THEN (there \cup watched') \ live' ELSE {}
  /\ GoesTo(Phase("again"))
  /\ UNCHANGED <<disk, there, sections, heard>>

\* And walked again, for what was created between the walk and the watches.  A
\* walk that meets an error cannot say what is gone.
WalkAgain ==
  /\ TaskAt("again")
  /\ IF Top \in there
     THEN LET present == {f \in Files : Present(f)}
          IN  \E found \in {present} \cup {present \ FilesUnder(d) : d \in there} :
                /\ GoesTo([Phase("ingest") EXCEPT !.found = found, !.tree = found = present])
                /\ lost' = IF found = present THEN lost ELSE lost \cup (Files \ found)
                /\ UNCHANGED <<disk, there, sections, watches, heard>>
     ELSE StepFails

WalkFails == WalkAgain /\ TaskAt("ingest")' /\ ~task'.tree

\* What each file found says when it is read, if it can be, and nothing of those
\* known gone or not found in the tree and not there either.
Ingest ==
  /\ TaskAt("ingest")
  /\ LET gone == task.deleted \cup (IF task.tree THEN Files \ task.found ELSE {})
     IN  sections' = [f \in Files |->
           IF f \in task.found /\ Present(f) THEN disk[f]
           ELSE IF f \in gone /\ (f \in task.deleted \/ ~Present(f)) THEN NoText
           ELSE sections[f]]
  /\ lost' = Unseen(sections') \cup {f \in held : Present(f)}
  /\ GoesTo(NoTask)
  /\ UNCHANGED <<disk, there, watches, heard>>

\* The ingest, a walk, or a question to the ledger fails.
TaskFails == lost = {} /\ task.step \in {"sort", "adopt", "walk", "again", "ingest"} /\ StepFails

\* A search ingests the file behind a hit whose stat is not its record's.  The
\* task may yet miss what becomes of it.
Freshen(f) ==
  /\ Followed /\ Present(f) /\ sections[f] \notin {NoText, disk[f]}
  /\ sections' = [sections EXCEPT ![f] = disk[f]]
  /\ lost' = lost \ ({f} \ (held \cup Concerned))
  /\ UNCHANGED <<disk, there, watches, heard, task>>

\* The server stops, and another starts: the synced paths are followed again.
Restart ==
  /\ Followed
  /\ state' = "starting" /\ watched' = {} /\ live' = {}
  /\ pending' = {} /\ rescan' = FALSE /\ held' = {}
  /\ GoesTo(Phase("walk"))
  /\ lost' = {}
  /\ UNCHANGED <<disk, there, sections>>

-----------------------------------------------------------------------------

Disk(paths) ==
  \/ \E f \in Files \cap paths, text \in FileTexts \cup {NoText} : Edit(f, text)
  \/ \E d \in Dirs \cap paths : Remove(d)
  \/ \E d \in Dirs \cap paths, files \in SUBSET (Files \cap paths), text \in FileTexts : Make(d, files, text)

Steps ==
  \/ Sort \/ Walk \/ WatchDirs \/ WalkAgain \/ Ingest
  \/ \E d \in Dirs : Adopt(d) \/ AdoptWalk(d)

WatchNext ==
  \/ Disk(Paths)
  \/ Steps
  \/ FollowTop \/ Unfollow \/ PollAgain \/ Flush \/ TaskFails \/ Restart
  \/ \E f \in Files : Freshen(f)

\* The task goes on with what it began, and what is due is begun: the loop
\* chooses at random among an event, a command and what is due, and each time
\* it gets to what is due it flushes and polls.
WatchFairness == WF_watchVars(Steps) /\ SF_watchVars(Flush) /\ SF_watchVars(PollAgain)

WatchSpec == WatchInit /\ [][WatchNext]_watchVars /\ WatchFairness

-----------------------------------------------------------------------------

\* While every directory is watched and nothing is left to do, the ledger says
\* what the files say: whatever was created between a walk and a watch, moved,
\* or deleted and made again, something about it was heard or walked.  Lost is
\* only: what a task that failed was about; a directory made between a
\* catch-up's walk and its watches, or made again behind the watch a catch-up
\* keeps; the synced directory made again, and what left with any other that was,
\* or that left before it was watched; and a file that was held as gone and is
\* there again when a catch-up ingests.
NothingMissed ==
  TaskAt("idle") /\ state = "watching" /\ ~rescan =>
    \A f \in Files :
      \/ sections[f] = disk[f]
      \/ {f, In[f], Top} \cap pending # {} \/ f \in held
      \/ {f, In[f], Top} \cap lost # {}

\* A file that differs from what the ledger says of it is ingested in the end,
\* while its path is kept in sync and there, unless it keeps changing or the server
\* keeps restarting: nothing that is held waits for ever, nor what a path that is
\* missing or polled has in it, whatever was refused, left unseen or lost to a
\* failure, if not every poll fails.  A path that is watched and not polled is not
\* looked at again, so there a file that is lost is excused.
ChangesAreIngested ==
  \/ []<><<Restart>>_watchVars
  \/ []<><<TaskFails \/ WalkFails>>_watchVars
  \/ \A f \in Files :
       \/ []<><<disk'[f] # disk[f]>>_watchVars
       \/ sections[f] # disk[f] ~>
            \/ sections[f] = disk[f] \/ ~Followed \/ Top \notin there
            \/ state \in {"starting", "watching"} /\ {f, In[f], Top} \cap lost # {}

-----------------------------------------------------------------------------
(* Why NothingMissed holds.  Only a walk of everything makes the path watched, *)
(* and from then on whatever differs has been heard of, is lost, or is what    *)
(* the task is about.                                                          *)

Watching == state = "watching"
WalkIsDue == rescan \/ task.step \in {"walk", "watch"}
Heard == pending \cup task.paths

\* Something that was heard, or that is to be walked, has this file looked at: the
\* file itself, while its directory is watched, or that directory made again.
IsKnown(f) ==
  \/ WalkIsDue \/ Top \notin live
  \/ f \in lost \/ (f \in Heard /\ In[f] \in watched)
  \/ In[f] # Top /\ In[f] \in Heard \cup lost
  \/ In[f] \in task.new

\* The ingest that is coming will say what this file says.
IsDue(f) ==
  \/ TaskAt("again")
  \/ task.tree /\ (f \in task.found <=> Present(f))
  \/ f \in task.found /\ Present(f)
  \/ f \in held \cup task.gone \cup task.deleted /\ ~Present(f)

\* Each step of the task carries what is its own.
TaskIsWhole ==
  /\ task.paths # {} => TaskAt("sort")
  /\ TaskAt("adopt") <=> task.new # {}
  /\ Top \notin task.new
  /\ task.gone # {} => TaskAt("adopt")
  /\ task.found # {} => task.step \in {"adopt", "ingest"}
  /\ task.deleted # {} => task.step \in {"sort", "adopt", "ingest"}
  /\ task.tree => TaskAt("ingest") /\ task.deleted = {}
  /\ TaskAt("watch") => Top \in task.walked
  /\ task.step \in {"sort", "adopt"} => state \notin {"off", "missing"}
  /\ task.walked # {} => task.step \in {"adopt", "watch"}
  /\ TaskAt("adopt") => \A d \in task.walked : task.walked = {d} /\ d \in task.new

\* There is nothing in a directory that is not there.
AbsentOutside ==
  /\ Top \notin there => there = {}
  /\ \A f \in Files : In[f] \notin there => ~Present(f)

\* The directory made again behind the watch on it is known to have gone.
TopIsKnown ==
  Watching => Top \in watched /\ (Top \in live \/ WalkIsDue \/ Top \in Heard \cup lost)

\* So is each directory under it whose watch is on none that is there.
DirsAreKnown ==
  Watching => \A d \in there \ {Top} :
    \/ d \in live \/ Top \notin live \/ WalkIsDue
    \/ d \in Heard \cup lost \cup task.new

\* One that was watched afresh is live until something more is heard of it.
AdoptedAreKnown ==
  \A d \in task.new \cap watched :
    /\ d \in task.walked
    /\ Watching /\ d \in there => d \in live \/ Top \notin live \/ rescan \/ d \in pending \cup lost

\* What a directory held before it was made again may be gone from it unheard.
NewAreLost == \A f \in Files : In[f] \in task.new /\ sections[f] # NoText => f \in lost

FilesAreKnown == Watching => \A f \in Files : sections[f] = disk[f] \/ IsKnown(f) \/ IsDue(f)

\* A file found gone that is back is found again before it is forgotten.
BackAreKnown ==
  Watching => \A f \in held \cup task.gone \cup task.deleted :
    Present(f) => IsKnown(f) \/ TaskAt("again") \/ task.tree \/ f \in task.found

WatchInv ==
  /\ WatchTypeOK /\ TaskIsWhole /\ AbsentOutside
  /\ TopIsKnown /\ DirsAreKnown /\ AdoptedAreKnown /\ NewAreLost
  /\ FilesAreKnown /\ BackAreKnown

=============================================================================
