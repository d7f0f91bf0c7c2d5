----------------------------- MODULE MCServing -----------------------------
(* The index and the files, each kept true to the ledger.  Serving: one topic, *)
(* which is all that any step of a copy, a rebuild or a sync looks at, there   *)
(* with one text or not there, and two engines.  Watch: a file in the synced   *)
(* directory and one in a directory under it; which two of the paths change    *)
(* on the disk is chosen at the start, from Moving.  They share no variable,   *)
(* and a behaviour is of one of them.                                          *)
EXTENDS Serving, Watch, TLC

CONSTANTS f, g, top, sub, x, y

MCIn == f :> top @@ g :> sub @@ sub :> top
Moving == {{g, top}, {g, sub}, {f, g}, {top, sub}}
Says(paths) == IF paths = {g, sub} THEN {x, y, NoText} ELSE {x, NoText}

VARIABLES part, moving

\* Engines that nobody holds are alike: one of them is opened.
FirstFree == CHOOSE e \in Engines : ~Held(e)
OpensFirst == slot' \in Engines /\ ~Held(slot') => slot' = FirstFree

MCInit ==
  /\ Init /\ WatchInit
  /\ part \in {"serving", "watch"}
  /\ moving \in IF part = "watch" THEN Moving ELSE {{}}

MCNext ==
  /\ UNCHANGED <<part, moving>>
  /\ \/ part = "serving" /\ (astray => Crash) /\ Next /\ OpensFirst /\ UNCHANGED watchVars
     \/ /\ part = "watch" /\ UNCHANGED vars
        /\ \/ Disk(moving) /\ \A file \in Files : disk'[file] \in Says(moving)
           \/ Steps
           \/ FollowTop \/ Unfollow \/ PollAgain \/ Flush \/ TaskFails \/ Restart
           \/ \E file \in Files : Freshen(file)

MCFairness ==
  /\ LET here == part = "serving"
     IN /\ WF_vars(here /\ (SyncRead \/ SyncWrite \/ SyncDone))
        /\ WF_vars(here /\ (Copies \/ Swaps)) /\ WF_vars(here /\ Rebuilds)
  /\ LET here == part = "watch"
     IN /\ WF_watchVars(here /\ Steps)
        /\ SF_watchVars(here /\ Flush) /\ SF_watchVars(here /\ PollAgain)

MCSpec == MCInit /\ [][MCNext]_<<vars, watchVars, part, moving>> /\ MCFairness
=============================================================================
