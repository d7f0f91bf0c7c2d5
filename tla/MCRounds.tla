------------------------------ MODULE MCRounds ------------------------------
(* Cascade: one drain that owes everything, over two topics.  Startup: two     *)
(* clients of different builds that ask for different settings, one of which   *)
(* also stops; what follows once starts have crossed is left out.  Hub: a      *)
(* directory of this program's, with one file and two loads, or one that others *)
(* fetch into, with two files and a load.  They share no variable, and a       *)
(* behaviour is of one of them.                                                *)
EXTENDS Cascade, Startup, Hub, TLC

CONSTANTS v, w, weights, vocabulary, x, y, z

MCBuild == v :> 1 @@ w :> 2

\* The vocabulary is the same at both commits.
MCContent == 1 :> (weights :> x @@ vocabulary :> y) @@ 2 :> (weights :> z @@ vocabulary :> y)

VARIABLE part   \* which of them this behaviour is of

MCInit ==
  /\ part \in {"rounds", "startup", "hub"}
  /\ Init /\ StartInit /\ HubInit
  /\ part # "hub" => owned /\ upstream = 1

\* Two loads meet over one file, or one load and others over two.
Meeting ==
  IF owned THEN \A l \in Loads : load'[l].file # weights ELSE load'[w] = Closed

MCNext ==
  /\ UNCHANGED part
  /\ \/ part = "rounds" /\ Next /\ UNCHANGED <<startVars, hubVars>>
     \/ /\ part = "startup" /\ UNCHANGED <<vars, hubVars>>
        /\ IF "crossing" \in past THEN UNCHANGED startVars ELSE StartNext
     \/ /\ part = "hub" /\ UNCHANGED <<vars, startVars>>
        /\ HubNext /\ Meeting

MCSpec == MCInit /\ [][MCNext]_<<vars, startVars, hubVars, part>>
=============================================================================
