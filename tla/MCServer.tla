------------------------------ MODULE MCServer -------------------------------
(* The resident server.  Cascade: its upkeep of one project.  Residence: two   *)
(* projects, room for one, the first of which does not open for a while; either *)
(* two callers whose requests meet, or one beside the ticks of the upkeep.      *)
(* They share no variable, and a behaviour is of one of them.                   *)
EXTENDS Cascade, Residence, TLC

CONSTANTS v, w

MCCalls == v :> {"use", "purge"} @@ w :> {"use", "name"}

VARIABLE part

MCInit ==
  /\ Init /\ ResidenceInit
  /\ part \in {"upkeep", "requests", "ticks"}
  /\ part # "ticks" => \A p \in Projects : rows[p].owed = 0

\* No upkeep, and so nothing deferred.
Meeting ==
  \/ ResidenceNext /\ tick' = tick /\ \A p \in Projects : rows'[p].owed = 0
  \/ requests = 0 /\ (\A a \in Actors : actor[a] = Out) /\ UNCHANGED residenceVars

MCNext ==
  /\ UNCHANGED part
  /\ \/ part = "upkeep" /\ Next /\ UNCHANGED residenceVars
     \/ part = "requests" /\ Meeting /\ UNCHANGED vars
     \/ /\ part = "ticks" /\ UNCHANGED vars
        /\ ResidenceNext
        /\ requests' > 0 /\ actor'[w] = Out

MCFairness ==
  /\ \A u \in Upkeep :
       LET here == part = "upkeep"
       IN /\ WF_vars(here /\ (Round(u) \/ Ending(u)))
          /\ SF_vars(here /\ ClaimJobs(u))
          /\ SF_vars(here /\ (ReadLedger(u) \/ ReadLedgerFails(u)))
          /\ WF_vars(here /\ Looping(u)) /\ SF_vars(here /\ MaintainIndex(u))
  /\ \A k \in Key : WF_vars(part = "upkeep" /\ TimePasses(k))
  /\ \A a \in Actors : WF_residenceVars(part = "ticks" /\ (Goes(a) \/ Answers(a)))
  /\ WF_residenceVars(part = "ticks" /\ Ticks)

MCSpec == MCInit /\ [][MCNext]_<<vars, residenceVars, part>> /\ MCFairness
=============================================================================
