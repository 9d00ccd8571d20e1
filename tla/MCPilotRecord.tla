---------------------------- MODULE MCPilotRecord ----------------------------
(***************************************************************************)
(* Two upstream revisions; the first misses the maintenance budget, as the *)
(* retired pilots of the repository do.                                    *)
(***************************************************************************)
EXTENDS PilotRecord

MCRevisions == {"r1", "r2"}
MCInBudget  == [r \in MCRevisions |->
                  IF r = "r1" THEN Budgets \ {"maintenance"} ELSE Budgets]
=============================================================================
