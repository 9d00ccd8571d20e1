-------------------------- MODULE MCTransitionCheck --------------------------
(***************************************************************************)
(* Two versions of a manifest with two gates.  In the first the module     *)
(* declares the unit gate only; in the second both, and the unit gate is   *)
(* defined differently.                                                    *)
(***************************************************************************)
EXTENDS TransitionCheck

MCGates    == {"unit", "perf"}
MCProgram  == [g \in MCGates |-> {}]
MCVersions == {"first", "second"}
MCIdentity == [v \in MCVersions |-> "project"]
MCDefinition == [v \in MCVersions |-> [g \in MCGates |->
                   IF v = "second" /\ g = "unit" THEN "new" ELSE "old"]]
MCDeclares == [v \in MCVersions |->
                 IF v = "second" THEN MCGates ELSE {"unit"}]
MCReady    == [v \in MCVersions |-> {RustOwned}]
MCOutputs  == {"lines", "nothing"}
=============================================================================
