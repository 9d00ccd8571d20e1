----------------------------- MODULE MCGateRun -----------------------------
(***************************************************************************)
(* Gate 1 is a shell command and 2 runs the program "tool" on the input    *)
(* file "lock"; they run together.  Gate 3 runs the tool under a name with *)
(* a space.  The third version of a program is that it is gone, the fourth *)
(* is an empty file.                                                       *)
(***************************************************************************)
EXTENDS GateRun

MCGates      == 1..3
MCSelections == {{1, 2}, {3}}
MCProgram == [g \in MCGates |-> IF g = 1 THEN {} ELSE {"tool"}]
MCInputs  == [g \in MCGates |-> IF g = 2 THEN {"lock"} ELSE {}]
MCFiles   == {"lock"}
MCDeclared == [f \in MCFiles |-> 0]
MCContents == {0, 1}
MCPrograms == {"git", "tool"}
MCVersions == 1..4
MCTarget   == <<"entry", "entry", "none", "entry">>
MCRevisions == {1, 2}
Policy(c, r, l, e) == [checkout |-> c, revision |-> r, clean |-> l, executables |-> e]
MCPolicies == {Policy(FALSE, {}, FALSE, FALSE), Policy(TRUE, {1}, TRUE, TRUE),
               Policy(TRUE, {}, FALSE, TRUE), Policy(TRUE, {2}, FALSE, FALSE)}
=============================================================================
