----------------------------- MODULE MCOverlay -----------------------------
(***************************************************************************)
(* A source tree with a directory examples in which a developer keeps      *)
(* notes.  Run b puts its package there, run a one level deeper, into a    *)
(* directory that is missing; only b needs the host adapter.               *)
(***************************************************************************)
EXTENDS Overlay

MCAbove == [p \in {"examples", "deep", "a", "a/BUILD.gn", "b", "b/BUILD.gn",
                   "notes", "build", "build/rust", "template", "out", "out/a",
                   "out/b"} |->
  CASE p \in {"deep", "b", "notes"}   -> {"examples"}
    [] p = "a"                        -> {"examples", "deep"}
    [] p = "a/BUILD.gn"               -> {"examples", "deep", "a"}
    [] p = "b/BUILD.gn"               -> {"examples", "b"}
    [] p = "build/rust"               -> {"build"}
    [] p = "template"                 -> {"build", "build/rust"}
    [] p \in {"out/a", "out/b"}       -> {"out"}
    [] OTHER                          -> {}]
MCPaths == DOMAIN MCAbove

MCRuns == {"run a", "run b"}
Of(r, x, y) == IF r = "run a" THEN x ELSE y
MCDest    == [r \in MCRuns |-> Of(r, "a", "b")]
MCPackage == [r \in MCRuns |-> Of(r, "a/BUILD.gn", "b/BUILD.gn")]
MCOut     == [r \in MCRuns |-> Of(r, "out/a", "out/b")]

\* The hypotheses of the theorems hold of this tree.
ASSUME MCOverlayAssumption == Apart /\ OwnDestinations
=============================================================================
