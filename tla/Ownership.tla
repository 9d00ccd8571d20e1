----------------------------- MODULE Ownership -----------------------------
(***************************************************************************)
(* What the migration planner promises, and nothing about how: components  *)
(* become Rust-owned one at a time, and a component may become Rust-owned  *)
(* only when every dependency edge that then crosses the language border   *)
(* has been audited.  Lifecycle is shown to implement this module.         *)
(***************************************************************************)
CONSTANTS
  Modules,   \* the components of the manifest
  Edges,     \* the dependency edges, pairs <<dependent, dependency>>
  Adopted    \* components a GN import declared Rust-owned; nobody checked them

VARIABLES
  owned,     \* the Rust-owned components
  audited    \* the edges whose boundary somebody has justified

vars == <<owned, audited>>

\* The edges that start or end at component m.
Incident(m) == {e \in Edges : e[1] = m \/ e[2] = m}

\* The component at the other end of edge e, seen from m.
Other(e, m) == IF e[1] = m THEN e[2] ELSE e[1]

Init ==
  /\ owned = Adopted
  /\ audited \in SUBSET Edges

\* One component changes hands; its crossings must be audited by then.
Own(m) ==
  /\ m \notin owned
  /\ \A e \in Incident(m) : Other(e, m) \notin owned => e \in audited
  /\ owned' = owned \union {m}
  /\ UNCHANGED audited

\* Boundaries are audited, never the reverse.
Audit(S) ==
  /\ audited' = audited \union S
  /\ UNCHANGED owned

Next ==
  \/ \E m \in Modules : Own(m)
  \/ \E S \in SUBSET Edges : Audit(S)

Spec == Init /\ [][Next]_vars

\* A component the planner let through only borders foreign code over audited
\* edges, now and for as long as the neighbour stays in C++.
CrossingsAudited ==
  \A m \in owned \ Adopted : \A e \in Incident(m) :
    Other(e, m) \notin owned => e \in audited
=============================================================================
