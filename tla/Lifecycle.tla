----------------------------- MODULE Lifecycle -----------------------------
(***************************************************************************)
(* The life of a migration manifest: it is imported from a GN graph, the   *)
(* boundary scanner annotates it, maintainers classify edges, resolve      *)
(* reviews and attach gates, the planner assesses a transition, and a      *)
(* maintainer writes an approved transition into the manifest, possibly    *)
(* long after the assessment and after other edits.                        *)
(*                                                                         *)
(* chromifer-planner and the scanner's merge are modelled action for       *)
(* action.  The program never edits states, boundaries or reviews of its   *)
(* own accord: Classify, Resolve, SetGates and Promote are the edits its   *)
(* documents ask of a maintainer.                                          *)
(***************************************************************************)
EXTENDS FiniteSets, Integers

CONSTANTS
  Modules,        \* module ids of the manifest
  Edges,          \* its dependencies, pairs <<dependent, dependency>>
  Findings,       \* callback and observer sites the scanner can report
  Place,          \* Place[f]: where f is attached, <<module>> or an edge
  Gates,          \* compatibility gates the manifest defines
  GateTargets,    \* GateTargets[g]: the targets gate g declares
  Required,       \* the targets marked required
  ImportGate,     \* the gate given to the importer: a singleton, or empty
  InferState,     \* whether the import ran with state inference
  Sources,        \* Sources[m]: what the GN target compiles
  Mechanisms      \* the boundary kinds the scanner can detect

LegacyCpp == "legacy_cpp"
Bridged   == "bridged"
RustOwned == "rust_owned"
States    == {LegacyCpp, Bridged, RustOwned}

Audited    == {"cxx", "c_abi", "mojo"}
Unaudited  == {"unclassified", "cpp_internal"}
Boundaries == Audited \union Unaudited \union {"rust"}

ASSUME LifecycleAssumption ==
  /\ Edges \subseteq Modules \X Modules
  /\ \A e \in Edges : e[1] # e[2]
  /\ Place \in [Findings -> {<<m>> : m \in Modules} \union Edges]
  /\ ImportGate \subseteq Gates
  /\ InferState \in BOOLEAN
  /\ Sources \in [Modules -> {"cpp", "rust", "mixed"}]
  /\ Mechanisms \subseteq Audited

VARIABLES
  state,      \* module -> migration state
  boundary,   \* edge -> boundary label
  reviews,    \* finding -> "absent", "open" or "resolved"
  gates,      \* module -> the gates it declares
  approved    \* pairs <<module, target>> the planner has allowed and a
              \* maintainer has not written down yet

vars == <<state, boundary, reviews, gates, approved>>

-----------------------------------------------------------------------------
\* The GN import.

InferredState(m) ==
  CASE Sources[m] = "mixed" -> Bridged
    [] Sources[m] = "rust"  -> RustOwned
    [] OTHER                -> LegacyCpp

ImportedState(m) == IF InferState THEN InferredState(m) ELSE LegacyCpp

InferredBoundary(from, to) ==
  IF ~InferState \/ {from, to} = {LegacyCpp} THEN "cpp_internal"
  ELSE IF {from, to} = {RustOwned} THEN "rust"
  ELSE "unclassified"

\* An import that infers a state past legacy_cpp is refused without a gate.
ASSUME ImportAccepted ==
  (\E m \in Modules : ImportedState(m) # LegacyCpp) => ImportGate # {}

Adopted == {m \in Modules : ImportedState(m) = RustOwned}

Init ==
  /\ state    = [m \in Modules |-> ImportedState(m)]
  /\ boundary = [e \in Edges |->
                   InferredBoundary(ImportedState(e[1]), ImportedState(e[2]))]
  /\ reviews  = [f \in Findings |-> "absent"]
  /\ gates    = [m \in Modules |-> ImportGate]
  /\ approved = {}

-----------------------------------------------------------------------------
\* The planner.

Incident(m) == {e \in Edges : e[1] = m \/ e[2] = m}
Other(e, m) == IF e[1] = m THEN e[2] ELSE e[1]

IsNext(from, to) ==
  \/ from = LegacyCpp /\ to = Bridged
  \/ from = Bridged   /\ to = RustOwned

\* Some gate of m covers every required target.
GatesCover(m) ==
  /\ gates[m] # {}
  /\ \A t \in Required : \E g \in gates[m] : t \in GateTargets[g]

NoOpenReview(m) ==
  \A f \in Findings :
    Place[f] \in {<<m>>} \union Incident(m) => reviews[f] # "open"

\* Slip: dependencies first, an audited edge to C++ is not enough.
BoundarySafe_RustFirst(e, m) == state[Other(e, m)] = RustOwned

\* Slip: a bridge to a component that is Rust by now counts as left over.
BoundarySafe_NoBridge(e, m) ==
  state[Other(e, m)] = RustOwned <=> boundary[e] \notin Audited

\* An edge to a module that is already Rust-owned is not looked at further.
BoundarySafe(e, m) ==
  \/ state[Other(e, m)] = RustOwned
  \/ boundary[e] \in Audited

\* Slip: the dependents' side of the component is never looked at.
BoundariesSafe_OutgoingOnly(m) ==
  \A e \in {x \in Edges : x[1] = m} : BoundarySafe(e, m)

BoundariesSafe(m) == \A e \in Incident(m) : BoundarySafe(e, m)

\* assess_transition finds no blocker.
Allowed(m, target) ==
  /\ IsNext(state[m], target)
  /\ GatesCover(m)
  /\ target = RustOwned => NoOpenReview(m) /\ BoundariesSafe(m)

\* check-transition answers "allowed".
Assess(m, target) ==
  /\ Allowed(m, target)
  /\ approved' = approved \union {<<m, target>>}
  /\ UNCHANGED <<state, boundary, reviews, gates>>

-----------------------------------------------------------------------------
\* Edits of the manifest.

\* Manifest::validate refuses a non-legacy module without a gate, so no
\* command ever reads such a manifest.
ValidManifest(st, gs) == \A m \in Modules : st[m] # LegacyCpp => gs[m] # {}

\* An approved transition is written down, whatever has changed in between.
Promote(m, target) ==
  /\ <<m, target>> \in approved
  /\ IsNext(state[m], target)
  /\ state' = [state EXCEPT ![m] = target]
  /\ approved' = approved \ {<<m, target>>}
  /\ ValidManifest(state', gates)
  /\ UNCHANGED <<boundary, reviews, gates>>

SetGates(m, S) ==
  /\ gates' = [gates EXCEPT ![m] = S]
  /\ ValidManifest(state, gates')
  /\ UNCHANGED <<state, boundary, reviews, approved>>

\* A maintainer classifies an edge; a native Rust edge needs Rust at both ends.
Classify(e, b) ==
  /\ \/ boundary[e] \in Unaudited /\ b \in Audited
     \/ b = "rust" /\ state[e[1]] = RustOwned /\ state[e[2]] = RustOwned
  /\ boundary' = [boundary EXCEPT ![e] = b]
  /\ UNCHANGED <<state, reviews, gates, approved>>

Resolve(f) ==
  /\ reviews[f] = "open"
  /\ reviews' = [reviews EXCEPT ![f] = "resolved"]
  /\ UNCHANGED <<state, boundary, gates, approved>>

\* Slip: contradicting evidence takes back a label.
ScannedBoundary_Reset(current, found) ==
  CASE Cardinality(found) > 1                            -> "unclassified"
    [] Cardinality(found) = 1 /\ current \in Unaudited -> CHOOSE b \in found : TRUE
    [] OTHER                                             -> current

\* The boundary an edge has after a scan that found evidence of the kinds in
\* found: only unanimous evidence, and only over an unaudited label.
ScannedBoundary(current, found) ==
  IF current \in Unaudited /\ Cardinality(found) = 1
    THEN CHOOSE b \in found : TRUE
    ELSE current

\* Slip: the finding of this scan replaces the one on record.
MergedReview_Reopens(current) == "open"

\* merge_reviews: a finding already on record keeps its decision.
MergedReview(current) == IF current = "absent" THEN "open" ELSE current

\* scan-boundaries over sources that show evidence[e] on edge e and the
\* findings in seen, its output taken over as the new manifest.
Scan(evidence, seen) ==
  /\ boundary' = [e \in Edges |-> ScannedBoundary(boundary[e], evidence[e])]
  /\ reviews'  = [f \in Findings |->
                    IF f \in seen THEN MergedReview(reviews[f])
                                  ELSE reviews[f]]
  /\ UNCHANGED <<state, gates, approved>>

Next ==
  \/ \E m \in Modules, t \in States : Assess(m, t)
  \/ \E m \in Modules, t \in States : Promote(m, t)
  \/ \E m \in Modules, S \in SUBSET Gates : SetGates(m, S)
  \/ \E e \in Edges, b \in Boundaries : Classify(e, b)
  \/ \E f \in Findings : Resolve(f)
  \/ \E ev \in [Edges -> SUBSET Mechanisms], s \in SUBSET Findings : Scan(ev, s)

Spec == Init /\ [][Next]_vars
-----------------------------------------------------------------------------
\* Properties

TypeOK ==
  /\ state \in [Modules -> States]
  /\ boundary \in [Edges -> Boundaries]
  /\ reviews \in [Findings -> {"absent", "open", "resolved"}]
  /\ gates \in [Modules -> SUBSET Gates]
  /\ approved \subseteq Modules \X States

\* A component the planner let become Rust-owned borders code that is not
\* Rust-owned only over cxx, c_abi or mojo: whatever the order of promotions,
\* however stale the approval that was written down (assess_outgoing_boundaries
\* and assess_incoming_boundaries, with the scanner's refusal to replace an
\* audited label).
CrossingsAudited ==
  \A m \in Modules \ Adopted : state[m] = RustOwned =>
    \A e \in Incident(m) :
      state[Other(e, m)] # RustOwned => boundary[e] \in Audited

\* An approval that is still to be written down has not lost its boundaries.
ApprovalsSafe ==
  \A m \in Modules : <<m, RustOwned>> \in approved => BoundariesSafe(m)

\* The strengthening that is inductive.
IInv == TypeOK /\ CrossingsAudited /\ ApprovalsSafe

\* No component waits on another one: when every boundary is justified, no
\* review is open and the gates cover the required targets, each unfinished
\* component may take its next step, so the order of promotions is free.
OrderFree ==
  /\ \A e \in Edges : boundary[e] \notin Unaudited
  /\ \A f \in Findings : reviews[f] # "open"
  /\ \A m \in Modules : GatesCover(m)
  => \A m \in Modules : state[m] # RustOwned =>
       \E t \in States : Allowed(m, t)

\* Promoting one component never takes away another one's permission
\* (assess_transition reads its neighbours' states).
PromotionsIndependent ==
  [][\A m, n \in Modules : m # n /\ state'[n] # state[n] =>
       \A t \in States : Allowed(m, t) => Allowed(m, t)']_vars

\* A maintainer's decisions survive every later scan: a resolved review is not
\* reopened, and an audited label changes only to rust between Rust components
\* (merge_reviews, and the label match in scan_manifest).
DecisionsSurvive ==
  [][/\ \A f \in Findings : reviews[f] = "resolved" => reviews'[f] = "resolved"
     /\ \A e \in Edges : boundary[e] \in Audited =>
          \/ boundary'[e] = boundary[e]
          \/ boundary'[e] = "rust" /\ state[e[1]] = RustOwned
                                   /\ state[e[2]] = RustOwned]_vars

\* The planner implements its promise.
Promise == INSTANCE Ownership WITH
  owned   <- {m \in Modules : state[m] = RustOwned},
  audited <- {e \in Edges : boundary[e] \notin Unaudited}

ImplementsOwnership == Promise!Spec
=============================================================================
