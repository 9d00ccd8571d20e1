----------------------------- MODULE Candidates -----------------------------
(***************************************************************************)
(* From OWNERS files to candidates: scan-owners writes what it finds into  *)
(* a manifest, rank-components reads that manifest, with a coverage report *)
(* or without, and the planner judges the modules it proposes.             *)
(***************************************************************************)
EXTENDS OwnersScan, Components

CONSTANTS
  Ids,       \* the modules of Manifests, in order
  Rests,     \* Rests[ms]: what else may be in the manifest with modules ms
  Reports    \* Reports[ms]: its coverage reports, NoReport among them

ASSUME CandidatesAssumption ==
  /\ IsFiniteSet(Modules) /\ IsFiniteSet(Required) /\ Deps \subseteq Modules \X Modules
  /\ \A m \in Modules : m \in ToSet(Ids)
  /\ \A ms \in Manifests :
       /\ DOMAIN ms = DOMAIN Ids /\ \A i \in DOMAIN ms : ms[i] \in Seq(ToSet(ms[i]))
       /\ \A rest \in Rests[ms] :
            /\ "sources" \notin DOMAIN rest
            /\ {"state", "boundary", "reviews", "open", "gates", "owner"} \subseteq DOMAIN rest
            /\ rest.boundary \in [Deps -> Unaudited \union Audited \union {"rust"}]
            /\ rest.reviews \in [Modules -> Nat] /\ rest.open \in [Deps -> Nat]
       /\ \A report \in Reports[ms] : \A s \in DOMAIN report :
            report[s].count \in Nat /\ report[s].covered \in 0 .. report[s].count

\* The label rust joins Rust-owned modules, as it does in every manifest that
\* was imported, scanned and edited as the planner asks.
NativeManifests ==
  \A ms \in Manifests : \A rest \in Rests[ms], d \in Deps :
    rest.boundary[d] = "rust" =>
      rest.state[d[1]] = "rust_owned" /\ rest.state[d[2]] = "rust_owned"

NoManifest == [none |-> TRUE]
ranked == <<manifest, ownership, coverage>>

CandidatesInit ==
  /\ Init
  /\ manifest = NoManifest
  /\ ownership = [m \in Modules |-> [primary |-> {}, unresolved |-> {}]]
  /\ coverage = NoReport

\* The annotated manifest is written, and rank-components reads it.
Rank(rest, report) ==
  /\ status = "done" /\ manifest = NoManifest
  /\ manifest' = [field \in DOMAIN rest \union {"sources"} |->
                    IF field = "sources"
                      THEN [m \in Modules |->
                              ToSet(modules[CHOOSE i \in DOMAIN Ids : Ids[i] = m])]
                      ELSE rest[field]]
  /\ ownership' = [m \in Modules |->
                    LET i == CHOOSE k \in DOMAIN Ids : Ids[k] = m
                    IN  [primary |-> PrimaryOwners(i), unresolved |-> Unresolved(i)]]
  /\ coverage' = report
  /\ UNCHANGED vars

CandidatesNext ==
  \/ Next /\ UNCHANGED ranked
  \/ \E rest \in Rests[modules], report \in Reports[modules] : Rank(rest, report)

CandidatesSpec ==
  CandidatesInit /\ [][CandidatesNext]_<<vars, ranked>> /\ WF_vars(Step)

-----------------------------------------------------------------------------
\* The planner, reading the same manifest.
Planner == INSTANCE Lifecycle WITH
  Edges <- Deps, Findings <- {<<m>> : m \in Modules} \union Deps,
  Place <- [f \in {<<m>> : m \in Modules} \union Deps |-> f],
  Gates <- DOMAIN GateTargets, ImportGate <- {}, InferState <- FALSE,
  Sources <- [m \in Modules |-> "cpp"], Mechanisms <- {}, approved <- {},
  state <- manifest.state, boundary <- manifest.boundary, gates <- manifest.gates,
  reviews <- [f \in {<<m>> : m \in Modules} \union Deps |->
                IF (IF f \in Deps THEN manifest.open[f] ELSE manifest.reviews[f[1]]) > 0
                  THEN "open" ELSE "absent"]

-----------------------------------------------------------------------------
\* Properties

\* Two modules are proposed as one component exactly when the same people own
\* them by the OWNERS files, or by the manifest where these name nobody, and
\* they lie in one place: however names are spelled, no two components share an
\* identifier (module_owner_key, assign_component_ids).
ComponentsKeepOwners ==
  manifest # NoManifest =>
    LET of == ComponentOf
    IN  \A m, n \in Modules : of[m] = of[n] <=> GroupOf(m) = GroupOf(n)

\* When the manifest requires a target (Required # {}) and labels an edge rust
\* only between modules that are Rust-owned already (NativeManifests, as
\* planning keeps it), the planner finds no blocker of a module of a ready
\* component but inside of that component: its border is audited in both
\* directions, its gates cover the required targets module by module, and
\* nothing on it waits for a review (summarize_component against
\* assess_transition).  Without a required target ranking is content with one
\* gate for a component, and the planner wants one for every module.
ReadyHasNoOuterBlocker ==
  manifest # NoManifest =>
    LET of == ComponentOf
    IN  \A c \in Candidates(of) : Eligible(of, c) =>
          \A m \in Members(of, c) :
            /\ Planner!GatesCover(m)
            /\ Planner!NoOpenReview(m)
            /\ \A e \in Planner!Incident(m) :
                 of[Planner!Other(e, m)] # c => Planner!BoundarySafe(e, m)

\* A component pays nothing for coverage only when there is nothing left to
\* cover: basis points are rounded down and the penalty up, and neither a few
\* fully covered files nor a few covered lines pass for all of them
\* (measured_source_coverage, coverage_risk_penalties).
NoPenaltyMeansCovered ==
  manifest # NoManifest =>
    LET of == ComponentOf
    IN  \A c \in Candidates(of) : CoveragePenalty(of, c) = 0 =>
          IF coverage = NoReport
            THEN \A m \in Members(of, c), t \in Required :
                   \E g \in manifest.gates[m] : t \in GateTargets[g]
            ELSE \A s \in SourcesOf(of, c) :
                   s \in DOMAIN coverage /\ coverage[s].covered = coverage[s].count
=============================================================================
