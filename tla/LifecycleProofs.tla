-------------------------- MODULE LifecycleProofs --------------------------
(***************************************************************************)
(* The lifecycle of a manifest, for every set of modules, edges, findings  *)
(* and gates; and the import it begins with, which selects what was asked  *)
(* for, gives every module its nearest modules and fails only for a        *)
(* reason, for any project and options and whatever order labels are       *)
(* taken in.                                                               *)
(***************************************************************************)
EXTENDS Lifecycle, GnImport, FiniteSetTheorems, TLAPS

\* The three migration states differ; most leaves need it.
LEMMA StatesDiffer ==
  /\ LegacyCpp # Bridged
  /\ LegacyCpp # RustOwned
  /\ Bridged # RustOwned
  /\ LegacyCpp \in States /\ Bridged \in States /\ RustOwned \in States
BY DEF LegacyCpp, Bridged, RustOwned, States

\* No module leaves RustOwned, and a module that enters it was Bridged
\* (MigrationState::next).
LEMMA PromoteKeepsRust ==
  ASSUME TypeOK, NEW m \in Modules, NEW t \in States, Promote(m, t)
  PROVE  /\ \A n \in Modules : state[n] = RustOwned => state'[n] = RustOwned
         /\ \A n \in Modules : state'[n] = RustOwned =>
              state[n] = RustOwned \/ (n = m /\ t = RustOwned)
<1>1. state' = [state EXCEPT ![m] = t] /\ IsNext(state[m], t)
  BY DEF Promote
<1>2. state[m] # RustOwned
  BY <1>1, StatesDiffer DEF IsNext
<1>3. QED
  BY <1>1, <1>2 DEF TypeOK

\* A scan leaves an audited label alone and writes only boundary labels.
LEMMA ScanKeepsAudited ==
  ASSUME NEW b \in Boundaries, NEW detected \in SUBSET Mechanisms
  PROVE  /\ ScannedBoundary(b, detected) \in Boundaries
         /\ b \notin Unaudited => ScannedBoundary(b, detected) = b
<1>1. CASE b \in Unaudited /\ Cardinality(detected) = 1
  <2>1. detected # {}
    <3>1. Cardinality({}) = 0
      BY FS_EmptySet
    <3>2. QED
      BY <1>1, <3>1
  <2>2. ScannedBoundary(b, detected) \in detected
    BY <1>1, <2>1 DEF ScannedBoundary
  <2>3. QED
    BY <1>1, <2>2, LifecycleAssumption DEF Boundaries
<1>2. CASE ~(b \in Unaudited /\ Cardinality(detected) = 1)
  BY <1>2 DEF ScannedBoundary
<1>3. QED
  BY <1>1, <1>2

-----------------------------------------------------------------------------
\* Type correctness.

LEMMA InitType == Init => TypeOK
<1> SUFFICES ASSUME Init PROVE TypeOK
  OBVIOUS
<1>1. \A m \in Modules : ImportedState(m) \in States
  BY LifecycleAssumption, StatesDiffer DEF ImportedState, InferredState
<1>2. \A from, to : InferredBoundary(from, to) \in Boundaries
  BY DEF InferredBoundary, Boundaries, Unaudited
<1>3. QED
  BY <1>1, <1>2, LifecycleAssumption DEF Init, TypeOK

LEMMA NextType == TypeOK /\ [Next]_vars => TypeOK'
<1> SUFFICES ASSUME TypeOK, [Next]_vars PROVE TypeOK'
  OBVIOUS
<1>1. ASSUME NEW m \in Modules, NEW t \in States, Assess(m, t) PROVE TypeOK'
  BY <1>1 DEF TypeOK, Assess
<1>2. ASSUME NEW m \in Modules, NEW t \in States, Promote(m, t) PROVE TypeOK'
  BY <1>2 DEF TypeOK, Promote
<1>3. ASSUME NEW m \in Modules, NEW S \in SUBSET Gates, SetGates(m, S)
      PROVE  TypeOK'
  BY <1>3 DEF TypeOK, SetGates
<1>4. ASSUME NEW e \in Edges, NEW b \in Boundaries, Classify(e, b) PROVE TypeOK'
  BY <1>4 DEF TypeOK, Classify
<1>5. ASSUME NEW f \in Findings, Resolve(f) PROVE TypeOK'
  BY <1>5 DEF TypeOK, Resolve
<1>6. ASSUME NEW ev \in [Edges -> SUBSET Mechanisms], NEW s \in SUBSET Findings,
             Scan(ev, s)
      PROVE  TypeOK'
  <2>1. boundary' \in [Edges -> Boundaries]
    BY <1>6, ScanKeepsAudited DEF TypeOK, Scan
  <2>2. reviews' \in [Findings -> {"absent", "open", "resolved"}]
    BY <1>6 DEF TypeOK, Scan, MergedReview
  <2>3. QED
    BY <1>6, <2>1, <2>2 DEF TypeOK, Scan
<1>7. CASE UNCHANGED vars
  BY <1>7 DEF TypeOK, vars
<1>8. QED
  BY <1>1, <1>2, <1>3, <1>4, <1>5, <1>6, <1>7 DEF Next

\* Every reachable manifest is well typed.
THEOREM TypeCorrect == Spec => []TypeOK
BY InitType, NextType, PTL DEF Spec

-----------------------------------------------------------------------------
\* Crossings.

\* The far end of an incident edge is a module.
LEMMA OtherIsModule ==
  ASSUME NEW m \in Modules, NEW e \in Incident(m)
  PROVE  /\ e \in Edges
         /\ Other(e, m) \in Modules
         /\ Other(e, m) = e[1] \/ Other(e, m) = e[2]
BY LifecycleAssumption DEF Incident, Other

\* What is safe stays safe while states stand still, approvals only go away
\* and a label leaves the audited ones only between two Rust components.
LEMMA RelabelKeepsSafe ==
  ASSUME TypeOK, CrossingsAudited, ApprovalsSafe,
         state' = state, approved' \subseteq approved,
         \A e \in Edges : boundary[e] \in Audited =>
           \/ boundary'[e] \in Audited
           \/ state[e[1]] = RustOwned /\ state[e[2]] = RustOwned
  PROVE  CrossingsAudited' /\ ApprovalsSafe'
<1>1. ASSUME NEW m \in Modules, NEW e \in Incident(m), BoundarySafe(e, m)
      PROVE  BoundarySafe(e, m)'
  BY <1>1, OtherIsModule DEF BoundarySafe, Other
<1>2. CrossingsAudited'
  <2>1. SUFFICES ASSUME NEW m \in Modules, m \notin Adopted,
                        state[m] = RustOwned, NEW e \in Incident(m),
                        state[Other(e, m)] # RustOwned
                 PROVE  boundary'[e] \in Audited
    BY DEF CrossingsAudited, Incident, Other
  <2>2. BoundarySafe(e, m)
    BY <2>1 DEF CrossingsAudited, BoundarySafe
  <2>3. QED
    BY <1>1, <2>1, <2>2 DEF BoundarySafe, Other
<1>3. ApprovalsSafe'
  <2>1. SUFFICES ASSUME NEW m \in Modules, <<m, RustOwned>> \in approved',
                        NEW e \in Incident(m)
                 PROVE  BoundarySafe(e, m)'
    BY DEF ApprovalsSafe, BoundariesSafe, Incident
  <2>2. BoundarySafe(e, m)
    BY <2>1 DEF ApprovalsSafe, BoundariesSafe
  <2>3. QED
    BY <1>1, <2>2
<1>4. QED
  BY <1>2, <1>3

\* Promoting m uses the approval of m; every other module only sees one more
\* Rust-owned neighbour.
LEMMA PromoteKeepsSafe ==
  ASSUME IInv, NEW m \in Modules, NEW t \in States, Promote(m, t)
  PROVE  CrossingsAudited' /\ ApprovalsSafe'
<1> USE DEF IInv
<1>1. /\ boundary' = boundary
      /\ approved' \subseteq approved
      /\ <<m, t>> \in approved
  BY DEF Promote
<1>2. ASSUME NEW n \in Modules, NEW e \in Incident(n), BoundarySafe(e, n)
      PROVE  BoundarySafe(e, n)'
  BY <1>1, <1>2, PromoteKeepsRust, OtherIsModule DEF BoundarySafe, Other
<1>3. CrossingsAudited'
  <2>1. SUFFICES ASSUME NEW n \in Modules, n \notin Adopted,
                        state'[n] = RustOwned, NEW e \in Incident(n),
                        state'[Other(e, n)] # RustOwned
                 PROVE  boundary'[e] \in Audited
    BY DEF CrossingsAudited, Incident, Other
  <2>2. BoundarySafe(e, n)
    <3>1. CASE state[n] = RustOwned
      BY <2>1, <3>1 DEF CrossingsAudited, BoundarySafe
    <3>2. CASE n = m /\ t = RustOwned
      BY <1>1, <2>1, <3>2 DEF ApprovalsSafe, BoundariesSafe
    <3>3. QED
      BY <2>1, <3>1, <3>2, PromoteKeepsRust
  <2>3. QED
    BY <1>2, <2>1, <2>2 DEF BoundarySafe, Other
<1>4. ApprovalsSafe'
  <2>1. SUFFICES ASSUME NEW n \in Modules, <<n, RustOwned>> \in approved',
                        NEW e \in Incident(n)
                 PROVE  BoundarySafe(e, n)'
    BY DEF ApprovalsSafe, BoundariesSafe, Incident
  <2>2. BoundarySafe(e, n)
    BY <1>1, <2>1 DEF ApprovalsSafe, BoundariesSafe
  <2>3. QED
    BY <1>2, <2>2
<1>5. QED
  BY <1>3, <1>4

LEMMA InitSafe == Init => CrossingsAudited /\ ApprovalsSafe
<1> SUFFICES ASSUME Init PROVE CrossingsAudited /\ ApprovalsSafe
  OBVIOUS
<1>1. \A m \in Modules \ Adopted : state[m] # RustOwned
  BY DEF Init, Adopted
<1>2. QED
  BY <1>1 DEF Init, CrossingsAudited, ApprovalsSafe

LEMMA NextSafe == IInv /\ [Next]_vars => IInv'
<1> SUFFICES ASSUME IInv, [Next]_vars PROVE CrossingsAudited' /\ ApprovalsSafe'
  BY NextType DEF IInv
<1> USE DEF IInv
<1>1. ASSUME NEW m \in Modules, NEW t \in States, Assess(m, t)
      PROVE  CrossingsAudited' /\ ApprovalsSafe'
  <2>1. UNCHANGED <<state, boundary>> /\ approved' = approved \union {<<m, t>>}
    BY <1>1 DEF Assess
  <2>2. t = RustOwned => BoundariesSafe(m)
    BY <1>1 DEF Assess, Allowed
  <2>3. CrossingsAudited'
    BY <2>1 DEF CrossingsAudited, Incident, Other
  <2>4. \A n \in Modules : <<n, RustOwned>> \in approved' => BoundariesSafe(n)
    BY <2>1, <2>2 DEF ApprovalsSafe
  <2>5. \A n \in Modules : BoundariesSafe(n) => BoundariesSafe(n)'
    BY <2>1 DEF BoundariesSafe, BoundarySafe, Incident, Other
  <2>6. QED
    BY <2>3, <2>4, <2>5 DEF ApprovalsSafe
<1>2. ASSUME NEW m \in Modules, NEW t \in States, Promote(m, t)
      PROVE  CrossingsAudited' /\ ApprovalsSafe'
  BY <1>2, PromoteKeepsSafe
<1>3. ASSUME NEW m \in Modules, NEW S \in SUBSET Gates, SetGates(m, S)
      PROVE  CrossingsAudited' /\ ApprovalsSafe'
  BY <1>3, RelabelKeepsSafe DEF SetGates
<1>4. ASSUME NEW e \in Edges, NEW b \in Boundaries, Classify(e, b)
      PROVE  CrossingsAudited' /\ ApprovalsSafe'
  BY <1>4, RelabelKeepsSafe DEF Classify, TypeOK
<1>5. ASSUME NEW f \in Findings, Resolve(f)
      PROVE  CrossingsAudited' /\ ApprovalsSafe'
  BY <1>5, RelabelKeepsSafe DEF Resolve
<1>6. ASSUME NEW ev \in [Edges -> SUBSET Mechanisms], NEW s \in SUBSET Findings,
             Scan(ev, s)
      PROVE  CrossingsAudited' /\ ApprovalsSafe'
  <2>1. \A b \in Audited : b \notin Unaudited
    BY DEF Audited, Unaudited
  <2>2. \A e \in Edges : boundary[e] \in Audited => boundary'[e] = boundary[e]
    BY <1>6, <2>1, ScanKeepsAudited DEF Scan, TypeOK
  <2>3. QED
    BY <1>6, <2>2, RelabelKeepsSafe DEF Scan
<1>7. CASE UNCHANGED vars
  BY <1>7, RelabelKeepsSafe DEF vars
<1>8. QED
  BY <1>1, <1>2, <1>3, <1>4, <1>5, <1>6, <1>7 DEF Next

\* A component the planner let become Rust-owned borders foreign code only
\* over audited edges, in every manifest that can be reached.
THEOREM CrossingsSafe == Spec => []CrossingsAudited
<1>1. Init => IInv
  BY InitType, InitSafe DEF IInv
<1>2. IInv => CrossingsAudited
  BY DEF IInv
<1>3. QED
  BY <1>1, <1>2, NextSafe, PTL DEF Spec

\* Outstanding approvals keep their boundaries (same invariant).
THEOREM ApprovalsStaySafe == Spec => []ApprovalsSafe
<1>1. Init => IInv
  BY InitType, InitSafe DEF IInv
<1>2. IInv => ApprovalsSafe
  BY DEF IInv
<1>3. QED
  BY <1>1, <1>2, NextSafe, PTL DEF Spec

-----------------------------------------------------------------------------
\* Refinement.

Owned        == {m \in Modules : state[m] = RustOwned}
Justified    == {e \in Edges : boundary[e] \notin Unaudited}
PromiseStep  == [Promise!Next]_<<Owned, Justified>>

\* A step that leaves states alone and takes no justification back is an
\* Audit of the abstract module.
LEMMA JustifyingStep ==
  ASSUME state' = state, Justified \subseteq Justified'
  PROVE  PromiseStep
<1>1. Owned' = Owned
  BY DEF Owned
<1>2. Justified' \in SUBSET Edges /\ Justified' = Justified \union Justified'
  BY DEF Justified
<1>3. QED
  BY <1>1, <1>2 DEF PromiseStep, Promise!Next, Promise!Audit, Owned, Justified

LEMMA PromoteIsOwn ==
  ASSUME IInv, NEW m \in Modules, NEW t \in States, Promote(m, t)
  PROVE  PromiseStep
<1>1. /\ state' = [state EXCEPT ![m] = t]
      /\ IsNext(state[m], t)
      /\ boundary' = boundary
      /\ <<m, t>> \in approved
  BY DEF Promote
<1>2. Justified' = Justified
  BY <1>1 DEF Justified
<1>3. state[m] # RustOwned
  BY <1>1, StatesDiffer DEF IsNext
<1>4. CASE t = RustOwned
  <2>1. Owned' = Owned \union {m} /\ m \notin Owned
    BY <1>1, <1>3, <1>4 DEF Owned, IInv, TypeOK
  <2>2. ASSUME NEW e \in Incident(m), Other(e, m) \notin Owned
        PROVE  e \in Justified
    <3>1. BoundarySafe(e, m)
      BY <1>1, <1>4 DEF IInv, ApprovalsSafe, BoundariesSafe
    <3>2. boundary[e] \in Audited
      BY <2>2, <3>1, OtherIsModule DEF BoundarySafe, Owned
    <3>3. QED
      BY <3>2, OtherIsModule DEF Justified, Audited, Unaudited
  <2>3. Promise!Own(m)
    BY <1>2, <2>1, <2>2
       DEF Promise!Own, Promise!Incident, Promise!Other, Incident, Other,
           Owned, Justified
  <2>4. QED
    BY <2>3 DEF PromiseStep, Promise!Next
<1>5. CASE t # RustOwned
  <2>1. Owned' = Owned
    BY <1>1, <1>3, <1>5 DEF Owned, IInv, TypeOK
  <2>2. QED
    BY <1>2, <2>1 DEF PromiseStep
<1>6. QED
  BY <1>4, <1>5

LEMMA StepRefines == IInv /\ [Next]_vars => PromiseStep
<1> SUFFICES ASSUME IInv, [Next]_vars PROVE PromiseStep
  OBVIOUS
<1>1. ASSUME NEW m \in Modules, NEW t \in States, Assess(m, t) PROVE PromiseStep
  BY <1>1, JustifyingStep DEF Assess, Justified
<1>2. ASSUME NEW m \in Modules, NEW t \in States, Promote(m, t) PROVE PromiseStep
  BY <1>2, PromoteIsOwn
<1>3. ASSUME NEW m \in Modules, NEW S \in SUBSET Gates, SetGates(m, S)
      PROVE  PromiseStep
  BY <1>3, JustifyingStep DEF SetGates, Justified
<1>4. ASSUME NEW e \in Edges, NEW b \in Boundaries, Classify(e, b)
      PROVE  PromiseStep
  <2>1. b \notin Unaudited
    BY <1>4 DEF Classify, Audited, Unaudited
  <2>2. QED
    BY <1>4, <2>1, JustifyingStep DEF Classify, Justified, IInv, TypeOK
<1>5. ASSUME NEW f \in Findings, Resolve(f) PROVE PromiseStep
  BY <1>5, JustifyingStep DEF Resolve, Justified
<1>6. ASSUME NEW ev \in [Edges -> SUBSET Mechanisms], NEW s \in SUBSET Findings,
             Scan(ev, s)
      PROVE  PromiseStep
  <2>1. \A e \in Edges : boundary[e] \notin Unaudited => boundary'[e] = boundary[e]
    BY <1>6, ScanKeepsAudited DEF Scan, IInv, TypeOK
  <2>2. QED
    BY <1>6, <2>1, JustifyingStep DEF Scan, Justified
<1>7. CASE UNCHANGED vars
  BY <1>7, JustifyingStep DEF vars, Justified
<1>8. QED
  BY <1>1, <1>2, <1>3, <1>4, <1>5, <1>6, <1>7 DEF Next

\* The lifecycle implements the promise: a component only ever becomes
\* Rust-owned across justified edges (assess_transition, for any manifest).
THEOREM LifecycleImplementsOwnership == Spec => ImplementsOwnership
<1>1. Init => IInv
  BY InitType, InitSafe DEF IInv
<1>2. Init => Promise!Init
  BY DEF Init, Promise!Init, Adopted
<1>3. IInv /\ [Next]_vars => [Promise!Next]_(Promise!vars)
  BY StepRefines DEF PromiseStep, Promise!vars, Owned, Justified
<1>4. QED
  BY <1>1, <1>2, <1>3, NextSafe, PTL DEF Spec, Promise!Spec, ImplementsOwnership

-----------------------------------------------------------------------------
\* The order of promotions.

\* A native Rust edge joins two Rust-owned components: the import, the
\* maintainer and the scanner write that label nowhere else, and no component
\* goes back.
NativeEdges ==
  \A e \in Edges : boundary[e] = "rust" =>
    state[e[1]] = RustOwned /\ state[e[2]] = RustOwned

LEMMA InitNative == Init => NativeEdges
<1> SUFFICES ASSUME Init, NEW e \in Edges, boundary[e] = "rust"
             PROVE  state[e[1]] = RustOwned /\ state[e[2]] = RustOwned
  BY DEF NativeEdges
<1>1. InferredBoundary(ImportedState(e[1]), ImportedState(e[2])) = "rust"
  BY DEF Init
<1>2. {ImportedState(e[1]), ImportedState(e[2])} = {RustOwned}
  BY <1>1 DEF InferredBoundary
<1>3. QED
  BY <1>2, LifecycleAssumption DEF Init

LEMMA NextNative == TypeOK /\ NativeEdges /\ [Next]_vars => NativeEdges'
<1> SUFFICES ASSUME TypeOK, NativeEdges, [Next]_vars PROVE NativeEdges'
  OBVIOUS
<1>0. \A e \in Edges : e[1] \in Modules /\ e[2] \in Modules
  BY LifecycleAssumption
<1>1. ASSUME NEW m \in Modules, NEW t \in States, Promote(m, t) PROVE NativeEdges'
  BY <1>0, <1>1, PromoteKeepsRust DEF NativeEdges, Promote
<1>2. ASSUME NEW e \in Edges, NEW b \in Boundaries, Classify(e, b)
      PROVE  NativeEdges'
  <2>1. /\ boundary' = [boundary EXCEPT ![e] = b]
        /\ UNCHANGED state
        /\ b = "rust" => state[e[1]] = RustOwned /\ state[e[2]] = RustOwned
    BY <1>2 DEF Classify, Audited
  <2>2. QED
    BY <2>1 DEF NativeEdges, TypeOK
<1>3. ASSUME NEW ev \in [Edges -> SUBSET Mechanisms], NEW s \in SUBSET Findings,
             Scan(ev, s)
      PROVE  NativeEdges'
  <2>1. \A e \in Edges : boundary'[e] = boundary[e] \/ boundary'[e] \in Mechanisms
    <3>1. ASSUME NEW e \in Edges, boundary'[e] # boundary[e]
          PROVE  boundary'[e] \in Mechanisms
      <4>1. boundary'[e] = ScannedBoundary(boundary[e], ev[e])
        BY <1>3 DEF Scan
      <4>2. /\ boundary'[e] = (CHOOSE b \in ev[e] : TRUE)
            /\ Cardinality(ev[e]) = 1
        BY <3>1, <4>1 DEF ScannedBoundary
      <4>3. ev[e] # {}
        <5>1. Cardinality({}) = 0
          BY FS_EmptySet
        <5>2. QED
          BY <4>2, <5>1
      <4>4. QED
        BY <4>2, <4>3
    <3>2. QED
      BY <3>1
  <2>2. "rust" \notin Mechanisms
    BY LifecycleAssumption DEF Audited
  <2>3. QED
    BY <1>3, <2>1, <2>2 DEF NativeEdges, Scan
<1>4. CASE UNCHANGED <<state, boundary>>
  BY <1>4 DEF NativeEdges
<1>5. QED
  BY <1>1, <1>2, <1>3, <1>4 DEF Next, vars, Assess, SetGates, Resolve

\* Any manifest whose native edges are native satisfies OrderFree: of the two
\* ends of a justified edge one is Rust-owned, or the label is audited.
LEMMA NativeMeansFree == TypeOK /\ NativeEdges => OrderFree
<1> SUFFICES ASSUME TypeOK, NativeEdges,
                    \A e \in Edges : boundary[e] \notin Unaudited,
                    \A f \in Findings : reviews[f] # "open",
                    \A n \in Modules : GatesCover(n),
                    NEW m \in Modules, state[m] # RustOwned
             PROVE  \E t \in States : Allowed(m, t)
  BY DEF OrderFree
<1>1. CASE state[m] = LegacyCpp
  BY <1>1, StatesDiffer DEF Allowed, IsNext
<1>2. CASE state[m] = Bridged
  <2>1. NoOpenReview(m)
    BY DEF NoOpenReview
  <2>2. ASSUME NEW e \in Incident(m) PROVE BoundarySafe(e, m)
    <3>1. e \in Edges /\ (e[1] = m \/ e[2] = m)
      BY DEF Incident
    <3>2. boundary[e] \in Audited \/ boundary[e] = "rust"
      BY <3>1 DEF TypeOK, Boundaries
    <3>3. boundary[e] # "rust"
      BY <3>1 DEF NativeEdges
    <3>4. QED
      BY <3>2, <3>3 DEF BoundarySafe
  <2>3. Allowed(m, RustOwned)
    BY <1>2, <2>1, <2>2 DEF Allowed, IsNext, BoundariesSafe
  <2>4. QED
    BY <2>3, StatesDiffer
<1>3. QED
  BY <1>1, <1>2 DEF TypeOK, States

\* No component has to wait for another one, whatever the graph and its
\* cycles: with its own boundaries, reviews and gates in order it may always
\* take its next step (assess_transition).
THEOREM PromotionOrderIsFree == Spec => []OrderFree
<1>1. Init => TypeOK /\ NativeEdges
  BY InitType, InitNative
<1>2. TypeOK /\ NativeEdges /\ [Next]_vars => (TypeOK /\ NativeEdges)'
  BY NextType, NextNative
<1>3. QED
  BY <1>1, <1>2, NativeMeansFree, PTL DEF Spec

\* One promotion takes no permission from another component: it turns that
\* component's neighbour more Rust-owned and changes no label, review or gate.
LEMMA StepIndependent ==
  TypeOK /\ [Next]_vars =>
    \A m, n \in Modules : m # n /\ state'[n] # state[n] =>
      \A t \in States : Allowed(m, t) => Allowed(m, t)'
<1> SUFFICES ASSUME TypeOK, [Next]_vars, NEW m \in Modules, NEW n \in Modules,
                    m # n, state'[n] # state[n], NEW t \in States, Allowed(m, t)
             PROVE  Allowed(m, t)'
  OBVIOUS
<1>1. PICK p \in Modules, to \in States : Promote(p, to)
  BY DEF Next, vars, Assess, SetGates, Classify, Resolve, Scan
<1>2. /\ state' = [state EXCEPT ![p] = to]
      /\ UNCHANGED <<boundary, reviews, gates>>
  BY <1>1 DEF Promote
<1>3. p = n /\ state'[m] = state[m]
  BY <1>2 DEF TypeOK
<1>4. GatesCover(m)'
  BY <1>2 DEF Allowed, GatesCover
<1>5. NoOpenReview(m) => NoOpenReview(m)'
  BY <1>2 DEF NoOpenReview, Incident
<1>6. BoundariesSafe(m) => BoundariesSafe(m)'
  <2>1. SUFFICES ASSUME NEW e \in Incident(m), BoundarySafe(e, m)
                 PROVE  BoundarySafe(e, m)'
    BY DEF BoundariesSafe, Incident
  <2>2. state[Other(e, m)] = RustOwned => state'[Other(e, m)] = RustOwned
    BY <1>1, PromoteKeepsRust, OtherIsModule
  <2>3. QED
    BY <1>2, <2>1, <2>2 DEF BoundarySafe, Other
<1>7. QED
  BY <1>3, <1>4, <1>5, <1>6 DEF Allowed

\* Promoting one component never takes away another one's permission, in any
\* graph (assess_transition reads only states, which never go back).
THEOREM PromotionsStayIndependent == Spec => PromotionsIndependent
BY InitType, NextType, StepIndependent, PTL DEF Spec, PromotionsIndependent

\* What one step does to decided reviews and audited labels.
LEMMA StepKeepsDecisions ==
  TypeOK /\ [Next]_vars =>
    /\ \A f \in Findings : reviews[f] = "resolved" => reviews'[f] = "resolved"
    /\ \A e \in Edges : boundary[e] \in Audited =>
         \/ boundary'[e] = boundary[e]
         \/ boundary'[e] = "rust" /\ state[e[1]] = RustOwned
                                  /\ state[e[2]] = RustOwned
<1> SUFFICES ASSUME TypeOK, [Next]_vars
    PROVE /\ \A f \in Findings : reviews[f] = "resolved" => reviews'[f] = "resolved"
          /\ \A e \in Edges : boundary[e] \in Audited =>
               \/ boundary'[e] = boundary[e]
               \/ boundary'[e] = "rust" /\ state[e[1]] = RustOwned
                                        /\ state[e[2]] = RustOwned
  OBVIOUS
<1>0. \A b \in Audited : b \notin Unaudited
  BY DEF Audited, Unaudited
<1>1. CASE UNCHANGED <<boundary, reviews>>
  BY <1>1
<1>2. ASSUME NEW x \in Edges, NEW b \in Boundaries, Classify(x, b)
      PROVE  /\ UNCHANGED reviews
             /\ \A e \in Edges : boundary[e] \in Audited =>
                  \/ boundary'[e] = boundary[e]
                  \/ boundary'[e] = "rust" /\ state[e[1]] = RustOwned
                                           /\ state[e[2]] = RustOwned
  BY <1>0, <1>2 DEF Classify, TypeOK
<1>3. ASSUME NEW f \in Findings, Resolve(f)
      PROVE  /\ UNCHANGED boundary
             /\ \A g \in Findings : reviews[g] = "resolved" => reviews'[g] = "resolved"
  BY <1>3 DEF Resolve, TypeOK
<1>4. ASSUME NEW ev \in [Edges -> SUBSET Mechanisms], NEW s \in SUBSET Findings,
             Scan(ev, s)
      PROVE  /\ \A f \in Findings : reviews[f] = "resolved" => reviews'[f] = "resolved"
             /\ \A e \in Edges : boundary[e] \in Audited => boundary'[e] = boundary[e]
  <2>1. \A f \in Findings : reviews[f] = "resolved" => reviews'[f] = "resolved"
    BY <1>4 DEF Scan, MergedReview
  <2>2. \A e \in Edges : boundary[e] \in Audited => boundary'[e] = boundary[e]
    BY <1>0, <1>4, ScanKeepsAudited DEF Scan, TypeOK
  <2>3. QED
    BY <2>1, <2>2
<1>5. QED
  BY <1>1, <1>2, <1>3, <1>4 DEF Next, vars, Assess, Promote, SetGates

\* A maintainer's decisions survive every later scan (merge_reviews, and the
\* label match in scan_manifest).
THEOREM DecisionsAreKept == Spec => DecisionsSurvive
BY InitType, NextType, StepKeepsDecisions, PTL DEF Spec, DecisionsSurvive

-----------------------------------------------------------------------------
(***************************************************************************)
(* The import.  Both worklists are shown to stay inside every set that is  *)
(* closed as the reference definition asks, and to be such a set once      *)
(* nothing is left to look at.  The search for circles is inside a path    *)
(* and has left behind what holds no circle.                               *)
(***************************************************************************)

\* The closure so far: inside every closed set, and closed up to pending.
ClosureInv ==
  /\ selected \subseteq Eligible /\ pending \subseteq Eligible
  /\ RootsUsable
  /\ IF options.roots = {} THEN pending = {} /\ selected = Eligible
     ELSE /\ \A S \in SUBSET Eligible : Closed(S) => selected \union pending \subseteq S
          /\ Resolved(options.roots) \subseteq selected \union pending
          /\ \A l \in selected : Deps(l) \cap Eligible \subseteq selected \union pending

\* The modules met so far are inside whatever leads from m, and they are all
\* of it up to todo.
ModuleInv(m) ==
  /\ visited \subseteq selected \ Imported /\ found \subseteq Imported
  /\ \A S \in SUBSET selected :
       Leads(selected, m, S) => visited \union found \union (todo \cap selected) \subseteq S
  /\ Deps(m) \cap selected \subseteq visited \union found \union todo
  /\ \A l \in visited : Deps(l) \cap selected \subseteq visited \union found \union todo

\* Modules of S lead to modules of S.
Circle(S) == S # {} /\ \A m \in S : edges[m] \cap S # {}

\* find_cycle: it is inside a path, and what it is through leads to nothing else
\* and holds no circle.
SearchInv ==
  /\ DOMAIN edges = Imported
  /\ stack \in Seq(Imported) /\ complete \subseteq Imported
  /\ \A i, j \in DOMAIN stack : j = i + 1 => stack[j] \in edges[stack[i]]
  /\ \A m \in complete : edges[m] \subseteq complete
  /\ \A S \in SUBSET complete : ~Circle(S)

ImportInv ==
  /\ at \in {"roots", "closure", "modules", "validate", "done", "failed"}
  /\ at = "closure" => ClosureInv
  /\ at \in {"modules", "validate", "done"} => selected = Asked /\ ~Refused
  /\ at = "failed" => Refused \/ Circular
  /\ at \in {"roots", "closure", "modules"} => stack = <<>> /\ complete = {}
  /\ at = "validate" => SearchInv
  /\ at = "done" => ~Circular
  /\ at # "modules" => module = None
  /\ module = None \/ \E m \in Imported : module = Some(m) /\ ModuleInv(m)
  /\ DOMAIN edges \subseteq Imported
  /\ \A m \in DOMAIN edges : edges[m] = Nearest(selected, m)
  /\ at \in {"roots", "closure"} => DOMAIN edges = {}

-----------------------------------------------------------------------------
\* What depends on the project and the options only does not change.
LEMMA Static ==
  ASSUME UNCHANGED <<project, options>>
  PROVE  /\ \A n : ResolveLabel(n)' = ResolveLabel(n)
         /\ \A l : Deps(l)' = Deps(l)
         /\ \A C : ModulesOf(C)' = ModulesOf(C)
         /\ \A C, m, S : Leads(C, m, S)' = Leads(C, m, S)
         /\ \A C, m : Nearest(C, m)' = Nearest(C, m)
         /\ Resolved(options.roots)' = Resolved(options.roots)
         /\ Eligible' = Eligible
         /\ RootsUsable' = RootsUsable
         /\ \A S : Closed(S)' = Closed(S)
         /\ Asked' = Asked
         /\ Refused' = Refused
         /\ Circular' = Circular
<1>1. \A l : IsDefaultToolchain(l)' = IsDefaultToolchain(l)
  BY DEF IsDefaultToolchain
<1>2. \A n : Aliased(n)' = Aliased(n)
  BY <1>1 DEF Aliased
<1>3. \A n : ResolveLabel(n)' = ResolveLabel(n)
  BY <1>2 DEF ResolveLabel
<1>4. \A l : Deps(l)' = Deps(l)
  BY <1>3 DEF Deps, Resolved
<1>5. Resolved(options.roots)' = Resolved(options.roots)
  BY <1>3 DEF Resolved
<1>6. Eligible' = Eligible
  BY <1>1 DEF Eligible
<1>7. RootsUsable' = RootsUsable
  BY <1>3, <1>5, <1>6 DEF RootsUsable, Resolvable
<1>8. \A S : Closed(S)' = Closed(S)
  BY <1>4, <1>5, <1>6 DEF Closed
<1>9. Asked' = Asked
  BY <1>6, <1>8 DEF Asked, Closure
<1>10. \A l : Resolvable(project.deps[l])' = Resolvable(project.deps[l])
  BY <1>3 DEF Resolvable
<1>11. \A l : HasRust(l)' = HasRust(l)
  BY DEF HasRust
<1>12. \A C : ModulesOf(C)' = ModulesOf(C)
  BY DEF ModulesOf
<1>13. Refused' = Refused
  BY <1>7, <1>9, <1>10, <1>11, <1>12 DEF Refused
<1>14. \A C, m, S : Leads(C, m, S)' = Leads(C, m, S)
  BY <1>4, <1>12 DEF Leads
<1>15. \A C, m : Nearest(C, m)' = Nearest(C, m)
  BY <1>12, <1>14 DEF Nearest
<1>16. Circular' = Circular
  BY <1>9, <1>12, <1>15 DEF Circular
<1> QED BY <1>3, <1>4, <1>5, <1>6, <1>7, <1>8, <1>9, <1>12, <1>13, <1>14, <1>15, <1>16

\* Once the selection stands, so does what the modules' dependencies have to be.
LEMMA StaticModules ==
  ASSUME UNCHANGED <<project, options, selected>>
  PROVE  /\ Imported' = Imported
         /\ \A m, S : Leads(selected, m, S)' = Leads(selected, m, S)
         /\ \A m : Nearest(selected, m)' = Nearest(selected, m)
<1>1. Imported' = Imported
  BY DEF Imported, ModulesOf
<1>2. \A m, S : Leads(selected, m, S)' = Leads(selected, m, S)
  BY DEF Leads, Deps, Resolved, ResolveLabel, Aliased, IsDefaultToolchain, ModulesOf
<1> QED BY <1>1, <1>2 DEF Nearest, Imported

\* A closure with nothing left to look at is the closure asked for
\* (select_root_closure).
LEMMA ClosureEnds ==
  ASSUME ClosureInv, pending = {}
  PROVE  selected = Asked
<1>1. CASE options.roots = {}
  BY <1>1 DEF ClosureInv, Asked
<1>2. CASE options.roots # {}
  <2>1. selected \in SUBSET Eligible /\ Closed(selected)
    BY <1>2 DEF ClosureInv, Closed
  <2>2. \A S \in SUBSET Eligible : Closed(S) => selected \subseteq S
    BY <1>2 DEF ClosureInv
  <2>3. selected = Closure
    BY <2>1, <2>2 DEF Closure
  <2> QED BY <1>2, <2>3 DEF Asked
<1> QED BY <1>1, <1>2

\* A label that is pending is one that was asked for.
LEMMA PendingAsked ==
  ASSUME ClosureInv, NEW l \in pending
  PROVE  l \in Asked
<1>1. options.roots # {} /\ l \in Eligible
  BY DEF ClosureInv
<1>2. \A S \in SUBSET Eligible : Closed(S) => l \in S
  BY <1>1 DEF ClosureInv
<1> QED BY <1>1, <1>2 DEF Asked, Closure

\* A search with nothing left to follow has found the nearest modules
\* (collect_effective_dependencies).
LEMMA ModuleEnds ==
  ASSUME NEW m \in Imported, ModuleInv(m), todo = {}
  PROVE  found \ {m} = Nearest(selected, m)
<1>1. visited \union found \in SUBSET selected
  BY DEF ModuleInv, Imported, ModulesOf
<1>2. (visited \union found) \ Imported = visited
  BY DEF ModuleInv
<1>3. Leads(selected, m, visited \union found)
  BY <1>2 DEF ModuleInv, Leads, Imported
<1>4. \A S \in SUBSET selected : Leads(selected, m, S) => found \subseteq S
  BY DEF ModuleInv
<1>5. found \subseteq Imported
  BY DEF ModuleInv
<1>6. ASSUME NEW n \in Nearest(selected, m) PROVE n \in found \ {m}
  BY <1>1, <1>2, <1>3 DEF Nearest, ModuleInv, Imported
<1>7. ASSUME NEW n \in found \ {m} PROVE n \in Nearest(selected, m)
  BY <1>4, <1>5 DEF Nearest, Imported
<1> QED BY <1>6, <1>7

-----------------------------------------------------------------------------
LEMMA ImportInitInv == ImportInit => ImportInv
  BY DEF ImportInit, ImportInv

LEMMA TakeRootsKeeps ==
  ASSUME ImportInv, TakeRoots PROVE ImportInv'
<1>1. UNCHANGED <<project, options, module, edges, searchVars>> /\ at = "roots"
  BY DEF TakeRoots, Fail
<1>2. CASE ~RootsUsable
  <2>1. UNCHANGED <<project, options, pending, selected, module, todo, visited, found, edges, searchVars>>
        /\ at' = "failed"
    BY <1>2 DEF TakeRoots, Fail
  <2>2. (Refused \/ Circular)'
    BY <1>2, <2>1, Static DEF Refused
  <2> QED BY <2>1, <2>2, <1>1, StaticModules DEF ImportInv, searchVars, None
<1>3. CASE RootsUsable
  <2>1. at' = "closure" /\ pending' = Resolved(options.roots)
        /\ selected' = IF options.roots = {} THEN Eligible ELSE {}
    BY <1>3 DEF TakeRoots
  <2>2. Resolved(options.roots) \subseteq Eligible
    BY <1>3 DEF RootsUsable
  <2>3. options.roots = {} => Resolved(options.roots) = {}
    BY DEF Resolved
  <2>4. \A S : Closed(S) => Resolved(options.roots) \subseteq S
    BY DEF Closed
  <2>5. ClosureInv'
    BY <1>1, <1>3, <2>1, <2>2, <2>3, <2>4, Static DEF ClosureInv
  <2> QED BY <2>1, <2>5, <1>1 DEF ImportInv, searchVars, None
<1> QED BY <1>2, <1>3

LEMMA SelectKeeps ==
  ASSUME ImportInv, NEW l \in project.targets, Select(l) PROVE ImportInv'
<1>1. UNCHANGED <<project, options, module, edges, searchVars>> /\ at = "closure" /\ l \in pending
      /\ ClosureInv /\ module = None /\ DOMAIN edges = {}
  BY DEF Select, ImportInv, None, Some
<1>2. CASE l \in selected
  <2>1. pending' = pending \ {l} /\ selected' = selected /\ at' = at
    BY <1>2 DEF Select
  <2>2. ClosureInv'
    BY <1>1, <1>2, <2>1, Static DEF ClosureInv
  <2> QED BY <1>1, <2>1, <2>2 DEF ImportInv, searchVars
<1>3. CASE l \notin selected /\ Resolvable(project.deps[l])
  <2>1. pending' = (pending \ {l}) \union (Deps(l) \cap Eligible)
        /\ selected' = selected \union {l} /\ at' = at
    BY <1>3 DEF Select, Follow
  <2>2. options.roots # {} /\ l \in Eligible
    BY <1>1 DEF ClosureInv
  <2>3. ASSUME NEW S \in SUBSET Eligible, Closed(S)
        PROVE  selected' \union pending' \subseteq S
    <3>1. selected \union pending \subseteq S
      BY <1>1, <2>2, <2>3 DEF ClosureInv
    <3> QED BY <3>1, <2>1, <2>3, <1>1 DEF Closed
  <2>4. \A k \in selected' : Deps(k) \cap Eligible \subseteq selected' \union pending'
    BY <1>1, <2>1, <2>2 DEF ClosureInv
  <2>5. ClosureInv'
    BY <1>1, <2>1, <2>2, <2>3, <2>4, Static DEF ClosureInv
  <2> QED BY <1>1, <2>1, <2>5 DEF ImportInv, searchVars
<1>4. CASE l \notin selected /\ ~Resolvable(project.deps[l])
  <2>1. at' = "failed" /\ selected' = selected
    BY <1>4 DEF Select
  <2>2. (Refused \/ Circular)'
    BY <1>1, <1>4, PendingAsked, Static DEF Refused
  <2> QED BY <1>1, <2>1, <2>2 DEF ImportInv, searchVars
<1> QED BY <1>2, <1>3, <1>4

\* The modules are those of the selection asked for.
LEMMA BeginModulesKeeps ==
  ASSUME ImportInv, BeginModules PROVE ImportInv'
<1>1. UNCHANGED <<project, options, pending, selected, module, todo, visited, found, edges, searchVars>>
      /\ at = "closure" /\ pending = {} /\ ClosureInv /\ module = None
  BY DEF BeginModules, Fail, ImportInv, None, Some
<1>2. selected = Asked
  BY <1>1, ClosureEnds
<1>3. Refused <=> ~((\A l \in selected : Resolvable(project.deps[l])) /\ GateGiven)
  BY <1>1, <1>2 DEF Refused, GateGiven, Imported, ModulesOf, ClosureInv
<1>4. at' = IF Refused THEN "failed" ELSE "modules"
  BY <1>3 DEF BeginModules, Fail
<1> QED BY <1>1, <1>2, <1>4, Static, StaticModules DEF ImportInv, searchVars

LEMMA BeginModuleKeeps ==
  ASSUME ImportInv, BeginModule PROVE ImportInv'
<1>1. PICK m \in Imported : module' = Some(m) /\ todo' = Deps(m)
  <2>1. \E l \in Imported : l \notin DOMAIN edges
    BY DEF BeginModule, ImportInv
  <2> QED BY <2>1 DEF BeginModule
<1>2. UNCHANGED <<project, options, at, pending, selected, edges, searchVars>>
      /\ at = "modules" /\ visited' = {} /\ found' = {}
  BY DEF BeginModule
<1>3. \A S : Leads(selected, m, S) => Deps(m) \cap selected \subseteq S
  BY DEF Leads
<1>4. ModuleInv(m)'
  BY <1>1, <1>2, <1>3, Static, StaticModules DEF ModuleInv
<1> QED BY <1>1, <1>2, <1>4, Static, StaticModules DEF ImportInv, searchVars

LEMMA VisitKeeps ==
  ASSUME ImportInv, NEW l \in project.targets, Visit(l) PROVE ImportInv'
<1>1. UNCHANGED <<project, options, at, pending, selected, module, edges, searchVars>>
      /\ l \in todo /\ found' = found \union ({l} \cap Imported)
  BY DEF Visit
<1>2. PICK m \in Imported : module = Some(m) /\ ModuleInv(m)
  BY DEF Visit, ImportInv
<1>3. at = "modules"
  BY <1>2 DEF Visit, ImportInv
<1>4. CASE Stops(l) \/ l \in visited
  <2>1. todo' = todo \ {l} /\ visited' = visited
    BY <1>4 DEF Visit
  <2>2. l \in selected => l \in visited \union found'
    BY <1>1, <1>4 DEF Stops
  <2>3. ModuleInv(m)'
    BY <1>1, <1>2, <2>1, <2>2, Static, StaticModules DEF ModuleInv, Imported, ModulesOf
  <2> QED BY <1>1, <1>2, <1>3, <2>3, Static, StaticModules DEF ImportInv, searchVars
<1>5. CASE ~(Stops(l) \/ l \in visited)
  <2>1. todo' = (todo \ {l}) \union Deps(l) /\ visited' = visited \union {l}
    BY <1>5 DEF Visit, Remember
  <2>2. l \in selected \ Imported /\ found' = found
    BY <1>1, <1>5 DEF Stops
  <2>3. ASSUME NEW S \in SUBSET selected, Leads(selected, m, S)
        PROVE  visited' \union found' \union (todo' \cap selected) \subseteq S
    <3>1. visited \union found \union (todo \cap selected) \subseteq S
      BY <1>2, <2>3 DEF ModuleInv
    <3>2. l \in S \ Imported
      BY <1>1, <2>2, <3>1
    <3> QED BY <2>1, <2>2, <2>3, <3>1, <3>2 DEF Leads, Imported
  <2>4. ModuleInv(m)'
    BY <1>1, <1>2, <2>1, <2>2, <2>3, Static, StaticModules DEF ModuleInv
  <2> QED BY <1>1, <1>2, <1>3, <2>4, Static, StaticModules DEF ImportInv, searchVars
<1> QED BY <1>4, <1>5

LEMMA EndModuleKeeps ==
  ASSUME ImportInv, EndModule PROVE ImportInv'
<1>1. UNCHANGED <<project, options, at, pending, selected, todo, visited, found, searchVars>>
      /\ module' = None /\ todo = {}
  BY DEF EndModule
<1>2. PICK m \in Imported : module = Some(m) /\ ModuleInv(m)
  BY DEF EndModule, ImportInv
<1>3. at = "modules"
  BY <1>2 DEF EndModule, ImportInv
<1>4. /\ DOMAIN edges' = DOMAIN edges \union {m}
      /\ \A k \in DOMAIN edges' : edges'[k] = IF k = m THEN found \ {m} ELSE edges[k]
  BY <1>2 DEF EndModule, Some
<1>5. found \ {m} = Nearest(selected, m)
  BY <1>1, <1>2, ModuleEnds
<1>6. /\ DOMAIN edges' \subseteq Imported
      /\ \A k \in DOMAIN edges' : edges'[k] = Nearest(selected, k)
  BY <1>4, <1>5 DEF ImportInv
<1> QED BY <1>1, <1>3, <1>6, Static, StaticModules DEF ImportInv, searchVars

\* The search starts with nothing behind it.
LEMMA EndModulesKeeps ==
  ASSUME ImportInv, EndModules PROVE ImportInv'
<1>1. UNCHANGED <<project, options, pending, selected, module, todo, visited, found, edges,
                  stack, complete>>
      /\ at = "modules" /\ at' = "validate" /\ module = None /\ DOMAIN edges = Imported
  BY DEF EndModules, searchVars
<1>2. stack = <<>> /\ complete = {}
  BY <1>1 DEF ImportInv
<1>3. SearchInv'
  BY <1>1, <1>2, StaticModules DEF SearchInv, Circle
<1> QED BY <1>1, <1>3, Static, StaticModules DEF ImportInv

\* A dependency that the search is inside of closes a circle.
LEMMA EnterKeeps ==
  ASSUME ImportInv, NEW l \in project.targets, Enter(l) PROVE ImportInv'
<1>1. UNCHANGED <<project, options, pending, selected, module, todo, visited, found, edges,
                  complete>>
      /\ at = "validate" /\ l \in Ahead
  BY DEF Enter, Fail, searchVars
<1>2. /\ SearchInv /\ selected = Asked /\ ~Refused
      /\ \A m \in Imported : edges[m] = Nearest(selected, m)
      /\ module = None /\ DOMAIN edges \subseteq Imported
  BY <1>1 DEF ImportInv, SearchInv
<1>3. \A m \in Imported : edges[m] \subseteq Imported
  BY <1>2 DEF Nearest, Imported
<1>4. Len(stack) \in Nat /\ DOMAIN stack = 1..Len(stack)
      /\ \A i \in DOMAIN stack : stack[i] \in Imported
  BY <1>2 DEF SearchInv
<1>5. l \in Imported /\ (stack # <<>> => l \in edges[stack[Len(stack)]])
  BY <1>1, <1>2, <1>3, <1>4 DEF Ahead, SearchInv
<1>6. CASE Active(l)
  <2>1. at' = "failed" /\ stack' = stack
    BY <1>6 DEF Enter, Fail, searchVars
  <2>2. PICK i \in DOMAIN stack : l = stack[i]
    BY <1>6 DEF Active
  <2> DEFINE S == {stack[j] : j \in i..Len(stack)}
  <2>3. S \in SUBSET Imported /\ S # {}
    BY <1>4, <2>2
  <2>4. ASSUME NEW m \in S PROVE edges[m] \cap S # {}
    <3>1. PICK j \in i..Len(stack) : m = stack[j]
      OBVIOUS
    <3>2. CASE j = Len(stack)
      <4>1. l \in S BY <1>4, <2>2
      <4> QED BY <1>4, <1>5, <2>2, <3>1, <3>2, <4>1
    <3>3. CASE j # Len(stack)
      <4>1. j \in DOMAIN stack /\ j + 1 \in DOMAIN stack /\ j + 1 \in i..Len(stack)
        <5> DEFINE n == Len(stack)
        <5>1. n \in Nat /\ DOMAIN stack = 1..n /\ i \in 1..n /\ j \in i..n /\ j # n
          BY <1>4, <2>2, <3>1, <3>3
        <5> HIDE DEF n
        <5>2. j \in 1..n /\ j + 1 \in 1..n /\ j + 1 \in i..n
          BY <5>1
        <5> QED BY <5>1, <5>2 DEF n
      <4>2. stack[j + 1] \in edges[stack[j]]
        BY <1>2, <4>1 DEF SearchInv
      <4>3. stack[j + 1] \in S
        BY <4>1
      <4> QED BY <3>1, <4>2, <4>3
    <3> QED BY <3>2, <3>3
  <2>5. \A m \in S : Nearest(selected, m) \cap S # {}
    BY <1>2, <2>3, <2>4
  <2>6. Circular
    BY <1>2, <2>3, <2>5 DEF Circular, Imported
  <2> QED BY <1>1, <1>2, <2>1, <2>6, Static, StaticModules DEF ImportInv
<1>7. CASE ~Active(l)
  <2>1. at' = at /\ stack' = Append(stack, l)
    BY <1>7 DEF Enter
  <2>2. stack' \in Seq(Imported)
    BY <1>2, <1>5, <2>1 DEF SearchInv
  <2>3. ASSUME NEW i \in DOMAIN stack', NEW j \in DOMAIN stack', j = i + 1
        PROVE  stack'[j] \in edges[stack'[i]]
    <3>1. DOMAIN stack' = 1..(Len(stack) + 1)
      BY <1>2, <1>5, <2>1 DEF SearchInv
    <3>2. i \in DOMAIN stack /\ stack'[i] = stack[i]
      BY <1>2, <1>4, <1>5, <2>1, <2>3, <3>1 DEF SearchInv
    <3>3. CASE j \in DOMAIN stack
      <4>1. stack'[j] = stack[j]
        BY <1>2, <1>4, <1>5, <2>1, <3>3 DEF SearchInv
      <4> QED BY <1>2, <2>3, <3>2, <3>3, <4>1 DEF SearchInv
    <3>4. CASE j \notin DOMAIN stack
      <4>1. j = Len(stack) + 1 /\ i = Len(stack)
        BY <1>4, <2>3, <3>1, <3>4
      <4>2. stack'[j] = l
        BY <1>2, <1>5, <2>1, <4>1 DEF SearchInv
      <4>3. stack # <<>>
        BY <1>4, <3>2
      <4> QED BY <1>5, <3>2, <4>1, <4>2, <4>3
    <3> QED BY <3>3, <3>4
  <2>4. SearchInv'
    BY <1>1, <1>2, <2>2, <2>3, StaticModules DEF SearchInv, Circle
  <2> QED BY <1>1, <1>2, <2>1, <2>4, Static, StaticModules DEF ImportInv
<1> QED BY <1>6, <1>7

\* A module whose dependencies the search is through closes none.
LEMMA LeaveKeeps ==
  ASSUME ImportInv, Leave PROVE ImportInv'
<1>1. UNCHANGED <<project, options, at, pending, selected, module, todo, visited, found, edges>>
      /\ at = "validate" /\ stack # <<>> /\ Ahead = {}
      /\ stack' = SubSeq(stack, 1, Len(stack) - 1)
      /\ complete' = complete \union {stack[Len(stack)]}
  BY DEF Leave
<1>2. /\ SearchInv /\ selected = Asked /\ ~Refused
      /\ \A m \in Imported : edges[m] = Nearest(selected, m)
      /\ module = None /\ DOMAIN edges \subseteq Imported
  BY <1>1 DEF ImportInv, SearchInv
<1>3. Len(stack) \in Nat \ {0} /\ DOMAIN stack = 1..Len(stack)
  BY <1>1, <1>2 DEF SearchInv
<1>4. PICK m \in Imported : m = stack[Len(stack)]
  BY <1>2, <1>3 DEF SearchInv
<1>5. edges[m] \subseteq complete /\ m \notin edges[m]
  BY <1>1, <1>2, <1>4 DEF Ahead, Nearest
<1>6. stack' \in Seq(Imported) /\ DOMAIN stack' = 1..(Len(stack) - 1)
      /\ \A i \in DOMAIN stack' : stack'[i] = stack[i]
  BY <1>1, <1>2, <1>3 DEF SearchInv
<1>7. \A i, j \in DOMAIN stack' : j = i + 1 => stack'[j] \in edges[stack'[i]]
  BY <1>2, <1>3, <1>6 DEF SearchInv
<1>8. ASSUME NEW S \in SUBSET complete', Circle(S) PROVE FALSE
  <2>1. complete' = complete \union {m}
    BY <1>1, <1>4
  <2>2. CASE S \subseteq complete
    BY <1>2, <1>8, <2>2 DEF SearchInv
  <2>3. CASE ~(S \subseteq complete)
    <3>1. m \in S /\ m \notin complete
      BY <2>1, <2>3
    <3>2. edges[m] \cap S # {}
      BY <1>8, <3>1 DEF Circle
    <3>3. \A k \in S \ {m} : edges[k] \cap (S \ {m}) # {}
      BY <1>2, <1>8, <2>1, <3>1 DEF Circle, SearchInv
    <3>4. S \ {m} \in SUBSET complete /\ S \ {m} # {}
      BY <1>5, <2>1, <3>2
    <3>5. Circle(S \ {m})
      BY <3>3, <3>4 DEF Circle
    <3> QED BY <1>2, <3>4, <3>5 DEF SearchInv
  <2> QED BY <2>2, <2>3
<1>9. \A k \in complete' : edges[k] \subseteq complete'
  BY <1>1, <1>2, <1>4, <1>5 DEF SearchInv
<1>10. complete' \subseteq Imported
  BY <1>1, <1>2, <1>4 DEF SearchInv
<1>11. SearchInv'
  BY <1>1, <1>2, <1>6, <1>7, <1>8, <1>9, <1>10, StaticModules DEF SearchInv, Circle
<1> QED BY <1>1, <1>2, <1>11, Static, StaticModules DEF ImportInv

\* A search that is through every module has found no circle.
LEMMA EndSearchKeeps ==
  ASSUME ImportInv, EndSearch PROVE ImportInv'
<1>1. UNCHANGED <<project, options, pending, selected, module, todo, visited, found, edges,
                  stack, complete>>
      /\ at = "validate" /\ at' = "done" /\ stack = <<>> /\ Ahead = {}
  BY DEF EndSearch, searchVars
<1>2. SearchInv /\ selected = Asked /\ \A m \in Imported : edges[m] = Nearest(selected, m)
  BY <1>1 DEF ImportInv, SearchInv
<1>3. Imported \subseteq complete
  BY <1>1 DEF Ahead
<1>4. ~Circular
  <2> SUFFICES ASSUME NEW S \in SUBSET Imported, S # {},
                      \A m \in S : Nearest(selected, m) \cap S # {}
               PROVE  FALSE
    BY <1>2 DEF Circular, Imported
  <2>1. Circle(S)
    BY <1>2 DEF Circle
  <2> QED BY <1>2, <1>3, <2>1 DEF SearchInv
<1> QED BY <1>1, <1>4, Static, StaticModules DEF ImportInv

LEMMA ImportStepInv == ImportInv /\ [ImportNext]_importVars => ImportInv'
<1> SUFFICES ASSUME ImportInv, [ImportNext]_importVars PROVE ImportInv'
  OBVIOUS
<1>1. CASE UNCHANGED importVars
  <2>1. ClosureInv' = ClosureInv
    BY <1>1, Static DEF ClosureInv, importVars
  <2>2. \A m : ModuleInv(m)' = ModuleInv(m)
    BY <1>1, Static, StaticModules DEF ModuleInv, importVars
  <2>3. SearchInv' = SearchInv
    BY <1>1, StaticModules DEF SearchInv, Circle, importVars
  <2> QED BY <1>1, <2>1, <2>2, <2>3, Static, StaticModules DEF ImportInv, importVars
<1> QED
  BY <1>1, TakeRootsKeeps, SelectKeeps, BeginModulesKeeps, BeginModuleKeeps,
     VisitKeeps, EndModuleKeeps, EndModulesKeeps, EnterKeeps, LeaveKeeps, EndSearchKeeps
     DEF ImportNext

LEMMA ImportInvariant == ImportSpec => []ImportInv
  BY ImportInitInv, ImportStepInv, PTL DEF ImportSpec

-----------------------------------------------------------------------------
\* No target is missing from the selection and none is too many
\* (select_root_closure).
THEOREM SelectionExact == ImportSpec => []SelectedAsAsked
<1>1. ImportInv => SelectedAsAsked
  BY DEF ImportInv, SelectedAsAsked
<1> QED BY <1>1, ImportInvariant, PTL

\* The dependencies of a module are its nearest modules over contracted
\* targets (collect_effective_dependencies).
THEOREM EdgesExact == ImportSpec => []EdgesAreNearest
<1>1. ImportInv => EdgesAreNearest
  BY DEF ImportInv, EdgesAreNearest
<1> QED BY <1>1, ImportInvariant, PTL

\* Whether an import fails does not depend on the order of its work
\* (import_gn_project).
THEOREM FailureDetermined == ImportSpec => []FailsForAReason
<1>1. ImportInv => FailsForAReason
  BY DEF ImportInv, FailsForAReason
<1> QED BY <1>1, ImportInvariant, PTL

-----------------------------------------------------------------------------
\* Nothing is collected before the selection stands.
Early ==
  at \in {"roots", "closure"} =>
    visited = {} /\ found = {} /\ module = {} /\ DOMAIN edges = {}
      /\ stack = <<>> /\ complete = {}

ImportTypes == ImportTypeOK /\ Early

\* A name resolves to targets only.
LEMMA Resolves == \A names : Resolved(names) \subseteq project.targets
BY DEF Resolved, ResolveLabel, Aliased

LEMMA ImportInitTypes == ImportInit => ImportTypes
BY DEF ImportInit, ImportTypes, Early, ImportTypeOK, None

LEMMA ImportStepTypes == ImportInv /\ ImportTypes /\ [ImportNext]_importVars => ImportTypes'
<1> SUFFICES ASSUME ImportInv, ImportTypes, [ImportNext]_importVars PROVE ImportTypes' OBVIOUS
<1> USE DEF ImportTypes, Early, ImportTypeOK
<1>0. Eligible \subseteq project.targets BY DEF Eligible
<1>1. CASE UNCHANGED importVars
  BY <1>1, Static, StaticModules DEF importVars
<1>2. CASE TakeRoots
  <2>1. UNCHANGED <<project, options, module, todo, visited, found, edges, searchVars>>
        /\ at = "roots" /\ at' \in {"closure", "failed"}
    BY <1>2 DEF TakeRoots, Fail
  <2>2. Eligible' = Eligible BY <2>1, Static
  <2>3. pending' \subseteq project.targets /\ selected' \subseteq Eligible
    BY <1>2, <1>0, Resolves DEF TakeRoots, Fail
  <2> QED BY <2>1, <2>2, <2>3 DEF searchVars
<1>3. ASSUME NEW l \in project.targets, Select(l) PROVE ImportTypes'
  <2>1. UNCHANGED <<project, options, module, todo, visited, found, edges, searchVars>>
        /\ at = "closure" /\ at' \in {"closure", "failed"} /\ l \in pending
    BY <1>3 DEF Select
  <2>2. Eligible' = Eligible BY <2>1, Static
  <2>3. pending' \subseteq project.targets
    BY <1>3, Resolves DEF Select, Follow, Deps
  <2>4. selected' \subseteq Eligible
    BY <1>3, <2>1 DEF Select, ImportInv, ClosureInv
  <2> QED BY <2>1, <2>2, <2>3, <2>4 DEF searchVars
<1>4. CASE BeginModules \/ EndModules \/ EndSearch
  <2>1. UNCHANGED <<project, options, pending, selected, module, todo, visited, found, edges,
                    searchVars>>
        /\ at' \in {"modules", "validate", "failed", "done"}
    BY <1>4 DEF BeginModules, EndModules, EndSearch, Fail
  <2> QED BY <2>1, Static, StaticModules DEF searchVars
<1>5. CASE BeginModule
  <2>1. UNCHANGED <<project, options, at, pending, selected, edges, searchVars>>
        /\ at = "modules" /\ visited' = {} /\ found' = {}
    BY <1>5 DEF BeginModule
  <2>2. PICK m \in Imported : module' = Some(m) /\ todo' = Deps(m)
    <3>1. \E l \in Imported : l \notin DOMAIN edges
      BY <1>5 DEF BeginModule, ImportInv
    <3> QED BY <1>5, <3>1 DEF BeginModule
  <2>3. todo' \subseteq project.targets BY <2>2, Resolves DEF Deps
  <2>4. module' \subseteq Imported BY <2>2 DEF Some
  <2> QED BY <2>1, <2>3, <2>4, Static, StaticModules DEF searchVars
<1>6. ASSUME NEW l \in project.targets, Visit(l) PROVE ImportTypes'
  <2>1. UNCHANGED <<project, options, at, pending, selected, module, edges, searchVars>>
        /\ module # None /\ found' = found \union ({l} \cap Imported)
    BY <1>6 DEF Visit
  <2>2. todo' \subseteq project.targets BY <1>6, Resolves DEF Visit, Deps
  <2>3. visited' \subseteq selected \ Imported
    BY <1>6 DEF Visit, Remember, Stops
  <2> QED BY <2>1, <2>2, <2>3, Static, StaticModules DEF None, searchVars
<1>7. CASE EndModule
  <2>1. UNCHANGED <<project, options, at, pending, selected, todo, visited, found, searchVars>>
        /\ module' = None /\ module # None
        /\ edges' = [m \in DOMAIN edges \union module |->
                       IF m \in module THEN found \ module ELSE edges[m]]
    BY <1>7 DEF EndModule
  <2>2. PICK k \in Imported : module = {k} BY <2>1 DEF ImportInv, Some
  <2>3. \A m \in DOMAIN edges' : m \in Imported /\ edges'[m] \subseteq Imported \ {m}
    BY <2>1, <2>2
  <2> QED BY <2>1, <2>3, Static, StaticModules DEF None, searchVars
<1>8. ASSUME NEW l \in project.targets, Enter(l) PROVE ImportTypes'
  <2>1. UNCHANGED <<project, options, pending, selected, module, todo, visited, found, edges,
                    complete>>
        /\ at = "validate" /\ at' \in {"validate", "failed"}
    BY <1>8 DEF Enter, Fail, searchVars
  <2>2. SearchInv BY <2>1 DEF ImportInv
  <2>3. l \in Imported
    <3>1. CASE stack = <<>> BY <1>8, <3>1 DEF Enter, Ahead
    <3>2. CASE stack # <<>>
      <4>1. stack[Len(stack)] \in DOMAIN edges BY <2>2, <3>2 DEF SearchInv
      <4> QED BY <1>8, <3>2, <4>1 DEF Enter, Ahead
    <3> QED BY <3>1, <3>2
  <2>4. stack' \in Seq(Imported) BY <1>8, <2>3 DEF Enter, Fail, searchVars
  <2> QED BY <2>1, <2>4, Static, StaticModules
<1>9. CASE Leave
  <2>1. UNCHANGED <<project, options, at, pending, selected, module, todo, visited, found, edges>>
        /\ at = "validate" /\ stack # <<>>
        /\ stack' = SubSeq(stack, 1, Len(stack) - 1)
        /\ complete' = complete \union {stack[Len(stack)]}
    BY <1>9 DEF Leave
  <2>2. Len(stack) \in DOMAIN stack /\ stack' \in Seq(Imported) BY <2>1
  <2>3. complete' \subseteq Imported BY <2>1, <2>2
  <2> QED BY <2>1, <2>2, <2>3, Static, StaticModules
<1> QED BY <1>1, <1>2, <1>3, <1>4, <1>5, <1>6, <1>7, <1>8, <1>9 DEF ImportNext

\* The worklists hold targets, the modules are of the selection, and no module
\* depends on itself (select_root_closure, collect_effective_dependencies).
THEOREM ImportTypeCorrect == ImportSpec => []ImportTypeOK
<1>1. ImportTypes => ImportTypeOK BY DEF ImportTypes
<1> QED BY <1>1, ImportInitInv, ImportStepInv, ImportInitTypes, ImportStepTypes, PTL DEF ImportSpec
=============================================================================
