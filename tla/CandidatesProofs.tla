-------------------------- MODULE CandidatesProofs --------------------------
(***************************************************************************)
(* What ranking says of a component, for any modules, OWNERS files and     *)
(* edits of them, manifests and coverage reports: components are told      *)
(* apart, a ready one has no blocker on its border, and one that pays      *)
(* nothing for coverage is covered.  Sums, maxima and identifiers are the  *)
(* folds of Folding.                                                       *)
(*                                                                         *)
(* Then what the scan of OWNERS files finds, for any files and patterns in *)
(* them and any order of edits: the owners that the files mean, and a      *)
(* reason whenever it fails.  Its invariant is ScanInv.                    *)
(***************************************************************************)
EXTENDS Candidates, Folding

ReviewSum(S) == MapThenSumSet(LAMBDA m : manifest.reviews[m], S)
OpenSum(S) == MapThenSumSet(LAMBDA d : manifest.open[d], S)
CountSum(S) == MapThenSumSet(LAMBDA s : coverage[s].count, S)
CoveredSum(S) == MapThenSumSet(LAMBDA s : coverage[s].covered, S)

\* The sums that the metrics take are such functions.
LEMMA Sums ==
  ASSUME NEW S, IsFiniteSet(S)
  PROVE  /\ \E g : IsSum(g, SUBSET S, manifest.reviews) /\ ReviewSum(S) = g[S]
         /\ \E g : IsSum(g, SUBSET S, manifest.open) /\ OpenSum(S) = g[S]
         /\ \E g : IsSum(g, SUBSET S, [s \in S |-> coverage[s].count]) /\ CountSum(S) = g[S]
         /\ \E g : IsSum(g, SUBSET S, [s \in S |-> coverage[s].covered]) /\ CoveredSum(S) = g[S]
<1> DEFINE r == CHOOSE g : g = [s \in SUBSET S |-> IF s = {} THEN 0
                                  ELSE manifest.reviews[One(s)] + g[s \ {One(s)}]]
           o == CHOOSE g : g = [s \in SUBSET S |-> IF s = {} THEN 0
                                  ELSE manifest.open[One(s)] + g[s \ {One(s)}]]
<1>1. IsSum(r, SUBSET S, manifest.reviews)
  <2>1. \E g : g = [s \in SUBSET S |-> IF s = {} THEN 0
                                  ELSE manifest.reviews[One(s)] + g[s \ {One(s)}]]
    <3>1. PICK g : IsSum(g, SUBSET S, manifest.reviews)
      BY SumExists
    <3> QED BY <3>1 DEF IsSum
  <2>2. r = [s \in SUBSET S |-> IF s = {} THEN 0
                                  ELSE manifest.reviews[One(s)] + r[s \ {One(s)}]]
    BY <2>1
  <2> HIDE DEF r
  <2> QED BY <2>2 DEF IsSum
<1>2. IsSum(o, SUBSET S, manifest.open)
  <2>1. \E g : g = [s \in SUBSET S |-> IF s = {} THEN 0
                                  ELSE manifest.open[One(s)] + g[s \ {One(s)}]]
    <3>1. PICK g : IsSum(g, SUBSET S, manifest.open)
      BY SumExists
    <3> QED BY <3>1 DEF IsSum
  <2>2. o = [s \in SUBSET S |-> IF s = {} THEN 0
                                  ELSE manifest.open[One(s)] + o[s \ {One(s)}]]
    BY <2>1
  <2> HIDE DEF o
  <2> QED BY <2>2 DEF IsSum
<1>3. ReviewSum(S) = r[S]
  BY DEF ReviewSum, MapThenSumSet, MapThenFoldSet, One
<1>4. OpenSum(S) = o[S]
  BY DEF OpenSum, MapThenSumSet, MapThenFoldSet, One
<1>5. \E g : IsSum(g, SUBSET S, manifest.reviews) /\ ReviewSum(S) = g[S]
  <2> HIDE DEF r
  <2> QED BY <1>1, <1>3
<1>6. \E g : IsSum(g, SUBSET S, manifest.open) /\ OpenSum(S) = g[S]
  <2> HIDE DEF o
  <2> QED BY <1>2, <1>4
<1> DEFINE C == [s \in S |-> coverage[s].count]
           D == [s \in S |-> coverage[s].covered]
           n == CHOOSE g : g = [s \in SUBSET S |-> IF s = {} THEN 0
                                  ELSE coverage[One(s)].count + g[s \ {One(s)}]]
           v == CHOOSE g : g = [s \in SUBSET S |-> IF s = {} THEN 0
                                  ELSE coverage[One(s)].covered + g[s \ {One(s)}]]
<1>7. \A s \in SUBSET S : s # {} =>
        C[One(s)] = coverage[One(s)].count /\ D[One(s)] = coverage[One(s)].covered
  BY OneLess
<1>8. \E g : g = [s \in SUBSET S |-> IF s = {} THEN 0
                                  ELSE coverage[One(s)].count + g[s \ {One(s)}]]
  <2>1. PICK g : IsSum(g, SUBSET S, C)
    BY SumExists
  <2> HIDE DEF C
  <2>2. g = [s \in SUBSET S |-> IF s = {} THEN 0
                                  ELSE coverage[One(s)].count + g[s \ {One(s)}]]
    BY <1>7, <2>1 DEF IsSum
  <2> QED BY <2>2
<1>9. \E g : g = [s \in SUBSET S |-> IF s = {} THEN 0
                                  ELSE coverage[One(s)].covered + g[s \ {One(s)}]]
  <2>1. PICK g : IsSum(g, SUBSET S, D)
    BY SumExists
  <2> HIDE DEF D
  <2>2. g = [s \in SUBSET S |-> IF s = {} THEN 0
                                  ELSE coverage[One(s)].covered + g[s \ {One(s)}]]
    BY <1>7, <2>1 DEF IsSum
  <2> QED BY <2>2
<1>10. IsSum(n, SUBSET S, C)
  <2>1. n = [s \in SUBSET S |-> IF s = {} THEN 0
                                  ELSE coverage[One(s)].count + n[s \ {One(s)}]]
    BY <1>8
  <2> HIDE DEF C, n
  <2> QED BY <1>7, <2>1 DEF IsSum
<1>11. IsSum(v, SUBSET S, D)
  <2>1. v = [s \in SUBSET S |-> IF s = {} THEN 0
                                  ELSE coverage[One(s)].covered + v[s \ {One(s)}]]
    BY <1>9
  <2> HIDE DEF D, v
  <2> QED BY <1>7, <2>1 DEF IsSum
<1>12. CountSum(S) = n[S] /\ CoveredSum(S) = v[S]
  BY DEF CountSum, CoveredSum, MapThenSumSet, MapThenFoldSet, One
<1> HIDE DEF n, v, C, D
<1>13. \E g : IsSum(g, SUBSET S, C) /\ CountSum(S) = g[S]
  BY <1>10, <1>12
<1>14. \E g : IsSum(g, SUBSET S, D) /\ CoveredSum(S) = g[S]
  BY <1>11, <1>12
<1> QED BY <1>5, <1>6, <1>13, <1>14 DEF C, D

-----------------------------------------------------------------------------
\* What is ranked.

\* A manifest that is there is one a maintainer may have written over the
\* modules that were scanned, and a report one its tool may have made.
Written ==
  /\ modules \in Manifests
  /\ \A s \in DOMAIN coverage :
       coverage[s].count \in Nat /\ coverage[s].covered \in 0 .. coverage[s].count
  /\ manifest # NoManifest =>
       /\ \E rest \in Rests[modules] :
            /\ manifest.boundary = rest.boundary /\ manifest.state = rest.state
            /\ manifest.reviews = rest.reviews /\ manifest.open = rest.open
       /\ \A m \in Modules : IsFiniteSet(manifest.sources[m])

\* scan-owners reads the manifest's modules and leaves them as they are.
LEMMA ScanKeepsModules == [Next]_vars => UNCHANGED modules
BY DEF Next, Step, NextSource, Look, Open, Directive, ReadIncluded, Return, EndLayer,
       Edit, vars, world, scan

\* A module has finitely many sources.
LEMMA FiniteSources ==
  ASSUME NEW m \in Modules, NEW ms \in Manifests
  PROVE  IsFiniteSet(ToSet(ms[CHOOSE i \in DOMAIN Ids : Ids[i] = m]))
<1> DEFINE i == CHOOSE k \in DOMAIN Ids : Ids[k] = m
<1>1. i \in DOMAIN Ids
  BY CandidatesAssumption DEF ToSet
<1>2. ms[i] \in Seq(ToSet(ms[i]))
  BY <1>1, CandidatesAssumption
<1> HIDE DEF i
<1> QED
  <2> DEFINE x == ms[i]
             f == [k \in 1 .. Len(x) |-> x[k]]
  <2>1. DOMAIN x = 1 .. Len(x) /\ Len(x) \in Nat
    BY <1>2
  <2>2. IsFiniteSet(1 .. Len(x))
    BY <2>1, FS_Interval
  <2>3. f \in Surjection(1 .. Len(x), ToSet(x))
    BY <2>1 DEF Surjection, ToSet
  <2> HIDE DEF f, x
  <2>4. IsFiniteSet(ToSet(x))
    BY <2>2, <2>3, FS_Surjection DEF ExistsSurjection
  <2> QED BY <2>4 DEF x, i

\* Written is inductive.
LEMMA InitWritten == CandidatesInit => Written
BY DEF CandidatesInit, Init, Written, NoReport

\* Ranking writes a manifest with counts in it.
LEMMA RankWrites ==
  ASSUME Written, NEW rest \in Rests[modules], NEW report \in Reports[modules],
         Rank(rest, report)
  PROVE  Written'
<1>1. modules' = modules /\ modules \in Manifests
  BY DEF Rank, vars, world, Written
<1>2. \A s \in DOMAIN coverage' :
        coverage'[s].count \in Nat /\ coverage'[s].covered \in 0 .. coverage'[s].count
  BY <1>1, CandidatesAssumption DEF Rank
<1>3. /\ "sources" \notin DOMAIN rest
      /\ {"state", "boundary", "reviews", "open", "gates", "owner"} \subseteq DOMAIN rest
  BY <1>1, CandidatesAssumption
<1>4. manifest' = [field \in DOMAIN rest \union {"sources"} |->
                     IF field = "sources"
                       THEN [m \in Modules |->
                               ToSet(modules[CHOOSE i \in DOMAIN Ids : Ids[i] = m])]
                       ELSE rest[field]]
  BY DEF Rank
<1>5. /\ manifest'.boundary = rest.boundary /\ manifest'.state = rest.state
      /\ manifest'.reviews = rest.reviews /\ manifest'.open = rest.open
  BY <1>3, <1>4
<1>6. manifest'.sources = [m \in Modules |->
                    ToSet(modules[CHOOSE i \in DOMAIN Ids : Ids[i] = m])]
  BY <1>4
<1>7. \A m \in Modules : IsFiniteSet(manifest'.sources[m])
  BY <1>1, <1>6, FiniteSources
<1> QED BY <1>1, <1>2, <1>5, <1>7 DEF Written

\* Every step keeps what was written.
LEMMA NextWritten == Written /\ [CandidatesNext]_<<vars, ranked>> => Written'
<1> SUFFICES ASSUME Written, [CandidatesNext]_<<vars, ranked>> PROVE Written'
  OBVIOUS
<1>1. ASSUME [Next]_vars, UNCHANGED ranked PROVE Written'
  BY <1>1, ScanKeepsModules DEF ranked, Written
<1> QED BY <1>1, RankWrites DEF CandidatesNext

-----------------------------------------------------------------------------
\* Ready components.

\* Members and edges of a component are finitely many.
LEMMA FinitePlaces ==
  /\ \A of, c : IsFiniteSet(Members(of, c)) /\ Members(of, c) \subseteq Modules
  /\ \A of, c : IsFiniteSet(Inner(of, c) \union Crossing(of, c))
  /\ IsFiniteSet(Deps)
<1>1. IsFiniteSet(Modules \X Modules)
  BY CandidatesAssumption, FS_Product
<1>2. IsFiniteSet(Deps)
  BY <1>1, CandidatesAssumption, FS_Subset
<1>3. ASSUME NEW of, NEW c
      PROVE  /\ IsFiniteSet(Members(of, c)) /\ Members(of, c) \subseteq Modules
             /\ IsFiniteSet(Inner(of, c) \union Crossing(of, c))
  <2>1. Members(of, c) \subseteq Modules
    BY DEF Members
  <2>2. Inner(of, c) \union Crossing(of, c) \subseteq Deps
    BY DEF Inner, Crossing
  <2> QED BY <1>2, <2>1, <2>2, CandidatesAssumption, FS_Subset
<1> QED BY <1>2, <1>3

\* A component without a concern has none of these.
LEMMA NoConcern ==
  ASSUME NEW of, NEW c, Eligible(of, c)
  PROVE  /\ ~ (Cardinality(CoveredPairs(of, c)) < TotalPairs(of, c))
         /\ ~ (OpenReviews(of, c) > 0)
         /\ ~ (BoundaryKinds(of, c, Unaudited) > 0)
<1>1. Concerns(of, c) = {}
  BY DEF Eligible
<1>2. "targets" \notin Concerns(of, c) /\ "reviews" \notin Concerns(of, c)
      /\ "edges" \notin Concerns(of, c)
  BY <1>1
<1>3. ~ (Cardinality(CoveredPairs(of, c)) < TotalPairs(of, c))
  BY <1>2 DEF Concerns
<1>4. ~ (OpenReviews(of, c) > 0)
  BY <1>2 DEF Concerns
<1>5. ~ (BoundaryKinds(of, c, Unaudited) > 0)
  BY <1>2 DEF Concerns
<1> QED BY <1>3, <1>4, <1>5

\* A sum of open reviews that is not positive has none.
LEMMA NoReviewOpen ==
  ASSUME Written, manifest # NoManifest, NEW of, NEW c, ~ (OpenReviews(of, c) > 0)
  PROVE  /\ \A m \in Members(of, c) : manifest.reviews[m] = 0
         /\ \A d \in Inner(of, c) \union Crossing(of, c) : manifest.open[d] = 0
<1> DEFINE M == Members(of, c)
           D == Inner(of, c) \union Crossing(of, c)
<1>1. IsFiniteSet(M) /\ IsFiniteSet(D) /\ M \subseteq Modules /\ D \subseteq Deps
  BY FinitePlaces DEF Inner, Crossing
<1>2. manifest.reviews \in [Modules -> Nat] /\ manifest.open \in [Deps -> Nat]
  BY CandidatesAssumption DEF Written
<1>3. OpenReviews(of, c) = ReviewSum(M) + OpenSum(D)
  BY DEF OpenReviews, ReviewSum, OpenSum
<1> HIDE DEF M, D
<1>4. ReviewSum(M) \in Nat /\ (ReviewSum(M) = 0 => \A m \in M : manifest.reviews[m] = 0)
  <2>1. PICK g : IsSum(g, SUBSET M, manifest.reviews) /\ ReviewSum(M) = g[M]
    BY <1>1, Sums
  <2>2. \A m \in M : manifest.reviews[m] \in Nat
    BY <1>1, <1>2
  <2>3. g[M] \in Nat /\ (g[M] = 0 => \A m \in M : manifest.reviews[m] = 0)
    BY <1>1, <2>1, <2>2, SumZero
  <2> QED BY <2>1, <2>3
<1>5. OpenSum(D) \in Nat /\ (OpenSum(D) = 0 => \A d \in D : manifest.open[d] = 0)
  <2>1. PICK g : IsSum(g, SUBSET D, manifest.open) /\ OpenSum(D) = g[D]
    BY <1>1, Sums
  <2>2. \A d \in D : manifest.open[d] \in Nat
    BY <1>1, <1>2
  <2>3. g[D] \in Nat /\ (g[D] = 0 => \A d \in D : manifest.open[d] = 0)
    BY <1>1, <2>1, <2>2, SumZero
  <2> QED BY <2>1, <2>3
<1>6. ReviewSum(M) = 0 /\ OpenSum(D) = 0
  BY <1>3, <1>4, <1>5
<1> QED BY <1>4, <1>5, <1>6 DEF M, D

\* No unaudited label is on the border of a component that has none of them.
LEMMA NoUnaudited ==
  ASSUME NEW of, NEW c, ~ (BoundaryKinds(of, c, Unaudited) > 0), NEW d \in Crossing(of, c)
  PROVE  manifest.boundary[d] \notin Unaudited
<1> DEFINE X == {x \in Crossing(of, c) : manifest.boundary[x] \in Unaudited}
           f == [x \in X |-> <<of[x[1]], of[x[2]], manifest.boundary[x]>>]
           T == {<<of[x[1]], of[x[2]], manifest.boundary[x]>> : x \in X}
<1>1. IsFiniteSet(X)
  <2>1. X \subseteq Deps BY DEF Crossing
  <2> QED BY <2>1, FinitePlaces, FS_Subset
<1>2. f \in Surjection(X, T)
  <2> HIDE DEF X
  <2>1. f \in [X -> T]
    OBVIOUS
  <2>2. \A y \in T : \E x \in X : f[x] = y
    OBVIOUS
  <2> HIDE DEF f, T
  <2> QED BY <2>1, <2>2 DEF Surjection
<1>3. IsFiniteSet(T)
  <2> HIDE DEF X, f, T
  <2> QED BY <1>1, <1>2, FS_Surjection
<1>4. BoundaryKinds(of, c, Unaudited) = Cardinality(T)
  BY DEF BoundaryKinds
<1>5. T = {}
  <2>1. Cardinality(T) \in Nat /\ (Cardinality(T) = 0 <=> T = {})
    <3> HIDE DEF T
    <3> QED BY <1>3, FS_CardinalityType, FS_EmptySet
  <2> HIDE DEF T
  <2> QED BY <1>4, <2>1
<1>6. X = {}
  <2> HIDE DEF X
  <2> QED BY <1>5
<1> QED BY <1>6

\* Every module of a component with all of its pairs covered has gates for
\* every required target.
LEMMA AllPairsCovered ==
  ASSUME NEW of, NEW c, ~ (Cardinality(CoveredPairs(of, c)) < TotalPairs(of, c)),
         NEW m \in Members(of, c), NEW t \in Required
  PROVE  \E g \in manifest.gates[m] : t \in GateTargets[g]
<1> DEFINE P == Members(of, c) \X Required
           C == CoveredPairs(of, c)
<1>1. IsFiniteSet(P) /\ C \subseteq P
  BY FinitePlaces, CandidatesAssumption, FS_Product DEF CoveredPairs
<1>2. ~ (Cardinality(C) < Cardinality(P))
  BY DEF TotalPairs
<1>3. C = P
  <2> HIDE DEF P, C
  <2>1. IsFiniteSet(C) /\ Cardinality(C) \in Nat /\ Cardinality(P) \in Nat
    BY <1>1, FS_Subset, FS_CardinalityType
  <2> QED BY <1>1, <1>2, <2>1, FS_Subset
<1>4. <<m, t>> \in C
  BY <1>3
<1> QED BY <1>4 DEF CoveredPairs

\* A component that is eligible, a module of it, and the planner's blockers.
LEMMA EligibleMeansNoBlocker ==
  ASSUME Required # {}, NativeManifests, Written, manifest # NoManifest,
         NEW of, NEW c, Eligible(of, c), NEW m \in Members(of, c)
  PROVE  /\ Planner!GatesCover(m)
         /\ Planner!NoOpenReview(m)
         /\ \A e \in Planner!Incident(m) :
              of[Planner!Other(e, m)] # c => Planner!BoundarySafe(e, m)
<1>1. m \in Modules /\ of[m] = c
  BY DEF Members
<1>2. Planner!GatesCover(m)
  <2>1. \A t \in Required : \E g \in manifest.gates[m] : t \in GateTargets[g]
    BY NoConcern, AllPairsCovered
  <2>2. manifest.gates[m] # {}
    BY <2>1
  <2> QED BY <2>1, <2>2 DEF Planner!GatesCover
<1>3. ASSUME NEW e \in Deps, e[1] = m \/ e[2] = m
      PROVE  e \in Inner(of, c) \union Crossing(of, c)
  BY <1>1, <1>3 DEF Inner, Crossing
<1>4. Planner!NoOpenReview(m)
  <2> SUFFICES ASSUME NEW f \in {<<x>> : x \in Modules} \union Deps,
                      f \in {<<m>>} \union {e \in Deps : e[1] = m \/ e[2] = m}
               PROVE  ~ ((IF f \in Deps THEN manifest.open[f] ELSE manifest.reviews[f[1]]) > 0)
    BY DEF Planner!NoOpenReview, Planner!Incident
  <2>1. CASE f \in Deps
    <3>1. f[1] = m \/ f[2] = m
      <4>1. \A d \in Deps : d # <<m>>
        BY CandidatesAssumption
      <4> QED BY <2>1, <4>1
    <3>2. manifest.open[f] = 0
      BY <1>3, <2>1, <3>1, NoConcern, NoReviewOpen
    <3> QED BY <2>1, <3>2
  <2>2. CASE f \notin Deps
    <3>1. f[1] = m
      BY <2>2
    <3>2. manifest.reviews[m] = 0
      BY NoConcern, NoReviewOpen
    <3> QED BY <2>2, <3>1, <3>2
  <2> QED BY <2>1, <2>2
<1>5. ASSUME NEW e \in Planner!Incident(m), of[Planner!Other(e, m)] # c
      PROVE  Planner!BoundarySafe(e, m)
  <2> DEFINE o == IF e[1] = m THEN e[2] ELSE e[1]
  <2>1. e \in Deps /\ (e[1] = m \/ e[2] = m)
    BY DEF Planner!Incident
  <2>2. of[o] # c
    BY <1>5 DEF Planner!Other
  <2>3. e \in Crossing(of, c)
    BY <1>1, <2>1, <2>2 DEF Crossing
  <2>4. manifest.boundary[e] \notin Unaudited
    BY <2>3, NoConcern, NoUnaudited
  <2>5. PICK rest \in Rests[modules] :
          manifest.boundary = rest.boundary /\ manifest.state = rest.state
    BY DEF Written
  <2>6. manifest.boundary[e] \in Unaudited \union Audited \union {"rust"}
    BY <2>1, <2>5, CandidatesAssumption DEF Written
  <2>7. manifest.boundary[e] = "rust" => manifest.state[o] = "rust_owned"
    BY <2>1, <2>5 DEF NativeManifests, Written
  <2> QED BY <2>4, <2>6, <2>7
          DEF Planner!BoundarySafe, Planner!Other, Planner!RustOwned, Planner!Audited, Audited
<1> QED BY <1>2, <1>4, <1>5

\* The planner finds no blocker of a module of a ready component but inside of
\* that component (summarize_component against assess_transition), where the
\* manifest requires a target and its label rust joins Rust-owned modules.
\* Both are needed: without a required target a module without gates has all
\* of them covered in ranking, which the planner asks to have one; and ranking
\* counts no edge labelled rust as unaudited, whoever owns its ends.
THEOREM ReadyComponentsUnblocked ==
  ASSUME Required # {}, NativeManifests
  PROVE  CandidatesSpec => []ReadyHasNoOuterBlocker
<1>1. Written => ReadyHasNoOuterBlocker
  <2> SUFFICES ASSUME Written, manifest # NoManifest, NEW c, Eligible(ComponentOf, c),
                      NEW m \in Members(ComponentOf, c)
               PROVE  /\ Planner!GatesCover(m)
                      /\ Planner!NoOpenReview(m)
                      /\ \A e \in Planner!Incident(m) :
                           ComponentOf[Planner!Other(e, m)] # c => Planner!BoundarySafe(e, m)
    BY DEF ReadyHasNoOuterBlocker
  <2> DEFINE of == ComponentOf
  <2> HIDE DEF of
  <2> QED BY EligibleMeansNoBlocker DEF of
<1> QED BY <1>1, InitWritten, NextWritten, PTL DEF CandidatesSpec

-----------------------------------------------------------------------------
\* What coverage costs.

\* The smaller of two numbers.
LEMMA MinOfTwo ==
  ASSUME NEW a \in Int, NEW b \in Int
  PROVE  Min({a, b}) \in {a, b} /\ Min({a, b}) <= a /\ Min({a, b}) <= b
<1>1. \E x \in {a, b} : \A y \in {a, b} : x <= y
  <2>1. CASE a <= b
    BY <2>1
  <2>2. CASE b <= a
    BY <2>2
  <2> QED BY <2>1, <2>2
<1> DEFINE P(x) == x \in {a, b} /\ \A y \in {a, b} : x <= y
<1>2. P(CHOOSE x \in {a, b} : \A y \in {a, b} : x <= y)
  BY <1>1
<1> QED BY <1>2 DEF Min

\* Integer division in terms of multiplication.
LEMMA Divided ==
  ASSUME NEW a \in Nat, NEW d \in Nat, d > 0
  PROVE  /\ a \div d \in Nat
         /\ d * (a \div d) <= a /\ a < d * (a \div d) + d
  OBVIOUS

\* A ratio of all is reached only by all.
LEMMA FullRatio ==
  ASSUME NEW n \in Nat, NEW d \in Nat, n <= d
  PROVE  /\ RatioBasisPoints(n, d) \in Nat /\ RatioBasisPoints(n, d) <= 10000
         /\ RatioBasisPoints(n, d) = 10000 => n = d
<1>1. CASE d = 0
  BY <1>1 DEF RatioBasisPoints
<1>2. CASE d > 0
  <2> DEFINE q == (n * 10000) \div d
  <2>1. n * 10000 \in Nat
    OBVIOUS
  <2>2. q \in Nat /\ d * q <= n * 10000
    <3> DEFINE a == n * 10000
    <3>1. a \in Nat
      BY <2>1
    <3> HIDE DEF a
    <3>2. a \div d \in Nat /\ d * (a \div d) <= a
      BY <1>2, <3>1, Divided
    <3> QED BY <3>2 DEF a
  <2>3. RatioBasisPoints(n, d) = Min({10000, q})
    BY <1>2 DEF RatioBasisPoints
  <2> HIDE DEF q
  <2>5. ASSUME q >= 10000 PROVE n = d
    <3>1. PICK r \in Nat : q = 10000 + r
      <4>1. q - 10000 \in Nat /\ q = 10000 + (q - 10000)
        BY <2>2, <2>5
      <4> QED BY <4>1
    <3>2. d * q = d * 10000 + d * r
      BY <3>1
    <3>3. d * r \in Nat
      BY <3>1
    <3> QED BY <2>2, <3>2, <3>3
  <2>6. q \in Nat
    BY <2>2
  <2>7. PICK m : m = RatioBasisPoints(n, d)
    OBVIOUS
  <2>8. m = Min({10000, q})
    BY <2>3, <2>7
  <2>9. m \in {10000, q} /\ m <= 10000 /\ m <= q
    <3>1. \A a, b \in Int : m = Min({a, b}) => m \in {a, b} /\ m <= a /\ m <= b
      BY MinOfTwo
    <3> QED BY <2>6, <2>8, <3>1
  <2>10. m \in Nat /\ m <= 10000 /\ (m = 10000 => q >= 10000)
    BY <2>6, <2>9
  <2> QED BY <2>5, <2>7, <2>10
<1> QED BY <1>1, <1>2

\* A component has finitely many sources.
LEMMA FiniteSourcesOf ==
  ASSUME Written, manifest # NoManifest, NEW of, NEW c
  PROVE  IsFiniteSet(SourcesOf(of, c))
<1> DEFINE M == Members(of, c)
           T == {manifest.sources[m] : m \in M}
           f == [m \in M |-> manifest.sources[m]]
<1>1. IsFiniteSet(M) /\ M \subseteq Modules
  BY FinitePlaces
<1>2. f \in Surjection(M, T)
  <2> HIDE DEF M
  <2>1. f \in [M -> T]
    OBVIOUS
  <2>2. \A y \in T : \E x \in M : f[x] = y
    OBVIOUS
  <2> HIDE DEF f, T
  <2> QED BY <2>1, <2>2 DEF Surjection
<1>3. IsFiniteSet(T)
  <2> HIDE DEF M, f, T
  <2> QED BY <1>1, <1>2, FS_Surjection
<1>4. \A S \in T : IsFiniteSet(S)
  <2> HIDE DEF M
  <2> QED BY <1>1 DEF Written
<1>5. SourcesOf(of, c) = UNION T
  BY DEF SourcesOf
<1> HIDE DEF T
<1> QED BY <1>3, <1>4, <1>5, FS_UNION

\* With everything measured and every line covered on the whole, every source
\* is measured and all of its lines are covered.
LEMMA FullCoverage ==
  ASSUME Written, manifest # NoManifest, NEW S, IsFiniteSet(S)
  PROVE  /\ EffectiveBasisPoints(S) \in Nat /\ EffectiveBasisPoints(S) <= 10000
         /\ EffectiveBasisPoints(S) = 10000 =>
              \A s \in S : s \in DOMAIN coverage /\ coverage[s].covered = coverage[s].count
<1> DEFINE M == Measured(S)
           n == Cardinality(M)
           d == Cardinality(S)
           F == [s \in M |-> coverage[s].covered]
           G == [s \in M |-> coverage[s].count]
<1>1. M \subseteq S /\ M \subseteq DOMAIN coverage
  BY DEF Measured
<1>2. IsFiniteSet(M) /\ n \in Nat /\ d \in Nat /\ n <= d /\ (n = d => M = S)
  <2> HIDE DEF M
  <2> QED BY <1>1, FS_Subset, FS_CardinalityType
<1>3. Lines(S) = CountSum(M) /\ CoveredLines(S) = CoveredSum(M)
  BY DEF Lines, CoveredLines, CountSum, CoveredSum
<1>4. \A s \in M : F[s] \in Nat /\ G[s] \in Nat /\ F[s] <= G[s]
  <2> HIDE DEF M
  <2> QED BY <1>1 DEF Written
<1>5. /\ CoveredSum(M) \in Nat /\ CountSum(M) \in Nat /\ CoveredSum(M) <= CountSum(M)
      /\ CoveredSum(M) = CountSum(M) => \A s \in M : F[s] = G[s]
  <2>1. PICK f : IsSum(f, SUBSET M, F) /\ CoveredSum(M) = f[M]
    <3> HIDE DEF M
    <3> QED BY <1>2, Sums
  <2>2. PICK g : IsSum(g, SUBSET M, G) /\ CountSum(M) = g[M]
    <3> HIDE DEF M
    <3> QED BY <1>2, Sums
  <2> HIDE DEF M, F, G
  <2>3. /\ f[M] \in Nat /\ g[M] \in Nat /\ f[M] <= g[M]
        /\ f[M] = g[M] => \A s \in M : F[s] = G[s]
    BY <1>2, <1>4, <2>1, <2>2, SumsCompare
  <2> QED BY <2>1, <2>2, <2>3
<1> DEFINE a == RatioBasisPoints(n, d)
           b == RatioBasisPoints(CoveredLines(S), Lines(S))
<1>0. \A x, y \in Nat : x <= y =>
        /\ RatioBasisPoints(x, y) \in Nat /\ RatioBasisPoints(x, y) <= 10000
        /\ RatioBasisPoints(x, y) = 10000 => x = y
  BY FullRatio
<1>6. a \in Nat /\ a <= 10000 /\ (a = 10000 => n = d)
  <2> HIDE DEF n, d
  <2> QED BY <1>0, <1>2
<1>7. b \in Nat /\ b <= 10000 /\ (b = 10000 => CoveredSum(M) = CountSum(M))
  <2> HIDE DEF M
  <2> QED BY <1>0, <1>3, <1>5
<1>8. EffectiveBasisPoints(S) = Min({a, b})
  BY DEF EffectiveBasisPoints
<1> HIDE DEF a, b
<1>9. PICK e : e = EffectiveBasisPoints(S)
  OBVIOUS
<1>10. e \in {a, b} /\ e <= a /\ e <= b
  <2>1. a \in Int /\ b \in Int /\ e = Min({a, b})
    BY <1>6, <1>7, <1>8, <1>9
  <2>2. \A x, y \in Int : Min({x, y}) \in {x, y} /\ Min({x, y}) <= x /\ Min({x, y}) <= y
    BY MinOfTwo
  <2> QED BY <2>1, <2>2
<1>11. e \in Nat /\ e <= 10000 /\ (e = 10000 => a = 10000 /\ b = 10000)
  <2>1. a \in Nat /\ a <= 10000 /\ b \in Nat /\ b <= 10000
    BY <1>6, <1>7
  <2> QED BY <1>10, <2>1
<1>12. ASSUME e = 10000, NEW s \in S
       PROVE  s \in DOMAIN coverage /\ coverage[s].covered = coverage[s].count
  <2>1. s \in M /\ F[s] = G[s]
    <3> HIDE DEF M, F, G, n, d
    <3> QED BY <1>2, <1>5, <1>6, <1>7, <1>11, <1>12
  <2>2. F[s] = coverage[s].covered /\ G[s] = coverage[s].count
    <3> HIDE DEF M
    <3> QED BY <2>1
  <2> QED BY <1>1, <2>1, <2>2
<1> QED BY <1>9, <1>11, <1>12

\* A part that costs nothing when it is rounded up is nothing.
LEMMA NothingUncovered ==
  ASSUME NEW e \in Nat, e <= 10000, DivCeil((10000 - e) * 25, 10000) = 0
  PROVE  e = 10000
<1>1. PICK a \in Nat : a = (10000 - e) * 25 + 10000 - 1
  OBVIOUS
<1>2. a \div 10000 = 0
  BY <1>1 DEF DivCeil
<1>3. a < 10000 * (a \div 10000) + 10000
  BY Divided
<1>4. a < 10000
  BY <1>2, <1>3
<1> QED BY <1>1, <1>4

\* Without a report, no penalty means that no pair of module and target is
\* without a gate.
LEMMA NothingMissing ==
  ASSUME NEW t \in Nat \ {0}, NEW k \in 0 .. t, DivCeil((t - k) * 25, t) = 0
  PROVE  k = t
<1>1. PICK a \in Nat : a = (t - k) * 25 + t - 1
  OBVIOUS
<1>2. a \div t = 0
  BY <1>1 DEF DivCeil
<1>3. a < t * (a \div t) + t
  BY Divided
<1>4. a < t
  BY <1>2, <1>3
<1> QED BY <1>1, <1>4

\* A component pays nothing for coverage only when there is nothing left to
\* cover: neither a few fully covered files nor a few covered lines pass for
\* all of them (measured_source_coverage, coverage_risk_penalties).
THEOREM NoPenaltyWithoutCoverage == CandidatesSpec => []NoPenaltyMeansCovered
<1>1. Written => NoPenaltyMeansCovered
  <2> SUFFICES ASSUME Written, manifest # NoManifest, NEW of, NEW c,
                      CoveragePenalty(of, c) = 0
               PROVE  IF coverage = NoReport
                        THEN \A m \in Members(of, c), t \in Required :
                               \E g \in manifest.gates[m] : t \in GateTargets[g]
                        ELSE \A s \in SourcesOf(of, c) :
                               s \in DOMAIN coverage /\ coverage[s].covered = coverage[s].count
    BY DEF NoPenaltyMeansCovered
  <2>1. CASE coverage # NoReport
    <3> DEFINE S == SourcesOf(of, c)
    <3> HIDE DEF S
    <3>1. DivCeil((10000 - EffectiveBasisPoints(S)) * 25, 10000) = 0
      BY <2>1 DEF CoveragePenalty, S
    <3>2. IsFiniteSet(S)
      BY FiniteSourcesOf DEF S
    <3>3. EffectiveBasisPoints(S) = 10000
      BY <3>1, <3>2, FullCoverage, NothingUncovered
    <3>4. \A s \in S : s \in DOMAIN coverage /\ coverage[s].covered = coverage[s].count
      BY <3>2, <3>3, FullCoverage
    <3> QED BY <2>1, <3>4 DEF S
  <2>2. CASE coverage = NoReport
    <3> DEFINE t == TotalPairs(of, c)
               k == Cardinality(CoveredPairs(of, c))
    <3>1. t \in Nat /\ k \in 0 .. t
      <4> DEFINE P == Members(of, c) \X Required
                 C == CoveredPairs(of, c)
      <4>1. IsFiniteSet(P) /\ C \subseteq P
        BY FinitePlaces, CandidatesAssumption, FS_Product DEF CoveredPairs
      <4>2. Cardinality(P) \in Nat /\ Cardinality(C) \in Nat /\ Cardinality(C) <= Cardinality(P)
        <5> HIDE DEF P, C
        <5> QED BY <4>1, FS_Subset, FS_CardinalityType
      <4>3. t = Cardinality(P) /\ k = Cardinality(C)
        BY DEF TotalPairs
      <4> HIDE DEF P, C, t, k
      <4> QED BY <4>2, <4>3
    <3>2. t = 0 \/ DivCeil((t - k) * 25, t) = 0
      BY <2>2 DEF CoveragePenalty
    <3>3. ~ (k < t)
      <4> HIDE DEF t, k
      <4>2. CASE t = 0
        BY <3>1, <4>2
      <4>3. CASE t # 0
        <5>1. t \in Nat \ {0} /\ DivCeil((t - k) * 25, t) = 0
          BY <3>1, <3>2, <4>3
        <5>2. k = t
          BY <3>1, <5>1, NothingMissing
        <5> QED BY <3>1, <5>2
      <4> QED BY <4>2, <4>3
    <3>4. \A m \in Members(of, c), x \in Required :
            \E g \in manifest.gates[m] : x \in GateTargets[g]
      BY <3>3, AllPairsCovered
    <3> QED BY <2>2, <3>4
  <2> QED BY <2>1, <2>2
<1> QED BY <1>1, InitWritten, NextWritten, PTL DEF CandidatesSpec

-----------------------------------------------------------------------------
\* Identifiers.

NameWords(groups, g) ==
  LET same == {h \in ToSet(groups) : PathWords(h) = PathWords(g)}
  IN  IF same = {g} THEN PathWords(g) ELSE OwnerWords(g) \o PathWords(g)

\* The entry of g after those in ids.
Entry(groups, ids, g) ==
  <<NameWords(groups, g), IF <<NameWords(groups, g), {}>> \in ToSet(ids) THEN {g} ELSE {}>>

\* What FoldLeft chooses: f[s] names the groups at the positions of s in turn.
Named(f, D, groups) ==
  f = [s \in D |-> IF s = {} THEN <<>>
         ELSE Append(f[s \ {Max(s)}],
                     Entry(groups, f[s \ {Max(s)}], groups[Max(s)]))]

\* There is a function that names the groups of every set of positions.
LEMMA NamesExist ==
  ASSUME NEW N \in Nat, NEW groups
  PROVE  \E f : Named(f, SUBSET (1 .. N), groups)
<1> DEFINE S == 1 .. N
           T == {n \in Nat : \E f : Named(f, Small(S, n), groups)}
<1>0. IsFiniteSet(S) /\ Cardinality(S) \in Nat
  BY FS_Interval, FS_CardinalityType
<1>1. 0 \in T
  <2> DEFINE f == [s \in Small(S, 0) |-> <<>>]
  <2>1. \A s \in Small(S, 0) : s = {}
    BY <1>0, SmallSet
  <2>2. Named(f, Small(S, 0), groups)
    BY <2>1 DEF Named
  <2> HIDE DEF f, S
  <2> QED BY <2>2
<1>2. ASSUME NEW n \in Nat, n \in T PROVE n + 1 \in T
  <2>1. PICK f : Named(f, Small(S, n), groups)
    BY <1>2
  <2> DEFINE h == [s \in Small(S, n + 1) |-> IF s = {} THEN <<>>
                     ELSE Append(f[s \ {Max(s)}],
                                 Entry(groups, f[s \ {Max(s)}], groups[Max(s)]))]
  <2>2. \A s \in Small(S, n + 1) : s # {} =>
          s \ {Max(s)} \in Small(S, n) /\ s \ {Max(s)} \in Small(S, n + 1)
    BY MaxLess
  <2>3. \A s \in Small(S, n) : s \in Small(S, n + 1) /\ h[s] = f[s]
    <3> SUFFICES ASSUME NEW s \in Small(S, n) PROVE s \in Small(S, n + 1) /\ h[s] = f[s]
      OBVIOUS
    <3>1. s \in Small(S, n + 1)
      <4> HIDE DEF S
      <4> QED BY <1>0, SmallSet DEF Small
    <3>2. f[s] = IF s = {} THEN <<>>
                 ELSE Append(f[s \ {Max(s)}],
                             Entry(groups, f[s \ {Max(s)}], groups[Max(s)]))
      <4> HIDE DEF S
      <4> QED BY <2>1 DEF Named
    <3> HIDE DEF S
    <3> QED BY <3>1, <3>2
  <2>4. \A s \in Small(S, n + 1) :
          h[s] = IF s = {} THEN <<>>
                 ELSE Append(h[s \ {Max(s)}],
                             Entry(groups, h[s \ {Max(s)}], groups[Max(s)]))
    <3> HIDE DEF S
    <3> QED BY <2>2, <2>3
  <2>5. Named(h, Small(S, n + 1), groups)
    <3>1. h = [s \in Small(S, n + 1) |-> h[s]] OBVIOUS
    <3> HIDE DEF h, S
    <3> QED BY <3>1, <2>4 DEF Named
  <2> HIDE DEF h, S
  <2> QED BY <2>5
<1>3. Nat \subseteq T
  <2> HIDE DEF T, S
  <2> QED BY <1>1, <1>2, Induct
<1>4. Small(S, Cardinality(S)) = SUBSET S
  <2> HIDE DEF S
  <2> QED BY <1>0, FS_Subset DEF Small
<1> HIDE DEF S
<1>5. PICK f : Named(f, Small(S, Cardinality(S)), groups)
  BY <1>0, <1>3
<1> QED BY <1>4, <1>5 DEF S

\* What FoldLeft makes of the groups: a sequence that grows by one entry for
\* every group.
LEMMA IdsUnfold ==
  ASSUME NEW N \in Nat, NEW G, NEW groups \in [1 .. N -> G]
  PROVE  \E f : Named(f, SUBSET (1 .. N), groups) /\ IdsOf(groups) = f[1 .. N]
<1> DEFINE f == CHOOSE f : f = [s \in SUBSET (1 .. N) |-> IF s = {} THEN <<>>
                  ELSE Append(f[s \ {Max(s)}],
                              Entry(groups, f[s \ {Max(s)}], groups[Max(s)]))]
<1>1. \E i : i = [s \in SUBSET (1 .. N) |-> IF s = {} THEN <<>>
                  ELSE Append(i[s \ {Max(s)}],
                              Entry(groups, i[s \ {Max(s)}], groups[Max(s)]))]
  <2>1. PICK i : Named(i, SUBSET (1 .. N), groups)
    BY NamesExist
  <2> QED BY <2>1 DEF Named
<1>2. Named(f, SUBSET (1 .. N), groups)
  BY <1>1 DEF Named
<1>3. DOMAIN groups = 1 .. N
  OBVIOUS
<1>4. IdsOf(groups) = f[1 .. N]
  BY <1>3 DEF IdsOf, FoldLeft, MapThenFoldSet, Entry, NameWords
<1> HIDE DEF f
<1> QED BY <1>2, <1>4

\* No two entries are equal: an entry without a group is new, and one with a
\* group is of a group that has no other.
LEMMA IdsDistinct ==
  ASSUME NEW N \in Nat, NEW G, NEW groups \in [1 .. N -> G],
         \A i, j \in 1 .. N : groups[i] = groups[j] => i = j
  PROVE  \A i, j \in 1 .. N : IdsOf(groups)[i] = IdsOf(groups)[j] => i = j
<1>1. PICK f : Named(f, SUBSET (1 .. N), groups) /\ IdsOf(groups) = f[1 .. N]
  BY IdsUnfold
<1> DEFINE Apart(n) ==
             /\ f[1 .. n] \in Seq({f[1 .. n][i] : i \in 1 .. n}) /\ Len(f[1 .. n]) = n
             /\ \A i \in 1 .. n : \E w : f[1 .. n][i] \in {<<w, {}>>, <<w, {groups[i]}>>}
             /\ \A i, j \in 1 .. n : f[1 .. n][i] = f[1 .. n][j] => i = j
           T == {n \in Nat : n <= N => Apart(n)}
<1>2. 0 \in T
  <2>1. f[{}] = <<>> /\ 1 .. 0 = {}
    <3>1. {} \in SUBSET (1 .. N) /\ 1 .. 0 = {}
      OBVIOUS
    <3> QED BY <1>1, <3>1 DEF Named
  <2>2. Apart(0)
    <3>1. <<>> \in Seq({}) /\ Len(<<>>) = 0
      OBVIOUS
    <3>2. {f[1 .. 0][i] : i \in 1 .. 0} = {} /\ ~ \E i \in 1 .. 0 : TRUE
      BY <2>1
    <3> QED BY <2>1, <3>1, <3>2
  <2> HIDE DEF Apart
  <2> QED BY <2>2
<1>3. ASSUME NEW n \in Nat, n \in T PROVE n + 1 \in T
  <2> SUFFICES ASSUME n + 1 <= N PROVE Apart(n + 1)
    <3> HIDE DEF Apart
    <3> QED OBVIOUS
  <2>1. Apart(n)
    <3>1. n <= N
      OBVIOUS
    <3> HIDE DEF Apart
    <3> QED BY <1>3, <3>1
  <2> DEFINE old == f[1 .. n]
             g == groups[n + 1]
             entry == Entry(groups, old, g)
  <2>2. Max(1 .. n + 1) = n + 1
    <3>1. 1 .. n + 1 \in SUBSET (1 .. N) /\ 1 .. n + 1 # {}
      BY FirstNumbers
    <3>2. Max(1 .. n + 1) \in 1 .. n + 1 /\ \A y \in 1 .. n + 1 : y <= Max(1 .. n + 1)
      BY <3>1, MaxIn
    <3>3. n + 1 \in 1 .. n + 1
      OBVIOUS
    <3>4. n + 1 <= Max(1 .. n + 1)
      BY <3>2, <3>3
    <3> QED BY <3>2, <3>4
  <2>3. f[1 .. n + 1] = Append(old, entry)
    <3>1. 1 .. n + 1 \in SUBSET (1 .. N) /\ 1 .. n + 1 # {} /\ (1 .. n + 1) \ {n + 1} = 1 .. n
      BY FirstNumbers
    <3>2. f[1 .. n + 1] =
            Append(f[(1 .. n + 1) \ {Max(1 .. n + 1)}],
                   Entry(groups, f[(1 .. n + 1) \ {Max(1 .. n + 1)}], groups[Max(1 .. n + 1)]))
      BY <1>1, <3>1 DEF Named
    <3> QED BY <2>2, <3>1, <3>2
  <2> DEFINE new == f[1 .. n + 1]
  <2>4. /\ new \in Seq({old[i] : i \in 1 .. n} \union {entry}) /\ Len(new) = n + 1
        /\ new[n + 1] = entry /\ \A i \in 1 .. n : new[i] = old[i]
    <3>1. old \in Seq({old[i] : i \in 1 .. n} \union {entry}) /\ Len(old) = n
      BY <2>1
    <3>2. entry \in {old[i] : i \in 1 .. n} \union {entry}
      OBVIOUS
    <3> DEFINE E == {old[i] : i \in 1 .. n} \union {entry}
    <3> HIDE DEF old, entry, E
    <3>3. old \in Seq(E) /\ entry \in E
      BY <3>1, <3>2 DEF E
    <3>4. /\ Append(old, entry) \in Seq(E) /\ Len(Append(old, entry)) = n + 1
          /\ Append(old, entry)[n + 1] = entry
          /\ \A i \in 1 .. n : Append(old, entry)[i] = old[i]
      BY <3>1, <3>3
    <3> QED BY <2>3, <3>4 DEF E
  <2>5. \E w : \/ entry = <<w, {}>> /\ \A i \in 1 .. n : old[i] # entry
               \/ entry = <<w, {g}>>
    <3> DEFINE w == NameWords(groups, g)
    <3>1. ToSet(old) = {old[i] : i \in 1 .. n}
      BY <2>1 DEF ToSet
    <3>2. entry = IF <<w, {}>> \in ToSet(old) THEN <<w, {g}>> ELSE <<w, {}>>
      BY DEF Entry
    <3> HIDE DEF w, old, entry
    <3> QED BY <3>1, <3>2
  <2>6. \A i \in 1 .. n : old[i] # entry
    <3> SUFFICES ASSUME NEW i \in 1 .. n, old[i] = entry PROVE FALSE
      OBVIOUS
    <3>1. PICK w : entry = <<w, {g}>>
      BY <2>5
    <3>2. PICK v : old[i] \in {<<v, {}>>, <<v, {groups[i]}>>}
      BY <2>1
    <3>3. i \in 1 .. N /\ n + 1 \in 1 .. N /\ i # n + 1
      OBVIOUS
    <3>4. groups[i] # g
      BY <3>3
    <3> HIDE DEF old, entry, g
    <3>5. {g} = {} \/ {g} = {groups[i]}
      BY <3>1, <3>2
    <3> QED BY <3>4, <3>5
  <2>7. \A i \in 1 .. n + 1 : i = n + 1 \/ i \in 1 .. n
    OBVIOUS
  <2>8. \A i \in 1 .. n + 1 : \E w : new[i] \in {<<w, {}>>, <<w, {groups[i]}>>}
    <3>1. \A i \in 1 .. n : \E w : old[i] \in {<<w, {}>>, <<w, {groups[i]}>>}
      BY <2>1
    <3>2. \E w : entry \in {<<w, {}>>, <<w, {groups[n + 1]}>>}
      BY <2>5
    <3> HIDE DEF new, old, entry, g
    <3> QED BY <2>4, <2>7, <3>1, <3>2
  <2>9. \A i, j \in 1 .. n + 1 : new[i] = new[j] => i = j
    <3>1. \A i, j \in 1 .. n : old[i] = old[j] => i = j
      BY <2>1
    <3> HIDE DEF new, old, entry, g
    <3> QED BY <2>4, <2>6, <2>7, <3>1
  <2>10. new \in Seq({new[i] : i \in 1 .. n + 1})
    <3> HIDE DEF new
    <3>1. DOMAIN new = 1 .. n + 1 /\ new = [i \in 1 .. n + 1 |-> new[i]]
      BY <2>4
    <3> QED BY <3>1
  <2> QED BY <2>4, <2>8, <2>9, <2>10
<1>4. N \in T
  <2> HIDE DEF T
  <2> QED BY <1>2, <1>3, Induct
<1>5. Apart(N)
  <2> HIDE DEF Apart
  <2> QED BY <1>4
<1> QED BY <1>1, <1>5

-----------------------------------------------------------------------------
\* Components.

\* The groups in some order, each once.
LEMMA GroupsInOrder ==
  LET order == SetToSeq(Groups)
  IN  /\ Cardinality(Groups) \in Nat
      /\ order \in [1 .. Cardinality(Groups) -> Groups]
      /\ \A i, j \in 1 .. Cardinality(Groups) : order[i] = order[j] => i = j
      /\ \A g \in Groups : \E i \in 1 .. Cardinality(Groups) : order[i] = g
<1> DEFINE N == Cardinality(Groups)
           S == 1 .. N
           order == SetToSeq(Groups)
           f == [m \in Modules |-> GroupOf(m)]
<1>1. f \in Surjection(Modules, Groups)
  BY DEF Surjection, Groups
<1>2. IsFiniteSet(Groups)
  <2>1. IsFiniteSet(Modules)
    BY CandidatesAssumption
  <2> HIDE DEF f
  <2> QED BY <1>1, <2>1, FS_Surjection
<1>3. N \in Nat /\ ExistsBijection(S, Groups)
  BY <1>2, FS_CardinalityType
<1>4. IsFiniteSet(S) /\ Cardinality(S) = N
  <2>1. \A a, b \in Int : IsFiniteSet(a .. b) /\ Cardinality(a .. b) = IF a > b THEN 0 ELSE b - a + 1
    BY FS_Interval
  <2>2. IsFiniteSet(1 .. N) /\ Cardinality(1 .. N) = IF 1 > N THEN 0 ELSE N - 1 + 1
    <3> HIDE DEF N
    <3> QED BY <1>3, <2>1
  <2> HIDE DEF N
  <2> QED BY <1>3, <2>2 DEF S
<1>5. \E o \in [S -> Groups] : IsInjective(o)
  BY <1>3 DEF ExistsBijection, Bijection, Injection
<1>6. order \in [S -> Groups] /\ IsInjective(order)
  BY <1>5 DEF SetToSeq
<1>7. order \in Injection(S, Groups)
  BY <1>6 DEF Injection
<1>8. order \in Surjection(S, Groups)
  <2> HIDE DEF order, S
  <2> QED BY <1>2, <1>4, <1>7, FS_Injection DEF N
<1>9. \A i, j \in S : order[i] = order[j] => i = j
  BY <1>6 DEF IsInjective
<1>10. \A g \in Groups : \E i \in S : order[i] = g
  BY <1>8 DEF Surjection
<1> QED BY <1>3, <1>6, <1>9, <1>10

\* Every two groups have two identifiers, whatever the words.
LEMMA GroupsToldApart == ComponentsKeepOwners
<1> DEFINE order == SetToSeq(Groups)
           N == Cardinality(Groups)
           ids == IdsOf(order)
           At(m) == CHOOSE i \in 1 .. N : order[i] = GroupOf(m)
<1>1. /\ N \in Nat /\ order \in [1 .. N -> Groups]
      /\ \A i, j \in 1 .. N : order[i] = order[j] => i = j
      /\ \A g \in Groups : \E i \in 1 .. N : order[i] = g
  BY GroupsInOrder
<1>2. \A i, j \in 1 .. N : ids[i] = ids[j] => i = j
  <2> DEFINE Told(o) == \A i, j \in 1 .. N : IdsOf(o)[i] = IdsOf(o)[j] => i = j
  <2>1. \A o \in [1 .. N -> Groups] :
          (\A i, j \in 1 .. N : o[i] = o[j] => i = j) => Told(o)
    <3> HIDE DEF N
    <3> QED BY <1>1, IdsDistinct
  <2>2. Told(order)
    <3> HIDE DEF order, N, Told
    <3> QED BY <1>1, <2>1
  <2> QED BY <2>2
<1>3. ComponentOf = [m \in Modules |-> ids[At(m)]]
  <2>1. DOMAIN order = 1 .. N
    <3> HIDE DEF order, N
    <3> QED BY <1>1
  <2> QED BY <2>1 DEF ComponentOf
<1>4. \A m \in Modules : At(m) \in 1 .. N /\ order[At(m)] = GroupOf(m)
  <2> HIDE DEF order, N
  <2> QED BY <1>1 DEF Groups
<1>5. ASSUME NEW m \in Modules, NEW n \in Modules
      PROVE  ComponentOf[m] = ComponentOf[n] <=> GroupOf(m) = GroupOf(n)
  <2>1. ComponentOf[m] = ids[At(m)] /\ ComponentOf[n] = ids[At(n)]
    <3> HIDE DEF ids, At
    <3> QED BY <1>3
  <2>2. GroupOf(m) = GroupOf(n) => At(m) = At(n)
    OBVIOUS
  <2> HIDE DEF ids, At, order, N
  <2> QED BY <1>2, <1>4, <2>1, <2>2
<1> QED BY <1>5 DEF ComponentsKeepOwners

\* Every component is the modules of one owner key and one place
\* (map_modules_to_components, assign_component_ids).
THEOREM ComponentsAreGroups == CandidatesSpec => []ComponentsKeepOwners
BY GroupsToldApart, PTL

-----------------------------------------------------------------------------
\* The scan of OWNERS files.

IncludesOf(f) == Included(f, General(f))
OwnersOf(directives) == {x[2] : x \in {y \in directives : y[1] = "owner"}}
Read(f) == f \in Files /\ parsed[f] # Absent

\* The directories of source with an OWNERS file, from length n on.
Dirs(source, n) ==
  {d \in {SubSeq(source, 1, i) : i \in n .. Len(source) - 1} : Present(OwnersIn(d))}

\* The OWNERS file of directory d is done with, as far as source goes.
Settled(source, d) ==
  LET f    == OwnersIn(d)
      text == ScopedText(source, d)
  IN  /\ Read(f)
      /\ Sound(f, text)
      /\ \A g \in Reach(Included(f, Says(f, text))) : Read(g)

Quiet(source, n) ==
  \A d \in Dirs(source, n) : ~ Stops(OwnersIn(d), ScopedText(source, d))

\* found has the owners by the directories of source from length n on.
Over(source, n, found) ==
  /\ \A d \in Dirs(source, n) : Settled(source, d)
  /\ found.effective = UNION {LayerOwners(source, d) : d \in Dirs(source, n)}
  /\ \/ /\ found.primary = {}
        /\ \A d \in Dirs(source, n) : LayerOwners(source, d) = {}
     \/ \E d \in Dirs(source, n) :
          /\ found.primary = LayerOwners(source, d) /\ found.primary # {}
          /\ \A e \in Dirs(source, n) : LayerOwners(source, e) # {} => Len(e) <= Len(d)

Finished(source, found) ==
  /\ source # <<>>
  /\ \E n \in 0 .. Len(source) - 1 :
       /\ Over(source, n, found) /\ Quiet(source, n + 1)
       /\ n > 0 => \E d \in Dirs(source, n) :
            Len(d) = n /\ Stops(OwnersIn(d), ScopedText(source, d))

\* The source that the scan has come to, and its walk so far.
Walked ==
  /\ Len(result) < Len(Queue) /\ Source # <<>>
  /\ \E n \in 0 .. Len(Source) - 1 : dir = SubSeq(Source, 1, n)
  /\ Over(Source, Len(dir) + 1, walk) /\ Quiet(Source, Len(dir) + 1)

Bottom == OwnersIn(dir)
Due(i) == IF i = 1 THEN Says(Bottom, ScopedText(Source, dir)) ELSE General(frames[i].file)

\* g is read, does not include itself, and its owners are those of the layer.
Collected(g) ==
  /\ Read(g) /\ g # Bottom /\ g \notin Reach(IncludesOf(g))
  /\ OwnersOf(General(g)) \subseteq layer.owners

Complete(g) == Collected(g) /\ \A h \in Reach(IncludesOf(g)) : Collected(h)

\* A directive of frame i that is carried out; the frame above may be at it.
Done(i, x) ==
  /\ x[1] = "owner" => x[2] \in layer.owners
  /\ x[1] = "include" /\ ~ x[2].external =>
       \/ Complete(Target(frames[i].file, x[2]))
       \/ i < Len(frames) /\ frames[i + 1].file = Target(frames[i].file, x[2])

\* The files that can be reached from the bottom through files that are read.
Spans(T) ==
  /\ Included(Bottom, Due(1)) \intersect Files \subseteq T
  /\ \A g \in T : Read(g) => IncludesOf(g) \intersect Files \subseteq T

\* Frame i, which the frame above it was put on by an include of.
Frame(i) ==
  /\ frames[i] = [file |-> frames[i].file, todo |-> frames[i].todo]
  /\ IsList(frames[i].todo)
  /\ Present(frames[i].file) /\ (frames[i].file = Bottom <=> i = 1)
  /\ i < Len(frames) => frames[i + 1].file \in Included(frames[i].file, Due(i))

\* Frame i has its file read, and has carried out what is not to do.
UnderWay(i) ==
  /\ Read(frames[i].file)
  /\ ToSet(frames[i].todo) \subseteq Due(i)
  /\ \A x \in Due(i) : x \in ToSet(frames[i].todo) \/ Done(i, x)

Stack ==
  /\ IsList(frames) /\ frames # <<>>
  /\ \A i \in 1 .. Len(frames) :
       Frame(i) /\ (i < Len(frames) \/ status = "resolve" => UnderWay(i))

LayerSays ==
  /\ layer = [owners |-> layer.owners, files |-> layer.files,
              unresolved |-> layer.unresolved, stops |-> layer.stops]
  /\ layer.stops <=> Stops(Bottom, ScopedText(Source, dir))
  /\ \A T \in SUBSET Files : Spans(T) =>
       layer.owners \subseteq OwnersOf(Due(1)) \union
         UNION {OwnersOf(General(g)) : g \in {h \in T : Read(h)}}

Reason ==
  \E names \in ToSet(Queue) :
    LET source == NormalSource(names)
    IN  \/ source = <<>>
        \/ \E d \in Counting(source) :
             \/ ~ Parses(Cached(OwnersIn(d)))
             \/ ~ Sound(OwnersIn(d), ScopedText(source, d))

\* What the scan read is there, and could be parsed.
ReadWell ==
  \A f \in Files : parsed[f] # Absent => Present(f) /\ Parses(parsed[f])

Results ==
  /\ Len(result) <= Len(Queue)
  /\ \A k \in DOMAIN result : Finished(NormalSource(Queue[k]), result[k])

Scanned ==
  /\ ReadWell /\ Results
  /\ status = "done" => Len(result) = Len(Queue)
  /\ status \in Failures => Reason
  /\ status \in {"look", "open", "resolve", "read"} => Walked
  /\ status = "open" => Present(Bottom)
  /\ status \in {"resolve", "read"} => Stack /\ LayerSays
  /\ status = "read" => Len(frames) > 1

Typed ==
  /\ modules \in Manifests /\ moved \in BOOLEAN /\ IsList(result)
  /\ DOMAIN tree = Files /\ DOMAIN parsed = Files
  /\ \A f \in Files : tree[f] \in Variants[f] /\ parsed[f] \in Variants[f] \union {Absent}
  /\ status \in Failures \union {"next", "look", "open", "resolve", "read", "done"}

ScanInv == Typed /\ (~ moved => Scanned)

\* Every sequence is a list of what it has.
LEMMA ListIs ==
  ASSUME NEW S, NEW s \in Seq(S)
  PROVE  IsList(s) /\ ToSet(s) \subseteq S
<1>1. Len(s) \in Nat /\ DOMAIN s = 1 .. Len(s) /\ s = [i \in 1 .. Len(s) |-> s[i]]
      /\ \A i \in 1 .. Len(s) : s[i] \in S
  OBVIOUS
<1>2. \A i \in 1 .. Len(s) : s[i] \in ToSet(s)
  BY <1>1 DEF ToSet
<1>3. s \in Seq(ToSet(s))
  <2> DEFINE D == ToSet(s)
  <2> HIDE DEF D
  <2>1. \A i \in 1 .. Len(s) : s[i] \in D
    BY <1>2 DEF D
  <2>2. s \in Seq(D)
    BY <1>1, <2>1
  <2> QED BY <2>2 DEF D
<1>4. ToSet(s) \subseteq S
  BY <1>1 DEF ToSet
<1> QED BY <1>3, <1>4 DEF IsList

\* What a list has, it has at a position.
LEMMA Lists ==
  ASSUME NEW s, IsList(s)
  PROVE  /\ Len(s) \in Nat /\ DOMAIN s = 1 .. Len(s) /\ s \in Seq(ToSet(s))
         /\ (Len(s) = 0 <=> s = <<>>)
         /\ \A x : x \in ToSet(s) <=> \E i \in 1 .. Len(s) : x = s[i]
         /\ \A x : Contains(s, x) <=> x \in ToSet(s)
<1>1. s \in Seq(ToSet(s))
  BY DEF IsList
<1>2. Len(s) \in Nat /\ DOMAIN s = 1 .. Len(s) /\ (Len(s) = 0 <=> s = <<>>)
  <2> DEFINE D == ToSet(s)
  <2> HIDE DEF D
  <2>1. s \in Seq(D)
    BY <1>1 DEF D
  <2> QED BY <2>1
<1>3. \A x : x \in ToSet(s) <=> \E i \in 1 .. Len(s) : x = s[i]
  BY <1>2 DEF ToSet
<1>4. \A x : Contains(s, x) <=> x \in ToSet(s)
  BY <1>3 DEF Contains
<1> QED BY <1>1, <1>2, <1>3, <1>4

\* A sequence with one member.
LEMMA OneMember ==
  ASSUME NEW D, NEW s \in Seq(D), Len(s) = 1
  PROVE  s = <<s[1]>>
<1>1. s = [i \in 1 .. 1 |-> s[i]]
  OBVIOUS
<1>2. \A i \in 1 .. 1 : i = 1
  OBVIOUS
<1>3. <<s[1]>> = [i \in 1 .. 1 |-> s[1]]
  OBVIOUS
<1> QED BY <1>1, <1>2, <1>3

\* A list with one more.
LEMMA ListAppend ==
  ASSUME NEW s, IsList(s), NEW x
  PROVE  /\ IsList(Append(s, x)) /\ Len(Append(s, x)) = Len(s) + 1
         /\ Append(s, x)[Len(s) + 1] = x
         /\ \A i \in 1 .. Len(s) : Append(s, x)[i] = s[i]
<1> DEFINE D == ToSet(s)
<1>1. Len(s) \in Nat /\ s \in Seq(D)
  BY Lists
<1> HIDE DEF D
<1>2. s \in Seq(D \union {x})
  BY <1>1
<1>3. Append(s, x) \in Seq(D \union {x})
  BY <1>2
<1>4. IsList(Append(s, x))
  BY <1>3, ListIs
<1> QED BY <1>1, <1>2, <1>4

\* A list without its last.
LEMMA ListFront ==
  ASSUME NEW s, IsList(s), s # <<>>
  PROVE  /\ IsList(Front(s)) /\ Len(Front(s)) = Len(s) - 1
         /\ \A i \in 1 .. Len(s) - 1 : Front(s)[i] = s[i]
<1> DEFINE D == ToSet(s)
<1>1. Len(s) \in Nat /\ s \in Seq(D) /\ Len(s) # 0
  BY Lists
<1> HIDE DEF D
<1>2. PICK n \in Nat : n = Len(s) - 1
  BY <1>1
<1>3. n \in 0 .. Len(s)
  BY <1>1, <1>2
<1>4. SubSeq(s, 1, n) \in Seq(D) /\ Len(SubSeq(s, 1, n)) = n
  BY <1>1, <1>3
<1>5. \A i \in 1 .. n : SubSeq(s, 1, n)[i] = s[i]
  BY <1>1, <1>3
<1>6. IsList(SubSeq(s, 1, n))
  BY <1>4, ListIs
<1>7. Front(s) = SubSeq(s, 1, n)
  BY <1>2 DEF Front
<1> QED BY <1>2, <1>4, <1>5, <1>6, <1>7

\* A list without its first.
LEMMA ListTail ==
  ASSUME NEW s, IsList(s), s # <<>>
  PROVE  /\ IsList(Tail(s)) /\ Head(s) \in ToSet(s)
         /\ ToSet(Tail(s)) \subseteq ToSet(s)
         /\ \A x \in ToSet(s) : x = Head(s) \/ x \in ToSet(Tail(s))
<1> DEFINE D == ToSet(s)
<1>1. Len(s) \in Nat /\ s \in Seq(D) /\ Len(s) # 0
      /\ \A x : x \in D <=> \E i \in 1 .. Len(s) : x = s[i]
  BY Lists
<1> HIDE DEF D
<1>2. Tail(s) \in Seq(D) /\ Head(s) = s[1] /\ 1 \in 1 .. Len(s) /\ Len(Tail(s)) = Len(s) - 1
      /\ \A i \in 1 .. Len(s) - 1 : Tail(s)[i] = s[i + 1]
  BY <1>1
<1>3. IsList(Tail(s)) /\ ToSet(Tail(s)) \subseteq D
  BY <1>2, ListIs
<1>4. ASSUME NEW x \in D, x # Head(s) PROVE x \in ToSet(Tail(s))
  <2>1. PICK i \in 1 .. Len(s) : x = s[i]
    BY <1>1
  <2>2. i - 1 \in 1 .. Len(s) - 1 /\ (i - 1) + 1 = i
    BY <1>1, <1>2, <1>4, <2>1
  <2>3. x = Tail(s)[i - 1] /\ i - 1 \in 1 .. Len(Tail(s))
    BY <1>2, <2>1, <2>2
  <2> QED BY <1>3, <2>3, Lists
<1>5. Head(s) \in D
  BY <1>1, <1>2
<1> QED BY <1>3, <1>4, <1>5 DEF D

\* A sequence of lists, flattened.
LEMMA Flattened ==
  ASSUME NEW N \in Nat, NEW s, DOMAIN s = 1 .. N, s = [i \in 1 .. N |-> s[i]],
         \A i \in 1 .. N : IsList(s[i])
  PROVE  /\ IsList(FlattenSeq(s))
         /\ \A x : x \in ToSet(FlattenSeq(s)) <=> \E i \in 1 .. N : x \in ToSet(s[i])
<1> DEFINE U == UNION {ToSet(s[i]) : i \in 1 .. N}
<1>1. ASSUME NEW i \in 1 .. N PROVE s[i] \in Seq(U)
  <2> DEFINE t == s[i]
             D == ToSet(t)
  <2>1. t \in Seq(D) /\ D \subseteq U
    <3>1. IsList(t)
      OBVIOUS
    <3>2. t \in Seq(D)
      BY <3>1 DEF IsList
    <3> QED BY <3>2
  <2> HIDE DEF t, D, U
  <2>2. t \in Seq(U)
    BY <2>1
  <2> QED BY <2>2 DEF t
<1> HIDE DEF U
<1>2. s \in Seq(Seq(U)) /\ Len(s) = N
  BY <1>1
<1>3. FlattenSeq(s) \in Seq(U)
  BY <1>2, FlattenIs
<1>4. \A x : x \in ToSet(FlattenSeq(s)) <=> \E i \in 1 .. N : x \in ToSet(s[i])
  BY <1>2, FlattenIs
<1>5. IsList(FlattenSeq(s))
  BY <1>3, ListIs
<1> QED BY <1>4, <1>5

\* The token takes the characters i + 1 .. k of the text.
Fit(token, text, i, k) ==
  /\ i <= k
  /\ CASE token = "..." -> TRUE
       [] token = "*"   -> \A m \in i + 1 .. k : text[m] # "/"
       [] token = "?"   -> k = i + 1 /\ text[k] # "/"
       [] OTHER         -> k = i + 1 /\ text[k] = token

\* The first j tokens of pattern take the first i characters.
Cuts(pattern, text, j, i) ==
  \E cut \in [0 .. j -> 0 .. Len(text)] :
    /\ cut[0] = 0 /\ cut[j] = i
    /\ \A k \in 1 .. j : Fit(pattern[k], text, cut[k - 1], cut[k])

\* That is what a piece of a cut text says.
LEMMA PieceFits ==
  ASSUME NEW text, IsList(text), NEW token, NEW i \in 0 .. Len(text), NEW k \in 0 .. Len(text)
  PROVE  LET piece == SubSeq(text, i + 1, k)
         IN  Fit(token, text, i, k) <=>
               /\ i <= k
               /\ CASE token = "..." -> TRUE
                    [] token = "*"   -> ~ Contains(piece, "/")
                    [] token = "?"   -> Len(piece) = 1 /\ piece # <<"/">>
                    [] OTHER         -> piece = <<token>>
<1> DEFINE piece == SubSeq(text, i + 1, k)
           D == ToSet(text)
<1> SUFFICES ASSUME i <= k
             PROVE Fit(token, text, i, k) <=>
                     CASE token = "..." -> TRUE
                       [] token = "*"   -> ~ Contains(piece, "/")
                       [] token = "?"   -> Len(piece) = 1 /\ piece # <<"/">>
                       [] OTHER         -> piece = <<token>>
  BY DEF Fit
<1>1. text \in Seq(D) /\ Len(text) \in Nat
  BY Lists
<1> HIDE DEF D
<1>2. /\ Len(piece) = k - i /\ piece \in Seq(D) /\ Len(piece) \in Nat
      /\ \A m \in 1 .. k - i : piece[m] = text[i + m]
  BY <1>1
<1>3. CASE token = "..."
  BY <1>3 DEF Fit
<1>4. CASE token = "*"
  <2>1. ASSUME NEW m \in 1 .. Len(piece), piece[m] = "/"
        PROVE  \E j \in i + 1 .. k : text[j] = "/"
    <3>1. i + m \in i + 1 .. k /\ text[i + m] = "/"
      BY <1>2, <2>1
    <3> QED BY <3>1
  <2>2. ASSUME NEW j \in i + 1 .. k, text[j] = "/"
        PROVE  \E m \in 1 .. Len(piece) : piece[m] = "/"
    <3>1. j - i \in 1 .. k - i /\ i + (j - i) = j
      OBVIOUS
    <3>2. piece[j - i] = "/" /\ j - i \in 1 .. Len(piece)
      BY <1>2, <2>2, <3>1
    <3> QED BY <3>2
  <2> HIDE DEF piece
  <2> QED BY <1>4, <2>1, <2>2 DEF Fit, Contains
<1>5. CASE token = "?"
  <2>1. k = i + 1 => Len(piece) = 1 /\ piece[1] = text[k]
    BY <1>2
  <2>2. Len(piece) = 1 => k = i + 1
    BY <1>2
  <2>3. Len(piece) = 1 => piece = <<piece[1]>>
    <3> HIDE DEF piece
    <3> QED BY <1>2, OneMember
  <2>4. piece = <<"/">> => Len(piece) = 1 /\ piece[1] = "/"
    <3> HIDE DEF piece
    <3> QED OBVIOUS
  <2> HIDE DEF piece
  <2> QED BY <1>5, <2>1, <2>2, <2>3, <2>4 DEF Fit
<1>6. CASE token \notin {"...", "*", "?"}
  <2>1. k = i + 1 => Len(piece) = 1 /\ piece[1] = text[k]
    BY <1>2
  <2>2. Len(piece) = 1 => k = i + 1
    BY <1>2
  <2>3. Len(piece) = 1 => piece = <<piece[1]>>
    <3> HIDE DEF piece
    <3> QED BY <1>2, OneMember
  <2>4. piece = <<token>> => Len(piece) = 1 /\ piece[1] = token
    <3> HIDE DEF piece
    <3> QED OBVIOUS
  <2> HIDE DEF piece
  <2> QED BY <1>6, <2>1, <2>2, <2>3, <2>4 DEF Fit
<1> QED BY <1>3, <1>4, <1>5, <1>6

\* One token more.
LEMMA OneTokenMore ==
  ASSUME NEW pattern, NEW text, NEW j \in Nat, NEW i \in 0 .. Len(text), Len(text) \in Nat
  PROVE  Cuts(pattern, text, j + 1, i) <=>
           \E h \in 0 .. i : Cuts(pattern, text, j, h) /\ Fit(pattern[j + 1], text, h, i)
<1> DEFINE L == Len(text)
           n == j + 1
<1>0. n \in 1 .. n /\ n - 1 = j /\ j \in 0 .. n /\ \A k \in 1 .. j : k \in 1 .. n /\ k # n
  OBVIOUS
<1>1. ASSUME Cuts(pattern, text, n, i)
      PROVE  \E h \in 0 .. i : Cuts(pattern, text, j, h) /\ Fit(pattern[n], text, h, i)
  <2>1. PICK cut \in [0 .. n -> 0 .. L] :
          /\ cut[0] = 0 /\ cut[n] = i
          /\ \A k \in 1 .. n : Fit(pattern[k], text, cut[k - 1], cut[k])
    BY <1>1 DEF Cuts
  <2> DEFINE c == [k \in 0 .. j |-> cut[k]]
  <2>2. \A k \in 0 .. j : k \in 0 .. n
    OBVIOUS
  <2>3. c \in [0 .. j -> 0 .. L] /\ c[0] = 0
    BY <2>1, <2>2
  <2>4. ASSUME NEW k \in 1 .. j PROVE Fit(pattern[k], text, c[k - 1], c[k])
    <3>1. k \in 0 .. j /\ k - 1 \in 0 .. j /\ k \in 1 .. n
      OBVIOUS
    <3>2. c[k] = cut[k] /\ c[k - 1] = cut[k - 1]
      BY <3>1
    <3> QED BY <2>1, <3>1, <3>2
  <2>5. c[j] = cut[j] /\ cut[j] \in 0 .. L
    BY <1>0, <2>1
  <2>6. Fit(pattern[n], text, cut[j], i)
    BY <1>0, <2>1
  <2>7. cut[j] \in 0 .. i
    BY <2>5, <2>6 DEF Fit
  <2> HIDE DEF c
  <2>8. Cuts(pattern, text, j, cut[j])
    BY <2>3, <2>4, <2>5 DEF Cuts
  <2> QED BY <2>6, <2>7, <2>8
<1>2. ASSUME NEW h \in 0 .. i, Cuts(pattern, text, j, h), Fit(pattern[n], text, h, i)
      PROVE  Cuts(pattern, text, n, i)
  <2>1. PICK cut \in [0 .. j -> 0 .. L] :
          /\ cut[0] = 0 /\ cut[j] = h
          /\ \A k \in 1 .. j : Fit(pattern[k], text, cut[k - 1], cut[k])
    BY <1>2 DEF Cuts
  <2> DEFINE c == [k \in 0 .. n |-> IF k = n THEN i ELSE cut[k]]
  <2>2. \A k \in 0 .. n : k = n \/ k \in 0 .. j
    OBVIOUS
  <2>3. c \in [0 .. n -> 0 .. L]
    BY <2>1, <2>2
  <2>4. c[0] = 0 /\ c[n] = i /\ c[j] = h
    BY <2>1, <1>0
  <2>5. ASSUME NEW k \in 1 .. n PROVE Fit(pattern[k], text, c[k - 1], c[k])
    <3>1. CASE k = n
      BY <1>0, <1>2, <2>4, <3>1
    <3>2. CASE k # n
      <4>1. k \in 1 .. j /\ k - 1 \in 0 .. n /\ k \in 0 .. n /\ k - 1 # n
        BY <3>2
      <4>2. c[k] = cut[k] /\ c[k - 1] = cut[k - 1]
        BY <3>2, <4>1
      <4> QED BY <2>1, <4>1, <4>2
    <3> QED BY <3>1, <3>2
  <2> HIDE DEF c
  <2> QED BY <2>3, <2>4, <2>5 DEF Cuts
<1> QED BY <1>1, <1>2

\* The row that NextRow gives, position by position.
LEMMA RowUnfolds ==
  ASSUME NEW text, Len(text) \in Nat, NEW token, NEW row
  PROVE  /\ NextRow(token, text, row) =
              [i \in 0 .. Len(text) |-> NextRow(token, text, row)[i]]
         /\ \A i \in 0 .. Len(text) :
              NextRow(token, text, row)[i] =
                IF i = 0 THEN token \in {"*", "..."} /\ row[0]
                ELSE CASE token = "..." -> row[i] \/ NextRow(token, text, row)[i - 1]
                       [] token = "*"   -> row[i] \/ (text[i] # "/" /\ NextRow(token, text, row)[i - 1])
                       [] token = "?"   -> text[i] # "/" /\ row[i - 1]
                       [] OTHER         -> text[i] = token /\ row[i - 1]
<1> DEFINE L == Len(text)
           At(i, before) ==
             CASE token = "..." -> row[i] \/ before
               [] token = "*"   -> row[i] \/ (text[i] # "/" /\ before)
               [] token = "?"   -> text[i] # "/" /\ row[i - 1]
               [] OTHER         -> text[i] = token /\ row[i - 1]
           F(f) == [i \in 0 .. Len(text) |->
                     IF i = 0 THEN token \in {"*", "..."} /\ row[0]
                     ELSE CASE token = "..." -> row[i] \/ f[i - 1]
                            [] token = "*"   -> row[i] \/ (text[i] # "/" /\ f[i - 1])
                            [] token = "?"   -> text[i] # "/" /\ row[i - 1]
                            [] OTHER         -> text[i] = token /\ row[i - 1]]
           next == CHOOSE f : f = F(f)
<1>1. \E f : f = F(f)
  <2> DEFINE b == token \in {"*", "..."} /\ row[0]
             G == [n \in 1 .. L |-> [v \in BOOLEAN |-> At(n, v)]]
  <2>1. PICK w : Follows(w, L, b, G)
    <3> HIDE DEF b, G
    <3> QED BY Recursion
  <2>2. w[0] = b /\ \A n \in 1 .. L : w[n] = G[n][w[n - 1]]
    <3> HIDE DEF b, G
    <3> QED BY <2>1 DEF Follows
  <2>3. b \in BOOLEAN /\ \A n \in 1 .. L : \A v \in BOOLEAN : G[n][v] \in BOOLEAN /\ G[n][v] = At(n, v)
    OBVIOUS
  <2> HIDE DEF b, G, At
  <2> DEFINE T == {n \in Nat : n <= L => w[n] \in BOOLEAN}
  <2>4. 0 \in T
    BY <2>2, <2>3
  <2>5. ASSUME NEW n \in Nat, n \in T PROVE n + 1 \in T
    <3> SUFFICES ASSUME n + 1 <= L PROVE w[n + 1] \in BOOLEAN
      OBVIOUS
    <3>1. n + 1 \in 1 .. L /\ (n + 1) - 1 = n /\ w[n] \in BOOLEAN
      BY <2>5
    <3> QED BY <2>2, <2>3, <3>1
  <2>6. Nat \subseteq T
    <3> HIDE DEF T
    <3> QED BY <2>4, <2>5, Induct
  <2>7. \A n \in 1 .. L : w[n] = At(n, w[n - 1])
    <3> SUFFICES ASSUME NEW n \in 1 .. L PROVE w[n] = At(n, w[n - 1])
      OBVIOUS
    <3>1. n - 1 \in Nat /\ n - 1 <= L
      OBVIOUS
    <3>2. w[n - 1] \in BOOLEAN
      BY <2>6, <3>1
    <3> QED BY <2>2, <2>3, <3>2
  <2> DEFINE f == [i \in 0 .. L |-> w[i]]
  <2>8. \A i \in 0 .. L : f[i] = IF i = 0 THEN b ELSE At(i, f[i - 1])
    <3> SUFFICES ASSUME NEW i \in 0 .. L PROVE f[i] = IF i = 0 THEN b ELSE At(i, f[i - 1])
      OBVIOUS
    <3>1. i # 0 => i \in 1 .. L /\ i - 1 \in 0 .. L
      OBVIOUS
    <3> QED BY <2>2, <2>7, <3>1
  <2>9. f = [i \in 0 .. L |-> f[i]]
    OBVIOUS
  <2> HIDE DEF f
  <2>10. f = [i \in 0 .. L |-> IF i = 0 THEN b ELSE At(i, f[i - 1])]
    BY <2>8, <2>9
  <2>11. f = F(f)
    BY <2>10 DEF b, At
  <2> HIDE DEF F
  <2> QED BY <2>11
<1>2. next = F(next)
  <2> HIDE DEF F
  <2> QED BY <1>1
<1>3. NextRow(token, text, row) = next
  BY DEF NextRow
<1> HIDE DEF next
<1> QED BY <1>2, <1>3

\* Position i of the next row: some position before it, and the token between.
LEMMA RowMeans ==
  ASSUME NEW text, Len(text) \in Nat, NEW token, NEW row \in [0 .. Len(text) -> BOOLEAN]
  PROVE  /\ NextRow(token, text, row) \in [0 .. Len(text) -> BOOLEAN]
         /\ \A i \in 0 .. Len(text) :
              NextRow(token, text, row)[i] <=> \E h \in 0 .. i : row[h] /\ Fit(token, text, h, i)
<1> DEFINE L == Len(text)
<1>1. PICK next : next = NextRow(token, text, row)
  OBVIOUS
<1>2. /\ next = [i \in 0 .. L |-> next[i]]
      /\ \A i \in 0 .. L :
          next[i] = IF i = 0 THEN token \in {"*", "..."} /\ row[0]
                    ELSE CASE token = "..." -> row[i] \/ next[i - 1]
                           [] token = "*"   -> row[i] \/ (text[i] # "/" /\ next[i - 1])
                           [] token = "?"   -> text[i] # "/" /\ row[i - 1]
                           [] OTHER         -> text[i] = token /\ row[i - 1]
  BY <1>1, RowUnfolds
<1>3. \A i \in 0 .. L : next[i] \in BOOLEAN
  BY <1>2
<1>4. next \in [0 .. L -> BOOLEAN]
  <2>1. \A i \in 0 .. L : next[i] \in BOOLEAN
    BY <1>3
  <2>2. [i \in 0 .. L |-> next[i]] \in [0 .. L -> BOOLEAN]
    BY <2>1
  <2> QED BY <1>2, <2>2
<1> DEFINE Good(i) == next[i] <=> \E h \in 0 .. i : row[h] /\ Fit(token, text, h, i)
<1>5. ASSUME token = "..." PROVE \A i \in 0 .. L : Good(i)
  <2>1. \A h, i \in Nat : Fit(token, text, h, i) <=> h <= i
    BY <1>5 DEF Fit
  <2> DEFINE T == {n \in Nat : n <= L => Good(n)}
  <2>2. 0 \in T
    <3>1. next[0] <=> row[0]
      BY <1>2, <1>5
    <3> QED BY <2>1, <3>1
  <2>3. ASSUME NEW n \in Nat, n \in T PROVE n + 1 \in T
    <3> SUFFICES ASSUME n + 1 <= L PROVE Good(n + 1)
      OBVIOUS
    <3>1. Good(n) /\ (n + 1) - 1 = n /\ n + 1 \in 1 .. L /\ n + 1 # 0 /\ n + 1 \in 0 .. L
      BY <2>3
    <3>2. next[n + 1] <=> row[n + 1] \/ next[n]
      <4>1. next[n + 1] = (row[n + 1] \/ next[(n + 1) - 1])
        <5> QED BY <1>2, <1>5, <3>1
      <4> QED BY <3>1, <4>1
    <3>3. \A h : h \in 0 .. n + 1 <=> h \in 0 .. n \/ h = n + 1
      OBVIOUS
    <3>4. next[n] <=> \E h \in 0 .. n : row[h]
      <4>1. \A h \in 0 .. n : Fit(token, text, h, n)
        BY <2>1
      <4> QED BY <3>1, <4>1
    <3>5. \A h \in 0 .. n + 1 : Fit(token, text, h, n + 1)
      BY <2>1
    <3> QED BY <3>2, <3>3, <3>4, <3>5
  <2>4. Nat \subseteq T
    <3> HIDE DEF T
    <3> QED BY <2>2, <2>3, Induct
  <2> QED BY <2>4
<1>6. ASSUME token = "*" PROVE \A i \in 0 .. L : Good(i)
  <2>1. \A h, i \in Nat : Fit(token, text, h, i) <=>
          h <= i /\ \A m \in h + 1 .. i : text[m] # "/"
    BY <1>6 DEF Fit
  <2> DEFINE T == {n \in Nat : n <= L => Good(n)}
  <2>2. 0 \in T
    <3>1. next[0] <=> row[0]
      BY <1>2, <1>6
    <3>2. Fit(token, text, 0, 0)
      BY <2>1
    <3> QED BY <3>1, <3>2
  <2>3. ASSUME NEW n \in Nat, n \in T PROVE n + 1 \in T
    <3> SUFFICES ASSUME n + 1 <= L PROVE Good(n + 1)
      OBVIOUS
    <3>1. Good(n) /\ (n + 1) - 1 = n /\ n + 1 \in 1 .. L /\ n + 1 # 0 /\ n + 1 \in 0 .. L
      BY <2>3
    <3>2. next[n + 1] <=> row[n + 1] \/ (text[n + 1] # "/" /\ next[n])
      BY <1>2, <1>6, <3>1
    <3>3. \A h : h \in 0 .. n + 1 <=> h \in 0 .. n \/ h = n + 1
      OBVIOUS
    <3>4. Fit(token, text, n + 1, n + 1)
      BY <2>1
    <3>5. ASSUME NEW h \in 0 .. n
          PROVE  Fit(token, text, h, n + 1) <=> text[n + 1] # "/" /\ Fit(token, text, h, n)
      <4>1. \A m : m \in h + 1 .. n + 1 <=> m \in h + 1 .. n \/ m = n + 1
        OBVIOUS
      <4>2. Fit(token, text, h, n + 1) <=> \A m \in h + 1 .. n + 1 : text[m] # "/"
        BY <2>1
      <4>3. Fit(token, text, h, n) <=> \A m \in h + 1 .. n : text[m] # "/"
        BY <2>1
      <4> QED BY <4>1, <4>2, <4>3
    <3> QED BY <3>1, <3>2, <3>3, <3>4, <3>5
  <2>4. Nat \subseteq T
    <3> HIDE DEF T
    <3> QED BY <2>2, <2>3, Induct
  <2> QED BY <2>4
<1>7. ASSUME token \notin {"*", "..."} PROVE \A i \in 0 .. L : Good(i)
  <2> SUFFICES ASSUME NEW i \in 0 .. L PROVE Good(i)
    OBVIOUS
  <2>1. \A h, k \in Nat : Fit(token, text, h, k) <=>
          k = h + 1 /\ (IF token = "?" THEN text[k] # "/" ELSE text[k] = token)
    BY <1>7 DEF Fit
  <2>2. CASE i = 0
    <3>0. 0 \in 0 .. L
      OBVIOUS
    <3>1. ~ next[0]
      BY <1>2, <1>7, <3>0
    <3>2. \A h \in 0 .. 0 : ~ Fit(token, text, h, 0)
      BY <2>1
    <3> QED BY <2>2, <3>1, <3>2
  <2>3. CASE i # 0
    <3>1. i - 1 \in 0 .. i /\ (i - 1) + 1 = i /\ \A h \in 0 .. i : i = h + 1 => h = i - 1
      BY <2>3
    <3>2. next[i] <=> row[i - 1] /\ (IF token = "?" THEN text[i] # "/" ELSE text[i] = token)
      BY <1>2, <1>7, <2>3
    <3> QED BY <2>1, <3>1, <3>2
  <2> QED BY <2>2, <2>3
<1>8. \A i \in 0 .. L : Good(i)
  BY <1>5, <1>6, <1>7
<1> QED BY <1>1, <1>4, <1>8

\* The rows of a pattern, token by token.
LEMMA GlobUnfolds ==
  ASSUME NEW pattern, IsList(pattern), NEW text, Len(text) \in Nat
  PROVE  \E rows :
           /\ rows[0] = [i \in 0 .. Len(text) |-> i = 0]
           /\ \A n \in 0 .. Len(pattern) : rows[n] \in [0 .. Len(text) -> BOOLEAN]
           /\ \A n \in 1 .. Len(pattern) :
                rows[n] = NextRow(pattern[n], text, rows[n - 1])
           /\ GlobMatches(pattern, text) = rows[Len(pattern)][Len(text)]
<1> DEFINE N == Len(pattern)
           L == Len(text)
           Rows == [0 .. L -> BOOLEAN]
           b == [i \in 0 .. L |-> i = 0]
           f == CHOOSE f : f = [s \in SUBSET (1 .. N) |-> IF s = {} THEN b
                   ELSE NextRow(pattern[Max(s)], text, f[s \ {Max(s)}])]
           G == [n \in 1 .. N |-> [v \in Rows |-> NextRow(pattern[n], text, v)]]
<1>1. N \in Nat /\ DOMAIN pattern = 1 .. N
  BY Lists
<1>2. b \in Rows
  OBVIOUS
<1>3. \A n \in 1 .. N : \A v \in Rows : G[n][v] = NextRow(pattern[n], text, v) /\ G[n][v] \in Rows
  BY RowMeans
<1> HIDE DEF G, b, Rows
<1>4. ASSUME NEW g, IsFold(g, SUBSET (1 .. N), b, G)
      PROVE  /\ \A s \in SUBSET (1 .. N) : g[s] \in Rows
             /\ g = [s \in SUBSET (1 .. N) |-> IF s = {} THEN b
                     ELSE NextRow(pattern[Max(s)], text, g[s \ {Max(s)}])]
  <2>1. \A s \in SUBSET (1 .. N) : g[s] \in Rows
    <3>1. \A n \in 1 .. N : \A v \in Rows : G[n][v] \in Rows
      BY <1>3
    <3> HIDE DEF N
    <3> QED BY <1>1, <1>2, <1>4, <3>1, FoldStays
  <2>2. ASSUME NEW s \in SUBSET (1 .. N), s # {}
        PROVE  G[Max(s)][g[s \ {Max(s)}]] = NextRow(pattern[Max(s)], text, g[s \ {Max(s)}])
    <3>1. Max(s) \in 1 .. N
      BY <1>1, <2>2, MaxIn
    <3>2. s \ {Max(s)} \in SUBSET (1 .. N)
      OBVIOUS
    <3> HIDE DEF N
    <3> QED BY <1>3, <2>1, <3>1, <3>2
  <2>3. g = [s \in SUBSET (1 .. N) |-> IF s = {} THEN b ELSE G[Max(s)][g[s \ {Max(s)}]]]
    BY <1>4 DEF IsFold
  <2> HIDE DEF N
  <2> QED BY <2>1, <2>2, <2>3
<1>5. f = [s \in SUBSET (1 .. N) |-> IF s = {} THEN b
             ELSE NextRow(pattern[Max(s)], text, f[s \ {Max(s)}])]
  <2>1. PICK g : IsFold(g, SUBSET (1 .. N), b, G)
    BY <1>1, FoldExists
  <2>2. g = [s \in SUBSET (1 .. N) |-> IF s = {} THEN b
             ELSE NextRow(pattern[Max(s)], text, g[s \ {Max(s)}])]
    BY <1>4, <2>1
  <2> QED BY <2>2
<1>6. GlobMatches(pattern, text) = f[1 .. N][L]
  BY <1>1 DEF GlobMatches, FoldLeft, MapThenFoldSet, b
<1> HIDE DEF f
<1> DEFINE K == [n \in 1 .. N |-> [v \in {f[s] : s \in SUBSET (1 .. N)} |-> NextRow(pattern[n], text, v)]]
<1>7. IsFold(f, SUBSET (1 .. N), b, K)
  <2>1. ASSUME NEW s \in SUBSET (1 .. N), s # {}
        PROVE  K[Max(s)][f[s \ {Max(s)}]] = NextRow(pattern[Max(s)], text, f[s \ {Max(s)}])
    <3>1. Max(s) \in 1 .. N
      BY <1>1, <2>1, MaxIn
    <3>2. s \ {Max(s)} \in SUBSET (1 .. N)
      OBVIOUS
    <3> HIDE DEF N
    <3> QED BY <3>1, <3>2
  <2> HIDE DEF N, K
  <2> QED BY <1>5, <2>1 DEF IsFold
<1> DEFINE rows == [n \in 0 .. N |-> f[1 .. n]]
<1>8. Follows(rows, N, b, K)
  <2> HIDE DEF K, N
  <2>1. Follows([n \in 0 .. N |-> f[1 .. n]], N, b, K)
    BY <1>1, <1>7, FoldSteps
  <2> QED BY <2>1
<1>9. rows[0] = b /\ \A n \in 1 .. N : rows[n] = K[n][rows[n - 1]]
  <2> HIDE DEF rows, K, N
  <2> QED BY <1>8 DEF Follows
<1>10. ASSUME NEW n \in 1 .. N PROVE rows[n] = NextRow(pattern[n], text, rows[n - 1])
  <2>1. n - 1 \in 0 .. N /\ 1 .. n - 1 \in SUBSET (1 .. N)
    BY <1>1
  <2>2. rows[n - 1] \in {f[s] : s \in SUBSET (1 .. N)}
    BY <2>1
  <2> HIDE DEF rows
  <2> QED BY <1>9, <2>2
<1> DEFINE T == {n \in Nat : n <= N => rows[n] \in Rows}
<1>11. Nat \subseteq T
  <2> HIDE DEF rows, N
  <2>1. 0 \in T
    BY <1>1, <1>2, <1>9
  <2>2. ASSUME NEW n \in Nat, n \in T PROVE n + 1 \in T
    <3> SUFFICES ASSUME n + 1 <= N PROVE rows[n + 1] \in Rows
      OBVIOUS
    <3>1. n + 1 \in 1 .. N /\ (n + 1) - 1 = n /\ rows[n] \in Rows
      BY <1>1, <2>2
    <3>2. rows[n + 1] = NextRow(pattern[n + 1], text, rows[n])
      BY <1>10, <3>1
    <3> QED BY <1>3, <3>1, <3>2
  <2> HIDE DEF T
  <2> QED BY <2>1, <2>2, Induct
<1>12. \A n \in 0 .. N : rows[n] \in Rows
  <2> HIDE DEF rows, N
  <2> QED BY <1>1, <1>11
<1>13. GlobMatches(pattern, text) = rows[N][L]
  <2>1. N \in 0 .. N
    BY <1>1
  <2> QED BY <1>6, <2>1
<1> HIDE DEF rows
<1> QED BY <1>9, <1>10, <1>12, <1>13 DEF b, Rows

\* glob_matches finds a way to cut the text into one piece per token.
LEMMA GlobMeans ==
  ASSUME NEW pattern, IsList(pattern), NEW text, IsList(text)
  PROVE  GlobMatches(pattern, text) <=> Means(pattern, text)
<1> DEFINE N == Len(pattern)
           L == Len(text)
<1>1. N \in Nat /\ L \in Nat /\ DOMAIN pattern = 1 .. N
  BY Lists
<1>2. PICK rows :
        /\ rows[0] = [i \in 0 .. L |-> i = 0]
        /\ \A n \in 0 .. N : rows[n] \in [0 .. L -> BOOLEAN]
        /\ \A n \in 1 .. N : rows[n] = NextRow(pattern[n], text, rows[n - 1])
        /\ GlobMatches(pattern, text) = rows[N][L]
  BY <1>1, GlobUnfolds
<1> DEFINE Good(n) == \A i \in 0 .. L : rows[n][i] <=> Cuts(pattern, text, n, i)
           T == {n \in Nat : n <= N => Good(n)}
<1>3. 0 \in T
  <2>1. ASSUME NEW i \in 0 .. L PROVE Cuts(pattern, text, 0, i) <=> i = 0
    <3>1. Cuts(pattern, text, 0, i) => i = 0
      BY DEF Cuts
    <3>2. ASSUME i = 0 PROVE Cuts(pattern, text, 0, i)
      <4> DEFINE c == [k \in 0 .. 0 |-> 0]
      <4>1. c \in [0 .. 0 -> 0 .. L] /\ c[0] = 0 /\ 1 .. 0 = {}
        BY <1>1
      <4> HIDE DEF c
      <4> QED BY <3>2, <4>1 DEF Cuts
    <3> QED BY <3>1, <3>2
  <2>2. \A i \in 0 .. L : rows[0][i] <=> i = 0
    BY <1>2
  <2> QED BY <2>1, <2>2
<1>4. ASSUME NEW n \in Nat, n \in T PROVE n + 1 \in T
  <2> SUFFICES ASSUME n + 1 <= N, NEW i \in 0 .. L
               PROVE  rows[n + 1][i] <=> Cuts(pattern, text, n + 1, i)
    OBVIOUS
  <2>1. Good(n) /\ n + 1 \in 1 .. N /\ (n + 1) - 1 = n /\ n \in 0 .. N
    <3> HIDE DEF Good
    <3> QED BY <1>1, <1>4
  <2>2. rows[n + 1] = NextRow(pattern[n + 1], text, rows[n]) /\ rows[n] \in [0 .. L -> BOOLEAN]
    BY <1>2, <2>1
  <2>3. rows[n + 1][i] <=> \E h \in 0 .. i : rows[n][h] /\ Fit(pattern[n + 1], text, h, i)
    BY <1>1, <2>2, RowMeans
  <2>4. \A h \in 0 .. i : h \in 0 .. L
    BY <1>1
  <2>5. \A h \in 0 .. i : rows[n][h] <=> Cuts(pattern, text, n, h)
    BY <2>1, <2>4
  <2>6. Cuts(pattern, text, n + 1, i) <=>
          \E h \in 0 .. i : Cuts(pattern, text, n, h) /\ Fit(pattern[n + 1], text, h, i)
    BY <1>1, OneTokenMore
  <2> QED BY <2>3, <2>5, <2>6
<1>5. Nat \subseteq T
  <2> HIDE DEF T
  <2> QED BY <1>3, <1>4, Induct
<1>6. GlobMatches(pattern, text) <=> Cuts(pattern, text, N, L)
  <2>1. N <= N /\ L \in 0 .. L
    BY <1>1
  <2>2. Good(N)
    <3> HIDE DEF Good
    <3> QED BY <1>1, <1>5, <2>1
  <2> QED BY <1>2, <2>1, <2>2
<1>7. ASSUME NEW cut \in [0 .. N -> 0 .. L], NEW k \in 1 .. N
      PROVE  LET piece == SubSeq(text, cut[k - 1] + 1, cut[k])
             IN  Fit(pattern[k], text, cut[k - 1], cut[k]) <=>
                   /\ cut[k - 1] <= cut[k]
                   /\ CASE pattern[k] = "..." -> TRUE
                        [] pattern[k] = "*"   -> ~ Contains(piece, "/")
                        [] pattern[k] = "?"   -> Len(piece) = 1 /\ piece # <<"/">>
                        [] OTHER              -> piece = <<pattern[k]>>
  <2>1. k - 1 \in 0 .. N /\ k \in 0 .. N
    BY <1>1
  <2>2. cut[k - 1] \in 0 .. L /\ cut[k] \in 0 .. L
    BY <2>1
  <2> QED BY <2>2, PieceFits
<1>8. Means(pattern, text) <=> Cuts(pattern, text, N, L)
  BY <1>1, <1>7 DEF Means, Cuts
<1> QED BY <1>6, <1>8

\* A source whose names can be spelled.
Spelled(source) == IsList(source) /\ \A n \in ToSet(source) : IsList(Spell[n])

\* The queue of a manifest, and what becomes of its sources.
LEMMA QueueIs ==
  ASSUME modules \in Manifests
  PROVE  /\ IsList(Queue)
         /\ \A names \in ToSet(Queue) : Spelled(NormalSource(names))
<1>1. /\ IsList(modules)
      /\ \A sources \in ToSet(modules) :
           /\ IsList(sources)
           /\ \A names \in ToSet(sources) :
                /\ IsList(names)
                /\ \A n \in ToSet(names) \ {".", ".."} : IsList(Spell[n])
  BY OwnersAssumption
<1>2. PICK N \in Nat : N = Len(modules)
  BY <1>1, Lists
<1>3. DOMAIN modules = 1 .. N /\ modules = [i \in 1 .. N |-> modules[i]]
      /\ \A i \in 1 .. N : modules[i] \in ToSet(modules)
  <2> DEFINE D == ToSet(modules)
  <2>1. modules \in Seq(D)
    BY <1>1 DEF IsList
  <2> HIDE DEF D
  <2>2. DOMAIN modules = 1 .. N /\ modules = [i \in 1 .. N |-> modules[i]]
        /\ \A i \in 1 .. N : modules[i] \in D
    BY <1>2, <2>1
  <2> QED BY <2>2 DEF D
<1>4. IsList(Queue)
  BY <1>1, <1>3, Flattened DEF Queue
<1>5. \A names \in ToSet(Queue) : \E i \in 1 .. N : names \in ToSet(modules[i])
  BY <1>1, <1>3, Flattened DEF Queue
<1>6. ASSUME NEW names \in ToSet(Queue) PROVE Spelled(NormalSource(names))
  <2>1. /\ IsList(names)
        /\ \A n \in ToSet(names) \ {".", ".."} : IsList(Spell[n])
    BY <1>1, <1>3, <1>5
  <2>2. PICK M \in Nat : M = Len(names) /\ DOMAIN names = 1 .. M
    BY <2>1, Lists
  <2>3. CASE Contains(names, "..")
    <3>1. NormalSource(names) = <<>>
      BY <2>3 DEF NormalSource
    <3>2. <<>> \in Seq({}) /\ ToSet(<<>>) = {}
      BY DEF ToSet
    <3> QED BY <3>1, <3>2 DEF Spelled, IsList
  <2>4. CASE ~ Contains(names, "..")
    <3> DEFINE K == ToSet(names) \ {"."}
               F(f) == [i \in 0 .. Len(names) |->
                         IF i = 0 THEN <<>>
                         ELSE IF names[i] = "." THEN f[i - 1] ELSE Append(f[i - 1], names[i])]
               c == CHOOSE f : f = F(f)
    <3>1. NormalSource(names) = c[Len(names)]
      BY <2>4 DEF NormalSource
    <3>2. \E f : f = F(f)
      <4> DEFINE G == [n \in 1 .. M |-> [v \in Seq(K) |->
                         IF names[n] = "." THEN v ELSE Append(v, names[n])]]
      <4>1. PICK w : Follows(w, M, <<>>, G)
        <5> HIDE DEF G
        <5> QED BY Recursion
      <4>2. w[0] = <<>> /\ \A n \in 1 .. M : w[n] = G[n][w[n - 1]]
        <5> HIDE DEF G
        <5> QED BY <4>1 DEF Follows
      <4>3. \A n \in 1 .. M : names[n] = "." \/ names[n] \in K
        BY <2>1, <2>2, Lists
      <4> HIDE DEF K
      <4> DEFINE T == {n \in Nat : n <= M => w[n] \in Seq(K)}
      <4>4. 0 \in T
        <5>1. w[0] \in Seq(K)
          BY <4>2
        <5> QED BY <5>1
      <4>5. ASSUME NEW n \in Nat, n \in T PROVE n + 1 \in T
        <5> SUFFICES ASSUME n + 1 <= M PROVE w[n + 1] \in Seq(K)
          OBVIOUS
        <5>1. n + 1 \in 1 .. M /\ (n + 1) - 1 = n /\ w[n] \in Seq(K)
          BY <4>5
        <5>2. w[n + 1] = G[n + 1][w[n]]
          BY <4>2, <5>1
        <5>3. w[n + 1] = IF names[n + 1] = "." THEN w[n] ELSE Append(w[n], names[n + 1])
          BY <5>1, <5>2
        <5>4. names[n + 1] = "." \/ names[n + 1] \in K
          BY <4>3, <5>1
        <5> HIDE DEF G
        <5> QED BY <5>1, <5>3, <5>4
      <4>6. Nat \subseteq T
        <5> HIDE DEF T
        <5> QED BY <4>4, <4>5, Induct
      <4>7. \A n \in 1 .. M : w[n] = IF names[n] = "." THEN w[n - 1] ELSE Append(w[n - 1], names[n])
        <5> SUFFICES ASSUME NEW n \in 1 .. M
                     PROVE  w[n] = IF names[n] = "." THEN w[n - 1] ELSE Append(w[n - 1], names[n])
          OBVIOUS
        <5>1. n - 1 \in Nat /\ n - 1 <= M
          OBVIOUS
        <5>2. w[n - 1] \in Seq(K)
          BY <4>6, <5>1
        <5> QED BY <4>2, <5>2
      <4> HIDE DEF G, T
      <4> DEFINE f == [i \in 0 .. M |-> w[i]]
      <4>8. \A i \in 0 .. M : f[i] = IF i = 0 THEN <<>>
                         ELSE IF names[i] = "." THEN f[i - 1] ELSE Append(f[i - 1], names[i])
        <5> SUFFICES ASSUME NEW i \in 0 .. M
                     PROVE  f[i] = IF i = 0 THEN <<>>
                         ELSE IF names[i] = "." THEN f[i - 1] ELSE Append(f[i - 1], names[i])
          OBVIOUS
        <5>1. i # 0 => i \in 1 .. M /\ i - 1 \in 0 .. M
          OBVIOUS
        <5> QED BY <4>2, <4>7, <5>1
      <4>9. f = [i \in 0 .. M |-> f[i]]
        OBVIOUS
      <4> HIDE DEF f
      <4>10. f = F(f)
        BY <2>2, <4>8, <4>9
      <4> HIDE DEF F
      <4> QED BY <4>10
    <3>3. c = F(c)
      <4> HIDE DEF F
      <4> QED BY <3>2
    <3> HIDE DEF c
    <3>4. \A i \in 0 .. M : c[i] = IF i = 0 THEN <<>>
                         ELSE IF names[i] = "." THEN c[i - 1] ELSE Append(c[i - 1], names[i])
      BY <2>2, <3>3
    <3>5. \A n \in 1 .. M : names[n] = "." \/ names[n] \in K
      BY <2>1, <2>2, Lists
    <3> HIDE DEF F
    <3> DEFINE T == {n \in Nat : n <= M => c[n] \in Seq(K)}
    <3>6. Nat \subseteq T
      <4> HIDE DEF K
      <4>1. 0 \in T
        <5>1. 0 \in 0 .. M
          OBVIOUS
        <5>2. c[0] = <<>>
          BY <3>4, <5>1
        <5>3. c[0] \in Seq(K)
          BY <5>2
        <5> QED BY <5>3
      <4>2. ASSUME NEW n \in Nat, n \in T PROVE n + 1 \in T
        <5> SUFFICES ASSUME n + 1 <= M PROVE c[n + 1] \in Seq(K)
          OBVIOUS
        <5>1. n + 1 \in 1 .. M /\ (n + 1) - 1 = n /\ c[n] \in Seq(K) /\ n + 1 # 0 /\ n + 1 \in 0 .. M
          BY <4>2
        <5>2. c[n + 1] = IF names[n + 1] = "." THEN c[n] ELSE Append(c[n], names[n + 1])
          BY <3>4, <5>1
        <5> QED BY <3>5, <5>1, <5>2
      <4> HIDE DEF T
      <4> QED BY <4>1, <4>2, Induct
    <3>7. NormalSource(names) \in Seq(K)
      <4> HIDE DEF K
      <4> QED BY <2>2, <3>1, <3>6
    <3>8. \A n \in K : IsList(Spell[n])
      <4>1. ".." \notin ToSet(names)
        BY <2>1, <2>4, Lists
      <4> QED BY <2>1, <4>1
    <3>9. IsList(NormalSource(names)) /\ ToSet(NormalSource(names)) \subseteq K
      <4> HIDE DEF K
      <4> QED BY <3>7, ListIs
    <3> QED BY <3>8, <3>9 DEF Spelled
  <2> QED BY <2>3, <2>4
<1> QED BY <1>4, <1>6

\* The directories of a source.
LEMMA DirsOf ==
  ASSUME NEW source, Spelled(source), NEW n \in 0 .. Len(source)
  PROVE  LET d == SubSeq(source, 1, n)
         IN  /\ Len(source) \in Nat /\ IsList(d) /\ Len(d) = n
             /\ n = 0 => d = <<>>
             /\ n > 0 => d # <<>> /\ Front(d) = SubSeq(source, 1, n - 1)
             /\ IsList(ScopedText(source, d))
<1> DEFINE d == SubSeq(source, 1, n)
           D == ToSet(source)
<1>1. Len(source) \in Nat /\ source \in Seq(D)
  BY Lists DEF Spelled
<1> HIDE DEF D
<1>2. d \in Seq(D) /\ Len(d) = n /\ \A i \in 1 .. n : d[i] = source[i]
  BY <1>1
<1>3. IsList(d)
  <2> HIDE DEF d
  <2> QED BY <1>2, ListIs
<1>4. n = 0 => d = <<>>
  <2> HIDE DEF d
  <2> QED BY <1>2
<1>5. ASSUME n > 0 PROVE d # <<>> /\ Front(d) = SubSeq(source, 1, n - 1)
  <2>1. PICK m \in Nat : m = n - 1
    BY <1>1, <1>5
  <2>2. m \in 0 .. Len(d) /\ m \in 0 .. Len(source)
    BY <1>1, <1>2, <2>1
  <2>3. SubSeq(d, 1, m) \in Seq(D) /\ Len(SubSeq(d, 1, m)) = m
        /\ \A i \in 1 .. m : SubSeq(d, 1, m)[i] = d[i]
    <3> HIDE DEF d
    <3> QED BY <1>2, <2>2
  <2>4. SubSeq(source, 1, m) \in Seq(D) /\ Len(SubSeq(source, 1, m)) = m
        /\ \A i \in 1 .. m : SubSeq(source, 1, m)[i] = source[i]
    BY <1>1, <2>2
  <2>5. \A i \in 1 .. m : i \in 1 .. n
    BY <2>1
  <2>6. \A i \in 1 .. m : SubSeq(d, 1, m)[i] = SubSeq(source, 1, m)[i]
    <3> HIDE DEF d
    <3> QED BY <1>2, <2>3, <2>4, <2>5
  <2>7. SubSeq(d, 1, m) = SubSeq(source, 1, m)
    <3> DEFINE x == SubSeq(d, 1, m)
               y == SubSeq(source, 1, m)
    <3> HIDE DEF x, y
    <3>1. x \in Seq(D) /\ y \in Seq(D) /\ Len(x) = m /\ Len(y) = m /\ \A i \in 1 .. m : x[i] = y[i]
      BY <2>3, <2>4, <2>6 DEF x, y
    <3>2. x = y
      BY <3>1
    <3> QED BY <3>2 DEF x, y
  <2>8. Front(d) = SubSeq(d, 1, m)
    <3> HIDE DEF d
    <3> QED BY <1>2, <2>1 DEF Front
  <2>9. d # <<>>
    <3> HIDE DEF d
    <3> QED BY <1>2, <1>5
  <2> HIDE DEF d
  <2> QED BY <2>1, <2>7, <2>8, <2>9
<1>6. IsList(ScopedText(source, d))
  <2> DEFINE names == SubSeq(source, Len(d) + 1, Len(source))
             s == [i \in DOMAIN names |->
                    IF i = 1 THEN Spell[names[i]] ELSE <<"/">> \o Spell[names[i]]]
  <2>1. names = SubSeq(source, n + 1, Len(source))
    <3> HIDE DEF d
    <3> QED BY <1>2
  <2>2. PICK M \in Nat : M = Len(source) - n
    BY <1>1
  <2>3. names \in Seq(D) /\ DOMAIN names = 1 .. M
    <3> HIDE DEF d
    <3>1. SubSeq(source, n + 1, Len(source)) \in Seq(D)
          /\ DOMAIN SubSeq(source, n + 1, Len(source)) = 1 .. Len(source) - n
      BY <1>1
    <3> HIDE DEF names
    <3> QED BY <2>1, <2>2, <3>1
  <2> HIDE DEF names
  <2>4. ASSUME NEW i \in 1 .. M PROVE IsList(s[i])
    <3>1. names[i] \in D
      BY <2>3
    <3>2. IsList(Spell[names[i]])
      BY <3>1 DEF Spelled, D
    <3> DEFINE t == Spell[names[i]]
               C == ToSet(t) \union {"/"}
    <3>3. t \in Seq(ToSet(t))
      BY <3>2 DEF IsList
    <3> HIDE DEF t
    <3>4. t \in Seq(C)
      BY <3>3
    <3> HIDE DEF C
    <3>5. <<"/">> \in Seq(C)
      BY DEF C
    <3>6. <<"/">> \o t \in Seq(C)
      BY <3>4, <3>5
    <3>7. IsList(t) /\ IsList(<<"/">> \o t)
      BY <3>4, <3>6, ListIs
    <3> QED BY <2>3, <3>7 DEF t
  <2>5. DOMAIN s = 1 .. M /\ s = [i \in 1 .. M |-> s[i]]
    BY <2>3
  <2> HIDE DEF s
  <2>6. IsList(FlattenSeq(s))
    BY <2>4, <2>5, Flattened
  <2> HIDE DEF d
  <2> QED BY <2>6 DEF ScopedText, s, names
<1> QED BY <1>1, <1>2, <1>3, <1>4, <1>5, <1>6

\* A file says what evaluate_owner_file takes from its lines.
LEMMA LinesSay ==
  ASSUME NEW f \in Files, Cached(f) \in Variants[f], NEW text, IsList(text)
  PROVE  /\ IsList(Global(Cached(f))) /\ ToSet(Global(Cached(f))) = General(f)
         /\ IsList(Applicable(Cached(f), text))
         /\ ToSet(Applicable(Cached(f), text)) = Says(f, text)
         /\ StopsAt(Cached(f), text) <=> Stops(f, text)
<1>1. PICK lines : lines = Cached(f)
  OBVIOUS
<1>2. /\ IsList(lines)
      /\ \A line \in ToSet(lines) :
           /\ line[1] = "plain" => IsList(line[2])
           /\ line[1] = "per-file" =>
                /\ IsList(line[2]) /\ IsList(line[3])
                /\ \A pattern \in ToSet(line[2]) : IsList(pattern)
  BY <1>1, OwnersAssumption
<1>3. PICK N \in Nat : N = Len(lines) /\ DOMAIN lines = 1 .. N
  BY <1>2, Lists
<1>4. \A line : line \in ToSet(lines) <=> \E i \in 1 .. N : line = lines[i]
  BY <1>2, <1>3, Lists
<1>5. IsList(<<>>) /\ ToSet(<<>>) = {}
  BY DEF IsList, ToSet
<1>6. IsList(Global(lines)) /\ ToSet(Global(lines)) = General(f)
  <2> DEFINE s == [i \in DOMAIN lines |-> IF lines[i][1] = "plain" THEN lines[i][2] ELSE <<>>]
  <2>1. \A i \in 1 .. N : IsList(s[i])
    BY <1>2, <1>3, <1>4, <1>5
  <2>2. DOMAIN s = 1 .. N /\ s = [i \in 1 .. N |-> s[i]]
    BY <1>3
  <2>3. /\ IsList(FlattenSeq(s))
        /\ \A x : x \in ToSet(FlattenSeq(s)) <=> \E i \in 1 .. N : x \in ToSet(s[i])
    <3> HIDE DEF s
    <3> QED BY <2>1, <2>2, Flattened
  <2>4. \A x : (\E i \in 1 .. N : x \in ToSet(s[i])) <=>
               (\E i \in 1 .. N : lines[i][1] = "plain" /\ x \in ToSet(lines[i][2]))
    <3>1. \A i \in 1 .. N : ToSet(s[i]) = IF lines[i][1] = "plain" THEN ToSet(lines[i][2]) ELSE {}
      BY <1>3, <1>5
    <3> HIDE DEF s
    <3> QED BY <3>1
  <2>5. \A x : x \in General(f) <=>
               (\E i \in 1 .. N : lines[i][1] = "plain" /\ x \in ToSet(lines[i][2]))
    BY <1>1, <1>4 DEF General
  <2>6. Global(lines) = FlattenSeq(s)
    BY DEF Global
  <2> HIDE DEF s
  <2> QED BY <2>3, <2>4, <2>5, <2>6
<1>7. IsList(Matched(lines, text)) /\ ToSet(Matched(lines, text)) = Special(f, text)
  <2> DEFINE M(i) == FlattenSeq([k \in DOMAIN lines[i][2] |->
                       IF GlobMatches(lines[i][2][k], text) THEN lines[i][3] ELSE <<>>])
             s == [i \in DOMAIN lines |-> IF lines[i][1] # "per-file" THEN <<>> ELSE M(i)]
             Hit(i) == \E p \in ToSet(lines[i][2]) : Means(p, text)
  <2>1. ASSUME NEW i \in 1 .. N, lines[i][1] = "per-file"
        PROVE  /\ IsList(M(i))
               /\ \A x : x \in ToSet(M(i)) <=> x \in ToSet(lines[i][3]) /\ Hit(i)
    <3>1. PICK ps, ds : ps = lines[i][2] /\ ds = lines[i][3]
      OBVIOUS
    <3>2. IsList(ps) /\ IsList(ds) /\ \A pattern \in ToSet(ps) : IsList(pattern)
      BY <1>2, <1>4, <2>1, <3>1
    <3>3. PICK K \in Nat : K = Len(ps) /\ DOMAIN ps = 1 .. K
      BY <3>2, Lists
    <3> DEFINE t == [k \in DOMAIN ps |-> IF GlobMatches(ps[k], text) THEN ds ELSE <<>>]
    <3>4. \A p : p \in ToSet(ps) <=> \E k \in 1 .. K : p = ps[k]
      BY <3>2, <3>3, Lists
    <3>5. \A k \in 1 .. K : GlobMatches(ps[k], text) <=> Means(ps[k], text)
      BY <3>2, <3>4, GlobMeans
    <3>6. \A k \in 1 .. K : IsList(t[k]) /\ ToSet(t[k]) = IF Means(ps[k], text) THEN ToSet(ds) ELSE {}
      BY <1>5, <3>2, <3>3, <3>5
    <3>7. DOMAIN t = 1 .. K /\ t = [k \in 1 .. K |-> t[k]]
      BY <3>3
    <3>8. M(i) = FlattenSeq(t)
      BY <3>1
    <3> HIDE DEF t, M
    <3>9. /\ IsList(FlattenSeq(t))
          /\ \A x : x \in ToSet(FlattenSeq(t)) <=> \E k \in 1 .. K : x \in ToSet(t[k])
      BY <3>6, <3>7, Flattened
    <3>10. \A x : x \in ToSet(M(i)) <=> x \in ToSet(ds) /\ \E p \in ToSet(ps) : Means(p, text)
      BY <3>4, <3>6, <3>8, <3>9
    <3> QED BY <3>1, <3>8, <3>9, <3>10
  <2>2. \A i \in 1 .. N : s[i] = IF lines[i][1] # "per-file" THEN <<>> ELSE M(i)
    BY <1>3
  <2>3. DOMAIN s = 1 .. N /\ s = [i \in 1 .. N |-> s[i]]
    BY <1>3
  <2>4. Matched(lines, text) = FlattenSeq(s)
    BY DEF Matched
  <2> HIDE DEF s, M
  <2>5. \A i \in 1 .. N : IsList(s[i])
    BY <1>5, <2>1, <2>2
  <2>6. /\ IsList(FlattenSeq(s))
        /\ \A x : x \in ToSet(FlattenSeq(s)) <=> \E i \in 1 .. N : x \in ToSet(s[i])
    BY <2>3, <2>5, Flattened
  <2>7. \A x : x \in Special(f, text) <=>
               \E i \in 1 .. N : lines[i][1] = "per-file" /\ Hit(i) /\ x \in ToSet(lines[i][3])
    BY <1>1, <1>4 DEF Special
  <2> HIDE DEF Hit
  <2>8. \A i \in 1 .. N : \A x : x \in ToSet(s[i]) <=>
          lines[i][1] = "per-file" /\ Hit(i) /\ x \in ToSet(lines[i][3])
    BY <1>5, <2>1, <2>2
  <2> QED BY <2>4, <2>6, <2>7, <2>8
<1>8. Contains(Matched(lines, text), <<"noparent">>) <=> <<"noparent">> \in Special(f, text)
  BY <1>7, Lists
<1>9. GlobalNoParent(lines) <=> <<"noparent">> \in ToSet(lines)
  BY <1>2, Lists DEF GlobalNoParent
<1>10. StopsAt(lines, text) <=> Stops(f, text)
  BY <1>1, <1>8, <1>9 DEF StopsAt, Stops
<1>11. IsList(Applicable(lines, text)) /\ ToSet(Applicable(lines, text)) = Says(f, text)
  <2>1. CASE <<"noparent">> \in Special(f, text)
    BY <1>7, <1>8, <2>1 DEF Applicable, Says
  <2>2. CASE <<"noparent">> \notin Special(f, text)
    <3>1. PICK a, b : a = Global(lines) /\ b = Matched(lines, text)
      OBVIOUS
    <3>2. Applicable(lines, text) = a \o b
      BY <1>8, <2>2, <3>1 DEF Applicable
    <3> DEFINE U == ToSet(a) \union ToSet(b)
    <3>3. a \in Seq(U) /\ b \in Seq(U)
      <4> DEFINE A == ToSet(a)
                 B == ToSet(b)
      <4>1. a \in Seq(A) /\ b \in Seq(B)
        BY <1>6, <1>7, <3>1 DEF IsList
      <4> HIDE DEF A, B
      <4>2. a \in Seq(A \union B) /\ b \in Seq(A \union B)
        BY <4>1
      <4> QED BY <4>2 DEF A, B
    <3> HIDE DEF U
    <3>4. a \o b \in Seq(U)
      BY <3>3
    <3>5. IsList(a \o b)
      BY <3>4, ListIs
    <3>6. \A x : x \in ToSet(a \o b) <=> x \in ToSet(a) \/ x \in ToSet(b)
      BY <3>3, ToSetOfConcat
    <3> QED BY <1>6, <1>7, <2>2, <3>1, <3>2, <3>5, <3>6 DEF Says
  <2> QED BY <2>1, <2>2
<1> QED BY <1>1, <1>6, <1>10, <1>11

-----------------------------------------------------------------------------
\* What files include, directly or not.

\* T has what its readable files include.
Closed(T) == \A g \in Readable(T) : IncludesOf(g) \subseteq T

\* Reach(S) is the least set with S and all that its readable files include.
ReachIsLeast ==
  \A S : /\ S \subseteq Reach(S) /\ Closed(Reach(S))
         /\ \A T : S \subseteq T /\ Closed(T) => Reach(S) \subseteq T

\* Beginning with S, w adds what its files include, N times.
Stages(w, S, N) ==
  /\ w[0] = S
  /\ \A n \in 1 .. N :
       w[n] = w[n - 1] \union UNION {IncludesOf(f) : f \in Readable(w[n - 1])}

\* The files that are reached, step by step.
LEMMA ReachUnfolds ==
  ASSUME NEW N \in Nat, N = Cardinality(Files), NEW S
  PROVE  \E w : Stages(w, S, N) /\ Reach(S) = w[N]
<1> DEFINE F(w) == [n \in 0 .. Cardinality(Files) |->
                     IF n = 0 THEN S
                     ELSE w[n - 1] \union UNION {Included(f, General(f)) : f \in Readable(w[n - 1])}]
           within == CHOOSE w : w = F(w)
           V == SUBSET (S \union UNION {IncludesOf(f) : f \in Files})
           More(X) == X \union UNION {IncludesOf(f) : f \in Readable(X)}
           G == [n \in 1 .. N |-> [v \in V |-> More(v)]]
<1>1. \A v \in V : More(v) \in V
  BY DEF Readable, Present
<1>2. \E w : w = F(w)
  <2>1. PICK w : Follows(w, N, S, G)
    <3> HIDE DEF G
    <3> QED BY Recursion
  <2>2. w[0] = S /\ \A n \in 1 .. N : w[n] = G[n][w[n - 1]]
    <3> HIDE DEF G
    <3> QED BY <2>1 DEF Follows
  <2>3. \A n \in 1 .. N : \A v \in V : G[n][v] = More(v)
    OBVIOUS
  <2>4. S \in V
    OBVIOUS
  <2> HIDE DEF G, V, More
  <2> DEFINE T == {n \in Nat : n <= N => w[n] \in V}
  <2>5. 0 \in T
    BY <2>2, <2>4
  <2>6. ASSUME NEW n \in Nat, n \in T PROVE n + 1 \in T
    <3> SUFFICES ASSUME n + 1 <= N PROVE w[n + 1] \in V
      OBVIOUS
    <3>1. n + 1 \in 1 .. N /\ (n + 1) - 1 = n /\ w[n] \in V
      BY <2>6
    <3> QED BY <1>1, <2>2, <2>3, <3>1
  <2>7. Nat \subseteq T
    <3> HIDE DEF T
    <3> QED BY <2>5, <2>6, Induct
  <2>8. \A n \in 1 .. N : w[n] = More(w[n - 1])
    <3> SUFFICES ASSUME NEW n \in 1 .. N PROVE w[n] = More(w[n - 1])
      OBVIOUS
    <3>1. n - 1 \in Nat /\ n - 1 <= N
      OBVIOUS
    <3>2. w[n - 1] \in V
      BY <2>7, <3>1
    <3> QED BY <2>2, <2>3, <3>2
  <2> HIDE DEF T
  <2> DEFINE f == [n \in 0 .. N |-> w[n]]
  <2>9. \A n \in 0 .. N : f[n] = IF n = 0 THEN S ELSE More(f[n - 1])
    <3> SUFFICES ASSUME NEW n \in 0 .. N PROVE f[n] = IF n = 0 THEN S ELSE More(f[n - 1])
      OBVIOUS
    <3>1. n # 0 => n \in 1 .. N /\ n - 1 \in 0 .. N
      OBVIOUS
    <3> QED BY <2>2, <2>8, <3>1
  <2>10. f = [n \in 0 .. N |-> f[n]]
    OBVIOUS
  <2> HIDE DEF f
  <2>11. f = [n \in 0 .. N |-> IF n = 0 THEN S ELSE More(f[n - 1])]
    BY <2>9, <2>10
  <2>12. f = F(f)
    BY <2>11 DEF More, IncludesOf
  <2> HIDE DEF F
  <2> QED BY <2>12
<1>3. within = F(within)
  <2> HIDE DEF F
  <2> QED BY <1>2
<1>4. Reach(S) = within[N]
  BY DEF Reach
<1> HIDE DEF within
<1>5. \A n \in 0 .. N : within[n] = IF n = 0 THEN S
        ELSE within[n - 1] \union UNION {IncludesOf(f) : f \in Readable(within[n - 1])}
  BY <1>3 DEF IncludesOf
<1> HIDE DEF F
<1>6. within[0] = S
  <2>1. 0 \in 0 .. N
    OBVIOUS
  <2> QED BY <1>5, <2>1
<1>7. ASSUME NEW n \in 1 .. N
      PROVE  within[n] = within[n - 1] \union UNION {IncludesOf(f) : f \in Readable(within[n - 1])}
  <2>1. n \in 0 .. N /\ n # 0
    OBVIOUS
  <2> QED BY <1>5, <2>1
<1>8. Stages(within, S, N)
  BY <1>6, <1>7 DEF Stages
<1> QED BY <1>4, <1>8

\* A file in every step but the last is new: as many steps as files are enough.
LEMMA ReachLeast == ReachIsLeast
<1> SUFFICES ASSUME NEW S
             PROVE  /\ S \subseteq Reach(S) /\ Closed(Reach(S))
                    /\ \A T : S \subseteq T /\ Closed(T) => Reach(S) \subseteq T
  BY DEF ReachIsLeast
<1>1. IsFiniteSet(Files)
  BY OwnersAssumption
<1>2. PICK N \in Nat : N = Cardinality(Files)
  BY <1>1, FS_CardinalityType
<1>0. PICK w : Stages(w, S, N) /\ Reach(S) = w[N]
  BY <1>2, ReachUnfolds
<1>3. /\ w[0] = S /\ Reach(S) = w[N]
      /\ \A n \in 1 .. N : w[n] = w[n - 1] \union UNION {IncludesOf(f) : f \in Readable(w[n - 1])}
  BY <1>0 DEF Stages
<1>4. ASSUME NEW n \in Nat, n + 1 <= N
      PROVE  /\ w[n] \subseteq w[n + 1]
             /\ w[n + 1] = w[n] \union UNION {IncludesOf(f) : f \in Readable(w[n])}
             /\ Closed(w[n]) => w[n + 1] = w[n]
  <2>1. n + 1 \in 1 .. N /\ (n + 1) - 1 = n
    BY <1>4
  <2>2. w[n + 1] = w[n] \union UNION {IncludesOf(f) : f \in Readable(w[n])}
    BY <1>3, <2>1
  <2> QED BY <2>2 DEF Closed
<1>5. S \subseteq Reach(S)
  <2> DEFINE T == {n \in Nat : n <= N => S \subseteq w[n]}
  <2>1. 0 \in T
    BY <1>3
  <2>2. ASSUME NEW n \in Nat, n \in T PROVE n + 1 \in T
    BY <1>4, <2>2
  <2>3. Nat \subseteq T
    <3> HIDE DEF T
    <3> QED BY <2>1, <2>2, Induct
  <2> QED BY <1>3, <2>3
<1>6. ASSUME NEW T, S \subseteq T, Closed(T) PROVE Reach(S) \subseteq T
  <2> DEFINE B == {n \in Nat : n <= N => w[n] \subseteq T}
  <2>1. 0 \in B
    BY <1>3, <1>6
  <2>2. ASSUME NEW n \in Nat, n \in B PROVE n + 1 \in B
    <3> SUFFICES ASSUME n + 1 <= N PROVE w[n + 1] \subseteq T
      OBVIOUS
    <3>1. w[n] \subseteq T
      BY <2>2
    <3>2. Readable(w[n]) \subseteq Readable(T)
      BY <3>1 DEF Readable
    <3>3. \A f \in Readable(w[n]) : IncludesOf(f) \subseteq T
      BY <1>6, <3>2 DEF Closed
    <3> QED BY <1>4, <3>1, <3>3
  <2>3. Nat \subseteq B
    <3> HIDE DEF B
    <3> QED BY <2>1, <2>2, Induct
  <2> QED BY <1>3, <2>3
<1>7. Closed(Reach(S))
  <2> DEFINE Size(n) == Cardinality(Readable(w[n]))
             B == {n \in Nat : n <= N => Closed(w[n]) \/ Size(n) >= n + 1}
  <2>1. \A X : Readable(X) \subseteq Files /\ IsFiniteSet(Readable(X))
               /\ Cardinality(Readable(X)) \in Nat /\ Cardinality(Readable(X)) <= N
    <3>1. \A X : Readable(X) \subseteq Files
      BY DEF Readable, Present
    <3> QED BY <1>1, <1>2, <3>1, FS_Subset, FS_CardinalityType
  <2>2. 0 \in B
    <3>1. Readable(w[0]) = {} => Closed(w[0])
      BY DEF Closed
    <3>2. Readable(w[0]) # {} => Size(0) # 0
      BY <2>1, FS_EmptySet
    <3> QED BY <2>1, <3>1, <3>2
  <2>3. ASSUME NEW n \in Nat, n \in B PROVE n + 1 \in B
    <3> SUFFICES ASSUME n + 1 <= N, ~ Closed(w[n + 1]) PROVE Size(n + 1) >= (n + 1) + 1
      OBVIOUS
    <3>1. ~ Closed(w[n])
      BY <1>4
    <3>2. Size(n) >= n + 1
      BY <2>3, <3>1
    <3>3. Readable(w[n]) \subseteq Readable(w[n + 1])
      BY <1>4 DEF Readable
    <3>4. Readable(w[n]) # Readable(w[n + 1])
      <4> SUFFICES ASSUME Readable(w[n]) = Readable(w[n + 1]) PROVE FALSE
        OBVIOUS
      <4>1. \A f \in Readable(w[n + 1]) : IncludesOf(f) \subseteq w[n + 1]
        BY <1>4
      <4> QED BY <4>1 DEF Closed
    <3>5. Size(n) <= Size(n + 1) /\ (Size(n) = Size(n + 1) => Readable(w[n]) = Readable(w[n + 1]))
      BY <2>1, <3>3, FS_Subset
    <3>6. Size(n) \in Nat /\ Size(n + 1) \in Nat
      BY <2>1
    <3> HIDE DEF Size
    <3> QED BY <3>2, <3>4, <3>5, <3>6
  <2>4. Nat \subseteq B
    <3> HIDE DEF B
    <3> QED BY <2>2, <2>3, Induct
  <2>5. Closed(w[N]) \/ Size(N) >= N + 1
    BY <2>4
  <2>6. Size(N) \in Nat /\ Size(N) <= N
    BY <2>1
  <2> HIDE DEF Size
  <2> QED BY <1>3, <2>5, <2>6
<1> QED BY <1>5, <1>6, <1>7

-----------------------------------------------------------------------------
\* A step that moves no file, and keeps what was read.
Keeps ==
  \A f \in Files : /\ tree'[f] # Absent <=> tree[f] # Absent
                   /\ parsed[f] # Absent => parsed'[f] = parsed[f]

\* The lemma on Reach holds of the next state as well.
LEMMA ReachLeastNext == ReachIsLeast'
  BY ReachLeast, PTL

\* A file that was read goes on saying what it said.
LEMMA ReadStays ==
  ASSUME Keeps
  PROVE  \A f : /\ Present(f)' <=> Present(f)
                /\ Read(f) => /\ Read(f)' /\ Cached(f)' = Cached(f)
                              /\ General(f)' = General(f) /\ IncludesOf(f)' = IncludesOf(f)
                              /\ \A text : /\ Says(f, text)' = Says(f, text)
                                           /\ Stops(f, text)' <=> Stops(f, text)
<1> SUFFICES ASSUME NEW f
             PROVE  /\ Present(f)' <=> Present(f)
                    /\ Read(f) => /\ Read(f)' /\ Cached(f)' = Cached(f)
                                  /\ General(f)' = General(f) /\ IncludesOf(f)' = IncludesOf(f)
                                  /\ \A text : /\ Says(f, text)' = Says(f, text)
                                               /\ Stops(f, text)' <=> Stops(f, text)
  OBVIOUS
<1>1. Present(f)' <=> Present(f)
  BY DEF Keeps, Present
<1>2. ASSUME Read(f) PROVE Read(f)' /\ Cached(f)' = Cached(f)
  BY <1>2 DEF Keeps, Read, Cached
<1>3. ASSUME Read(f) PROVE General(f)' = General(f)
  BY <1>2, <1>3 DEF General
<1>4. ASSUME Read(f) PROVE IncludesOf(f)' = IncludesOf(f)
  BY <1>3, <1>4 DEF IncludesOf, Included
<1>5. ASSUME Read(f), NEW text PROVE Special(f, text)' = Special(f, text)
  BY <1>2, <1>5 DEF Special
<1>6. ASSUME Read(f), NEW text
      PROVE  Says(f, text)' = Says(f, text) /\ (Stops(f, text)' <=> Stops(f, text))
  BY <1>2, <1>3, <1>5, <1>6 DEF Says, Stops
<1> QED BY <1>1, <1>2, <1>3, <1>4, <1>6

\* What is reached through files that were read is reached again.
LEMMA ReachStays ==
  ASSUME Keeps, NEW S, \A g \in Reach(S) : Read(g)
  PROVE  Reach(S)' = Reach(S)
<1>1. PICK T : T = Reach(S)
  OBVIOUS
<1>2. PICK U : U = Reach(S)'
  OBVIOUS
<1>3. \A g \in T : /\ Read(g) /\ (Present(g)' <=> Present(g)) /\ Cached(g)' = Cached(g)
                   /\ IncludesOf(g)' = IncludesOf(g)
  BY <1>1, ReadStays
<1>4. S \subseteq T /\ Closed(T) /\ \A V : S \subseteq V /\ Closed(V) => T \subseteq V
  BY <1>1, ReachLeast DEF ReachIsLeast
<1>5. S \subseteq U /\ Closed(U)' /\ \A V : S \subseteq V /\ Closed(V)' => U \subseteq V
  BY <1>2, ReachLeastNext DEF ReachIsLeast
<1>6. Closed(T)'
  BY <1>3, <1>4 DEF Closed, Readable
<1>7. U \subseteq T
  BY <1>4, <1>5, <1>6
<1>8. Closed(U)
  BY <1>3, <1>5, <1>7 DEF Closed, Readable
<1> QED BY <1>1, <1>2, <1>4, <1>5, <1>7, <1>8

\* What a readable file reaches, everything reaches that reaches the file.
LEMMA ReachThrough ==
  ASSUME NEW S, NEW g \in Reach(S), g \in Readable(Reach(S))
  PROVE  IncludesOf(g) \subseteq Reach(S) /\ Reach(IncludesOf(g)) \subseteq Reach(S)
BY ReachLeast DEF ReachIsLeast, Closed

\* An OWNERS file that is done with stays so, and says the same.
LEMMA SettledStays ==
  ASSUME Keeps, NEW source, NEW d, Settled(source, d)
  PROVE  /\ Settled(source, d)' /\ LayerOwners(source, d)' = LayerOwners(source, d)
         /\ Stops(OwnersIn(d), ScopedText(source, d))' <=> Stops(OwnersIn(d), ScopedText(source, d))
<1>1. PICK f, text : f = OwnersIn(d) /\ text = ScopedText(source, d)
  OBVIOUS
<1>2. PICK I : I = Included(f, Says(f, text))
  OBVIOUS
<1>3. PICK R : R = Reach(I)
  OBVIOUS
<1>4. /\ Read(f) /\ R \subseteq Readable(R) /\ f \notin R
      /\ \A g \in R : Read(g) /\ g \notin Reach(IncludesOf(g))
  BY <1>1, <1>2, <1>3 DEF Settled, Sound, IncludesOf
<1>5. /\ Read(f)' /\ Says(f, text)' = Says(f, text)
      /\ Stops(f, text)' <=> Stops(f, text)
      /\ \A g \in R : /\ Read(g)' /\ General(g)' = General(g) /\ IncludesOf(g)' = IncludesOf(g)
                      /\ Cached(g)' = Cached(g) /\ (Present(g)' <=> Present(g))
  BY <1>4, ReadStays
<1>6. I = Included(f, Says(f, text))'
  BY <1>2, <1>5 DEF Included
<1>7. R = Reach(I)'
  BY <1>3, <1>4, ReachStays
<1>8. ASSUME NEW g \in R PROVE g \notin Reach(IncludesOf(g))'
  <2>1. PICK S : S = IncludesOf(g)
    OBVIOUS
  <2>2. Reach(S) \subseteq R
    BY <1>3, <1>4, <2>1, ReachThrough
  <2>3. Reach(S)' = Reach(S)
    BY <1>4, <2>2, ReachStays
  <2>4. S = IncludesOf(g)'
    BY <1>5, <2>1
  <2>5. Reach(IncludesOf(g))' = Reach(S)'
    BY <2>4
  <2> QED BY <1>4, <2>1, <2>3, <2>5
<1>9. R = Reach(Included(f, Says(f, text)))'
  BY <1>6, <1>7
<1>10. R \subseteq Readable(R)'
  BY <1>4, <1>5 DEF Readable
<1>11. Settled(source, d)'
  <2>1. f = OwnersIn(d)' /\ text = ScopedText(source, d)'
    BY <1>1 DEF OwnersIn, ScopedText
  <2> QED BY <1>4, <1>5, <1>8, <1>9, <1>10, <2>1 DEF Settled, Sound, IncludesOf
<1>12. LayerOwners(source, d)' = LayerOwners(source, d)
  <2>1. LayerOwners(source, d) =
          {x[2] : x \in {y \in Says(f, text) \union UNION {General(g) : g \in R} : y[1] = "owner"}}
    BY <1>1, <1>2, <1>3 DEF LayerOwners
  <2>2. LayerOwners(source, d)' =
          {x[2] : x \in {y \in Says(f, text)' \union UNION {General(g)' : g \in R} : y[1] = "owner"}}
    BY <1>1, <1>9 DEF LayerOwners
  <2>3. UNION {General(g)' : g \in R} = UNION {General(g) : g \in R}
    BY <1>5
  <2> QED BY <1>5, <2>1, <2>2, <2>3
<1> QED BY <1>1, <1>5, <1>11, <1>12

\* The directories of a source with an OWNERS file are the same.
LEMMA DirsStay ==
  ASSUME Keeps
  PROVE  \A source, n : Dirs(source, n)' = Dirs(source, n)
BY ReadStays DEF Dirs

\* A finished part of a walk stays finished.
LEMMA OverStays ==
  ASSUME Keeps, NEW source, NEW n, NEW found, Over(source, n, found)
  PROVE  Over(source, n, found)'
<1>1. PICK D : D = Dirs(source, n)
  OBVIOUS
<1>2. Dirs(source, n)' = D
  BY <1>1, DirsStay
<1>3. \A d \in D : Settled(source, d)' /\ LayerOwners(source, d)' = LayerOwners(source, d)
  BY <1>1, SettledStays DEF Over
<1>4. UNION {LayerOwners(source, d)' : d \in D} = UNION {LayerOwners(source, d) : d \in D}
  BY <1>3
<1>5. /\ found.effective = UNION {LayerOwners(source, d) : d \in D}
      /\ \/ /\ found.primary = {}
            /\ \A d \in D : LayerOwners(source, d) = {}
         \/ \E d \in D :
              /\ found.primary = LayerOwners(source, d) /\ found.primary # {}
              /\ \A e \in D : LayerOwners(source, e) # {} => Len(e) <= Len(d)
  BY <1>1 DEF Over
<1>6. (\/ /\ found.primary = {}
          /\ \A d \in D : LayerOwners(source, d)' = {}
       \/ \E d \in D :
            /\ found.primary = LayerOwners(source, d)' /\ found.primary # {}
            /\ \A e \in D : LayerOwners(source, e)' # {} => Len(e) <= Len(d))
  BY <1>3, <1>5
<1> QED BY <1>2, <1>3, <1>4, <1>5, <1>6 DEF Over

\* No directory that is done with begins or ceases to end the walk.
LEMMA QuietStays ==
  ASSUME Keeps, NEW source, NEW n, NEW m, NEW found, Over(source, m, found),
         Dirs(source, n) \subseteq Dirs(source, m)
  PROVE  Quiet(source, n)' <=> Quiet(source, n)
<1>1. \A d \in Dirs(source, n) :
        Stops(OwnersIn(d), ScopedText(source, d))' <=> Stops(OwnersIn(d), ScopedText(source, d))
  BY SettledStays DEF Over
<1>2. Dirs(source, n)' = Dirs(source, n)
  BY DirsStay
<1> QED BY <1>1, <1>2 DEF Quiet

\* Fewer directories are above a larger length.
LEMMA DirsLess ==
  ASSUME NEW source, NEW n \in Nat, NEW m \in Nat, n <= m
  PROVE  Dirs(source, m) \subseteq Dirs(source, n)
<1>1. \A i : i \in m .. Len(source) - 1 => i \in n .. Len(source) - 1
  <2> QED BY SMT
<1> QED BY <1>1 DEF Dirs

\* A finished source stays finished.
LEMMA FinishedStays ==
  ASSUME Keeps, NEW source, IsList(source), NEW found, Finished(source, found)
  PROVE  Finished(source, found)'
<1>1. Len(source) \in Nat
  BY Lists
<1>2. PICK n \in 0 .. Len(source) - 1 :
        /\ Over(source, n, found) /\ Quiet(source, n + 1)
        /\ n > 0 => \E d \in Dirs(source, n) :
             Len(d) = n /\ Stops(OwnersIn(d), ScopedText(source, d))
  BY DEF Finished
<1>3. Over(source, n, found)'
  BY <1>2, OverStays
<1>4. Quiet(source, n + 1)'
  <2>1. n \in Nat /\ n + 1 \in Nat /\ n <= n + 1
    BY <1>1
  <2>2. Dirs(source, n + 1) \subseteq Dirs(source, n)
    BY <2>1, DirsLess
  <2> QED BY <1>2, <2>2, QuietStays
<1>5. ASSUME n > 0
      PROVE  (\E d \in Dirs(source, n) : Len(d) = n /\ Stops(OwnersIn(d), ScopedText(source, d)))'
  <2>1. PICK d \in Dirs(source, n) : Len(d) = n /\ Stops(OwnersIn(d), ScopedText(source, d))
    BY <1>2, <1>5
  <2>2. Stops(OwnersIn(d), ScopedText(source, d))'
    BY <1>2, <2>1, SettledStays DEF Over
  <2>3. d \in Dirs(source, n)'
    BY DirsStay
  <2> QED BY <2>1, <2>2, <2>3
<1>6. source # <<>>
  BY DEF Finished
<1> QED BY <1>2, <1>3, <1>4, <1>5, <1>6 DEF Finished

-----------------------------------------------------------------------------
\* The walk up the directories.

\* One length less is one directory more, if it has an OWNERS file.
OneMore(source, n, d) ==
  /\ Dirs(source, n) =
       Dirs(source, n + 1) \union (IF Present(OwnersIn(d)) THEN {d} ELSE {})
  /\ \A e \in Dirs(source, n + 1) : Len(e) > n
  /\ \A e \in Dirs(source, n) : Len(e) >= n /\ (Len(e) = n => e = d)
  /\ Len(d) = n /\ d \notin Dirs(source, n + 1)

\* The directory of that length is the one that comes in.
LEMMA DirsOneMore ==
  ASSUME NEW source, Spelled(source), NEW n \in 0 .. Len(source) - 1
  PROVE  OneMore(source, n, SubSeq(source, 1, n))
<1>0. PICK d : d = SubSeq(source, 1, n)
  OBVIOUS
<1>1. Len(source) \in Nat /\ Len(source) > 0
  BY Lists DEF Spelled
<1>2. \A i \in 0 .. Len(source) - 1 : Len(SubSeq(source, 1, i)) = i
  <2> SUFFICES ASSUME NEW i \in 0 .. Len(source) - 1 PROVE Len(SubSeq(source, 1, i)) = i
    OBVIOUS
  <2>1. i \in 0 .. Len(source)
    BY <1>1
  <2> QED BY <2>1, DirsOf
<1>3. \A i : i \in n .. Len(source) - 1 <=> i = n \/ i \in n + 1 .. Len(source) - 1
  BY <1>1
<1>4. \A i \in n .. Len(source) - 1 : i \in 0 .. Len(source) - 1 /\ i >= n
  BY <1>1
<1>5. \A i \in n + 1 .. Len(source) - 1 : i \in 0 .. Len(source) - 1 /\ i > n
  BY <1>1
<1>6. \A e \in Dirs(source, n + 1) : Len(e) > n
  BY <1>2, <1>5 DEF Dirs
<1>7. \A e \in Dirs(source, n) : Len(e) >= n /\ (Len(e) = n => e = d)
  BY <1>0, <1>2, <1>4 DEF Dirs
<1>8. Len(d) = n
  BY <1>0, <1>2
<1>9. \A e : e \in Dirs(source, n) <=>
        e \in Dirs(source, n + 1) \/ (e = d /\ Present(OwnersIn(d)))
  BY <1>0, <1>3 DEF Dirs
<1>10. d \notin Dirs(source, n + 1)
  <2>1. ~ (n > n)
    BY <1>1
  <2> QED BY <1>6, <1>8, <2>1
<1>11. Dirs(source, n) =
         Dirs(source, n + 1) \union (IF Present(OwnersIn(d)) THEN {d} ELSE {})
  BY <1>9
<1>12. OneMore(source, n, d)
  BY <1>6, <1>7, <1>8, <1>10, <1>11 DEF OneMore
<1> QED BY <1>0, <1>12

\* Nothing is below a source.
LEMMA NoDirs ==
  ASSUME NEW source, Spelled(source)
  PROVE  Dirs(source, Len(source)) = {}
<1>1. Len(source) \in Nat
  BY Lists DEF Spelled
<1>2. \A i : i \notin Len(source) .. Len(source) - 1
  BY <1>1
<1> QED BY <1>2 DEF Dirs

\* The directories that count, among all of the source.
LEMMA CountingIs ==
  \A source : Counting(source) =
    {d \in Dirs(source, 0) : \A e \in Dirs(source, 0) : Len(e) > Len(d) =>
                               ~ Stops(OwnersIn(e), ScopedText(source, e))}
BY DEF Counting, Dirs

\* A longer directory is among those from a larger length.
LEMMA LongerDirs ==
  ASSUME NEW source, Spelled(source), NEW n \in Nat, NEW e \in Dirs(source, 0), Len(e) >= n
  PROVE  e \in Dirs(source, n)
<1>1. Len(source) \in Nat
  BY Lists DEF Spelled
<1>2. PICK i \in 0 .. Len(source) - 1 : e = SubSeq(source, 1, i) /\ Present(OwnersIn(e))
  BY DEF Dirs
<1>3. i \in 0 .. Len(source)
  BY <1>1
<1>4. Len(e) = i
  BY <1>2, <1>3, DirsOf
<1>5. i \in n .. Len(source) - 1
  BY <1>1, <1>4
<1> QED BY <1>2, <1>5 DEF Dirs

\* The directory that the walk has come to counts, when it has an OWNERS file.
LEMMA WalkCounts ==
  ASSUME NEW source, Spelled(source), NEW n \in 0 .. Len(source) - 1,
         NEW d, d = SubSeq(source, 1, n), Present(OwnersIn(d)), Quiet(source, n + 1)
  PROVE  d \in Counting(source)
<1>1. Len(source) \in Nat
  BY Lists DEF Spelled
<1>2. d \in Dirs(source, 0)
  BY DEF Dirs
<1>3. Len(d) = n
  BY DirsOneMore DEF OneMore
<1>4. ASSUME NEW e \in Dirs(source, 0), Len(e) > Len(d)
      PROVE  ~ Stops(OwnersIn(e), ScopedText(source, e))
  <2>1. PICK i \in 0 .. Len(source) - 1 : e = SubSeq(source, 1, i)
    BY DEF Dirs
  <2>2. i \in 0 .. Len(source)
    BY <1>1
  <2>3. Len(e) = i
    BY <2>1, <2>2, DirsOf
  <2>4. n + 1 \in Nat /\ Len(e) >= n + 1
    BY <1>3, <1>4, <2>3
  <2>5. e \in Dirs(source, n + 1)
    BY <2>4, LongerDirs
  <2> QED BY <2>5 DEF Quiet
<1> QED BY <1>2, <1>4, CountingIs

\* A finished source has the owners that its OWNERS files mean, and all of the
\* files that count for it are done with.
LEMMA FinishedIsMeant ==
  ASSUME NEW source, Spelled(source), NEW found, Finished(source, found)
  PROVE  /\ found.effective = Effective(source) /\ found.primary = Primary(source)
         /\ source # <<>>
         /\ \A d \in Counting(source) : Settled(source, d)
<1>1. Len(source) \in Nat
  BY Lists DEF Spelled
<1>2. PICK n \in 0 .. Len(source) - 1 :
        /\ Over(source, n, found) /\ Quiet(source, n + 1)
        /\ n > 0 => \E d \in Dirs(source, n) :
             Len(d) = n /\ Stops(OwnersIn(d), ScopedText(source, d))
  BY DEF Finished
<1>3. PICK D : D = Dirs(source, n)
  OBVIOUS
<1>4. \A e \in Dirs(source, 0) : Len(e) \in Nat /\ \E i \in 0 .. Len(source) - 1 : e = SubSeq(source, 1, i) /\ Len(e) = i
  <2> SUFFICES ASSUME NEW e \in Dirs(source, 0)
               PROVE  Len(e) \in Nat /\ \E i \in 0 .. Len(source) - 1 : e = SubSeq(source, 1, i) /\ Len(e) = i
    OBVIOUS
  <2>1. PICK i \in 0 .. Len(source) - 1 : e = SubSeq(source, 1, i)
    BY DEF Dirs
  <2>2. i \in 0 .. Len(source)
    BY <1>1
  <2>3. Len(e) = i
    BY <2>1, <2>2, DirsOf
  <2> QED BY <2>1, <2>3
<1>5. D \subseteq Dirs(source, 0) /\ \A e \in D : Len(e) >= n
  <2>1. \A e \in D : Len(e) >= n
    BY <1>3, DirsOneMore DEF OneMore
  <2> QED BY <1>3, <2>1, DirsLess
<1>6. Counting(source) = D
  <2>1. ASSUME NEW d \in D PROVE d \in Counting(source)
    <3>1. ASSUME NEW e \in Dirs(source, 0), Len(e) > Len(d)
          PROVE  ~ Stops(OwnersIn(e), ScopedText(source, e))
      <4>1. n + 1 \in Nat /\ Len(e) >= n + 1
        BY <1>4, <1>5, <3>1
      <4>2. e \in Dirs(source, n + 1)
        BY <4>1, LongerDirs
      <4> QED BY <1>2, <4>2 DEF Quiet
    <3> QED BY <1>5, <3>1, CountingIs
  <2>2. ASSUME NEW d \in Counting(source) PROVE d \in D
    <3>1. /\ d \in Dirs(source, 0)
          /\ \A e \in Dirs(source, 0) : Len(e) > Len(d) => ~ Stops(OwnersIn(e), ScopedText(source, e))
      BY CountingIs
    <3>2. Len(d) >= n
      <4>1. CASE n = 0
        BY <1>4, <3>1, <4>1
      <4>2. CASE n > 0
        <5>1. PICK e \in D : Len(e) = n /\ Stops(OwnersIn(e), ScopedText(source, e))
          BY <1>2, <1>3, <4>2
        <5>2. ~ (Len(e) > Len(d))
          BY <1>5, <3>1, <5>1
        <5> QED BY <1>4, <3>1, <5>1, <5>2
      <4> QED BY <4>1, <4>2
    <3> QED BY <1>3, <3>1, <3>2, LongerDirs
  <2> QED BY <2>1, <2>2
<1>7. /\ \A d \in D : Settled(source, d)
      /\ found.effective = UNION {LayerOwners(source, d) : d \in D}
      /\ \/ /\ found.primary = {}
            /\ \A d \in D : LayerOwners(source, d) = {}
         \/ \E d \in D :
              /\ found.primary = LayerOwners(source, d) /\ found.primary # {}
              /\ \A e \in D : LayerOwners(source, e) # {} => Len(e) <= Len(d)
  BY <1>2, <1>3 DEF Over
<1>8. found.effective = Effective(source)
  BY <1>6, <1>7 DEF Effective
<1>9. found.primary = Primary(source)
  <2> DEFINE own == {d \in D : LayerOwners(source, d) # {}}
             best == {x \in own : \A e \in own : Len(e) <= Len(x)}
  <2>1. Primary(source) = UNION {LayerOwners(source, d) : d \in best}
    BY <1>6 DEF Primary
  <2>2. CASE found.primary = {} /\ \A d \in D : LayerOwners(source, d) = {}
    BY <2>1, <2>2
  <2>3. ASSUME NEW d \in D, found.primary = LayerOwners(source, d), found.primary # {},
               \A e \in D : LayerOwners(source, e) # {} => Len(e) <= Len(d)
        PROVE  found.primary = Primary(source)
    <3>1. d \in best
      BY <2>3
    <3>2. ASSUME NEW x \in best PROVE x = d
      <4>1. x \in D /\ Len(d) <= Len(x) /\ Len(x) <= Len(d)
        BY <2>3, <3>1, <3>2
      <4>2. Len(x) = Len(d)
        BY <1>4, <1>5, <4>1
      <4> QED BY <1>4, <1>5, <4>1, <4>2
    <3>3. best = {d}
      BY <3>1, <3>2
    <3> HIDE DEF best
    <3> QED BY <2>1, <2>3, <3>3
  <2> QED BY <1>7, <2>2, <2>3
<1>10. source # <<>>
  BY DEF Finished
<1> QED BY <1>6, <1>7, <1>8, <1>9, <1>10

\* A directory without an OWNERS file adds nothing.
LEMMA OverSame ==
  ASSUME NEW source, Spelled(source), NEW n \in 0 .. Len(source) - 1, NEW found,
         ~ Present(OwnersIn(SubSeq(source, 1, n))), Over(source, n + 1, found), Quiet(source, n + 1)
  PROVE  Over(source, n, found) /\ Quiet(source, n)
<1>0. PICK d : d = SubSeq(source, 1, n)
  OBVIOUS
<1>1. Dirs(source, n) = Dirs(source, n + 1)
  <2>1. Dirs(source, n) =
          Dirs(source, n + 1) \union (IF Present(OwnersIn(d)) THEN {d} ELSE {})
    BY <1>0, DirsOneMore DEF OneMore
  <2> QED BY <1>0, <2>1
<1> QED BY <1>1 DEF Over, Quiet

\* The owners of one directory more.
LEMMA OverOneMore ==
  ASSUME NEW source, Spelled(source), NEW n \in 0 .. Len(source) - 1,
         NEW d, d = SubSeq(source, 1, n), Present(OwnersIn(d)), Settled(source, d),
         NEW before, Over(source, n + 1, before), NEW found,
         found.primary = IF before.primary = {} THEN LayerOwners(source, d) ELSE before.primary,
         found.effective = before.effective \union LayerOwners(source, d)
  PROVE  Over(source, n, found)
<1>1. PICK D : D = Dirs(source, n + 1)
  OBVIOUS
<1>2. /\ Dirs(source, n) = D \union {d} /\ Len(d) = n /\ d \notin D
      /\ \A e \in D : Len(e) > n
  <2>1. OneMore(source, n, d)
    BY DirsOneMore
  <2> QED BY <1>1, <2>1 DEF OneMore
<1>3. /\ \A e \in D : Settled(source, e)
      /\ before.effective = UNION {LayerOwners(source, e) : e \in D}
      /\ \/ /\ before.primary = {}
            /\ \A e \in D : LayerOwners(source, e) = {}
         \/ \E x \in D :
              /\ before.primary = LayerOwners(source, x) /\ before.primary # {}
              /\ \A e \in D : LayerOwners(source, e) # {} => Len(e) <= Len(x)
  BY <1>1 DEF Over
<1>4. found.effective = UNION {LayerOwners(source, e) : e \in D \union {d}}
  BY <1>3
<1>5. CASE before.primary = {} /\ \A e \in D : LayerOwners(source, e) = {}
  <2>1. found.primary = LayerOwners(source, d)
    BY <1>5
  <2>2. \A e \in D \union {d} : LayerOwners(source, e) # {} => e = d
    BY <1>5
  <2>3. Len(d) <= Len(d)
    BY <1>2
  <2> QED BY <1>2, <1>3, <1>4, <2>1, <2>2, <2>3 DEF Over
<1>6. ASSUME NEW x \in D, before.primary = LayerOwners(source, x), before.primary # {},
             \A e \in D : LayerOwners(source, e) # {} => Len(e) <= Len(x)
      PROVE  Over(source, n, found)
  <2>1. found.primary = LayerOwners(source, x) /\ found.primary # {}
    BY <1>6
  <2>2. Len(x) > n /\ n \in Int /\ Len(d) = n
    BY <1>2
  <2>3. PICK i \in n + 1 .. Len(source) - 1 : x = SubSeq(source, 1, i)
    BY <1>1 DEF Dirs
  <2>4. Len(source) \in Nat /\ i \in 0 .. Len(source)
    BY <2>3, Lists DEF Spelled
  <2>5. Len(x) = i
    BY <2>3, <2>4, DirsOf
  <2>6. Len(d) <= Len(x)
    BY <2>2, <2>5
  <2>7. \A e \in D \union {d} : LayerOwners(source, e) # {} => Len(e) <= Len(x)
    BY <1>6, <2>6
  <2> QED BY <1>2, <1>3, <1>4, <2>1, <2>7 DEF Over
<1> QED BY <1>3, <1>5, <1>6

\* The queue and the source that is looked at.
LEMMA SourceIs ==
  ASSUME Typed, Results
  PROVE  /\ IsList(Queue) /\ Len(Queue) \in Nat /\ IsList(result) /\ Len(result) \in Nat
         /\ DOMAIN result = 1 .. Len(result)
         /\ \A k \in 1 .. Len(Queue) :
              Queue[k] \in ToSet(Queue) /\ Spelled(NormalSource(Queue[k]))
         /\ \A names \in ToSet(Queue) : Spelled(NormalSource(names)) /\ \E k \in 1 .. Len(Queue) : names = Queue[k]
         /\ Len(result) # Len(Queue) => Len(result) < Len(Queue)
         /\ Len(result) < Len(Queue) => /\ Len(result) + 1 \in 1 .. Len(Queue)
                                        /\ Spelled(Source)
<1>1. IsList(Queue) /\ \A names \in ToSet(Queue) : Spelled(NormalSource(names))
  BY QueueIs DEF Typed
<1>2. IsList(result) /\ Len(result) <= Len(Queue)
  BY DEF Typed, Results
<1>3. Len(Queue) \in Nat /\ Len(result) \in Nat /\ DOMAIN result = 1 .. Len(result)
      /\ \A names : names \in ToSet(Queue) <=> \E k \in 1 .. Len(Queue) : names = Queue[k]
  BY <1>1, <1>2, Lists
<1>4. \A k \in 1 .. Len(Queue) : Queue[k] \in ToSet(Queue) /\ Spelled(NormalSource(Queue[k]))
  BY <1>1, <1>3
<1>5. Len(result) < Len(Queue) => /\ Len(result) + 1 \in 1 .. Len(Queue) /\ Spelled(Source)
  BY <1>3, <1>4 DEF Source
<1>6. Len(result) # Len(Queue) => Len(result) < Len(Queue)
  BY <1>2, <1>3
<1> QED BY <1>1, <1>2, <1>3, <1>4, <1>5, <1>6

\* Finished sources stay finished.
LEMMA ResultsStay ==
  ASSUME Typed, Results, Keeps, modules' = modules, result' = result
  PROVE  Results'
<1>1. Queue' = Queue
  BY DEF Queue
<1>2. ASSUME NEW k \in DOMAIN result PROVE Finished(NormalSource(Queue[k]), result[k])'
  <2>1. k \in 1 .. Len(Queue)
    BY SourceIs DEF Results
  <2>2. PICK s, found : s = NormalSource(Queue[k]) /\ found = result[k]
    OBVIOUS
  <2>3. IsList(s) /\ Finished(s, found)
    BY <2>1, <2>2, SourceIs DEF Results, Spelled
  <2>4. Finished(s, found)'
    BY <2>3, FinishedStays
  <2>5. s = NormalSource(Queue[k])' /\ found = result[k]'
    BY <1>1, <2>2 DEF NormalSource
  <2> QED BY <2>4, <2>5
<1>3. DOMAIN result' = DOMAIN result
  OBVIOUS
<1> QED BY <1>1, <1>2, <1>3 DEF Results

\* One more source is finished.
LEMMA ResultsGrow ==
  ASSUME Typed, Results, Keeps, modules' = modules, Len(result) < Len(Queue),
         NEW found, result' = Append(result, found), Finished(Source, found)
  PROVE  Results'
<1>1. Queue' = Queue
  BY DEF Queue
<1>2. ASSUME NEW k \in 1 .. Len(result) PROVE Finished(NormalSource(Queue[k]), result[k])'
  <2>1. k \in 1 .. Len(Queue) /\ k \in DOMAIN result
    BY SourceIs DEF Results
  <2>2. PICK s, r : s = NormalSource(Queue[k]) /\ r = result[k]
    OBVIOUS
  <2>3. IsList(s) /\ Finished(s, r)
    BY <2>1, <2>2, SourceIs DEF Results, Spelled
  <2>4. Finished(s, r)'
    BY <2>3, FinishedStays
  <2>5. result'[k] = result[k]
    BY ListAppend, SourceIs
  <2>6. s = NormalSource(Queue[k])' /\ r = result[k]'
    BY <1>1, <2>2, <2>5 DEF NormalSource
  <2> QED BY <2>4, <2>6
<1>3. PICK n \in Nat : n = Len(result) /\ Len(result') = n + 1 /\ DOMAIN result' = 1 .. n + 1
        /\ result'[n + 1] = found
  <2>1. IsList(result') /\ Len(result') = Len(result) + 1 /\ result'[Len(result) + 1] = found
    BY ListAppend, SourceIs
  <2>2. DOMAIN result' = 1 .. Len(result')
    BY <2>1, Lists
  <2> QED BY <2>1, <2>2, SourceIs
<1>4. Finished(NormalSource(Queue[n + 1]), result[n + 1])'
  <2>1. PICK s : s = Source
    OBVIOUS
  <2>2. IsList(s)
    BY <2>1, SourceIs DEF Spelled
  <2>3. Finished(s, found)'
    BY <2>1, <2>2, FinishedStays
  <2>4. s = NormalSource(Queue[n + 1])'
    BY <1>1, <1>3, <2>1 DEF Source, NormalSource
  <2> QED BY <1>3, <2>3, <2>4
<1>5. Len(result') <= Len(Queue')
  BY <1>1, <1>3, SourceIs
<1>6. \A k \in DOMAIN result' : k \in 1 .. n \/ k = n + 1
  BY <1>3
<1> QED BY <1>2, <1>3, <1>4, <1>5, <1>6 DEF Results

\* The walk stays where it is.
LEMMA WalkStays ==
  ASSUME Typed, Results, Walked, Keeps, UNCHANGED <<modules, result, dir, walk>>
  PROVE  /\ Walked' /\ Source' = Source /\ Queue' = Queue
         /\ Bottom' = Bottom /\ ScopedText(Source, dir)' = ScopedText(Source, dir)
<1>1. Queue' = Queue
  BY DEF Queue
<1>2. Source' = Source
  BY <1>1 DEF Source, NormalSource
<1>3. Bottom' = Bottom
  BY DEF Bottom, OwnersIn
<1>4. ScopedText(Source, dir)' = ScopedText(Source, dir)
  BY <1>2 DEF ScopedText
<1>5. PICK s, n, found : s = Source /\ n = Len(dir) + 1 /\ found = walk
  OBVIOUS
<1>6. Over(s, n, found)' /\ Quiet(s, n)'
  <2>1. Over(s, n, found) /\ Quiet(s, n)
    BY <1>5 DEF Walked
  <2> QED BY <2>1, OverStays, QuietStays
<1>7. s = Source' /\ n = (Len(dir) + 1)' /\ found = walk'
  BY <1>2, <1>5
<1>8. Over(Source, Len(dir) + 1, walk)' /\ Quiet(Source, Len(dir) + 1)'
  BY <1>6, <1>7
<1>9. Walked'
  BY <1>1, <1>2, <1>8 DEF Walked
<1> QED BY <1>1, <1>2, <1>3, <1>4, <1>9

\* The place of the walk.
LEMMA WalkIs ==
  ASSUME Typed, Results, Walked
  PROVE  /\ Spelled(Source) /\ Len(dir) \in 0 .. Len(Source) - 1 /\ Len(Source) \in Nat
         /\ dir = SubSeq(Source, 1, Len(dir)) /\ IsList(dir)
         /\ (dir = <<>> <=> Len(dir) = 0)
         /\ dir # <<>> => Front(dir) = SubSeq(Source, 1, Len(dir) - 1)
         /\ IsList(ScopedText(Source, dir))
<1>1. Spelled(Source)
  BY SourceIs DEF Walked
<1>2. PICK n \in 0 .. Len(Source) - 1 : dir = SubSeq(Source, 1, n)
  BY DEF Walked
<1>3. Len(Source) \in Nat
  BY <1>1, Lists DEF Spelled
<1>4. n \in 0 .. Len(Source)
  BY <1>3
<1>5. /\ IsList(dir) /\ Len(dir) = n
      /\ n = 0 => dir = <<>>
      /\ n > 0 => dir # <<>> /\ Front(dir) = SubSeq(Source, 1, n - 1)
      /\ IsList(ScopedText(Source, dir))
  BY <1>1, <1>2, <1>4, DirsOf
<1>6. Len(dir) \in 0 .. Len(Source) - 1 /\ dir = SubSeq(Source, 1, Len(dir))
  BY <1>2, <1>5
<1>7. dir = <<>> <=> Len(dir) = 0
  BY <1>5, Lists
<1>8. dir # <<>> => Front(dir) = SubSeq(Source, 1, Len(dir) - 1)
  <2>1. dir # <<>> => n > 0
    BY <1>2, <1>5
  <2> QED BY <1>5, <2>1
<1> QED BY <1>1, <1>3, <1>5, <1>6, <1>7, <1>8

\* What is wrong with the file at the bottom is a reason to fail.
LEMMA ReasonHere ==
  ASSUME Typed, Results, Walked, Present(Bottom),
         ~ Parses(Cached(Bottom)) \/ ~ Sound(Bottom, ScopedText(Source, dir))
  PROVE  Reason
<1>1. dir \in Counting(Source)
  <2>1. PICK s, d, n : s = Source /\ d = dir /\ n = Len(dir)
    OBVIOUS
  <2>2. Spelled(s) /\ n \in 0 .. Len(s) - 1 /\ d = SubSeq(s, 1, n)
    BY <2>1, WalkIs
  <2>3. Present(OwnersIn(d)) /\ Quiet(s, n + 1)
    BY <2>1 DEF Walked, Bottom
  <2>4. d \in Counting(s)
    BY <2>2, <2>3, WalkCounts
  <2> QED BY <2>1, <2>4
<1>2. PICK names \in ToSet(Queue) : Source = NormalSource(names)
  BY SourceIs DEF Walked, Source
<1> QED BY <1>1, <1>2 DEF Reason, Bottom

\* A reason to fail stays one as long as the files are the same.
LEMMA ReasonStays ==
  ASSUME UNCHANGED <<modules, tree, parsed>>, Reason
  PROVE  Reason'
<1>1. \A f : Cached(f)' = Cached(f) /\ (Present(f)' <=> Present(f))
  BY DEF Cached, Present
<1>2. \A f : General(f)' = General(f)
  BY <1>1 DEF General
<1>3. \A f, text : Special(f, text)' = Special(f, text)
  BY <1>1 DEF Special
<1>4. \A f, text : Says(f, text)' = Says(f, text) /\ (Stops(f, text)' <=> Stops(f, text))
  BY <1>1, <1>2, <1>3 DEF Says, Stops
<1>5. \A S : Readable(S)' = Readable(S)
  BY <1>1 DEF Readable
<1>6. \A S : Closed(S)' <=> Closed(S)
  BY <1>2, <1>5 DEF Closed, IncludesOf, Included
<1>7. \A S : Reach(S)' = Reach(S)
  <2> SUFFICES ASSUME NEW S PROVE Reach(S)' = Reach(S)
    OBVIOUS
  <2>1. PICK T, U : T = Reach(S) /\ U = Reach(S)'
    OBVIOUS
  <2>2. S \subseteq T /\ Closed(T) /\ \A V : S \subseteq V /\ Closed(V) => T \subseteq V
    BY <2>1, ReachLeast DEF ReachIsLeast
  <2>3. S \subseteq U /\ Closed(U)' /\ \A V : S \subseteq V /\ Closed(V)' => U \subseteq V
    BY <2>1, ReachLeastNext DEF ReachIsLeast
  <2>4. T \subseteq U /\ U \subseteq T
    BY <1>6, <2>2, <2>3
  <2> QED BY <2>1, <2>4
<1>8. \A f, text : Sound(f, text)' <=> Sound(f, text)
  <2> SUFFICES ASSUME NEW f, NEW text PROVE Sound(f, text)' <=> Sound(f, text)
    OBVIOUS
  <2>1. PICK R : R = Reach(Included(f, Says(f, text)))
    OBVIOUS
  <2>2. PICK I : I = Included(f, Says(f, text))
    OBVIOUS
  <2>3. I = Included(f, Says(f, text))'
    BY <1>4, <2>2 DEF Included
  <2>4. R = Reach(Included(f, Says(f, text)))'
    BY <1>7, <2>1, <2>2, <2>3
  <2>5. \A g : g \notin Reach(Included(g, General(g)))' <=> g \notin Reach(Included(g, General(g)))
    <3> SUFFICES ASSUME NEW g
                 PROVE  Reach(Included(g, General(g)))' = Reach(Included(g, General(g)))
      OBVIOUS
    <3>1. PICK J : J = Included(g, General(g))
      OBVIOUS
    <3>2. J = Included(g, General(g))'
      BY <1>2, <3>1 DEF Included
    <3> QED BY <1>7, <3>1, <3>2
  <2> QED BY <1>5, <2>1, <2>4, <2>5 DEF Sound
<1>9. \A source : Counting(source)' = Counting(source)
  <2> SUFFICES ASSUME NEW source PROVE Counting(source)' = Counting(source)
    OBVIOUS
  <2>1. \A d : Present(OwnersIn(d))' <=> Present(OwnersIn(d))
    BY <1>1 DEF OwnersIn
  <2>2. \A d : Stops(OwnersIn(d), ScopedText(source, d))' <=> Stops(OwnersIn(d), ScopedText(source, d))
    BY <1>4 DEF OwnersIn, ScopedText
  <2> QED BY <2>1, <2>2 DEF Counting
<1>10. Queue' = Queue /\ \A names : NormalSource(names)' = NormalSource(names)
  BY DEF Queue, NormalSource
<1>11. PICK names \in ToSet(Queue) :
         \/ NormalSource(names) = <<>>
         \/ \E d \in Counting(NormalSource(names)) :
              \/ ~ Parses(Cached(OwnersIn(d)))
              \/ ~ Sound(OwnersIn(d), ScopedText(NormalSource(names), d))
  BY DEF Reason
<1>12. PICK source : source = NormalSource(names)
  OBVIOUS
<1>13. \A d : /\ Cached(OwnersIn(d))' = Cached(OwnersIn(d))
              /\ Sound(OwnersIn(d), ScopedText(source, d))' <=> Sound(OwnersIn(d), ScopedText(source, d))
  BY <1>1, <1>8 DEF OwnersIn, ScopedText
<1>14. source = NormalSource(names)' /\ names \in ToSet(Queue')
  BY <1>10, <1>12
<1>15. (\/ source = <<>>
        \/ \E d \in Counting(source) :
              \/ ~ Parses(Cached(OwnersIn(d)))
              \/ ~ Sound(OwnersIn(d), ScopedText(source, d)))'
  BY <1>9, <1>11, <1>12, <1>13 DEF Parses
<1> QED BY <1>14, <1>15 DEF Reason

-----------------------------------------------------------------------------
\* The include stack.

\* A step that keeps what was read, the file at the bottom and the owners.
GoesOn ==
  /\ Keeps /\ Bottom' = Bottom /\ layer.owners \subseteq layer'.owners
  /\ ScopedText(Source, dir)' = ScopedText(Source, dir)

\* A file that was read is readable.
LEMMA ReadIsReadable ==
  ASSUME ReadWell
  PROVE  \A f, T : Read(f) /\ f \in T => f \in Readable(T) /\ f \in Files
BY DEF ReadWell, Read, Readable, Cached

\* A file is reached from what includes it.
LEMMA Reached ==
  ASSUME ReadWell, NEW S
  PROVE  /\ S \subseteq Reach(S)
         /\ \A g \in Reach(S) : Read(g) =>
              IncludesOf(g) \subseteq Reach(S) /\ Reach(IncludesOf(g)) \subseteq Reach(S)
<1>1. S \subseteq Reach(S)
  BY ReachLeast DEF ReachIsLeast
<1>2. ASSUME NEW g \in Reach(S), Read(g)
      PROVE  IncludesOf(g) \subseteq Reach(S) /\ Reach(IncludesOf(g)) \subseteq Reach(S)
  <2>1. g \in Readable(Reach(S))
    BY <1>2, ReadIsReadable
  <2> QED BY <2>1, ReachThrough
<1> QED BY <1>1, <1>2

\* What is collected stays collected.
LEMMA CollectedStays ==
  ASSUME ReadWell, GoesOn, NEW g, Collected(g), \A h \in Reach(IncludesOf(g)) : Read(h)
  PROVE  Collected(g)' /\ Reach(IncludesOf(g))' = Reach(IncludesOf(g))
<1>1. /\ Read(g)' /\ General(g)' = General(g) /\ IncludesOf(g)' = IncludesOf(g)
  BY ReadStays DEF GoesOn, Collected
<1>2. PICK S : S = IncludesOf(g)
  OBVIOUS
<1>3. Reach(S)' = Reach(S)
  BY <1>2, ReachStays DEF GoesOn
<1>4. S = IncludesOf(g)'
  BY <1>1, <1>2
<1>5. Reach(IncludesOf(g))' = Reach(IncludesOf(g))
  BY <1>2, <1>3, <1>4
<1>6. OwnersOf(General(g))' = OwnersOf(General(g))
  BY <1>1 DEF OwnersOf
<1> QED BY <1>1, <1>5, <1>6 DEF GoesOn, Collected

\* What is complete stays complete.
LEMMA CompleteStays ==
  ASSUME ReadWell, GoesOn, NEW g, Complete(g)
  PROVE  Complete(g)'
<1>1. PICK S : S = IncludesOf(g)
  OBVIOUS
<1>2. Collected(g) /\ \A h \in Reach(S) : Collected(h) /\ Read(h)
  BY <1>1 DEF Complete, Collected
<1>3. Collected(g)' /\ Reach(IncludesOf(g))' = Reach(S)
  BY <1>1, <1>2, CollectedStays
<1>4. ASSUME NEW h \in Reach(S) PROVE Collected(h)'
  <2>1. Reach(IncludesOf(h)) \subseteq Reach(S)
    BY <1>2, Reached
  <2> QED BY <1>2, <2>1, CollectedStays
<1>5. PICK R : R = Reach(S)
  OBVIOUS
<1>6. R = Reach(IncludesOf(g))' /\ \A h \in R : Collected(h)'
  BY <1>3, <1>4, <1>5
<1> QED BY <1>3, <1>6 DEF Complete

\* All that complete files include is complete.
LEMMA CompleteReach ==
  ASSUME ReadWell, NEW S, \A g \in S : Complete(g)
  PROVE  \A g \in Reach(S) : Complete(g)
<1> DEFINE T == {g \in Files : Complete(g)}
<1>1. S \subseteq T
  BY DEF Complete, Collected, Read
<1>2. ASSUME NEW g \in T, NEW h \in IncludesOf(g) PROVE h \in T
  <2>1. h \in Reach(IncludesOf(g)) /\ Collected(h) /\ Read(h)
    BY <1>2, Reached DEF Complete, Collected
  <2>2. Reach(IncludesOf(h)) \subseteq Reach(IncludesOf(g))
    BY <2>1, Reached
  <2>3. Complete(h)
    BY <1>2, <2>1, <2>2 DEF Complete
  <2> QED BY <2>1, <2>3 DEF Read
<1>3. Closed(T)
  BY <1>2 DEF Closed, Readable
<1>4. Reach(S) \subseteq T
  BY <1>1, <1>3, ReachLeast DEF ReachIsLeast
<1> QED BY <1>4

\* What is due in a frame stays due.
LEMMA DueStays ==
  ASSUME GoesOn, NEW i, Read(frames[i].file), i = 1 => frames[i].file = Bottom,
         frames'[i].file = frames[i].file
  PROVE  Due(i)' = Due(i)
<1>1. CASE i = 1
  <2>1. PICK f, text : f = Bottom /\ text = ScopedText(Source, dir)
    OBVIOUS
  <2>2. Says(f, text)' = Says(f, text)
    BY <1>1, <2>1, ReadStays DEF GoesOn
  <2>3. f = Bottom' /\ text = ScopedText(Source, dir)'
    BY <2>1 DEF GoesOn
  <2> QED BY <1>1, <2>1, <2>2, <2>3 DEF Due
<1>2. CASE i # 1
  <2>1. PICK f : f = frames[i].file
    OBVIOUS
  <2>2. General(f)' = General(f)
    BY <2>1, ReadStays DEF GoesOn
  <2> QED BY <1>2, <2>1, <2>2 DEF Due
<1> QED BY <1>1, <1>2

\* What is done in a frame stays done.
LEMMA DoneStays ==
  ASSUME ReadWell, GoesOn, NEW i, NEW x, Done(i, x), frames'[i].file = frames[i].file,
         i < Len(frames) => i < Len(frames') /\ frames'[i + 1].file = frames[i + 1].file
  PROVE  Done(i, x)'
<1>1. PICK g : g = Target(frames[i].file, x[2])
  OBVIOUS
<1>2. g = Target(frames[i].file, x[2])'
  BY <1>1 DEF Target
<1>3. Complete(g) => Complete(g)'
  BY CompleteStays
<1> QED BY <1>1, <1>2, <1>3 DEF Done, GoesOn

\* A frame that the step leaves alone.
LEMMA FrameStays ==
  ASSUME ReadWell, GoesOn, NEW i, Frame(i), UnderWay(i), frames'[i] = frames[i],
         i < Len(frames) <=> i < Len(frames'),
         i < Len(frames) => frames'[i + 1].file = frames[i + 1].file
  PROVE  Frame(i)' /\ UnderWay(i)'
<1>1. Due(i)' = Due(i)
  BY DueStays DEF Frame, UnderWay
<1>2. Included(frames[i].file, Due(i))' = Included(frames[i].file, Due(i))
  BY <1>1 DEF Included, Target
<1>3. Present(frames[i].file)' /\ Read(frames[i].file)'
  <2>1. PICK f : f = frames[i].file
    OBVIOUS
  <2>2. Present(f)' /\ Read(f)'
    BY <2>1, ReadStays DEF GoesOn, Frame, UnderWay
  <2> QED BY <2>1, <2>2
<1>4. Frame(i)'
  BY <1>2, <1>3 DEF Frame, GoesOn
<1>5. ASSUME NEW x \in Due(i) PROVE x \in ToSet(frames'[i].todo) \/ Done(i, x)'
  <2>1. Done(i, x) => Done(i, x)'
    BY DoneStays
  <2> QED BY <2>1 DEF UnderWay
<1>6. UnderWay(i)'
  BY <1>1, <1>3, <1>5 DEF UnderWay
<1> QED BY <1>4, <1>6

\* The frames above frame i are reached from its file.
LEMMA Climb ==
  ASSUME Stack, NEW i \in 1 .. Len(frames), NEW T,
         Included(frames[i].file, Due(i)) \intersect Files \subseteq T,
         \A g \in T : Read(g) => IncludesOf(g) \intersect Files \subseteq T
  PROVE  \A j \in i + 1 .. Len(frames) : frames[j].file \in T
<1>1. Len(frames) \in Nat
  BY Lists DEF Stack
<1> DEFINE B == {k \in Nat : (i + 1) + k <= Len(frames) => frames[(i + 1) + k].file \in T}
<1>2. 0 \in B
  <2> SUFFICES ASSUME i + 1 <= Len(frames) PROVE frames[i + 1].file \in T
    BY <1>1
  <2>1. i < Len(frames) /\ i + 1 \in 1 .. Len(frames)
    BY <1>1
  <2>2. Frame(i) /\ Frame(i + 1)
    BY <2>1 DEF Stack
  <2> QED BY <2>1, <2>2 DEF Frame, Present
<1>3. ASSUME NEW k \in Nat, k \in B PROVE k + 1 \in B
  <2> DEFINE j == (i + 1) + k
  <2> SUFFICES ASSUME j + 1 <= Len(frames) PROVE frames[j + 1].file \in T
    BY <1>1
  <2>1. j \in 1 .. Len(frames) /\ j + 1 \in 1 .. Len(frames) /\ j < Len(frames) /\ j # 1
    BY <1>1
  <2>2. frames[j].file \in T
    BY <1>1, <1>3, <2>1
  <2> HIDE DEF j
  <2>3. Frame(j) /\ Frame(j + 1) /\ UnderWay(j)
    BY <2>1 DEF Stack
  <2>4. Due(j) = General(frames[j].file)
    BY <2>1 DEF Due
  <2>5. frames[j + 1].file \in IncludesOf(frames[j].file) /\ frames[j + 1].file \in Files
    BY <2>1, <2>3, <2>4 DEF Frame, Present, IncludesOf
  <2> QED BY <2>2, <2>3, <2>5 DEF UnderWay
<1>4. Nat \subseteq B
  <2> HIDE DEF B
  <2> QED BY <1>2, <1>3, Induct
<1>5. ASSUME NEW j \in i + 1 .. Len(frames) PROVE frames[j].file \in T
  <2>1. j - (i + 1) \in Nat /\ (i + 1) + (j - (i + 1)) = j /\ j <= Len(frames)
    BY <1>1
  <2>2. j - (i + 1) \in B
    BY <1>4, <2>1
  <2> QED BY <2>1, <2>2
<1> QED BY <1>5

\* What is reached from the file at the bottom.
Below == Reach(Included(Bottom, Due(1)))

\* The files above the bottom, and what a file on the stack includes, are
\* reached from the bottom.
LEMMA StackReached ==
  ASSUME ReadWell, Stack
  PROVE  /\ \A j \in 2 .. Len(frames) : frames[j].file \in Below
         /\ \A j \in 1 .. Len(frames) :
              Read(frames[j].file) => Included(frames[j].file, Due(j)) \subseteq Below
<1>1. Len(frames) \in Nat /\ Len(frames) # 0
  BY Lists DEF Stack
<1>2. 1 \in 1 .. Len(frames)
  BY <1>1
<1>3. Frame(1) /\ frames[1].file = Bottom
  BY <1>2 DEF Stack, Frame
<1>4. PICK T : T = Below
  OBVIOUS
<1>5. Included(Bottom, Due(1)) \subseteq T /\ \A g \in T : Read(g) => IncludesOf(g) \subseteq T
  BY <1>4, Reached DEF Below
<1>6. /\ Included(frames[1].file, Due(1)) \intersect Files \subseteq T
      /\ \A g \in T : Read(g) => IncludesOf(g) \intersect Files \subseteq T
  BY <1>3, <1>5
<1>7. \A j \in 1 + 1 .. Len(frames) : frames[j].file \in T
  BY <1>2, <1>6, Climb
<1>8. \A j \in 2 .. Len(frames) : frames[j].file \in T
  BY <1>7
<1>9. ASSUME NEW j \in 1 .. Len(frames), Read(frames[j].file)
      PROVE  Included(frames[j].file, Due(j)) \subseteq T
  <2>1. CASE j = 1
    BY <1>3, <1>5, <2>1
  <2>2. CASE j # 1
    <3>1. frames[j].file \in T
      BY <1>1, <1>8, <2>2
    <3>2. Included(frames[j].file, Due(j)) = IncludesOf(frames[j].file)
      BY <2>2 DEF Due, IncludesOf
    <3> QED BY <1>5, <1>9, <3>1, <3>2
  <2> QED BY <2>1, <2>2
<1> QED BY <1>4, <1>8, <1>9

\* A file on the stack that the top includes includes itself.
LEMMA StackCircle ==
  ASSUME ReadWell, Stack, NEW i \in 1 .. Len(frames), i # 1, NEW n, n = Len(frames),
         \A j \in 1 .. n : Read(frames[j].file),
         frames[i].file \in Included(frames[n].file, Due(n))
  PROVE  frames[i].file \in Reach(IncludesOf(frames[i].file))
<1>1. n \in Nat /\ n \in 1 .. n
  BY Lists DEF Stack
<1>2. PICK g : g = frames[i].file
  OBVIOUS
<1>3. PICK T : T = Reach(IncludesOf(g))
  OBVIOUS
<1>4. Due(i) = General(g) /\ Due(n) = General(frames[n].file)
  BY <1>1, <1>2 DEF Due
<1>5. IncludesOf(g) \subseteq T /\ \A h \in T : Read(h) => IncludesOf(h) \subseteq T
  BY <1>3, Reached
<1>6. CASE i = n
  BY <1>2, <1>3, <1>4, <1>5, <1>6 DEF IncludesOf
<1>7. CASE i # n
  <2>1. Included(g, Due(i)) \intersect Files \subseteq T
    BY <1>4, <1>5 DEF IncludesOf
  <2>2. \A h \in T : Read(h) => IncludesOf(h) \intersect Files \subseteq T
    BY <1>5
  <2>3. \A j \in i + 1 .. n : frames[j].file \in T
    BY <1>2, <2>1, <2>2, Climb
  <2>4. n \in i + 1 .. n
    BY <1>1, <1>7
  <2>5. frames[n].file \in T /\ Read(frames[n].file)
    BY <1>1, <2>3, <2>4
  <2> QED BY <1>2, <1>3, <1>4, <1>5, <2>5 DEF IncludesOf
<1> QED BY <1>6, <1>7

\* What the bottom reaches spans a set that the bottom spans.
LEMMA SpansStay ==
  ASSUME GoesOn, Due(1)' = Due(1), NEW T, Spans(T)'
  PROVE  Spans(T)
<1>1. Included(Bottom, Due(1))' = Included(Bottom, Due(1))
  BY DEF GoesOn, Included, Target
<1>2. ASSUME NEW g \in T, Read(g) PROVE IncludesOf(g) \intersect Files \subseteq T
  <2>1. Read(g)' /\ IncludesOf(g)' = IncludesOf(g)
    BY <1>2, ReadStays DEF GoesOn
  <2> QED BY <2>1 DEF Spans
<1> QED BY <1>1, <1>2 DEF Spans

\* The layer goes on to say what it says.
LEMMA LayerStays ==
  ASSUME GoesOn, LayerSays, Due(1)' = Due(1), Read(Bottom),
         layer'.stops = layer.stops,
         layer' = [owners |-> layer'.owners, files |-> layer'.files,
                   unresolved |-> layer'.unresolved, stops |-> layer'.stops],
         \A T \in SUBSET Files : Spans(T) =>
           layer'.owners \subseteq OwnersOf(Due(1)) \union
             UNION {OwnersOf(General(g)) : g \in {h \in T : Read(h)}}
  PROVE  LayerSays'
<1>1. Stops(Bottom, ScopedText(Source, dir))' <=> Stops(Bottom, ScopedText(Source, dir))
  <2>1. PICK f, text : f = Bottom /\ text = ScopedText(Source, dir)
    OBVIOUS
  <2>2. Stops(f, text)' <=> Stops(f, text)
    BY <2>1, ReadStays DEF GoesOn
  <2>3. f = Bottom' /\ text = ScopedText(Source, dir)'
    BY <2>1 DEF GoesOn
  <2> QED BY <2>1, <2>2, <2>3
<1>2. ASSUME NEW T \in SUBSET Files, Spans(T)'
      PROVE  (layer.owners \subseteq OwnersOf(Due(1)) \union
               UNION {OwnersOf(General(g)) : g \in {h \in T : Read(h)}})'
  <2>1. layer'.owners \subseteq OwnersOf(Due(1)) \union
               UNION {OwnersOf(General(g)) : g \in {h \in T : Read(h)}}
    BY <1>2, SpansStay
  <2>2. \A g : Read(g) => Read(g)' /\ General(g)' = General(g)
    BY ReadStays DEF GoesOn
  <2>3. \A g : Read(g) => OwnersOf(General(g))' = OwnersOf(General(g))
    BY <2>2 DEF OwnersOf
  <2>4. OwnersOf(Due(1))' = OwnersOf(Due(1))
    BY DEF OwnersOf
  <2> QED BY <2>1, <2>2, <2>3, <2>4
<1> QED BY <1>1, <1>2 DEF LayerSays

-----------------------------------------------------------------------------
\* The steps of the scan.

\* Every step keeps the types of what the scan has.
LEMMA TypedStays ==
  ASSUME Typed, [Next]_vars
  PROVE  Typed'
<1>1. CASE UNCHANGED vars
  <2>1. UNCHANGED <<modules, tree, moved, parsed, result, status>>
    BY <1>1 DEF vars, world, scan
  <2> QED BY <2>1 DEF Typed
<1>2. ASSUME NEW f \in Files, NEW lines \in Variants[f], Edit(f, lines) PROVE Typed'
  <2>1. /\ modules' = modules /\ parsed' = parsed /\ result' = result /\ status' = status
        /\ tree' = [tree EXCEPT ![f] = lines] /\ moved' = (moved \/ Absent \in {tree[f], lines})
    BY <1>2 DEF Edit, scan
  <2>2. moved' \in BOOLEAN
    BY <2>1
  <2>3. DOMAIN tree' = Files /\ \A g \in Files : tree'[g] \in Variants[g]
    BY <2>1 DEF Typed
  <2> QED BY <2>1, <2>2, <2>3 DEF Typed
<1>3. ASSUME NEW f, parsed' = [parsed EXCEPT ![f] = Cached(f)]
      PROVE  DOMAIN parsed' = Files /\ \A g \in Files : parsed'[g] \in Variants[g] \union {Absent}
  BY <1>3 DEF Typed, Cached
<1>4. ASSUME Step PROVE Typed'
  <2>1. UNCHANGED <<modules, tree, moved>>
    BY <1>4 DEF Step, NextSource, Look, Open, Directive, ReadIncluded, Return, EndLayer, world
  <2>2. DOMAIN parsed' = Files /\ \A g \in Files : parsed'[g] \in Variants[g] \union {Absent}
    <3>1. CASE parsed' = parsed
      BY <3>1 DEF Typed
    <3>2. CASE Open /\ parsed' # parsed
      BY <1>3, <3>2 DEF Open, ReadFails
    <3>3. CASE ReadIncluded /\ parsed' # parsed
      BY <1>3, <3>3 DEF ReadIncluded, ReadFails
    <3> QED BY <1>4, <3>1, <3>2, <3>3 DEF Step, NextSource, Look, Directive, Return, EndLayer
  <2>3. IsList(result')
    <3>1. CASE result' = result
      BY <3>1 DEF Typed
    <3>2. \A found : IsList(Append(result, found))
      BY ListAppend DEF Typed
    <3> QED BY <1>4, <3>1, <3>2
        DEF Step, NextSource, Look, Leave, Open, Directive, ReadIncluded, Return, EndLayer
  <2>4. status' \in Failures \union {"next", "look", "open", "resolve", "read", "done"}
    <3>1. CASE NextSource
      BY <3>1 DEF NextSource, Failures
    <3>2. CASE Look
      BY <3>2 DEF Look, Leave, Failures
    <3>3. CASE Open
      BY <3>3 DEF Open, ReadFails, Failures
    <3>4. CASE Directive
      BY <3>4 DEF Directive, Failures, Typed
    <3>5. CASE ReadIncluded
      BY <3>5 DEF ReadIncluded, ReadFails, Failures
    <3>6. CASE Return
      BY <3>6 DEF Return, Typed
    <3>7. CASE EndLayer
      BY <3>7 DEF EndLayer, Leave, Failures
    <3> QED BY <1>4, <3>1, <3>2, <3>3, <3>4, <3>5, <3>6, <3>7 DEF Step
  <2> QED BY <2>1, <2>2, <2>3, <2>4 DEF Typed
<1> QED BY <1>1, <1>2, <1>4 DEF Next

\* A step that changes no file and reads none keeps what was read.
LEMMA KeepsWhat ==
  ASSUME tree' = tree, parsed' = parsed
  PROVE  Keeps
BY DEF Keeps

\* The next source is taken up, or the scan ends.
LEMMA NextSourceScans ==
  ASSUME Typed, Scanned, NextSource
  PROVE  Scanned'
<1>1. /\ status = "next" /\ UNCHANGED <<modules, tree, parsed, result>>
  BY DEF NextSource, world
<1>2. Keeps
  BY <1>1, KeepsWhat
<1>3. Results'
  BY <1>1, <1>2, ResultsStay DEF Scanned
<1>4. ReadWell'
  BY <1>1 DEF Scanned, ReadWell, Present
<1>5. Queue' = Queue /\ Source' = Source
  BY <1>1 DEF Queue, Source, NormalSource
<1>6. CASE Len(result) = Len(Queue)
  <2>1. status' = "done"
    BY <1>6 DEF NextSource
  <2> QED BY <1>1, <1>3, <1>4, <1>5, <1>6, <2>1 DEF Scanned, Failures
<1>7. CASE Len(result) # Len(Queue) /\ Source = <<>>
  <2>1. status' = "path"
    BY <1>7 DEF NextSource, Source
  <2>2. Reason
    <3>1. \E names \in ToSet(Queue) : Source = NormalSource(names)
      BY <1>7, SourceIs DEF Scanned, Source
    <3> QED BY <1>7, <3>1 DEF Reason
  <2>3. Reason'
    BY <1>1, <2>2, ReasonStays
  <2> QED BY <1>3, <1>4, <2>1, <2>3 DEF Scanned
<1>8. CASE Len(result) # Len(Queue) /\ Source # <<>>
  <2>1. status' = "look" /\ dir' = Front(Source) /\ walk' = NoWalk
    BY <1>8 DEF NextSource, Source
  <2>2. PICK s, d : s = Source /\ d = Front(Source)
    OBVIOUS
  <2>3. Len(result) < Len(Queue) /\ Spelled(s)
    BY <1>8, <2>2, SourceIs DEF Scanned
  <2>4. Len(s) \in Nat /\ Len(s) # 0
    BY <1>8, <2>2, <2>3, Lists DEF Spelled
  <2>5. PICK n : n = Len(s) - 1 /\ n \in Nat /\ n \in 0 .. Len(s) - 1 /\ n + 1 = Len(s)
    BY <2>4
  <2>6. d = SubSeq(s, 1, n)
    BY <2>2, <2>5 DEF Front
  <2>7. Len(d) = n
    <3>1. n \in 0 .. Len(s)
      BY <2>4, <2>5
    <3> QED BY <2>3, <2>6, <3>1, DirsOf
  <2>8. Dirs(s, Len(d) + 1) = {}
    BY <2>3, <2>5, <2>7, NoDirs
  <2>9. Dirs(s, Len(d) + 1)' = {}
    BY <1>2, <2>8, DirsStay
  <2>10. Over(s, Len(d) + 1, NoWalk)' /\ Quiet(s, Len(d) + 1)'
    BY <2>9 DEF Over, Quiet, NoWalk
  <2>11. s = Source' /\ d = dir'
    BY <1>5, <2>1, <2>2
  <2>12. Over(Source, Len(dir) + 1, walk)' /\ Quiet(Source, Len(dir) + 1)'
    BY <2>1, <2>10, <2>11
  <2>13. Walked'
    BY <1>1, <1>5, <1>8, <2>2, <2>3, <2>5, <2>6, <2>11, <2>12 DEF Walked
  <2> QED BY <1>3, <1>4, <2>1, <2>13 DEF Scanned, Failures
<1> QED BY <1>6, <1>7, <1>8

\* The walk goes on, or the source is finished.
LEMMA LeaveScans ==
  ASSUME Typed, Results, Walked, Keeps, modules' = modules, NEW found, NEW stop \in BOOLEAN,
         Over(Source, Len(dir), found), Leave(found, stop), walk' = found,
         stop => Present(Bottom) /\ Stops(Bottom, ScopedText(Source, dir)),
         ~ stop => Quiet(Source, Len(dir))
  PROVE  /\ Results' /\ status' \in {"look", "next"}
         /\ status' = "look" => Walked'
<1>1. PICK s, n : s = Source /\ n = Len(dir)
  OBVIOUS
<1>2. /\ Spelled(s) /\ n \in 0 .. Len(s) - 1 /\ Len(s) \in Nat
      /\ dir = SubSeq(s, 1, n) /\ IsList(dir) /\ (dir = <<>> <=> n = 0)
      /\ dir # <<>> => Front(dir) = SubSeq(s, 1, n - 1)
  BY <1>1, WalkIs
<1>3. Over(s, n, found) /\ Quiet(s, n + 1) /\ Len(result) < Len(Queue) /\ s # <<>>
  BY <1>1 DEF Walked
<1>4. CASE stop \/ dir = <<>>
  <2>1. result' = Append(result, found) /\ status' = "next"
    BY <1>4 DEF Leave
  <2>2. ASSUME n > 0
        PROVE  \E d \in Dirs(s, n) : Len(d) = n /\ Stops(OwnersIn(d), ScopedText(s, d))
    <3>1. Present(OwnersIn(dir)) /\ Stops(OwnersIn(dir), ScopedText(s, dir))
      BY <1>1, <1>2, <1>4, <2>2 DEF Bottom
    <3>2. n \in n .. Len(s) - 1
      BY <1>2
    <3>3. dir \in Dirs(s, n)
      BY <1>2, <3>1, <3>2 DEF Dirs
    <3> QED BY <1>1, <3>1, <3>3
  <2>3. Finished(Source, found)
    BY <1>1, <1>2, <1>3, <2>2 DEF Finished
  <2>4. Results'
    BY <1>3, <2>1, <2>3, ResultsGrow
  <2> QED BY <2>1, <2>4
<1>5. CASE ~ (stop \/ dir = <<>>)
  <2>1. dir' = Front(dir) /\ status' = "look" /\ result' = result
    BY <1>5 DEF Leave
  <2>2. Results'
    BY <2>1, ResultsStay
  <2>3. PICK m : m = n - 1 /\ m \in Nat /\ m + 1 = n /\ m \in 0 .. Len(s) - 1 /\ m \in 0 .. Len(s)
    BY <1>2, <1>5
  <2>4. dir' = SubSeq(s, 1, m)
    BY <1>2, <1>5, <2>1, <2>3
  <2>5. Len(dir') = m
    BY <1>2, <2>3, <2>4, DirsOf
  <2>6. Quiet(s, n)
    BY <1>1, <1>5
  <2>7. Over(s, n, found)' /\ Quiet(s, n)'
    BY <1>3, <2>6, OverStays, QuietStays
  <2>8. Queue' = Queue /\ s = Source'
    BY <1>1, <2>1 DEF Queue, Source, NormalSource
  <2>9. n = (Len(dir) + 1)' /\ found = walk'
    BY <2>3, <2>5
  <2>10. Over(Source, Len(dir) + 1, walk)' /\ Quiet(Source, Len(dir) + 1)'
    BY <2>7, <2>8, <2>9
  <2>11. Walked'
    BY <1>3, <2>1, <2>3, <2>4, <2>8, <2>10 DEF Walked
  <2> QED BY <2>1, <2>2, <2>11
<1> QED BY <1>4, <1>5

\* The directory is looked at.
LEMMA LookScans ==
  ASSUME Typed, Scanned, Look
  PROVE  Scanned'
<1>1. status = "look" /\ UNCHANGED <<modules, tree, parsed, walk>>
  BY DEF Look, world
<1>2. Keeps
  BY <1>1, KeepsWhat
<1>3. Results /\ Walked /\ ReadWell'
  BY <1>1 DEF Scanned, ReadWell, Present
<1>4. CASE Present(Bottom)
  <2>1. status' = "open" /\ UNCHANGED <<dir, result>>
    BY <1>4 DEF Look, Bottom
  <2>2. Results' /\ Walked' /\ Bottom' = Bottom
    BY <1>1, <1>2, <1>3, <2>1, ResultsStay, WalkStays
  <2>3. Present(Bottom)'
    BY <1>1, <1>4, <2>2 DEF Present
  <2> QED BY <1>3, <2>1, <2>2, <2>3 DEF Scanned, Failures
<1>5. CASE ~ Present(Bottom)
  <2>1. Leave(walk, FALSE)
    BY <1>5 DEF Look, Bottom
  <2>2. PICK s, n, found : s = Source /\ n = Len(dir) /\ found = walk
    OBVIOUS
  <2>3. Spelled(s) /\ n \in 0 .. Len(s) - 1 /\ dir = SubSeq(s, 1, n)
    BY <1>3, <2>2, WalkIs
  <2>4. Over(s, n + 1, found) /\ Quiet(s, n + 1)
    BY <1>3, <2>2 DEF Walked
  <2>5. ~ Present(OwnersIn(SubSeq(s, 1, n)))
    BY <1>5, <2>3 DEF Bottom
  <2>6. Over(s, n, found) /\ Quiet(s, n)
    BY <2>3, <2>4, <2>5, OverSame
  <2>7. Over(Source, Len(dir), found) /\ Quiet(Source, Len(dir)) /\ walk' = found
    BY <1>1, <2>2, <2>6
  <2>8. Leave(found, FALSE)
    BY <2>1, <2>2
  <2>9. Results' /\ status' \in {"look", "next"} /\ (status' = "look" => Walked')
    BY <1>1, <1>2, <1>3, <2>7, <2>8, LeaveScans
  <2> QED BY <1>3, <2>9 DEF Scanned, Failures
<1> QED BY <1>4, <1>5

\* A file is read, now or before.
LEMMA ReadsMore ==
  ASSUME Typed, ReadWell, NEW f, f \in Files, tree' = tree,
         ~ ReadError(f), parsed' = [parsed EXCEPT ![f] = Cached(f)], Present(f)
  PROVE  Keeps /\ ReadWell' /\ Read(f)' /\ Cached(f)' = Cached(f) /\ Cached(f) \in Variants[f]
<1>1. DOMAIN parsed = Files /\ Cached(f) # Absent /\ Parses(Cached(f))
  BY DEF Typed, ReadError
<1>2. \A g : /\ parsed[g] # Absent => parsed'[g] = parsed[g]
             /\ g # f => parsed'[g] = parsed[g]
             /\ parsed'[f] = Cached(f)
  BY <1>1 DEF Cached
<1>3. Keeps
  BY <1>2 DEF Keeps
<1>4. ReadWell'
  BY <1>1, <1>2 DEF ReadWell, Present, Parses
<1>5. Read(f)' /\ Cached(f)' = Cached(f)
  BY <1>1, <1>2 DEF Read, Cached
<1>6. Cached(f) \in Variants[f]
  BY <1>1 DEF Typed, Cached
<1> QED BY <1>3, <1>4, <1>5, <1>6

\* The OWNERS file of the directory is opened.
LEMMA OpenScans ==
  ASSUME Typed, Scanned, Open
  PROVE  Scanned'
<1>1. /\ status = "open"
      /\ UNCHANGED <<modules, tree, dir, walk, result>>
  BY DEF Open, world
<1>2. Results /\ Walked /\ ReadWell /\ Present(Bottom)
  BY <1>1 DEF Scanned
<1>3. CASE ReadFails(Bottom)
  <2>1. status' \in {"unreadable", "syntax"} /\ ReadError(Bottom) /\ parsed' = parsed
    BY <1>3 DEF ReadFails
  <2>2. Cached(Bottom) # Absent
    BY <1>2 DEF Cached, Present
  <2>3. Reason
    BY <1>2, <2>1, <2>2, ReasonHere DEF ReadError
  <2>4. Reason' /\ Results'
    BY <1>1, <1>2, <2>1, <2>3, ReasonStays, KeepsWhat, ResultsStay
  <2>5. ReadWell'
    BY <1>1, <1>2, <2>1 DEF ReadWell, Present
  <2> QED BY <2>1, <2>4, <2>5 DEF Scanned
<1>4. CASE ~ ReadFails(Bottom)
  <2>1. PICK f, text : f = Bottom /\ text = ScopedText(Source, dir)
    OBVIOUS
  <2>2. /\ ~ ReadError(f)
        /\ parsed' = [parsed EXCEPT ![f] = Cached(f)]
        /\ frames' = <<[file |-> f, todo |-> Applicable(Cached(f), text)]>>
        /\ layer' = [NoLayer EXCEPT !.files = {f}, !.stops = StopsAt(Cached(f), text)]
        /\ status' = "resolve"
    BY <1>4, <2>1 DEF Open, Bottom
  <2>3. f \in Files /\ IsList(text) /\ Present(f)
    BY <1>2, <2>1, WalkIs DEF Present
  <2>4. Keeps /\ ReadWell' /\ Read(f)' /\ Cached(f)' = Cached(f) /\ Cached(f) \in Variants[f]
    BY <1>1, <1>2, <2>2, <2>3, ReadsMore
  <2>5. Results'
    BY <1>1, <1>2, <2>4, ResultsStay
  <2>6. /\ Walked' /\ Source' = Source /\ Bottom' = f
        /\ ScopedText(Source, dir)' = text
    BY <1>1, <1>2, <2>1, <2>4, WalkStays
  <2>7. PICK todo : todo = Applicable(Cached(f), text)
    OBVIOUS
  <2>8. IsList(todo) /\ ToSet(todo) = Says(f, text) /\ (StopsAt(Cached(f), text) <=> Stops(f, text))
    BY <2>3, <2>4, <2>7, LinesSay
  <2>9. Says(f, text)' = Says(f, text) /\ (Stops(f, text)' <=> Stops(f, text))
    <3>1. General(f)' = General(f) /\ Special(f, text)' = Special(f, text)
      BY <2>4 DEF General, Special
    <3> QED BY <2>4, <3>1 DEF Says, Stops
  <2>10. Due(1)' = ToSet(todo)
    BY <2>6, <2>8, <2>9 DEF Due
  <2>11. Len(frames') = 1 /\ frames'[1] = [file |-> f, todo |-> todo] /\ frames' # <<>>
    BY <2>2, <2>7
  <2>12. IsList(frames')
    <3>1. <<[file |-> f, todo |-> todo]>> \in Seq({[file |-> f, todo |-> todo]})
      OBVIOUS
    <3> QED BY <2>2, <2>7, <3>1, ListIs
  <2>13. Present(f)'
    BY <1>1, <2>3 DEF Present
  <2>14. Frame(1)' /\ UnderWay(1)'
    <3>1. Frame(1)'
      BY <2>6, <2>8, <2>11, <2>13 DEF Frame
    <3>2. UnderWay(1)'
      BY <2>4, <2>10, <2>11 DEF UnderWay
    <3> QED BY <3>1, <3>2
  <2>15. Stack'
    <3>1. \A i \in 1 .. Len(frames') : i = 1
      BY <2>11
    <3> QED BY <2>11, <2>12, <2>14, <3>1 DEF Stack
  <2>16. LayerSays'
    <3>1. /\ layer'.owners = {} /\ (layer'.stops <=> Stops(f, text))
          /\ layer' = [owners |-> layer'.owners, files |-> layer'.files,
                       unresolved |-> layer'.unresolved, stops |-> layer'.stops]
      BY <2>2, <2>8 DEF NoLayer
    <3>2. layer'.stops <=> Stops(Bottom, ScopedText(Source, dir))'
      BY <2>6, <2>9, <3>1
    <3> QED BY <3>1, <3>2 DEF LayerSays
  <2> QED BY <2>2, <2>4, <2>5, <2>6, <2>15, <2>16 DEF Scanned, Failures
<1> QED BY <1>3, <1>4

\* The bottom of the include stack.
LEMMA StackIs ==
  ASSUME Stack
  PROVE  /\ IsList(frames) /\ Len(frames) \in Nat /\ Len(frames) >= 1
         /\ 1 \in 1 .. Len(frames) /\ Len(frames) \in 1 .. Len(frames)
         /\ Frame(1) /\ frames[1].file = Bottom /\ Present(Bottom)
<1>1. IsList(frames) /\ Len(frames) \in Nat /\ Len(frames) # 0
  BY Lists DEF Stack
<1>2. Len(frames) >= 1 /\ 1 \in 1 .. Len(frames) /\ Len(frames) \in 1 .. Len(frames)
  BY <1>1
<1>3. Frame(1)
  BY <1>2 DEF Stack
<1> QED BY <1>1, <1>2, <1>3 DEF Frame

\* What makes the file at the bottom unsound.
LEMMA NotSound ==
  ASSUME NEW g \in Below, g \notin Readable(Below) \/ g = Bottom \/ g \in Reach(IncludesOf(g))
  PROVE  ~ Sound(Bottom, ScopedText(Source, dir))
<1>1. PICK R : R = Below
  OBVIOUS
<1>2. R = Reach(Included(Bottom, Says(Bottom, ScopedText(Source, dir))))
  BY <1>1 DEF Below, Due
<1> QED BY <1>1, <1>2 DEF Sound, IncludesOf

\* The first directive of the top frame is done, and nothing else is lost.
LEMMA PoppedStays ==
  ASSUME ReadWell, Stack, status = "resolve", NEW n, n = Len(frames), Top.todo # <<>>, GoesOn,
         Len(frames') \in Nat, Len(frames') >= n,
         \A i \in 1 .. n - 1 : frames'[i] = frames[i],
         frames'[n] = [file |-> frames[n].file, todo |-> Tail(frames[n].todo)],
         NEW d, d = Head(frames[n].todo), Done(n, d)',
         n < Len(frames') => frames'[n + 1].file \in Included(frames[n].file, Due(n))
  PROVE  \A i \in 1 .. n : Frame(i)' /\ UnderWay(i)' /\ Due(i)' = Due(i)
<1>1. n \in Nat /\ n \in 1 .. n
  BY StackIs
<1>2. \A i \in 1 .. n : Frame(i) /\ UnderWay(i)
  BY DEF Stack
<1>3. ASSUME NEW i \in 1 .. n, i # n PROVE Frame(i)' /\ UnderWay(i)' /\ Due(i)' = Due(i)
  <2>1. i \in 1 .. n - 1 /\ i < n /\ i < Len(frames') /\ (i + 1 = n \/ i + 1 \in 1 .. n - 1)
    BY <1>1, <1>3
  <2>2. frames'[i] = frames[i] /\ frames'[i + 1].file = frames[i + 1].file
    BY <2>1
  <2>3. Due(i)' = Due(i)
    BY <1>2, <2>2, DueStays DEF Frame, UnderWay
  <2> QED BY <1>2, <2>1, <2>2, <2>3, FrameStays
<1>4. Frame(n) /\ UnderWay(n) /\ frames[n].todo # <<>>
  BY <1>1, <1>2 DEF Top
<1>5. Due(n)' = Due(n)
  BY <1>4, DueStays DEF Frame, UnderWay
<1>6. PICK f, todo : f = frames[n].file /\ todo = frames[n].todo
  OBVIOUS
<1>7. /\ IsList(Tail(todo)) /\ ToSet(Tail(todo)) \subseteq ToSet(todo)
      /\ \A x \in ToSet(todo) : x = Head(todo) \/ x \in ToSet(Tail(todo))
  BY <1>4, <1>6, ListTail DEF Frame
<1>8. Present(f)' /\ Read(f)'
  BY <1>4, <1>6, ReadStays DEF GoesOn, Frame, UnderWay
<1>9. Frame(n)'
  <2>1. Included(f, Due(n))' = Included(f, Due(n))
    BY <1>5 DEF Included, Target
  <2>2. frames'[n].file = f /\ frames'[n].todo = Tail(todo)
        /\ frames'[n] = [file |-> f, todo |-> Tail(todo)]
    BY <1>6
  <2>3. frames'[n].file = Bottom' <=> n = 1
    BY <1>4, <1>6, <2>2 DEF Frame, GoesOn
  <2>4. n < Len(frames') => frames'[n + 1].file \in Included(f, Due(n))'
    BY <1>6, <2>1
  <2>5. n < Len(frames') => frames'[n + 1].file \in Included(frames[n].file, Due(n))'
    BY <2>2, <2>4
  <2>6. Present(frames[n].file)' /\ IsList(frames[n].todo)'
    BY <1>7, <1>8, <2>2
  <2> QED BY <2>2, <2>3, <2>5, <2>6 DEF Frame
<1>10. ASSUME NEW x \in Due(n) PROVE x \in ToSet(Tail(todo)) \/ Done(n, x)'
  <2>1. Done(n, x) => Done(n, x)'
    <3>1. ~ (n < n)
      BY <1>1
    <3> QED BY <3>1, DoneStays
  <2>2. x = Head(todo) => x = d
    BY <1>6
  <2> QED BY <1>4, <1>6, <1>7, <2>1, <2>2 DEF UnderWay
<1>11. UnderWay(n)'
  BY <1>4, <1>5, <1>6, <1>7, <1>8, <1>10 DEF UnderWay
<1> QED BY <1>3, <1>5, <1>9, <1>11

\* The frames without the first directive of the top.
Popped == [frames EXCEPT ![Len(frames)].todo = Tail(@)]

\* They are as many as before, and all but the top are the same.
LEMMA PoppedIs ==
  ASSUME Stack, status = "resolve", Top.todo # <<>>, NEW n, n = Len(frames)
  PROVE  /\ IsList(Popped) /\ Len(Popped) = n
         /\ Popped[n] = [file |-> frames[n].file, todo |-> Tail(frames[n].todo)]
         /\ \A i \in 1 .. n - 1 : Popped[i] = frames[i]
         /\ Head(frames[n].todo) \in Due(n)
<1>0. PICK popped : popped = Popped
  OBVIOUS
<1>1. n \in Nat /\ n \in 1 .. Len(frames) /\ IsList(frames)
  BY StackIs
<1>2. Frame(n) /\ UnderWay(n) /\ frames[n].todo # <<>>
  BY <1>1 DEF Stack, Top
<1>3. PICK x : x = [frames[n] EXCEPT !.todo = Tail(frames[n].todo)]
  OBVIOUS
<1>4. x = [file |-> frames[n].file, todo |-> Tail(frames[n].todo)]
  BY <1>2, <1>3 DEF Frame
<1>5. popped = [frames EXCEPT ![n] = x]
  <2>1. popped = [frames EXCEPT ![n].todo = Tail(@)]
    BY <1>0 DEF Popped
  <2> QED BY <1>3, <2>1
<1>6. /\ IsList(popped) /\ Len(popped) = n /\ popped[n] = x
      /\ \A i \in 1 .. Len(frames) : i # n => popped[i] = frames[i]
  <2> DEFINE D == ToSet(frames)
  <2>1. frames \in Seq(D) /\ Len(frames) \in Nat
    BY <1>1, Lists
  <2> HIDE DEF D
  <2>2. frames \in Seq(D \union {x})
    BY <2>1
  <2>3. popped \in Seq(D \union {x}) /\ Len(popped) = Len(frames) /\ popped[n] = x
        /\ \A i \in 1 .. Len(frames) : i # n => popped[i] = frames[i]
    BY <1>1, <1>5, <2>1, <2>2
  <2> QED BY <2>3, ListIs
<1>7. \A i \in 1 .. n - 1 : i \in 1 .. Len(frames) /\ i # n
  BY <1>1
<1>8. Head(frames[n].todo) \in Due(n)
  BY <1>2, ListTail DEF Frame, UnderWay
<1> QED BY <1>0, <1>4, <1>6, <1>7, <1>8

\* An include that cannot be followed is a reason to fail.
LEMMA IncludeFails ==
  ASSUME Typed, Scanned, Directive, status' \in {"cycle", "missing"}, UNCHANGED frames
  PROVE  Reason
<1>1. status = "resolve" /\ Results /\ Walked /\ ReadWell /\ Stack /\ Top.todo # <<>>
  BY DEF Directive, Scanned
<1>2. PICK n : n = Len(frames)
  OBVIOUS
<1>3. PICK d, target : d = Head(frames[n].todo) /\ target = Target(frames[n].file, d[2])
  OBVIOUS
<1>4. \A i \in 1 .. n : Frame(i) /\ UnderWay(i) /\ Read(frames[i].file)
  BY <1>1, <1>2 DEF Stack, UnderWay
<1>5. n \in 1 .. n /\ Present(Bottom) /\ IsList(frames)
  BY <1>1, <1>2, StackIs
<1>6. d \in Due(n)
  <2>1. frames[n].todo # <<>> /\ IsList(frames[n].todo)
    BY <1>1, <1>2, <1>4, <1>5 DEF Top, Frame
  <2> QED BY <1>3, <1>4, <1>5, <2>1, ListTail DEF UnderWay
<1>7. d[1] = "include" /\ ~ d[2].external /\ (~ Present(target) \/ OnStack(target))
  BY <1>1, <1>2, <1>3 DEF Directive, Top
<1>8. target \in Included(frames[n].file, Due(n))
  BY <1>3, <1>6, <1>7 DEF Included
<1>9. target \in Below
  BY <1>1, <1>2, <1>4, <1>5, <1>8, StackReached
<1>10. target \notin Readable(Below) \/ target = Bottom \/ target \in Reach(IncludesOf(target))
  <2>1. CASE ~ Present(target)
    BY <2>1 DEF Readable
  <2>2. CASE OnStack(target)
    <3>1. PICK i \in 1 .. n : target = frames[i].file
      BY <1>2, <1>5, <2>2, Lists DEF OnStack
    <3>2. CASE i = 1
      BY <1>1, <3>1, <3>2, StackIs
    <3>3. CASE i # 1
      <4>1. frames[i].file \in Reach(IncludesOf(frames[i].file))
        BY <1>1, <1>2, <1>4, <1>8, <3>1, <3>3, StackCircle
      <4> QED BY <3>1, <4>1
    <3> QED BY <3>2, <3>3
  <2> QED BY <1>7, <2>1, <2>2
<1>11. ~ Sound(Bottom, ScopedText(Source, dir))
  BY <1>9, <1>10, NotSound
<1> QED BY <1>1, <1>5, <1>11, ReasonHere

\* One directive is carried out.
LEMMA DirectiveScans ==
  ASSUME Typed, Scanned, Directive
  PROVE  Scanned'
<1>1. /\ status = "resolve" /\ Results /\ Walked /\ ReadWell /\ Stack /\ LayerSays
      /\ Top.todo # <<>> /\ UNCHANGED <<modules, tree, parsed, dir, walk, result>>
  BY DEF Directive, Scanned, world
<1>2. /\ Keeps /\ Results' /\ ReadWell'
      /\ Walked' /\ Source' = Source /\ Bottom' = Bottom
      /\ ScopedText(Source, dir)' = ScopedText(Source, dir)
  <2>1. Keeps
    BY <1>1, KeepsWhat
  <2>2. ReadWell'
    BY <1>1 DEF ReadWell, Present
  <2> QED BY <1>1, <2>1, <2>2, ResultsStay, WalkStays
<1>3. CASE UNCHANGED frames
  <2>1. PICK n : n = Len(frames)
    OBVIOUS
  <2>2. PICK popped : popped = Popped
    OBVIOUS
  <2>3. status' \in {"cycle", "missing"}
    <3>1. popped # frames
      <4>0. Popped[n] = [file |-> frames[n].file, todo |-> Tail(frames[n].todo)]
        BY <1>1, <2>1, PoppedIs
      <4>1. popped[n].todo = Tail(frames[n].todo)
        BY <2>2, <4>0
      <4>2. IsList(frames[n].todo) /\ frames[n].todo # <<>>
        BY <1>1, <2>1, StackIs DEF Stack, Frame, Top
      <4>3. Tail(frames[n].todo) # frames[n].todo
        <5> DEFINE s == frames[n].todo
                   D == ToSet(s)
        <5>1. s \in Seq(D) /\ s # <<>>
          BY <4>2, Lists
        <5> HIDE DEF s, D
        <5>2. Len(Tail(s)) = Len(s) - 1 /\ Len(s) \in Nat
          BY <5>1
        <5>3. Tail(s) # s
          BY <5>2
        <5> QED BY <5>3 DEF s
      <4> QED BY <4>1, <4>3
    <3>2. \A x : Append(popped, x) # frames
      <4> SUFFICES ASSUME NEW x PROVE Append(popped, x) # frames
        OBVIOUS
      <4>1. IsList(popped) /\ Len(popped) = n /\ n \in Nat
        BY <1>1, <2>1, <2>2, PoppedIs, StackIs
      <4>2. Len(Append(popped, x)) = n + 1
        BY <4>1, ListAppend
      <4> QED BY <2>1, <4>1, <4>2
    <3>3. \/ frames' = popped \/ \E x : frames' = Append(popped, x)
          \/ \E p \in BOOLEAN : status' = IF p THEN "cycle" ELSE "missing"
      <4>1. \A f : Present(f) \in BOOLEAN
        BY DEF Present
      <4> QED BY <2>2, <4>1 DEF Directive, Popped
    <3> QED BY <1>3, <3>1, <3>2, <3>3
  <2>4. Reason'
    BY <1>1, <1>3, <2>3, IncludeFails, ReasonStays
  <2> QED BY <1>2, <2>3, <2>4 DEF Scanned, Failures
<1>4. CASE ~ UNCHANGED frames
  <2>1. PICK n : n = Len(frames)
    OBVIOUS
  <2>2. PICK popped : popped = Popped
    OBVIOUS
  <2>3. PICK d, target : d = Head(frames[n].todo) /\ target = Target(frames[n].file, d[2])
    OBVIOUS
  <2>4. \/ /\ d[1] = "owner" /\ layer' = [layer EXCEPT !.owners = @ \union {d[2]}]
           /\ frames' = popped /\ status' = status
        \/ /\ d[1] = "noparent" /\ frames' = popped /\ UNCHANGED <<layer, status>>
        \/ /\ d[1] = "include" /\ d[2].external /\ frames' = popped /\ status' = status
           /\ layer' = [layer EXCEPT !.unresolved = @ \union {<<frames[n].file, d[2]>>}]
        \/ /\ d[1] = "include" /\ ~ d[2].external /\ Present(target) /\ ~ OnStack(target)
           /\ frames' = Append(popped, [file |-> target, todo |-> <<>>])
           /\ status' = "read" /\ layer' = layer
    BY <1>4, <2>1, <2>2, <2>3 DEF Directive, Top, Popped
  <2>5. /\ IsList(popped) /\ Len(popped) = n /\ d \in Due(n)
        /\ popped[n] = [file |-> frames[n].file, todo |-> Tail(frames[n].todo)]
        /\ \A i \in 1 .. n - 1 : popped[i] = frames[i]
    BY <1>1, <2>1, <2>2, <2>3, PoppedIs
  <2>6. n \in Nat /\ n >= 1 /\ n \in 1 .. n /\ 1 \in 1 .. n /\ Read(frames[n].file) /\ Read(Bottom)
    BY <1>1, <2>1, StackIs DEF Stack, UnderWay
  <2>7. /\ layer.owners \subseteq layer'.owners /\ layer'.stops = layer.stops
        /\ layer' = [owners |-> layer'.owners, files |-> layer'.files,
                     unresolved |-> layer'.unresolved, stops |-> layer'.stops]
        /\ d[1] = "owner" => d[2] \in layer'.owners
        /\ layer'.owners \subseteq layer.owners \union (IF d[1] = "owner" THEN {d[2]} ELSE {})
    <3>1. layer = [owners |-> layer.owners, files |-> layer.files,
                   unresolved |-> layer.unresolved, stops |-> layer.stops]
      BY <1>1 DEF LayerSays
    <3>2. CASE layer' = layer /\ d[1] # "owner"
      BY <3>1, <3>2
    <3>3. CASE d[1] = "owner" /\ layer' = [layer EXCEPT !.owners = @ \union {d[2]}]
      <4>1. layer' = [owners |-> layer.owners \union {d[2]}, files |-> layer.files,
                      unresolved |-> layer.unresolved, stops |-> layer.stops]
        BY <3>1, <3>3
      <4> QED BY <3>3, <4>1
    <3>4. CASE /\ d[1] = "include"
               /\ layer' = [layer EXCEPT !.unresolved = @ \union {<<frames[n].file, d[2]>>}]
      <4>1. layer' = [owners |-> layer.owners, files |-> layer.files, stops |-> layer.stops,
                      unresolved |-> layer.unresolved \union {<<frames[n].file, d[2]>>}]
        BY <3>1, <3>4
      <4> QED BY <3>4, <4>1
    <3> QED BY <2>4, <3>2, <3>3, <3>4
  <2>8. GoesOn
    BY <1>2, <2>7 DEF GoesOn
  <2>9. target \in Included(frames[n].file, Due(n)) \/ d[1] # "include" \/ d[2].external
    BY <2>3, <2>5 DEF Included
  <2>10. /\ IsList(frames') /\ Len(frames') \in Nat /\ Len(frames') >= n
         /\ \A i \in 1 .. n : frames'[i] = popped[i]
         /\ \/ Len(frames') = n /\ status' = "resolve" /\ (d[1] # "include" \/ d[2].external)
            \/ /\ Len(frames') = n + 1 /\ frames'[n + 1] = [file |-> target, todo |-> <<>>]
               /\ status' = "read" /\ Present(target) /\ ~ OnStack(target)
               /\ d[1] = "include" /\ ~ d[2].external
    <3>1. CASE frames' = popped
      BY <1>1, <2>4, <2>5, <2>6, <3>1
    <3>2. CASE frames' # popped
      <4>1. PICK x : x = [file |-> target, todo |-> <<>>]
        OBVIOUS
      <4>2. frames' = Append(popped, x) /\ status' = "read" /\ Present(target) /\ ~ OnStack(target)
            /\ d[1] = "include" /\ ~ d[2].external
        BY <2>4, <3>2, <4>1
      <4>3. /\ IsList(frames') /\ Len(frames') = n + 1 /\ frames'[n + 1] = x
            /\ \A i \in 1 .. n : frames'[i] = popped[i]
        BY <2>5, <4>2, ListAppend
      <4> QED BY <2>6, <4>1, <4>2, <4>3
    <3> QED BY <3>1, <3>2
  <2>11. \A i \in 1 .. n : Frame(i)' /\ UnderWay(i)' /\ Due(i)' = Due(i)
    <3>1. /\ \A i \in 1 .. n - 1 : frames'[i] = frames[i]
          /\ frames'[n] = [file |-> frames[n].file, todo |-> Tail(frames[n].todo)]
      <4>1. \A i \in 1 .. n - 1 : i \in 1 .. n
        BY <2>6
      <4>2. \A i \in 1 .. n : frames'[i] = popped[i]
        BY <2>10
      <4> QED BY <2>5, <2>6, <4>1, <4>2
    <3>2. Done(n, d)'
      <4>1. d[1] = "include" /\ ~ d[2].external =>
              n < Len(frames') /\ frames'[n + 1].file = Target(frames'[n].file, d[2])
        BY <2>3, <2>6, <2>10, <3>1
      <4> QED BY <2>7, <4>1 DEF Done
    <3>3. n < Len(frames') => frames'[n + 1].file \in Included(frames[n].file, Due(n))
      BY <2>6, <2>9, <2>10
    <3> QED BY <1>1, <2>1, <2>3, <2>8, <2>10, <3>1, <3>2, <3>3, PoppedStays
  <2>12. Stack'
    <3>1. frames' # <<>>
      BY <2>6, <2>10
    <3>2. CASE Len(frames') = n
      BY <2>10, <2>11, <3>1, <3>2 DEF Stack
    <3>3. CASE Len(frames') # n
      <4>1. /\ Len(frames') = n + 1 /\ frames'[n + 1] = [file |-> target, todo |-> <<>>]
            /\ status' = "read" /\ Present(target) /\ ~ OnStack(target)
        BY <2>10, <3>3
      <4>2. Frame(n + 1)'
        <5>1. IsList(<<>>)
          BY DEF IsList, ToSet
        <5>2. Present(target)'
          BY <1>1, <4>1 DEF Present
        <5>3. target # Bottom'
          <6>1. 1 \in DOMAIN frames /\ frames[1].file = Bottom
            BY <1>1, StackIs, Lists
          <6> QED BY <1>2, <4>1, <6>1 DEF OnStack
        <5>4. ~ (n + 1 < Len(frames')) /\ n + 1 # 1
          BY <2>6, <4>1
        <5>5. frames'[n + 1].file = target /\ frames'[n + 1].todo = <<>>
          BY <4>1
        <5>6. Present(frames[n + 1].file)'
          BY <5>2, <5>5
        <5> QED BY <4>1, <5>1, <5>3, <5>4, <5>5, <5>6 DEF Frame
      <4>3. \A i \in 1 .. Len(frames') : i \in 1 .. n \/ (i = n + 1 /\ ~ (i < Len(frames')))
        BY <2>6, <4>1
      <4> QED BY <2>10, <2>11, <3>1, <4>1, <4>2, <4>3 DEF Stack
    <3> QED BY <3>2, <3>3
  <2>13. LayerSays'
    <3>1. ASSUME NEW T \in SUBSET Files, Spans(T)
          PROVE  layer'.owners \subseteq OwnersOf(Due(1)) \union
                   UNION {OwnersOf(General(g)) : g \in {h \in T : Read(h)}}
      <4>1. layer.owners \subseteq OwnersOf(Due(1)) \union
                   UNION {OwnersOf(General(g)) : g \in {h \in T : Read(h)}}
        BY <1>1, <3>1 DEF LayerSays
      <4>2. d[1] = "owner" => d[2] \in OwnersOf(Due(n))
        BY <2>5 DEF OwnersOf
      <4>3. n # 1 => frames[n].file \in T /\ Due(n) = General(frames[n].file)
        <5>1. /\ Included(frames[1].file, Due(1)) \intersect Files \subseteq T
              /\ \A g \in T : Read(g) => IncludesOf(g) \intersect Files \subseteq T
          BY <1>1, <3>1, StackIs DEF Spans
        <5>2. \A j \in 1 + 1 .. Len(frames) : frames[j].file \in T
          BY <1>1, <5>1, StackIs, Climb
        <5>3. n # 1 => n \in 1 + 1 .. Len(frames)
          BY <2>1, <2>6
        <5> QED BY <5>2, <5>3 DEF Due
      <4> QED BY <2>6, <2>7, <4>1, <4>2, <4>3
    <3> QED BY <1>1, <2>6, <2>7, <2>8, <2>11, <3>1, LayerStays
  <2>14. status' = "read" => Len(frames') > 1
    BY <1>1, <2>6, <2>10
  <2> QED BY <1>2, <2>10, <2>12, <2>13, <2>14 DEF Scanned, Failures
<1> QED BY <1>3, <1>4

\* An included file that cannot be read is a reason to fail.
LEMMA ReadingFails ==
  ASSUME Typed, Scanned, status = "read", ReadError(Top.file)
  PROVE  Reason
<1>1. Results /\ Walked /\ ReadWell /\ Stack /\ Len(frames) > 1
  BY DEF Scanned
<1>2. PICK n, f : n = Len(frames) /\ f = frames[n].file
  OBVIOUS
<1>3. n \in Nat /\ n \in 2 .. n /\ n \in 1 .. n /\ Present(Bottom)
  BY <1>1, <1>2, StackIs
<1>4. Present(f)
  BY <1>1, <1>2, <1>3 DEF Stack, Frame
<1>5. f \in Below
  BY <1>1, <1>2, <1>3, StackReached
<1>6. ~ Parses(Cached(f))
  BY <1>2, <1>4 DEF ReadError, Top, Cached, Present
<1>7. ~ Sound(Bottom, ScopedText(Source, dir))
  BY <1>5, <1>6, NotSound DEF Readable
<1> QED BY <1>1, <1>3, <1>7, ReasonHere

\* An included file is read.
LEMMA ReadIncludedScans ==
  ASSUME Typed, Scanned, ReadIncluded
  PROVE  Scanned'
<1>1. /\ status = "read" /\ Results /\ Walked /\ ReadWell /\ Stack /\ LayerSays /\ Len(frames) > 1
      /\ UNCHANGED <<modules, tree, dir, walk, result>>
  BY DEF ReadIncluded, Scanned, world
<1>2. PICK n, f : n = Len(frames) /\ f = frames[n].file
  OBVIOUS
<1>3. n \in Nat /\ n > 1 /\ n \in 1 .. n /\ n # 1 /\ 1 \in 1 .. n /\ 1 < n /\ IsList(frames) /\ frames[1].file = Bottom
  BY <1>1, <1>2, StackIs
<1>4. Present(f) /\ f \in Files /\ Frame(n) /\ \A i \in 1 .. n : Frame(i) /\ (i < n => UnderWay(i))
  BY <1>1, <1>2, <1>3 DEF Stack, Frame, Present
<1>5. CASE ReadFails(f)
  <2>1. status' \in {"unreadable", "syntax"} /\ ReadError(Top.file) /\ parsed' = parsed
    BY <1>2, <1>5 DEF ReadFails, Top
  <2>2. Reason
    BY <1>1, <2>1, ReadingFails
  <2>3. Reason' /\ Results'
    BY <1>1, <2>1, <2>2, ReasonStays, KeepsWhat, ResultsStay
  <2>4. ReadWell'
    BY <1>1, <2>1 DEF ReadWell, Present
  <2> QED BY <2>1, <2>3, <2>4 DEF Scanned
<1>6. CASE ~ ReadFails(f)
  <2>1. /\ ~ ReadError(f)
        /\ parsed' = [parsed EXCEPT ![f] = Cached(f)]
        /\ frames' = [frames EXCEPT ![n].todo = Global(Cached(f))]
        /\ layer' = [layer EXCEPT !.files = @ \union {f}]
        /\ status' = "resolve"
    BY <1>2, <1>6 DEF ReadIncluded, Top
  <2>2. Keeps /\ ReadWell' /\ Read(f)' /\ Cached(f)' = Cached(f) /\ Cached(f) \in Variants[f]
    BY <1>1, <1>4, <2>1, ReadsMore
  <2>3. /\ Results' /\ Walked' /\ Source' = Source /\ Bottom' = Bottom
        /\ ScopedText(Source, dir)' = ScopedText(Source, dir)
    BY <1>1, <2>2, ResultsStay, WalkStays
  <2>4. /\ layer'.owners = layer.owners /\ layer'.stops = layer.stops
        /\ layer' = [owners |-> layer'.owners, files |-> layer'.files,
                     unresolved |-> layer'.unresolved, stops |-> layer'.stops]
    <3>1. layer' = [owners |-> layer.owners, files |-> layer.files \union {f},
                    unresolved |-> layer.unresolved, stops |-> layer.stops]
      BY <1>1, <2>1 DEF LayerSays
    <3> QED BY <3>1
  <2>5. GoesOn
    BY <2>2, <2>3, <2>4 DEF GoesOn
  <2>6. PICK todo : todo = Global(Cached(f))
    OBVIOUS
  <2>7. IsList(todo) /\ ToSet(todo) = General(f)
    <3>1. IsList(ScopedText(Source, dir))
      BY <1>1, WalkIs
    <3> QED BY <1>4, <2>2, <2>6, <3>1, LinesSay
  <2>8. /\ IsList(frames') /\ Len(frames') = n /\ frames'[n] = [file |-> f, todo |-> todo]
        /\ \A i \in 1 .. n : i # n => frames'[i] = frames[i]
    <3> DEFINE D == ToSet(frames)
    <3>1. PICK x : x = [file |-> f, todo |-> todo]
      OBVIOUS
    <3>2. [frames[n] EXCEPT !.todo = todo] = x
      BY <1>2, <1>4, <3>1 DEF Frame
    <3>3. frames' = [frames EXCEPT ![n] = x]
      BY <2>1, <2>6, <3>2
    <3>4. frames \in Seq(D) /\ Len(frames) \in Nat
      BY <1>3, Lists
    <3> HIDE DEF D
    <3>5. frames \in Seq(D \union {x})
      BY <3>4
    <3>6. frames' \in Seq(D \union {x}) /\ Len(frames') = Len(frames) /\ frames'[n] = x
          /\ \A i \in 1 .. Len(frames) : i # n => frames'[i] = frames[i]
      BY <1>2, <1>3, <3>3, <3>4, <3>5
    <3> QED BY <1>2, <3>1, <3>6, ListIs
  <2>9. Due(n)' = ToSet(todo)
    <3>1. General(f)' = General(f)
      BY <2>2 DEF General
    <3>2. frames'[n].file = f
      BY <2>8
    <3>3. Due(n)' = General(f)'
      BY <1>3, <3>2 DEF Due
    <3> QED BY <2>7, <3>1, <3>3
  <2>10. ASSUME NEW i \in 1 .. n, i # n PROVE Frame(i)' /\ UnderWay(i)' /\ Due(i)' = Due(i)
    <3>1. i < n /\ i + 1 \in 1 .. n /\ frames'[i] = frames[i]
      BY <1>3, <2>8, <2>10
    <3>2. frames'[i + 1].file = frames[i + 1].file
      BY <1>2, <2>8, <3>1
    <3>3. Due(i)' = Due(i)
      BY <1>4, <2>5, <3>1, DueStays DEF Frame, UnderWay
    <3> QED BY <1>1, <1>2, <1>4, <2>5, <2>8, <3>1, <3>2, <3>3, FrameStays
  <2>11. Frame(n)'
    <3>1. frames'[n].file = f /\ frames'[n].todo = todo
      BY <2>8
    <3>2. Present(frames[n].file)'
      BY <1>1, <1>4, <3>1 DEF Present
    <3>3. ~ (n < Len(frames'))
      BY <1>3, <2>8
    <3>4. frames'[n].file = Bottom' <=> n = 1
      BY <1>2, <1>4, <2>3, <3>1 DEF Frame
    <3> QED BY <2>7, <2>8, <3>1, <3>2, <3>3, <3>4 DEF Frame
  <2>12. UnderWay(n)'
    <3>1. frames'[n].file = f /\ frames'[n].todo = todo
      BY <2>8
    <3> QED BY <2>2, <2>9, <3>1 DEF UnderWay
  <2>13. Stack'
    <3>1. frames' # <<>>
      BY <1>3, <2>8
    <3> QED BY <2>8, <2>10, <2>11, <2>12, <3>1 DEF Stack
  <2>14. LayerSays'
    <3>1. Due(1)' = Due(1) /\ Read(Bottom)
      BY <1>3, <1>4, <2>10 DEF UnderWay
    <3>2. \A T \in SUBSET Files : Spans(T) =>
            layer'.owners \subseteq OwnersOf(Due(1)) \union
              UNION {OwnersOf(General(g)) : g \in {h \in T : Read(h)}}
      BY <1>1, <2>4 DEF LayerSays
    <3> QED BY <1>1, <2>4, <2>5, <3>1, <3>2, LayerStays
  <2> QED BY <2>1, <2>2, <2>3, <2>13, <2>14 DEF Scanned, Failures
<1> QED BY <1>5, <1>6

\* A file on top with nothing left to do is complete.
LEMMA TopComplete ==
  ASSUME ReadWell, Stack, status = "resolve", Top.todo = <<>>, NEW n, n = Len(frames)
  PROVE  /\ \A g \in Included(frames[n].file, Due(n)) : Complete(g)
         /\ OwnersOf(Due(n)) \subseteq layer.owners
         /\ n # 1 => Complete(frames[n].file)
<1>1. n \in Nat /\ n \in 1 .. n /\ ~ (n < n)
  BY StackIs
<1>2. Frame(n) /\ UnderWay(n) /\ frames[n].todo = <<>>
  BY <1>1 DEF Stack, Top
<1>3. \A x \in Due(n) : Done(n, x)
  <2>1. ToSet(<<>>) = {}
    BY DEF ToSet
  <2> QED BY <1>2, <2>1 DEF UnderWay
<1>4. PICK g : g = frames[n].file
  OBVIOUS
<1>5. \A h \in Included(g, Due(n)) : Complete(h)
  BY <1>1, <1>3, <1>4 DEF Included, Done
<1>6. OwnersOf(Due(n)) \subseteq layer.owners
  BY <1>3 DEF OwnersOf, Done
<1>7. ASSUME n # 1 PROVE Complete(g)
  <2>1. Due(n) = General(g) /\ Read(g) /\ g # Bottom
    BY <1>2, <1>4, <1>7 DEF Due, UnderWay, Frame
  <2>2. \A h \in Reach(IncludesOf(g)) : Complete(h)
    BY <1>5, <2>1, CompleteReach DEF IncludesOf
  <2>3. g \notin Reach(IncludesOf(g))
    BY <2>2 DEF Complete, Collected
  <2> QED BY <1>6, <2>1, <2>2, <2>3 DEF Complete, Collected
<1> QED BY <1>4, <1>5, <1>6, <1>7

\* An included file is done.
LEMMA ReturnScans ==
  ASSUME Typed, Scanned, Return
  PROVE  Scanned'
<1>1. /\ status = "resolve" /\ Results /\ Walked /\ ReadWell /\ Stack /\ LayerSays
      /\ Top.todo = <<>> /\ Len(frames) > 1 /\ frames' = Front(frames)
      /\ UNCHANGED <<modules, tree, parsed, dir, layer, walk, result, status>>
  BY DEF Return, Scanned, world
<1>2. /\ Keeps /\ Results' /\ ReadWell'
      /\ Walked' /\ Source' = Source /\ Bottom' = Bottom
      /\ ScopedText(Source, dir)' = ScopedText(Source, dir)
  <2>1. Keeps
    BY <1>1, KeepsWhat
  <2>2. ReadWell'
    BY <1>1 DEF ReadWell, Present
  <2> QED BY <1>1, <2>1, <2>2, ResultsStay, WalkStays
<1>3. GoesOn
  BY <1>1, <1>2 DEF GoesOn
<1>4. PICK n : n = Len(frames)
  OBVIOUS
<1>5. n \in Nat /\ n > 1 /\ n # 1 /\ IsList(frames) /\ frames # <<>> /\ frames[1].file = Bottom
  BY <1>1, <1>4, StackIs DEF Stack
<1>6. PICK m \in Nat : m = n - 1 /\ m + 1 = n /\ m >= 1 /\ m \in 1 .. m
  BY <1>5
<1>7. /\ IsList(frames') /\ Len(frames') = m /\ \A i \in 1 .. m : frames'[i] = frames[i]
  BY <1>1, <1>4, <1>5, <1>6, ListFront
<1>8. \A i \in 1 .. m : Frame(i) /\ UnderWay(i)
  BY <1>1, <1>4, <1>6 DEF Stack
<1>9. Complete(frames[n].file)
  BY <1>1, <1>4, <1>5, TopComplete
<1>10. \A i \in 1 .. m : Due(i)' = Due(i)
  <2> SUFFICES ASSUME NEW i \in 1 .. m PROVE Due(i)' = Due(i)
    OBVIOUS
  <2> QED BY <1>3, <1>7, <1>8, DueStays DEF Frame, UnderWay
<1>11. ASSUME NEW i \in 1 .. m, i # m PROVE Frame(i)' /\ UnderWay(i)'
  <2>1. i < m /\ i < n /\ i + 1 \in 1 .. m
    BY <1>6, <1>11
  <2>2. frames'[i] = frames[i] /\ frames'[i + 1].file = frames[i + 1].file
    BY <1>7, <2>1
  <2> QED BY <1>1, <1>3, <1>4, <1>7, <1>8, <2>1, <2>2, FrameStays
<1>12. Frame(m)' /\ UnderWay(m)'
  <2>1. PICK f, todo : f = frames[m].file /\ todo = frames[m].todo
    OBVIOUS
  <2>2. frames'[m].file = f /\ frames'[m].todo = todo /\ frames'[m] = frames[m] /\ ~ (m < Len(frames'))
    BY <1>6, <1>7, <2>1
  <2>3. Frame(m) /\ UnderWay(m)
    BY <1>6, <1>8
  <2>4. Present(f)' /\ Read(f)'
    BY <1>3, <2>1, <2>3, ReadStays DEF GoesOn, Frame, UnderWay
  <2>5. Frame(m)'
    <3>1. Present(frames[m].file)'
      BY <2>2, <2>4
    <3>2. frames'[m].file = Bottom' <=> m = 1
      BY <1>2, <2>1, <2>2, <2>3 DEF Frame
    <3> QED BY <2>1, <2>2, <2>3, <3>1, <3>2 DEF Frame
  <2>6. ASSUME NEW x \in Due(m), Done(m, x) PROVE Done(m, x)'
    <3>1. PICK g : g = Target(f, x[2])
      OBVIOUS
    <3>2. g = Target(frames'[m].file, x[2])
      BY <2>2, <3>1
    <3>3. Complete(g) \/ frames[n].file = g => Complete(g)
      BY <1>9
    <3>4. Complete(g) => Complete(g)'
      BY <1>1, <1>3, CompleteStays
    <3>5. x[1] = "include" /\ ~ x[2].external => Complete(g)'
      BY <1>6, <2>1, <2>6, <3>1, <3>3, <3>4 DEF Done
    <3>6. x[1] = "owner" => x[2] \in layer'.owners
      BY <1>1, <2>6 DEF Done
    <3> QED BY <3>2, <3>5, <3>6 DEF Done
  <2>7. Due(m)' = Due(m)
    BY <1>6, <1>10
  <2>8. UnderWay(m)'
    <3>1. Read(frames[m].file)'
      BY <2>2, <2>4
    <3>2. \A x \in Due(m) : x \in ToSet(todo) \/ Done(m, x)'
      BY <2>1, <2>3, <2>6 DEF UnderWay
    <3> QED BY <2>1, <2>2, <2>3, <2>7, <3>1, <3>2 DEF UnderWay
  <2> QED BY <2>5, <2>8
<1>13. Stack'
  <2>1. frames' # <<>>
    BY <1>6, <1>7
  <2> QED BY <1>7, <1>11, <1>12, <2>1 DEF Stack
<1>14. LayerSays'
  <2>1. Due(1)' = Due(1) /\ Read(Bottom)
    BY <1>5, <1>6, <1>8, <1>10 DEF UnderWay
  <2> QED BY <1>1, <1>3, <2>1, LayerStays DEF LayerSays
<1> QED BY <1>1, <1>2, <1>13, <1>14 DEF Scanned, Failures

\* The OWNERS file at the bottom is done with, and the layer has its owners.
LEMMA LayerDone ==
  ASSUME ReadWell, Stack, LayerSays, status = "resolve", Top.todo = <<>>, Len(frames) = 1
  PROVE  Settled(Source, dir) /\ layer.owners = LayerOwners(Source, dir)
<1>1. /\ Frame(1) /\ UnderWay(1) /\ frames[1].file = Bottom /\ 1 \in 1 .. Len(frames)
  BY StackIs DEF Stack
<1>2. PICK f, text : f = Bottom /\ text = ScopedText(Source, dir)
  OBVIOUS
<1>3. PICK I, R : I = Included(f, Due(1)) /\ R = Reach(I)
  OBVIOUS
<1>4. (\A g \in I : Complete(g)) /\ OwnersOf(Due(1)) \subseteq layer.owners
  BY <1>1, <1>2, <1>3, TopComplete
<1>5. \A g \in R : Complete(g)
  BY <1>3, <1>4, CompleteReach
<1>6. \A g \in R : /\ Read(g) /\ g # f /\ g \notin Reach(IncludesOf(g))
                   /\ OwnersOf(General(g)) \subseteq layer.owners
  BY <1>2, <1>5 DEF Complete, Collected
<1>7. Due(1) = Says(f, text) /\ f = OwnersIn(dir)
  BY <1>2 DEF Due, Bottom
<1>8. R \subseteq Readable(R) /\ R \subseteq Files
  BY <1>6, ReadIsReadable
<1>9. Sound(f, text)
  BY <1>3, <1>6, <1>7, <1>8 DEF Sound, IncludesOf
<1>10. Settled(Source, dir)
  BY <1>1, <1>2, <1>3, <1>6, <1>7, <1>9 DEF Settled, UnderWay
<1>11. LayerOwners(Source, dir) = OwnersOf(Due(1) \union UNION {General(g) : g \in R})
  BY <1>2, <1>3, <1>7 DEF LayerOwners, OwnersOf
<1>12. OwnersOf(Due(1) \union UNION {General(g) : g \in R}) =
         OwnersOf(Due(1)) \union UNION {OwnersOf(General(g)) : g \in R}
  BY DEF OwnersOf
<1>13. Spans(R)
  <2>1. I \subseteq R /\ \A g \in R : Read(g) => IncludesOf(g) \subseteq R
    BY <1>3, Reached
  <2> QED BY <1>2, <1>3, <2>1 DEF Spans
<1>14. layer.owners \subseteq OwnersOf(Due(1)) \union
         UNION {OwnersOf(General(g)) : g \in {h \in R : Read(h)}}
  BY <1>8, <1>13 DEF LayerSays
<1>15. layer.owners = LayerOwners(Source, dir)
  BY <1>4, <1>6, <1>11, <1>12, <1>14
<1> QED BY <1>10, <1>15

\* The layer of a directory is finished.
LEMMA EndLayerScans ==
  ASSUME Typed, Scanned, EndLayer
  PROVE  Scanned'
<1>1. /\ status = "resolve" /\ Results /\ Walked /\ ReadWell /\ Stack /\ LayerSays
      /\ Top.todo = <<>> /\ Len(frames) = 1
      /\ walk' = WithLayer /\ Leave(WithLayer, layer.stops)
      /\ UNCHANGED <<modules, tree, parsed>>
  BY DEF EndLayer, Scanned, world
<1>2. Keeps /\ ReadWell'
  <2>1. Keeps
    BY <1>1, KeepsWhat
  <2> QED BY <1>1, <2>1 DEF ReadWell, Present
<1>3. Settled(Source, dir) /\ layer.owners = LayerOwners(Source, dir) /\ Present(Bottom)
  BY <1>1, LayerDone, StackIs
<1>4. layer.stops <=> Stops(Bottom, ScopedText(Source, dir))
  BY <1>1 DEF LayerSays
<1>5. PICK s, n, before, found, stop :
        /\ s = Source /\ n = Len(dir) /\ before = walk /\ found = WithLayer
        /\ stop = Stops(Bottom, ScopedText(Source, dir))
  OBVIOUS
<1>6. Spelled(s) /\ n \in 0 .. Len(s) - 1 /\ dir = SubSeq(s, 1, n)
  BY <1>1, <1>5, WalkIs
<1>7. Over(s, n + 1, before) /\ Quiet(s, n + 1)
  BY <1>1, <1>5 DEF Walked
<1>8. PICK d : d = dir
  OBVIOUS
<1>9. /\ found.primary = IF before.primary = {} THEN LayerOwners(s, d) ELSE before.primary
      /\ found.effective = before.effective \union LayerOwners(s, d)
  BY <1>3, <1>5, <1>8 DEF WithLayer
<1>10. Over(s, n, found)
  <2>1. d = SubSeq(s, 1, n) /\ Present(OwnersIn(d)) /\ Settled(s, d)
    BY <1>3, <1>5, <1>6, <1>8 DEF Bottom
  <2> QED BY <1>6, <1>7, <1>9, <2>1, OverOneMore
<1>11. stop \in BOOLEAN /\ (layer.stops <=> stop)
  BY <1>4, <1>5 DEF Stops
<1>12. Leave(found, stop)
  <2>1. CASE stop \/ dir = <<>>
    BY <1>1, <1>5, <1>11, <2>1 DEF Leave
  <2>2. CASE ~ (stop \/ dir = <<>>)
    BY <1>1, <1>5, <1>11, <2>2 DEF Leave
  <2> QED BY <2>1, <2>2
<1>13. ASSUME ~ stop PROVE Quiet(s, n)
  <2>1. Dirs(s, n) \subseteq Dirs(s, n + 1) \union {d}
    <3>1. OneMore(s, n, SubSeq(s, 1, n))
      BY <1>6, DirsOneMore
    <3> QED BY <1>6, <1>8, <3>1 DEF OneMore
  <2>2. ~ Stops(OwnersIn(d), ScopedText(s, d))
    BY <1>5, <1>8, <1>13 DEF Bottom
  <2> QED BY <1>7, <2>1, <2>2 DEF Quiet
<1>14. Over(Source, Len(dir), found) /\ walk' = found
       /\ (stop => Present(Bottom) /\ Stops(Bottom, ScopedText(Source, dir)))
       /\ (~ stop => Quiet(Source, Len(dir)))
  BY <1>1, <1>3, <1>5, <1>10, <1>13
<1>15. Results' /\ status' \in {"look", "next"} /\ (status' = "look" => Walked')
  BY <1>1, <1>2, <1>11, <1>12, <1>14, LeaveScans
<1> QED BY <1>2, <1>15 DEF Scanned, Failures

\* A step that leaves the scan alone and moves no file leaves what was read as
\* it was read.
LEMMA WorldScans ==
  ASSUME Typed, Scanned, Keeps, status \in Failures => tree' = tree,
         UNCHANGED <<modules, parsed, dir, frames, layer, walk, result, status>>
  PROVE  Scanned'
<1>3. ReadWell /\ Results /\ ReadWell' /\ Results'
  <2>1. ReadWell /\ Results
    BY DEF Scanned
  <2>2. \A g : Present(g)' <=> Present(g)
    BY ReadStays
  <2>3. ReadWell'
    BY <2>1, <2>2 DEF ReadWell, Parses
  <2> QED BY <2>1, <2>3, ResultsStay
<1>2. status \in Failures => Reason'
  BY ReasonStays DEF Scanned
<1>4. status = "done" => Len(result') = Len(Queue')
  BY DEF Scanned, Queue
<1>5. ASSUME status \in {"look", "open", "resolve", "read"}
      PROVE  /\ Walked' /\ Source' = Source /\ Bottom' = Bottom
             /\ ScopedText(Source, dir)' = ScopedText(Source, dir)
             /\ GoesOn
  <2>1. Walked
    BY <1>5 DEF Scanned
  <2>2. /\ Walked' /\ Source' = Source /\ Bottom' = Bottom
        /\ ScopedText(Source, dir)' = ScopedText(Source, dir)
    BY <1>3, <2>1, WalkStays
  <2> QED BY <2>2 DEF GoesOn
<1>6. ASSUME status = "open" PROVE Present(Bottom)'
  <2>1. PICK g : g = Bottom
    OBVIOUS
  <2>2. Present(g) /\ Bottom' = g
    BY <1>5, <1>6, <2>1 DEF Scanned
  <2>3. Present(g)'
    BY <2>2, ReadStays
  <2> QED BY <2>2, <2>3
<1>7. ASSUME status \in {"resolve", "read"} PROVE Stack' /\ LayerSays'
  <2>1. Stack /\ LayerSays /\ GoesOn /\ Bottom' = Bottom /\ (status = "read" => Len(frames) > 1)
    BY <1>5, <1>7 DEF Scanned
  <2>2. PICK n : n = Len(frames)
    OBVIOUS
  <2>3. n \in Nat /\ n >= 1 /\ 1 \in 1 .. n /\ frames[1].file = Bottom /\ ~ (n < n)
    BY <2>1, <2>2, StackIs
  <2>4. ASSUME NEW i \in 1 .. n, i < n \/ status = "resolve"
        PROVE  Frame(i)' /\ UnderWay(i)' /\ Due(i)' = Due(i)
    <3>1. Frame(i) /\ UnderWay(i)
      BY <2>1, <2>2, <2>4 DEF Stack
    <3>2. Due(i)' = Due(i)
      BY <2>1, <3>1, DueStays DEF Frame, UnderWay
    <3>3. frames'[i] = frames[i] /\ (i < Len(frames) <=> i < Len(frames'))
          /\ (i < Len(frames) => frames'[i + 1].file = frames[i + 1].file)
      OBVIOUS
    <3> QED BY <1>3, <2>1, <3>1, <3>2, <3>3, FrameStays
  <2>5. ASSUME NEW i \in 1 .. n, ~ (i < n) PROVE Frame(i)'
    <3>1. Frame(i)
      BY <2>1, <2>2 DEF Stack
    <3>2. PICK g : g = frames[i].file
      OBVIOUS
    <3>3. Present(g)'
      BY <3>1, <3>2, ReadStays DEF Frame
    <3>4. Present(frames[i].file)'
      BY <3>2, <3>3
    <3> QED BY <2>1, <2>2, <2>5, <3>1, <3>4 DEF Frame
  <2>6. Stack'
    <3>1. IsList(frames') /\ frames' # <<>> /\ Len(frames') = n
      BY <2>1, <2>2 DEF Stack
    <3> QED BY <2>4, <2>5, <3>1 DEF Stack
  <2>7. LayerSays'
    <3>1. 1 < n \/ status = "resolve"
      BY <1>7, <2>1, <2>2, <2>3
    <3>2. Due(1)' = Due(1)
      BY <2>3, <2>4, <3>1
    <3>3. Read(Bottom)
      BY <2>1, <2>2, <2>3, <3>1 DEF Stack, UnderWay
    <3> QED BY <2>1, <3>2, <3>3, LayerStays DEF LayerSays
  <2> QED BY <2>6, <2>7
<1>8. status = "read" => Len(frames') > 1
  BY DEF Scanned
<1> QED BY <1>2, <1>3, <1>4, <1>5, <1>6, <1>7, <1>8 DEF Scanned

\* The invariant is kept by every step of the scan and of the world around it.
LEMMA ScanInvStays ==
  ASSUME ScanInv, [Next]_vars
  PROVE  ScanInv'
<1>1. Typed'
  BY TypedStays DEF ScanInv
<1>2. ASSUME ~ moved' PROVE Scanned'
  <2>1. CASE UNCHANGED vars
    <3>1. UNCHANGED <<modules, tree, moved, parsed, dir, frames, layer, walk, result, status>>
      BY <2>1 DEF vars, world, scan
    <3>2. Scanned
      BY <1>2, <3>1 DEF ScanInv
    <3>3. Typed /\ Keeps
      BY <3>1, KeepsWhat DEF ScanInv
    <3> QED BY <3>1, <3>2, <3>3, WorldScans
  <2>2. ASSUME NEW f \in Files, NEW lines \in Variants[f], Edit(f, lines) PROVE Scanned'
    <3>1. moved' = (moved \/ Absent \in {tree[f], lines})
      BY <2>2 DEF Edit
    <3>2. moved \in BOOLEAN
      BY DEF ScanInv, Typed
    <3>3. ~ moved /\ Absent \notin {tree[f], lines}
      BY <1>2, <3>1, <3>2
    <3>4. Typed /\ Scanned
      BY <3>3 DEF ScanInv
    <3>5. /\ UNCHANGED <<modules, parsed, dir, frames, layer, walk, result, status>>
          /\ tree' = [tree EXCEPT ![f] = lines] /\ status \notin Failures
      BY <2>2 DEF Edit, scan, Ended
    <3>6. Keeps
      BY <3>3, <3>4, <3>5 DEF Keeps, Typed
    <3> QED BY <3>4, <3>5, <3>6, WorldScans
  <2>3. CASE Step
    <3>1. moved' = moved
      BY <2>3 DEF Step, NextSource, Look, Open, Directive, ReadIncluded, Return, EndLayer, world
    <3>2. Typed /\ Scanned
      BY <1>2, <3>1 DEF ScanInv
    <3> QED BY <2>3, <3>2, NextSourceScans, LookScans, OpenScans, DirectiveScans,
               ReadIncludedScans, ReturnScans, EndLayerScans DEF Step
  <2> QED BY <2>1, <2>2, <2>3 DEF Next
<1> QED BY <1>1, <1>2 DEF ScanInv

\* Nothing is read or finished when the scan begins.
LEMMA ScanInvInit ==
  ASSUME Init
  PROVE  ScanInv
<1>1. /\ modules \in Manifests /\ moved = FALSE /\ result = <<>> /\ status = "next"
      /\ parsed = [f \in Files |-> Absent]
      /\ tree \in [Files -> UNION {Variants[f] : f \in Files}]
      /\ \A f \in Files : tree[f] \in Variants[f]
  BY DEF Init
<1>2. IsList(result) /\ DOMAIN result = {}
  BY <1>1 DEF IsList, ToSet
<1>3. DOMAIN tree = Files /\ DOMAIN parsed = Files /\ \A f \in Files : parsed[f] = Absent
  BY <1>1
<1>4. Typed
  BY <1>1, <1>2, <1>3 DEF Typed
<1>5. Results
  <2>1. Len(Queue) \in Nat
    BY <1>1, QueueIs, Lists
  <2> QED BY <1>1, <1>2, <2>1 DEF Results
<1>6. Scanned
  BY <1>1, <1>3, <1>5 DEF Scanned, ReadWell, Failures
<1> QED BY <1>4, <1>6 DEF ScanInv

\* What the scan found is what the files mean.
LEMMA ScanInvMeans ==
  ASSUME ScanInv
  PROVE  OwnersAsMeant
<1> SUFFICES ASSUME ~ moved, NEW k \in DOMAIN result, NEW source, source = NormalSource(Queue[k])
             PROVE  /\ result[k].effective = Effective(source)
                    /\ result[k].primary = Primary(source)
  BY DEF OwnersAsMeant
<1>1. Typed /\ Results
  BY DEF ScanInv, Scanned
<1>2. k \in 1 .. Len(Queue)
  BY <1>1, SourceIs DEF Results
<1>3. Spelled(source) /\ Finished(source, result[k])
  BY <1>1, <1>2, SourceIs DEF Results
<1> QED BY <1>3, FinishedIsMeant

\* The scan failed for a reason, or there was none.
LEMMA ScanInvRefuses ==
  ASSUME ScanInv
  PROVE  RefusedForAReason
<1> DEFINE Wrong(source) ==
             \/ source = <<>>
             \/ \E d \in Counting(source) :
                  \/ ~ Parses(Cached(OwnersIn(d)))
                  \/ ~ Sound(OwnersIn(d), ScopedText(source, d))
<1> SUFFICES ASSUME ~ moved, Ended
             PROVE  status # "done" <=> \E source \in Sources : Wrong(source)
  BY DEF RefusedForAReason
<1>1. Typed /\ Scanned /\ ReadWell /\ Results
  BY DEF ScanInv, Scanned
<1>2. CASE status # "done"
  <2>1. Reason
    BY <1>1, <1>2 DEF Scanned, Ended
  <2>2. PICK names \in ToSet(Queue) : Wrong(NormalSource(names))
    BY <2>1 DEF Reason
  <2>3. NormalSource(names) \in Sources
    BY DEF Sources
  <2> HIDE DEF Wrong
  <2> QED BY <1>2, <2>2, <2>3
<1>3. CASE status = "done"
  <2> SUFFICES ASSUME NEW names \in ToSet(Queue), Wrong(NormalSource(names)) PROVE FALSE
    <3> HIDE DEF Wrong
    <3> QED BY <1>3 DEF Sources
  <2>1. PICK k \in 1 .. Len(Queue) : names = Queue[k]
    BY <1>1, SourceIs
  <2>2. PICK source : source = NormalSource(names)
    OBVIOUS
  <2>3. k \in DOMAIN result
    BY <1>1, <1>3, SourceIs DEF Scanned
  <2>4. Spelled(source) /\ Finished(source, result[k])
    BY <1>1, <2>1, <2>2, <2>3, SourceIs DEF Results
  <2>5. source # <<>> /\ \A d \in Counting(source) : Settled(source, d)
    BY <2>4, FinishedIsMeant
  <2>6. \A d \in Counting(source) :
          Parses(Cached(OwnersIn(d))) /\ Sound(OwnersIn(d), ScopedText(source, d))
    BY <1>1, <2>5 DEF Settled, Read, ReadWell, Cached
  <2> QED BY <2>2, <2>5, <2>6
<1> QED BY <1>2, <1>3

\* The invariant holds all along.
THEOREM ScanIsAsRead == CandidatesSpec => []ScanInv
<1>1. CandidatesInit => ScanInv
  BY ScanInvInit DEF CandidatesInit
<1>2. ScanInv /\ [CandidatesNext]_<<vars, ranked>> => ScanInv'
  <2>1. [CandidatesNext]_<<vars, ranked>> => [Next]_vars
    BY DEF CandidatesNext, Rank
  <2> QED BY <2>1, ScanInvStays
<1> QED BY <1>1, <1>2, PTL DEF CandidatesSpec

\* However OWNERS files include each other and are edited, the owners that are
\* found are those that the files mean as they were read (resolve_source,
\* evaluate_owner_file, resolve_directives, glob_matches).
THEOREM OwnersAreAsMeant == CandidatesSpec => []OwnersAsMeant
<1>1. ScanInv => OwnersAsMeant
  BY ScanInvMeans
<1> QED BY <1>1, ScanIsAsRead, PTL

\* A scan fails exactly for a source that leads out, a file that cannot be read,
\* an include of what does not exist, or a circle of includes
\* (resolve_include, resolve_directives).
THEOREM ScanRefusesForAReason == CandidatesSpec => []RefusedForAReason
<1>1. ScanInv => RefusedForAReason
  BY ScanInvRefuses
<1> QED BY <1>1, ScanIsAsRead, PTL
=============================================================================
