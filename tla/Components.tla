----------------------------- MODULE Components -----------------------------
(***************************************************************************)
(* rank-components of chromifer-components: the modules of a manifest are  *)
(* put together into components by who owns them and where they lie, the   *)
(* dependencies between components are contracted, and every component     *)
(* that is not all Rust is given its concerns, a risk and a rank.          *)
(*                                                                         *)
(* A string that becomes part of an identifier is represented by the words *)
(* sanitize_id finds in it (Words).  Two strings with one 32-bit hash are  *)
(* left out, as are the counts of evidence, which decide nothing.          *)
(***************************************************************************)
EXTENDS Integers, Sequences, FiniteSets, FiniteSetsExt, SequencesExt

CONSTANTS
  Modules,       \* the modules of the manifest
  Deps,          \* its dependencies, pairs <<dependent, dependency>>
  Required,      \* its required targets
  GateTargets,   \* GateTargets[g]: the targets a gate is for
  Words,         \* Words[n]: the words of a path segment or an owner
  Blink,         \* the path segments that begin with blink
  Depth          \* --path-depth

VARIABLES
  manifest,    \* path, label, owner, state, sources, gates and the number of
               \* open reviews of modules, boundary and open of dependencies
  ownership,   \* module -> its primary owners and its unresolved includes
  coverage     \* sources -> lines of a coverage report, or NoReport

NoReport == <<>>

-----------------------------------------------------------------------------
\* Groups.

\* module_owner_key.
OwnerKey(m) ==
  IF ownership[m].primary # {} THEN ownership[m].primary ELSE {manifest.owner[m]}

UsablePath(m) ==
  IF manifest.path[m] # <<>> THEN manifest.path[m]
  ELSE IF manifest.label[m] # <<>> THEN manifest.label[m]
  ELSE <<m>>

ComponentPath(m) ==
  SubSeq(UsablePath(m), 1, Min({Depth, Len(UsablePath(m))}))

\* build_groups.
GroupOf(m) == [owner |-> OwnerKey(m), path |-> ComponentPath(m)]

Groups == {GroupOf(m) : m \in Modules}

-----------------------------------------------------------------------------
\* Identifiers: words, and a hash where these are taken.

PathWords(g) == FlattenSeq([i \in DOMAIN g.path |-> Words[g.path[i]]])

OwnerWords(g) ==
  FoldSet(LAMBDA o, words : words \o Words[o], <<>>, g.owner)

\* Slip: two owners of one path are told apart, two spellings are not.
IdsOf_NoHash(groups) ==
  FoldLeft(LAMBDA ids, g :
    LET same  == {h \in ToSet(groups) : PathWords(h) = PathWords(g)}
        words == IF same = {g} THEN PathWords(g) ELSE OwnerWords(g) \o PathWords(g)
    IN  Append(ids, <<words, {}>>),
    <<>>, groups)

\* assign_component_ids, for the groups in their order.
IdsOf(groups) ==
  FoldLeft(LAMBDA ids, g :
    LET same  == {h \in ToSet(groups) : PathWords(h) = PathWords(g)}
        words == IF same = {g} THEN PathWords(g) ELSE OwnerWords(g) \o PathWords(g)
    IN  Append(ids, <<words, IF <<words, {}>> \in ToSet(ids) THEN {g} ELSE {}>>),
    <<>>, groups)

\* map_modules_to_components.
ComponentOf ==
  LET order == SetToSeq(Groups)
      ids   == IdsOf(order)
  IN  [m \in Modules |->
         ids[CHOOSE i \in DOMAIN order : order[i] = GroupOf(m)]]

-----------------------------------------------------------------------------
\* Edges and metrics.  In what follows of is ComponentOf and c one of its
\* values.

Unaudited == {"unclassified", "cpp_internal"}
Audited   == {"cxx", "c_abi", "mojo"}

Members(of, c) == {m \in Modules : of[m] = c}

\* build_component_edges: the dependencies that lead from one component into
\* another, in either direction as seen from c.
Crossing(of, c) ==
  {d \in Deps : of[d[1]] # of[d[2]] /\ c \in {of[d[1]], of[d[2]]}}

Inner(of, c) == {d \in Deps : of[d[1]] = c /\ of[d[2]] = c}

\* apply_incident_edge counts a boundary once per edge of components.
BoundaryKinds(of, c, kinds) ==
  Cardinality({<<of[d[1]], of[d[2]], manifest.boundary[d]>> :
    d \in {x \in Crossing(of, c) : manifest.boundary[x] \in kinds}})

\* The open reviews of c's modules, inside of it and on its border.
OpenReviews(of, c) ==
  MapThenSumSet(LAMBDA m : manifest.reviews[m], Members(of, c))
  + MapThenSumSet(LAMBDA d : manifest.open[d],
                  Inner(of, c) \union Crossing(of, c))

Neighbours(of, c) ==
  Cardinality({of[d[1]] : d \in {x \in Crossing(of, c) : of[x[2]] = c}})
  + Cardinality({of[d[2]] : d \in {x \in Crossing(of, c) : of[x[1]] = c}})

StatesOf(of, c) == {manifest.state[m] : m \in Members(of, c)}
SourcesOf(of, c) == UNION {manifest.sources[m] : m \in Members(of, c)}
GatesOf(of, c) == UNION {manifest.gates[m] : m \in Members(of, c)}

Mixed(of, c) == Cardinality(StatesOf(of, c)) > 1

\* Slip: the gates of a component are put together.
CoveredPairs_Together(of, c) ==
  {p \in Members(of, c) \X Required :
     \E g \in GatesOf(of, c) : p[2] \in GateTargets[g]}

\* test_coverage_proxy.
CoveredPairs(of, c) ==
  {p \in Members(of, c) \X Required :
     \E g \in manifest.gates[p[1]] : p[2] \in GateTargets[g]}

TotalPairs(of, c) == Cardinality(Members(of, c) \X Required)

-----------------------------------------------------------------------------
\* Measured coverage.

\* ratio_basis_points.
RatioBasisPoints(numerator, denominator) ==
  IF denominator = 0 THEN 10000 ELSE Min({10000, (numerator * 10000) \div denominator})

Measured(S) == {s \in S : s \in DOMAIN coverage}
Lines(S) == MapThenSumSet(LAMBDA s : coverage[s].count, Measured(S))
CoveredLines(S) == MapThenSumSet(LAMBDA s : coverage[s].covered, Measured(S))

\* measured_source_coverage.
EffectiveBasisPoints(S) ==
  Min({RatioBasisPoints(Cardinality(Measured(S)), Cardinality(S)),
       RatioBasisPoints(CoveredLines(S), Lines(S))})

\* Slip: the penalty is rounded down.
DivCeil_Floor(a, b) == a \div b

DivCeil(a, b) == (a + b - 1) \div b

\* coverage_risk_penalties; measured coverage takes the proxy's place.
CoveragePenalty(of, c) ==
  IF coverage # NoReport
    THEN DivCeil((10000 - EffectiveBasisPoints(SourcesOf(of, c))) * 25, 10000)
  ELSE IF TotalPairs(of, c) = 0 THEN 0
  ELSE DivCeil((TotalPairs(of, c) - Cardinality(CoveredPairs(of, c))) * 25,
               TotalPairs(of, c))

-----------------------------------------------------------------------------
\* Concerns, risk and rank.

PathOf(of, c) == (CHOOSE g \in Groups : \E m \in Members(of, c) : GroupOf(m) = g).path

\* migration_scope.
Scope(path) ==
  CASE path[1] = "services" /\ Len(path) > 1                -> "browser_service"
    [] path[1] \in {"base", "components", "net", "ui"}      -> "infrastructure"
    [] path[1] \in {"chrome", "content"}                    -> "kernel"
    [] \/ path[1] \in {"v8", "skia", "gpu", "media"}
       \/ Len(path) > 1 /\ path[1] = "third_party" /\ path[2] \in Blink -> "deferred"
    [] OTHER                                                -> "other"

\* summarize_component: what keeps a component from being ready.
Concerns(of, c) ==
  {k \in {"sources", "gates", "targets", "coverage", "mixed", "scope",
          "reviews", "includes", "edges"} :
    CASE k = "sources"  -> SourcesOf(of, c) = {}
      [] k = "gates"    -> GatesOf(of, c) = {}
      [] k = "targets"  -> Cardinality(CoveredPairs(of, c)) < TotalPairs(of, c)
      [] k = "coverage" -> coverage # NoReport
                           /\ Measured(SourcesOf(of, c)) # SourcesOf(of, c)
      [] k = "mixed"    -> Mixed(of, c)
      [] k = "scope"    -> Scope(PathOf(of, c)) = "deferred"
      [] k = "reviews"  -> OpenReviews(of, c) > 0
      [] k = "includes" -> \E m \in Members(of, c) : ownership[m].unresolved # {}
      [] k = "edges"    -> BoundaryKinds(of, c, Unaudited) > 0}

Eligible(of, c) == Concerns(of, c) = {}

ScopePenalty(scope) ==
  CASE scope = "browser_service" -> 0
    [] scope = "infrastructure"  -> 5
    [] scope = "kernel"          -> 15
    [] scope = "deferred"        -> 40
    [] OTHER                     -> 10

\* calculate_risk.
Risk(of, c) ==
  LET modules    == Min({20, 2 * (Cardinality(Members(of, c)) - 1)})
      sources    == Min({15, DivCeil(Cardinality(SourcesOf(of, c)), 10)})
      topology   == Min({20, Neighbours(of, c)})
      boundaries == Min({40, 8 * BoundaryKinds(of, c, Unaudited)
                             + 2 * BoundaryKinds(of, c, Audited)
                             + BoundaryKinds(of, c, {"rust"})})
      reviews    == Min({40, 10 * OpenReviews(of, c)})
      mixed      == IF Mixed(of, c) THEN 20 ELSE 0
      gates      == IF GatesOf(of, c) = {} THEN 15 ELSE 0
  IN  Min({100, modules + sources + topology + boundaries + reviews + mixed
                + gates + ScopePenalty(Scope(PathOf(of, c))) + CoveragePenalty(of, c)})

Readiness(of, c) == 100 - Risk(of, c)

\* The components that are ranked.
Candidates(of) ==
  {c \in {of[m] : m \in Modules} : StatesOf(of, c) # {"rust_owned"}}

\* The order of the ranking, before the tie is broken by the identifier.
Before(of, c, d) ==
  \/ Eligible(of, c) /\ ~ Eligible(of, d)
  \/ /\ Eligible(of, c) <=> Eligible(of, d)
     /\ \/ Readiness(of, c) > Readiness(of, d)
        \/ /\ Readiness(of, c) = Readiness(of, d)
           /\ Cardinality(SourcesOf(of, c)) < Cardinality(SourcesOf(of, d))
=============================================================================
