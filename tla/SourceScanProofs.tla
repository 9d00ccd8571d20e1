-------------------------- MODULE SourceScanProofs --------------------------
(***************************************************************************)
(* The scanner's pool, its merge and the C symbols it finds, for every     *)
(* manifest, every pool of workers and every content of the sources.       *)
(***************************************************************************)
EXTENDS SourceScan, Folding

Pool == ToSet(Workers)
Paths == DOMAIN Variants
Statuses == {"none", "free", "busy", "error", "done"}
Kinds == {"cxx", "c_abi", "mojo"}

\* The paths of a module's sources, and whether one of them cannot be read.
Sourced(m) == ToSet(ModuleSources[m])
Unreadable(m) == \E p \in Sourced(m) : tree[p] = Locked

\* What reading the modules of S, each of them once, leaves in a collection.
Present(S) == {r \in S \X DOMAIN tree : r[2] \in Files(r[1])}
Gone(S) == {r \in S \X DOMAIN tree : r[2] \in Sourced(r[1]) /\ tree[r[2]] = Missing}
Scanned(S) == [has |-> S, missing |-> Gone(S), files |-> Cardinality(Present(S))]

Holds(w) == worker[w].status \in {"busy", "error"}

\* The modules a worker has read, and the one it is at.
Hands(w) ==
  worker[w].got.has \union (IF Holds(w) THEN {Manifest[worker[w].at]} ELSE {})

Pooled == phase \in {"scan", "relate"}

-----------------------------------------------------------------------------
\* The invariant.

Collections == [has : SUBSET Modules, missing : SUBSET (Modules \X Paths), files : Nat]

Types ==
  /\ tree \in [Paths -> UNION {Variants[p] : p \in Paths}]
  /\ boundary \in [Deps -> {"cpp_internal"} \union Kinds]
  /\ reviews \in [Findings -> {"absent", "open", "resolved"}]
  /\ next \in Nat \ {0}
  /\ worker \in [Pool -> [at : Nat, got : Collections, status : Statuses]]
  /\ joined \in 0 .. Len(Workers)
  /\ total \in Collections
  /\ phase \in {"idle", "scan", "relate", "merge", "failed"}
  /\ found \in [evidence : [Deps -> SUBSET Kinds], seen : SUBSET Findings]
  /\ fresh \in BOOLEAN

\* A finished pool is a joined pool, and no thread outlives it.
Phases ==
  /\ phase = "scan" => joined < Len(Workers)
  /\ phase = "relate" => joined = Len(Workers)
  /\ phase # "scan" => \A w \in Pool : worker[w].status # "busy"

\* The modules handed out are those below the counter, and each is with a worker.
Taken ==
  Pooled =>
    /\ \A w \in Pool : Holds(w) => worker[w].at \in DOMAIN Manifest
    /\ \A i \in DOMAIN Manifest : i < next <=> \E w \in Pool : Manifest[i] \in Hands(w)

\* No module is with two workers, or read twice by one.
Separate ==
  Pooled =>
    /\ \A v, w \in Pool : v # w => Hands(v) \intersect Hands(w) = {}
    /\ \A w \in Pool : Holds(w) => Manifest[worker[w].at] \notin worker[w].got.has

\* A worker has what reading its modules leaves, and stops for a reason.
ReadSoFar ==
  Pooled =>
    \A w \in Pool :
      /\ \A S \in SUBSET Modules : worker[w].got.has = S => worker[w].got = Scanned(S)
      /\ \A m \in worker[w].got.has : ~ Unreadable(m)
      /\ \A m \in Modules :
           worker[w].status = "error" /\ Manifest[worker[w].at] = m => Unreadable(m)
      /\ worker[w].status = "done" => next > Len(Manifest)

\* The joined workers ended well, and the total is what they read together.
JoinedSoFar ==
  Pooled =>
    /\ \A j \in 1 .. joined : worker[Workers[j]].status = "done"
    /\ \A m \in Modules :
         m \in total.has <=> \E j \in 1 .. joined : m \in worker[Workers[j]].got.has
    /\ \A S \in SUBSET Modules : total.has = S => total = Scanned(S)

FailedFor == phase = "failed" => \E m \in Modules : Unreadable(m)

-----------------------------------------------------------------------------
\* Sequences and collections.

LEMMA SequenceSetIsFinite ==
  ASSUME NEW S, NEW s \in Seq(S)
  PROVE  IsFiniteSet(ToSet(s))
<1>1. s \in Surjection(1 .. Len(s), ToSet(s))
  BY DEF Surjection, ToSet
<1>2. IsFiniteSet(1 .. Len(s))
  BY FS_Interval
<1>3. QED
  BY <1>1, <1>2, FS_Surjection

LEMMA PoolFacts ==
  /\ Manifest \in Seq(Modules) /\ DOMAIN Manifest = 1 .. Len(Manifest)
  /\ Len(Manifest) \in Nat
  /\ \A i \in DOMAIN Manifest : Manifest[i] \in Modules
  /\ \A m \in Modules : \E i \in DOMAIN Manifest : m = Manifest[i]
  /\ DOMAIN Workers = 1 .. Len(Workers) /\ Len(Workers) \in Nat \ {0}
  /\ \A j \in 1 .. Len(Workers) : Workers[j] \in Pool
  /\ \A w \in Pool : \E j \in 1 .. Len(Workers) : w = Workers[j]
  /\ \A m \in Modules : Sourced(m) \subseteq Paths
<1>1. \A m \in Modules : Sourced(m) \subseteq Paths
  BY SourceScanAssumption DEF Sourced, ToSet, Paths
<1>2. DOMAIN Workers = 1 .. Len(Workers) /\ Len(Workers) \in Nat \ {0}
  BY SourceScanAssumption
<1>3. QED
  BY <1>1, <1>2, SourceScanAssumption DEF Pool, Modules, ToSet

\* However many files are on the disk, a manifest names finitely many.
LEMMA PresentIsFinite ==
  ASSUME NEW S \in SUBSET Modules
  PROVE  IsFiniteSet(Present(S))
<1> DEFINE box == [m \in Modules |-> {m} \X Sourced(m)]
           boxes == {box[m] : m \in Modules}
<1>1. IsFiniteSet(Modules)
  BY SequenceSetIsFinite, SourceScanAssumption DEF Modules
<1>2. box \in Surjection(Modules, boxes)
  BY DEF Surjection
<1>3. IsFiniteSet(boxes)
  BY <1>1, <1>2, FS_Surjection
<1>4. ASSUME NEW b \in boxes PROVE IsFiniteSet(b)
  <2>1. PICK m \in Modules : b = {m} \X Sourced(m)
    OBVIOUS
  <2>2. IsFiniteSet({m}) /\ IsFiniteSet(Sourced(m))
    BY FS_Singleton, SequenceSetIsFinite, SourceScanAssumption DEF Sourced
  <2>3. QED
    BY <2>1, <2>2, FS_Product
<1>5. IsFiniteSet(UNION boxes)
  BY <1>3, <1>4, FS_UNION
<1>6. Present(S) \in SUBSET UNION boxes
  <2>1. SUFFICES ASSUME NEW r \in Present(S) PROVE r \in UNION boxes
    OBVIOUS
  <2>2. r \in S \X DOMAIN tree /\ r[2] \in Sourced(r[1])
    BY DEF Present, Files, Sourced
  <2>3. r \in {r[1]} \X Sourced(r[1]) /\ r[1] \in Modules
    BY <2>2
  <2>4. QED
    BY <2>3
<1>7. QED
  BY <1>5, <1>6, FS_Subset

LEMMA ScannedNothing == Scanned({}) = Nothing
<1>1. Present({}) = {} /\ Gone({}) = {}
  BY DEF Present, Gone
<1>2. QED
  BY <1>1, FS_EmptySet DEF Scanned, Nothing

\* Collections of different modules add up.
LEMMA ScannedUnion ==
  ASSUME NEW S \in SUBSET Modules, NEW T \in SUBSET Modules, S \intersect T = {}
  PROVE  Scanned(S \union T) =
           [has     |-> S \union T,
            missing |-> Gone(S) \union Gone(T),
            files   |-> Cardinality(Present(S)) + Cardinality(Present(T))]
<1>1. Present(S \union T) = Present(S) \union Present(T)
  BY DEF Present
<1>2. Present(S) \intersect Present(T) = {}
  BY DEF Present
<1>3. Gone(S \union T) = Gone(S) \union Gone(T)
  BY DEF Gone
<1>4. IsFiniteSet(Present(S)) /\ IsFiniteSet(Present(T))
  BY PresentIsFinite
<1>5. Cardinality(Present(S)) \in Nat /\ Cardinality(Present(T)) \in Nat
  BY <1>4, FS_CardinalityType
<1>6. Cardinality(Present(S) \union Present(T)) =
        Cardinality(Present(S)) + Cardinality(Present(T))
  <2>1. Cardinality(Present(S) \intersect Present(T)) = 0
    BY <1>2, FS_EmptySet
  <2>2. Cardinality(Present(S) \union Present(T)) =
          Cardinality(Present(S)) + Cardinality(Present(T))
            - Cardinality(Present(S) \intersect Present(T))
    BY <1>4, FS_Union
  <2>3. QED
    BY <1>5, <2>1, <2>2
<1>7. QED
  BY <1>1, <1>3, <1>6 DEF Scanned

\* One module more.
LEMMA ScannedOne ==
  ASSUME DOMAIN tree = Paths, NEW m \in Modules
  PROVE  /\ Gone({m}) = {m} \X {p \in Sourced(m) : tree[p] = Missing}
         /\ Cardinality(Present({m})) = Cardinality(Files(m))
<1>1. Sourced(m) \subseteq DOMAIN tree
  BY PoolFacts
<1>2. Gone({m}) = {m} \X {p \in Sourced(m) : tree[p] = Missing}
  BY <1>1 DEF Gone
<1>3. Files(m) \subseteq Sourced(m) /\ IsFiniteSet(Sourced(m))
  BY SequenceSetIsFinite, SourceScanAssumption DEF Files, Sourced
<1>4. Present({m}) = {m} \X Files(m)
  BY <1>1, <1>3 DEF Present
<1>5. IsFiniteSet(Files(m)) /\ IsFiniteSet({m}) /\ Cardinality({m}) = 1
  BY <1>3, FS_Subset, FS_Singleton
<1>6. Cardinality(Files(m)) \in Nat
  BY <1>5, FS_CardinalityType
<1>7. Cardinality({m} \X Files(m)) = Cardinality({m}) * Cardinality(Files(m))
  BY <1>5, FS_Product
<1>8. Cardinality({m} \X Files(m)) = Cardinality(Files(m))
  BY <1>5, <1>6, <1>7
<1>9. QED
  BY <1>2, <1>4, <1>8

-----------------------------------------------------------------------------
\* The actions.

\* While the sources stay, so does what reading them leaves.
LEMMA SourcesStay ==
  ASSUME tree' = tree
  PROVE  /\ \A m : Files(m)' = Files(m) /\ (Unreadable(m)' <=> Unreadable(m))
         /\ \A S : Scanned(S)' = Scanned(S)
<1>1. \A m : Files(m)' = Files(m) /\ (Unreadable(m)' <=> Unreadable(m))
  BY DEF Files, Unreadable
<1>2. \A S : Present(S)' = Present(S) /\ Gone(S)' = Gone(S)
  BY <1>1 DEF Present, Gone
<1>3. QED
  BY <1>1, <1>2 DEF Scanned

\* Only an edit, between scans, changes the sources.
LEMMA PooledStays ==
  ASSUME [Next]_vars, Pooled
  PROVE  tree' = tree
BY DEF Next, Threads, Begin, Take, ScanModule, Join, Relate, Merge, Fail, Edit, Resolve,
       Pooled, vars, pool, manifest

\* A worker that takes a module has it in its hands; the others do nothing.
LEMMA TakeHands ==
  ASSUME Types, NEW w \in Pool, Take(w)
  PROVE  /\ \A v \in Pool : v # w => worker'[v] = worker[v] /\ Hands(v)' = Hands(v)
         /\ worker'[w].got = worker[w].got /\ worker'[w].at = next
         /\ ~ Holds(w) /\ Hands(w) = worker[w].got.has
         /\ next > Len(Manifest) =>
              worker'[w].status = "done" /\ ~ Holds(w)' /\ Hands(w)' = Hands(w)
         /\ next <= Len(Manifest) =>
              /\ worker'[w].status = "busy" /\ Holds(w)'
              /\ Hands(w)' = Hands(w) \union {Manifest[next]}
<1>1. \A v \in Pool : v # w => worker'[v] = worker[v]
  BY DEF Take, Types
<1>2. \A v \in Pool : v # w => Hands(v)' = Hands(v)
  BY <1>1 DEF Hands, Holds
<1>3. /\ worker'[w].got = worker[w].got /\ worker'[w].at = next
      /\ worker'[w].status = IF next > Len(Manifest) THEN "done" ELSE "busy"
  BY DEF Take, Types
<1>4. ~ Holds(w) /\ Hands(w) = worker[w].got.has
  BY DEF Take, Hands, Holds
<1>5. next \in Nat /\ Len(Manifest) \in Nat
  BY PoolFacts DEF Types
<1>6. CASE next > Len(Manifest)
  BY <1>1, <1>2, <1>3, <1>4, <1>5, <1>6 DEF Hands, Holds
<1>7. CASE ~ (next > Len(Manifest))
  BY <1>1, <1>2, <1>3, <1>4, <1>5, <1>7 DEF Hands, Holds
<1>8. QED
  BY <1>6, <1>7

\* A worker that has read a module, or failed to, keeps what it has in its hands.
LEMMA ScanHands ==
  ASSUME Types, NEW w \in Pool, ScanModule(w)
  PROVE  /\ \A v \in Pool : v # w => worker'[v] = worker[v]
         /\ \A v \in Pool : Hands(v)' = Hands(v)
         /\ worker'[w].at = worker[w].at
         /\ \/ /\ worker'[w].status = "error" /\ worker'[w].got = worker[w].got
               /\ Unreadable(Manifest[worker[w].at])
            \/ /\ worker'[w].status = "free"
               /\ worker'[w].got.has = worker[w].got.has \union {Manifest[worker[w].at]}
               /\ ~ Unreadable(Manifest[worker[w].at])
<1> DEFINE m == Manifest[worker[w].at]
<1>1. \A v \in Pool : v # w => worker'[v] = worker[v]
  BY DEF ScanModule, Types
<1>2. worker'[w].at = worker[w].at
  BY DEF ScanModule, Types
<1>3. \/ /\ worker'[w].status = "error" /\ worker'[w].got = worker[w].got
         /\ Unreadable(m)
      \/ /\ worker'[w].status = "free"
         /\ worker'[w].got.has = worker[w].got.has \union {m}
         /\ ~ Unreadable(m)
  BY DEF ScanModule, Types, Unreadable, Sourced
<1>4. worker[w].status = "busy" /\ Hands(w) = worker[w].got.has \union {m}
  BY DEF ScanModule, Hands, Holds
<1>5. Hands(w)' = Hands(w)
  BY <1>2, <1>3, <1>4 DEF Hands, Holds
<1>6. \A v \in Pool : v # w => Hands(v)' = Hands(v)
  BY <1>1 DEF Hands, Holds
<1>7. QED
  BY <1>1, <1>2, <1>3, <1>5, <1>6

\* A scan begins with nothing in anybody's hands.
LEMMA BeginHands ==
  ASSUME Begin
  PROVE  \A w \in Pool : /\ worker'[w].got = Nothing /\ worker'[w].status = "free"
                         /\ ~ Holds(w)' /\ Hands(w)' = {}
<1>1. \A w \in Pool : worker'[w] = [at |-> 0, got |-> Nothing, status |-> "free"]
  BY DEF Begin, Idle, Pool
<1>2. QED
  BY <1>1 DEF Hands, Holds, Nothing

-----------------------------------------------------------------------------
\* What a scan finds, and the merge.

\* Evidence is of the kinds a scanner can tell, findings are those it can name.
LEMMA FindsTypes ==
  ASSUME NEW S
  PROVE  Evidence(S) \in [Deps -> SUBSET Kinds] /\ Seen(S) \in SUBSET Findings
<1>1. \A m, lines, d : IncludeEvidence(m, lines, d) \subseteq Kinds
  BY DEF IncludeEvidence, Kinds
<1>2. \A m, d : CAbiEvidence(m, d) \subseteq Kinds
  BY DEF CAbiEvidence, Kinds
<1>3. ASSUME NEW e \in Deps PROVE Evidence(S)[e] \subseteq Kinds
  <2>1. SUFFICES ASSUME NEW k \in Evidence(S)[e] PROVE k \in Kinds
    OBVIOUS
  <2>2. \/ \E p \in Files(e[1]) : k \in IncludeEvidence(e[1], tree[p].lines, e[2])
        \/ k \in CAbiEvidence(e[1], e[2])
    BY DEF Evidence
  <2>3. QED
    BY <1>1, <1>2, <2>2
<1>4. Evidence(S) = [e \in Deps |-> Evidence(S)[e]] /\ Seen(S) \in SUBSET Findings
  BY DEF Evidence, Seen
<1>5. QED
  BY <1>3, <1>4

\* A label that evidence has replaced is audited: the same evidence leaves it.
LEMMA RelabelledOnce ==
  ASSUME NEW c, NEW d \in SUBSET Kinds
  PROVE  /\ Relabelled(c, d) \in {c} \union Kinds
         /\ Relabelled(Relabelled(c, d), d) = Relabelled(c, d)
<1>1. CASE Cardinality(d) = 1 /\ c \in Unaudited
  <2>1. d # {}
    BY <1>1, FS_EmptySet
  <2>2. (CHOOSE b \in d : TRUE) \in d
    BY <2>1
  <2>3. Relabelled(c, d) \in d /\ Kinds \intersect Unaudited = {}
    BY <1>1, <2>2 DEF Relabelled, Kinds, Unaudited
  <2>4. QED
    BY <2>3 DEF Relabelled
<1>2. CASE ~ (Cardinality(d) = 1 /\ c \in Unaudited)
  BY <1>2 DEF Relabelled
<1>3. QED
  BY <1>1, <1>2

-----------------------------------------------------------------------------
\* Each action keeps the invariant.

\* Reading a module adds a collection to a collection.
LEMMA ScannedTypes ==
  ASSUME Types, NEW w \in Pool, ScanModule(w), worker[w].at \in DOMAIN Manifest
  PROVE  worker'[w].got \in Collections
<1> DEFINE m == Manifest[worker[w].at]
           gone == {p \in Sourced(m) : tree[p] = Missing}
<1>1. m \in Modules /\ worker[w].got \in Collections
  BY PoolFacts DEF Types
<1>2. DOMAIN tree = Paths
  BY DEF Types
<1>3. Cardinality(Files(m)) \in Nat
  <2>1. Cardinality(Present({m})) = Cardinality(Files(m)) /\ {m} \in SUBSET Modules
    BY <1>1, <1>2, ScannedOne
  <2>2. QED
    BY <2>1, PresentIsFinite, FS_CardinalityType
<1>4. {m} \X gone \subseteq Modules \X Paths
  BY <1>1, PoolFacts
<1>5. \/ worker'[w].got = worker[w].got
      \/ worker'[w].got = [has     |-> worker[w].got.has \union {m},
                           missing |-> worker[w].got.missing \union ({m} \X gone),
                           files   |-> worker[w].got.files + Cardinality(Files(m))]
  BY DEF ScanModule, Types, Sourced
<1>6. /\ worker[w].got.has \subseteq Modules
      /\ worker[w].got.missing \subseteq Modules \X Paths
      /\ worker[w].got.files \in Nat
  BY <1>1 DEF Collections
<1> HIDE DEF m, gone
<1>7. QED
  BY <1>1, <1>3, <1>4, <1>5, <1>6 DEF Collections

LEMMA NextTypes ==
  ASSUME Types, Phases, Taken, [Next]_vars
  PROVE  Types'
<1> USE DEF Types
<1>1. CASE Begin
  <2>1. Nothing \in Collections
    BY DEF Nothing, Collections
  <2>2. worker' \in [Pool -> [at : Nat, got : Collections, status : Statuses]]
    BY <1>1, <2>1 DEF Begin, Idle, Pool, Statuses
  <2>3. QED
    <3>1. joined' \in 0 .. Len(Workers) /\ next' \in Nat \ {0}
      BY <1>1, PoolFacts DEF Begin
    <3>2. /\ total' \in Collections /\ phase' = "scan"
          /\ UNCHANGED <<tree, boundary, reviews, found, fresh>>
      BY <1>1, <2>1 DEF Begin, manifest
    <3>3. QED
      BY <2>2, <3>1, <3>2
<1>2. ASSUME NEW w \in Pool, Take(w) PROVE Types'
  <2>1. worker'[w] = [at |-> next, got |-> worker[w].got,
                      status |-> IF next > Len(Manifest) THEN "done" ELSE "busy"]
    BY <1>2 DEF Take
  <2>2. worker' \in [Pool -> [at : Nat, got : Collections, status : Statuses]]
    BY <1>2, <2>1 DEF Take, Statuses
  <2>3. QED
    BY <1>2, <2>2 DEF Take, manifest
<1>3. ASSUME NEW w \in Pool, ScanModule(w) PROVE Types'
  <2>1. phase = "scan" /\ worker[w].at \in DOMAIN Manifest
    BY <1>3 DEF Taken, ScanModule, Holds, Phases, Pooled
  <2>2. worker'[w].got \in Collections
    BY <1>3, <2>1, ScannedTypes
  <2>3. worker'[w].status \in Statuses /\ worker'[w].at = worker[w].at
    BY <1>3, ScanHands DEF Statuses
  <2>4. \A v \in Pool : v # w => worker'[v] = worker[v]
    BY <1>3, ScanHands
  <2>5. /\ worker' = [v \in Pool |-> worker'[v]]
        /\ worker'[w] = [at |-> worker'[w].at, got |-> worker'[w].got, status |-> worker'[w].status]
    <3> DEFINE bad == \E p \in ToSet(ModuleSources[Manifest[worker[w].at]]) : tree[p] = Locked
    <3>1. CASE bad
      BY <1>3, <3>1 DEF ScanModule
    <3>2. CASE ~ bad
      BY <1>3, <3>2 DEF ScanModule
    <3>3. QED
      BY <3>1, <3>2
  <2>6. worker' \in [Pool -> [at : Nat, got : Collections, status : Statuses]]
    <3>1. worker'[w] \in [at : Nat, got : Collections, status : Statuses]
      BY <2>2, <2>3, <2>5
    <3>2. \A v \in Pool : worker'[v] \in [at : Nat, got : Collections, status : Statuses]
      BY <2>4, <3>1
    <3>3. QED
      BY <2>5, <3>2
  <2>7. QED
    BY <1>3, <2>6 DEF ScanModule, manifest
<1>4. CASE Join
  <2> DEFINE w == Workers[joined + 1]
  <2>1. joined + 1 \in 1 .. Len(Workers) /\ w \in Pool
    BY <1>4, PoolFacts DEF Join, Phases
  <2>2. total' \in Collections
    BY <1>4, <2>1 DEF Join, Collections
  <2>3. phase' \in {"failed", "relate", "scan"}
    BY <1>4 DEF Join, AfterJoin
  <2>4. joined' = joined + 1
    BY <1>4 DEF Join
  <2>5. QED
    BY <1>4, <2>1, <2>2, <2>3, <2>4 DEF Join, manifest
<1>5. CASE Relate
  BY <1>5, FindsTypes DEF Relate, manifest, pool
<1>6. CASE Fail
  BY <1>6 DEF Fail, manifest, pool
<1>7. CASE Merge
  <2>1. boundary' \in [Deps -> {"cpp_internal"} \union Kinds]
    BY <1>7, RelabelledOnce DEF Merge
  <2>2. reviews' \in [Findings -> {"absent", "open", "resolved"}]
    BY <1>7 DEF Merge, Merged
  <2>3. found' \in [evidence : [Deps -> SUBSET Kinds], seen : SUBSET Findings]
    BY <1>7 DEF Merge, NoneFound
  <2>4. QED
    BY <1>7, <2>1, <2>2, <2>3 DEF Merge, pool
<1>8. ASSUME NEW p \in Paths, NEW lines \in Variants[p], Edit(p, lines) PROVE Types'
  <2>1. lines \in UNION {Variants[q] : q \in Paths} /\ tree' = [tree EXCEPT ![p] = lines]
    BY <1>8 DEF Edit
  <2>2. tree' \in [Paths -> UNION {Variants[q] : q \in Paths}]
    BY <2>1
  <2>3. QED
    BY <1>8, <2>2 DEF Edit, manifest, pool
<1>9. ASSUME NEW f \in Findings, Resolve(f) PROVE Types'
  BY <1>9 DEF Resolve, pool
<1>10. CASE UNCHANGED vars
  BY <1>10 DEF vars, manifest, pool
<1>11. QED
  BY <1>1, <1>2, <1>3, <1>4, <1>5, <1>6, <1>7, <1>8, <1>9, <1>10 DEF Next, Threads, Pool, Paths

\* A scan goes on when it begins, when a worker does something or is joined.
LEMMA PooledSteps ==
  ASSUME Types, Phases, [Next]_vars, Pooled'
  PROVE  /\ tree' = tree
         /\ \/ Begin
            \/ \E w \in Pool : phase = "scan" /\ Take(w)
            \/ \E w \in Pool : phase = "scan" /\ ScanModule(w)
            \/ Join
            \/ UNCHANGED vars
<1>1. CASE Relate \/ Merge \/ Fail
  BY <1>1 DEF Relate, Merge, Fail, Pooled
<1>2. ASSUME NEW p \in Paths, NEW lines \in Variants[p], Edit(p, lines) PROVE FALSE
  BY <1>2 DEF Edit, Pooled
<1>3. ASSUME NEW f \in Findings, Resolve(f) PROVE FALSE
  BY <1>3 DEF Resolve, Pooled
<1>4. \A w \in Pool : (Take(w) => phase = "scan") /\ (ScanModule(w) => phase = "scan")
  BY DEF Take, ScanModule, Phases
<1>5. \/ Begin
      \/ \E w \in Pool : phase = "scan" /\ Take(w)
      \/ \E w \in Pool : phase = "scan" /\ ScanModule(w)
      \/ Join
      \/ UNCHANGED vars
  BY <1>1, <1>2, <1>3, <1>4 DEF Next, Threads, Pool, Paths
<1>6. tree' = tree
  BY <1>5 DEF Begin, Take, ScanModule, Join, vars
<1>7. QED
  BY <1>5, <1>6

\* The worker that is joined has returned: it has no module any more, or it
\* stopped at one.
LEMMA JoinFacts ==
  ASSUME Types, Phases, Join
  PROVE  /\ phase = "scan" /\ Pooled
         /\ joined + 1 \in 1 .. Len(Workers) /\ Workers[joined + 1] \in Pool
         /\ joined' = joined + 1 /\ worker' = worker /\ next' = next
         /\ worker[Workers[joined + 1]].status \in {"done", "error"}
         /\ phase' \in {"failed", "relate", "scan"}
         /\ phase' = "failed" <=> worker[Workers[joined + 1]].status = "error"
         /\ phase' = "relate" => joined' = Len(Workers)
         /\ phase' = "scan" => joined' # Len(Workers)
<1>1. phase = "scan" /\ joined' = joined + 1 /\ worker' = worker /\ next' = next
  BY DEF Join
<1>2. joined + 1 \in 1 .. Len(Workers) /\ Workers[joined + 1] \in Pool
  BY <1>1, PoolFacts DEF Types, Phases
<1>3. /\ worker[Workers[joined + 1]].status \in {"done", "error"}
      /\ phase' = AfterJoin(worker[Workers[joined + 1]].status)
  BY DEF Join, Returned
<1>4. phase' = IF worker[Workers[joined + 1]].status = "error" THEN "failed"
               ELSE IF joined' = Len(Workers) THEN "relate" ELSE "scan"
  BY <1>3 DEF AfterJoin
<1>5. /\ phase' \in {"failed", "relate", "scan"}
      /\ phase' = "failed" <=> worker[Workers[joined + 1]].status = "error"
      /\ phase' = "relate" => joined' = Len(Workers)
      /\ phase' = "scan" => joined' # Len(Workers)
  BY <1>4
<1>6. QED
  BY <1>1, <1>2, <1>3, <1>5 DEF Pooled

LEMMA NextPhases ==
  ASSUME Types, Types', Phases, JoinedSoFar, [Next]_vars
  PROVE  Phases'
<1>1. CASE Begin
  BY <1>1, PoolFacts DEF Begin, Phases
<1>2. ASSUME NEW w \in Pool, Take(w) PROVE Phases'
  BY <1>2 DEF Take, Phases
<1>3. ASSUME NEW w \in Pool, ScanModule(w) PROVE Phases'
  <2>1. phase = "scan" /\ phase' = "scan" /\ joined' = joined
    BY <1>3 DEF ScanModule, Phases
  <2>2. QED
    BY <2>1 DEF Phases
<1>4. CASE Join
  <2> DEFINE w == Workers[joined + 1]
  <2>1. /\ joined \in Nat /\ joined' = joined + 1 /\ worker' = worker
        /\ joined' \in 0 .. Len(Workers) /\ Len(Workers) \in Nat
        /\ (phase' = "relate" => joined' = Len(Workers))
        /\ (phase' = "scan" => joined' # Len(Workers))
        /\ phase' \in {"failed", "relate", "scan"} /\ Pooled
        /\ w \in Pool /\ worker[w].status \in {"done", "error"}
    BY <1>4, JoinFacts, PoolFacts DEF Types
  <2>2. ASSUME phase' = "failed" PROVE \A v \in Pool : worker[v].status # "busy"
    BY <1>4, <2>2, JoinFacts DEF Join, Returned, Pool
  <2>3. ASSUME phase' = "relate" PROVE \A v \in Pool : worker[v].status # "busy"
    <3>1. \A j \in 1 .. joined : worker[Workers[j]].status = "done"
      BY <2>1 DEF JoinedSoFar
    <3>2. \A j \in 1 .. joined + 1 : worker[Workers[j]].status # "busy"
      BY <2>1, <3>1
    <3>3. joined + 1 = Len(Workers)
      BY <2>1, <2>3
    <3>4. QED
      BY <3>2, <3>3, PoolFacts
  <2>4. phase' = "scan" => joined' < Len(Workers)
    BY <2>1
  <2>5. QED
    BY <2>1, <2>2, <2>3, <2>4 DEF Phases
<1>5. CASE Relate \/ Merge \/ Fail
  <2>1. worker' = worker /\ phase # "scan" /\ phase' \in {"merge", "idle"}
    BY <1>5 DEF Relate, Merge, Fail, pool
  <2>2. QED
    BY <2>1 DEF Phases
<1>6. ASSUME NEW p \in Paths, NEW lines \in Variants[p], Edit(p, lines) PROVE Phases'
  BY <1>6 DEF Edit, Phases, pool
<1>7. ASSUME NEW f \in Findings, Resolve(f) PROVE Phases'
  BY <1>7 DEF Resolve, Phases, pool
<1>8. CASE UNCHANGED vars
  BY <1>8 DEF vars, pool, Phases
<1>9. QED
  BY <1>1, <1>2, <1>3, <1>4, <1>5, <1>6, <1>7, <1>8 DEF Next, Threads, Pool, Paths

LEMMA NextTaken ==
  ASSUME Types, Phases, Taken, [Next]_vars
  PROVE  Taken'
<1> SUFFICES ASSUME Pooled'
             PROVE  /\ \A w \in Pool : Holds(w)' => worker'[w].at \in DOMAIN Manifest
                    /\ \A i \in DOMAIN Manifest :
                         i < next' <=> \E w \in Pool : Manifest[i] \in Hands(w)'
  BY DEF Taken
<1>1. CASE Begin
  BY <1>1, BeginHands, PoolFacts DEF Begin
<1>2. ASSUME NEW w \in Pool, phase = "scan", Take(w)
      PROVE  /\ \A v \in Pool : Holds(v)' => worker'[v].at \in DOMAIN Manifest
             /\ \A i \in DOMAIN Manifest :
                  i < next' <=> \E v \in Pool : Manifest[i] \in Hands(v)'
  <2>1. /\ \A v \in Pool : Holds(v) => worker[v].at \in DOMAIN Manifest
        /\ \A i \in DOMAIN Manifest : i < next <=> \E v \in Pool : Manifest[i] \in Hands(v)
    BY <1>2 DEF Taken, Pooled
  <2>2. next \in Nat \ {0} /\ next' = next + 1
    BY <1>2 DEF Types, Take
  <2>3. CASE next > Len(Manifest)
    <3>1. \A v \in Pool : Hands(v)' = Hands(v) /\ (Holds(v)' => Holds(v))
      BY <1>2, <2>3, TakeHands DEF Holds
    <3>2. \A v \in Pool : v # w => worker'[v] = worker[v]
      BY <1>2, TakeHands
    <3>3. ~ Holds(w)'
      BY <1>2, <2>3, TakeHands
    <3>4. \A v \in Pool : Holds(v)' => worker'[v].at \in DOMAIN Manifest
      BY <2>1, <3>1, <3>2, <3>3
    <3>5. \A i \in DOMAIN Manifest : i < next /\ i < next'
      BY <2>2, <2>3, PoolFacts
    <3>6. QED
      BY <2>1, <3>1, <3>4, <3>5
  <2>4. CASE next <= Len(Manifest)
    <3>1. /\ \A v \in Pool : v # w => worker'[v] = worker[v] /\ Hands(v)' = Hands(v)
          /\ Hands(w)' = Hands(w) \union {Manifest[next]} /\ worker'[w].at = next
      BY <1>2, <2>4, TakeHands
    <3>2. next \in DOMAIN Manifest
      BY <2>2, <2>4, PoolFacts
    <3>3. \A v \in Pool : Holds(v)' => worker'[v].at \in DOMAIN Manifest
      BY <2>1, <3>1, <3>2 DEF Holds
    <3>4. ASSUME NEW i \in DOMAIN Manifest
          PROVE  i < next' <=> \E v \in Pool : Manifest[i] \in Hands(v)'
      <4>1. i < next' <=> i < next \/ i = next
        BY <2>2, PoolFacts
      <4>2. Manifest[i] = Manifest[next] <=> i = next
        BY <3>2, SourceScanAssumption
      <4>3. (\E v \in Pool : Manifest[i] \in Hands(v)')
              <=> (\E v \in Pool : Manifest[i] \in Hands(v)) \/ Manifest[i] = Manifest[next]
        BY <3>1
      <4>4. QED
        BY <2>1, <4>1, <4>2, <4>3
    <3>5. QED
      BY <3>3, <3>4
  <2>5. QED
    BY <2>2, <2>3, <2>4, PoolFacts
<1>3. ASSUME NEW w \in Pool, phase = "scan", ScanModule(w)
      PROVE  /\ \A v \in Pool : Holds(v)' => worker'[v].at \in DOMAIN Manifest
             /\ \A i \in DOMAIN Manifest :
                  i < next' <=> \E v \in Pool : Manifest[i] \in Hands(v)'
  <2>1. /\ \A v \in Pool : Holds(v) => worker[v].at \in DOMAIN Manifest
        /\ \A i \in DOMAIN Manifest : i < next <=> \E v \in Pool : Manifest[i] \in Hands(v)
    BY <1>3 DEF Taken, Pooled
  <2>2. next' = next /\ Holds(w) /\ \A v \in Pool : Hands(v)' = Hands(v)
    BY <1>3, ScanHands DEF ScanModule, Holds
  <2>3. /\ worker'[w].at = worker[w].at
        /\ \A v \in Pool : v # w => worker'[v] = worker[v]
    BY <1>3, ScanHands
  <2>4. \A v \in Pool : Holds(v)' => worker'[v].at \in DOMAIN Manifest
    BY <2>1, <2>2, <2>3 DEF Holds
  <2>5. QED
    BY <2>1, <2>2, <2>4
<1>4. CASE Join \/ UNCHANGED vars
  <2>1. worker' = worker /\ next' = next /\ Pooled
    BY <1>4, JoinFacts DEF vars, pool, Pooled
  <2>2. \A v \in Pool : Hands(v)' = Hands(v) /\ (Holds(v)' <=> Holds(v))
    BY <2>1 DEF Hands, Holds
  <2>3. QED
    BY <2>1, <2>2 DEF Taken
<1>5. QED
  BY <1>1, <1>2, <1>3, <1>4, PooledSteps

LEMMA NextSeparate ==
  ASSUME Types, Phases, Taken, Separate, [Next]_vars
  PROVE  Separate'
<1> DEFINE Clear == /\ \A u, v \in Pool : u # v => Hands(u)' \intersect Hands(v)' = {}
                    /\ \A v \in Pool :
                         Holds(v)' => Manifest[worker'[v].at] \notin worker'[v].got.has
<1> SUFFICES ASSUME Pooled' PROVE Clear
  BY DEF Separate
<1>1. CASE Begin
  BY <1>1, BeginHands
<1>2. ASSUME NEW w \in Pool, phase = "scan", Take(w) PROVE Clear
  <2>1. /\ \A u, v \in Pool : u # v => Hands(u) \intersect Hands(v) = {}
        /\ \A v \in Pool : Holds(v) => Manifest[worker[v].at] \notin worker[v].got.has
    BY <1>2 DEF Separate, Pooled
  <2>2. /\ \A v \in Pool : v # w => worker'[v] = worker[v] /\ Hands(v)' = Hands(v)
        /\ worker'[w].got = worker[w].got /\ worker'[w].at = next
        /\ Hands(w) = worker[w].got.has
    BY <1>2, TakeHands
  <2>3. CASE next > Len(Manifest)
    <3>1. Hands(w)' = Hands(w) /\ ~ Holds(w)'
      BY <1>2, <2>3, TakeHands
    <3>2. \A v \in Pool : v # w => (Holds(v)' <=> Holds(v))
      BY <2>2 DEF Holds
    <3>3. QED
      BY <2>1, <2>2, <3>1, <3>2
  <2>4. CASE next <= Len(Manifest)
    <3>1. Hands(w)' = Hands(w) \union {Manifest[next]}
      BY <1>2, <2>4, TakeHands
    <3>2. next \in DOMAIN Manifest /\ ~ (next < next)
      BY <2>4, PoolFacts DEF Types
    <3>3. \A v \in Pool : Manifest[next] \notin Hands(v)
      BY <1>2, <3>2 DEF Taken, Pooled
    <3>4. \A v \in Pool : v # w => (Holds(v)' <=> Holds(v))
      BY <2>2 DEF Holds
    <3>5. \A u, v \in Pool : u # v => Hands(u)' \intersect Hands(v)' = {}
      BY <2>1, <2>2, <3>1, <3>3
    <3>6. \A v \in Pool : Holds(v)' => Manifest[worker'[v].at] \notin worker'[v].got.has
      BY <2>1, <2>2, <3>3, <3>4
    <3>7. QED
      BY <3>5, <3>6
  <2>5. next \in Nat /\ Len(Manifest) \in Nat
    BY PoolFacts DEF Types
  <2>6. QED
    BY <2>3, <2>4, <2>5
<1>3. ASSUME NEW w \in Pool, phase = "scan", ScanModule(w) PROVE Clear
  <2>1. /\ \A u, v \in Pool : u # v => Hands(u) \intersect Hands(v) = {}
        /\ \A v \in Pool : Holds(v) => Manifest[worker[v].at] \notin worker[v].got.has
    BY <1>3 DEF Separate, Pooled
  <2>2. /\ \A v \in Pool : v # w => worker'[v] = worker[v]
        /\ \A v \in Pool : Hands(v)' = Hands(v)
        /\ worker'[w].at = worker[w].at
        /\ \/ worker'[w].got = worker[w].got
           \/ worker'[w].status = "free"
    BY <1>3, ScanHands
  <2>3. Holds(w) /\ (\A v \in Pool : v # w => (Holds(v)' <=> Holds(v)))
    BY <1>3, <2>2 DEF Holds, ScanModule
  <2>4. worker'[w].status = "free" => ~ Holds(w)'
    BY DEF Holds
  <2>5. \A v \in Pool : Holds(v)' => Manifest[worker'[v].at] \notin worker'[v].got.has
    BY <2>1, <2>2, <2>3, <2>4
  <2>6. QED
    BY <2>1, <2>2, <2>5
<1>4. CASE Join \/ UNCHANGED vars
  <2>1. worker' = worker /\ Pooled
    BY <1>4, JoinFacts DEF vars, pool, Pooled
  <2>2. \A v \in Pool : Hands(v)' = Hands(v) /\ (Holds(v)' <=> Holds(v))
    BY <2>1 DEF Hands, Holds
  <2>3. QED
    BY <2>1, <2>2 DEF Separate
<1>5. QED
  BY <1>1, <1>2, <1>3, <1>4, PooledSteps

\* What reading one module more leaves is what was read and that module.
LEMMA ScanReads ==
  ASSUME Types, Taken, Separate, ReadSoFar, NEW w \in Pool, phase = "scan", ScanModule(w),
         worker'[w].status = "free"
  PROVE  worker'[w].got = Scanned(worker[w].got.has \union {Manifest[worker[w].at]})
<1> DEFINE m == Manifest[worker[w].at]
           S == worker[w].got.has
           gone == {p \in Sourced(m) : tree[p] = Missing}
<1>1. /\ Holds(w) /\ m \in Modules /\ m \notin S
      /\ S \in SUBSET Modules /\ DOMAIN tree = Paths
  BY PoolFacts DEF ScanModule, Holds, Taken, Separate, Pooled, Types, Collections
<1>2. worker[w].got = Scanned(S)
  BY <1>1 DEF ReadSoFar, Pooled
<1>3. worker'[w].got = [has     |-> worker[w].got.has \union {m},
                        missing |-> worker[w].got.missing \union ({m} \X gone),
                        files   |-> worker[w].got.files + Cardinality(Files(m))]
  <2> DEFINE bad == \E p \in ToSet(ModuleSources[m]) : tree[p] = Locked
             lost == {p \in ToSet(ModuleSources[m]) : tree[p] = Missing}
             read == [has     |-> worker[w].got.has \union {m},
                      missing |-> worker[w].got.missing \union ({m} \X lost),
                      files   |-> worker[w].got.files + Cardinality(Files(m))]
  <2>1. ~ bad
    BY DEF ScanModule, Types
  <2>2. worker' = [worker EXCEPT ![w].status = "free", ![w].got = read]
    BY <2>1 DEF ScanModule, Types
  <2>3. worker'[w].got = read
    BY <2>2 DEF Types
  <2>4. lost = gone
    BY DEF Sourced
  <2>5. QED
    BY <2>3, <2>4
<1>4. worker[w].got.missing = Gone(S) /\ worker[w].got.files = Cardinality(Present(S))
  BY <1>2 DEF Scanned
<1>5. Gone({m}) = {m} \X gone /\ Cardinality(Present({m})) = Cardinality(Files(m))
  BY <1>1, ScannedOne
<1>6. Scanned(S \union {m}) =
        [has     |-> S \union {m},
         missing |-> Gone(S) \union Gone({m}),
         files   |-> Cardinality(Present(S)) + Cardinality(Present({m}))]
  <2>1. {m} \in SUBSET Modules /\ S \intersect {m} = {}
    BY <1>1
  <2> HIDE DEF m, S
  <2>2. QED
    BY <1>1, <2>1, ScannedUnion
<1> HIDE DEF gone
<1>7. QED
  BY <1>3, <1>4, <1>5, <1>6

LEMMA NextReadSoFar ==
  ASSUME Types, Phases, Taken, Separate, ReadSoFar, [Next]_vars
  PROVE  ReadSoFar'
<1> DEFINE Sound(v) ==
             /\ \A S \in SUBSET Modules :
                  worker'[v].got.has = S => worker'[v].got = Scanned(S)
             /\ \A m \in worker'[v].got.has : ~ Unreadable(m)
             /\ \A m \in Modules :
                  worker'[v].status = "error" /\ Manifest[worker'[v].at] = m => Unreadable(m)
             /\ worker'[v].status = "done" => next' > Len(Manifest)
<1> SUFFICES ASSUME Pooled' PROVE \A v \in Pool : Sound(v)
  <2>1. (\A v \in Pool : Sound(v)) /\ tree' = tree => ReadSoFar'
    <3> HAVE (\A v \in Pool : Sound(v)) /\ tree' = tree
    <3>1. /\ \A m : Unreadable(m)' <=> Unreadable(m)
          /\ \A S : Scanned(S)' = Scanned(S)
      BY SourcesStay
    <3>2. QED
      BY <3>1 DEF ReadSoFar
  <2>2. Pooled' => tree' = tree
    BY PooledSteps
  <2>3. ~ Pooled' => ReadSoFar'
    BY DEF ReadSoFar
  <2>4. QED
    BY <2>1, <2>2, <2>3
<1>1. CASE Begin
  <2>1. \A v \in Pool : worker'[v].got = Nothing /\ worker'[v].status = "free"
    BY <1>1, BeginHands
  <2>2. Nothing.has = {}
    BY DEF Nothing
  <2>3. QED
    BY <2>1, <2>2, ScannedNothing
<1>2. ASSUME phase = "scan"
      PROVE  \A v \in Pool :
               /\ \A S \in SUBSET Modules :
                    worker[v].got.has = S => worker[v].got = Scanned(S)
               /\ \A m \in worker[v].got.has : ~ Unreadable(m)
               /\ \A m \in Modules :
                    worker[v].status = "error" /\ Manifest[worker[v].at] = m => Unreadable(m)
               /\ worker[v].status = "done" => next > Len(Manifest)
  BY <1>2 DEF ReadSoFar, Pooled
<1>3. ASSUME NEW w \in Pool, phase = "scan", Take(w) PROVE \A v \in Pool : Sound(v)
  <2>1. /\ \A v \in Pool : v # w => worker'[v] = worker[v]
        /\ worker'[w].got = worker[w].got
        /\ next > Len(Manifest) => worker'[w].status = "done"
        /\ next <= Len(Manifest) => worker'[w].status = "busy"
    BY <1>3, TakeHands
  <2>2. next' = next + 1 /\ next \in Nat /\ Len(Manifest) \in Nat
    BY <1>3, PoolFacts DEF Take, Types
  <2>3. ASSUME NEW v \in Pool, v # w PROVE Sound(v)
    <3>1. worker'[v] = worker[v] /\ (next > Len(Manifest) => next' > Len(Manifest))
      BY <2>1, <2>2, <2>3
    <3>2. QED
      BY <1>2, <1>3, <3>1
  <2>4. Sound(w)
    BY <1>2, <1>3, <2>1, <2>2
  <2>5. QED
    BY <2>3, <2>4
<1>4. ASSUME NEW w \in Pool, phase = "scan", ScanModule(w) PROVE \A v \in Pool : Sound(v)
  <2> DEFINE m == Manifest[worker[w].at]
  <2>1. /\ \A v \in Pool : v # w => worker'[v] = worker[v]
        /\ worker'[w].at = worker[w].at
        /\ \/ /\ worker'[w].status = "error" /\ worker'[w].got = worker[w].got
              /\ Unreadable(m)
           \/ /\ worker'[w].status = "free"
              /\ worker'[w].got.has = worker[w].got.has \union {m}
              /\ ~ Unreadable(m)
    BY <1>4, ScanHands
  <2>2. next' = next
    BY <1>4 DEF ScanModule
  <2>3. ASSUME NEW v \in Pool, v # w PROVE Sound(v)
    BY <1>2, <1>4, <2>1, <2>2, <2>3
  <2>4. ASSUME worker'[w].status = "error" PROVE Sound(w)
    BY <1>2, <1>4, <2>1, <2>4
  <2>5. ASSUME worker'[w].status = "free" PROVE Sound(w)
    <3>1. worker'[w].got = Scanned(worker[w].got.has \union {m})
      BY <1>4, <2>5, ScanReads
    <3>2. /\ worker'[w].got.has = worker[w].got.has \union {m}
          /\ ~ Unreadable(m)
      BY <2>1, <2>5
    <3>3. \A n \in worker[w].got.has : ~ Unreadable(n)
      BY <1>2, <1>4
    <3> HIDE DEF m
    <3>4. QED
      BY <2>5, <3>1, <3>2, <3>3
  <2>6. QED
    BY <2>1, <2>3, <2>4, <2>5
<1>5. CASE Join \/ UNCHANGED vars
  <2>1. worker' = worker /\ next' = next /\ Pooled
    BY <1>5, JoinFacts DEF vars, pool, Pooled
  <2>2. QED
    BY <2>1 DEF ReadSoFar
<1>6. QED
  BY <1>1, <1>3, <1>4, <1>5, PooledSteps

LEMMA NextJoinedSoFar ==
  ASSUME Types, Phases, Separate, ReadSoFar, JoinedSoFar, [Next]_vars
  PROVE  JoinedSoFar'
<1> DEFINE Sum == /\ \A j \in 1 .. joined' : worker'[Workers[j]].status = "done"
                  /\ \A m \in Modules : m \in total'.has <=>
                       \E j \in 1 .. joined' : m \in worker'[Workers[j]].got.has
                  /\ \A S \in SUBSET Modules : total'.has = S => total' = Scanned(S)
<1> SUFFICES ASSUME Pooled' PROVE Sum
  <2>1. Sum /\ tree' = tree => JoinedSoFar'
    <3> HAVE Sum /\ tree' = tree
    <3>1. \A S : Scanned(S)' = Scanned(S)
      BY SourcesStay
    <3>2. QED
      BY <3>1 DEF JoinedSoFar
  <2>2. Pooled' => tree' = tree
    BY PooledSteps
  <2>3. ~ Pooled' => JoinedSoFar'
    BY DEF JoinedSoFar
  <2>4. QED
    BY <2>1, <2>2, <2>3
<1>1. CASE Begin
  <2>1. joined' = 0 /\ total' = Nothing /\ Nothing.has = {}
    BY <1>1 DEF Begin, Nothing
  <2>2. QED
    BY <2>1, ScannedNothing
<1>2. ASSUME phase = "scan"
      PROVE  /\ \A j \in 1 .. joined : worker[Workers[j]].status = "done"
             /\ \A m \in Modules : m \in total.has <=>
                  \E j \in 1 .. joined : m \in worker[Workers[j]].got.has
             /\ \A S \in SUBSET Modules : total.has = S => total = Scanned(S)
             /\ \A j \in 1 .. joined : Workers[j] \in Pool
             /\ joined \in Nat /\ DOMAIN Workers = 1 .. Len(Workers)
             /\ joined < Len(Workers)
  BY <1>2, PoolFacts DEF JoinedSoFar, Pooled, Types, Phases
<1>3. ASSUME NEW w \in Pool, phase = "scan", worker[w].status # "done",
             joined' = joined, total' = total,
             \A v \in Pool : v # w => worker'[v] = worker[v]
      PROVE  Sum
  <2>1. \A j \in 1 .. joined : worker'[Workers[j]] = worker[Workers[j]]
    BY <1>2, <1>3
  <2>2. QED
    BY <1>2, <1>3, <2>1
<1>4. ASSUME NEW w \in Pool, phase = "scan", Take(w) \/ ScanModule(w) PROVE Sum
  BY <1>3, <1>4, TakeHands, ScanHands DEF Take, ScanModule
<1>5. CASE Join
  <2> DEFINE w == Workers[joined + 1]
             S == total.has
             T == worker[w].got.has
  <2>1. /\ phase = "scan" /\ Pooled /\ w \in Pool /\ worker' = worker
        /\ joined' = joined + 1 /\ joined + 1 \in 1 .. Len(Workers)
        /\ worker[w].status \in {"done", "error"}
        /\ (phase' = "failed" <=> worker[w].status = "error")
    BY <1>5, JoinFacts
  <2>2. worker[w].status = "done"
    BY <2>1 DEF Pooled
  <2>3. S \in SUBSET Modules /\ T \in SUBSET Modules
    BY <2>1 DEF Types, Collections
  <2>4. total = Scanned(S) /\ worker[w].got = Scanned(T)
    BY <2>1, <2>3 DEF ReadSoFar, JoinedSoFar
  <2>5. S \intersect T = {}
    <3>1. SUFFICES ASSUME NEW m \in S, m \in T PROVE FALSE
      OBVIOUS
    <3>2. PICK j \in 1 .. joined : m \in worker[Workers[j]].got.has
      BY <1>2, <2>1, <2>3, <3>1
    <3>3. j # joined + 1 /\ j \in DOMAIN Workers /\ joined + 1 \in DOMAIN Workers
      BY <1>2, <2>1
    <3>4. Workers[j] # w /\ Workers[j] \in Pool
      BY <1>2, <2>1, <3>3, SourceScanAssumption
    <3>5. m \in Hands(Workers[j]) /\ m \in Hands(w)
      BY <3>1, <3>2 DEF Hands
    <3>6. Hands(Workers[j]) \intersect Hands(w) = {}
      BY <2>1, <3>4 DEF Separate
    <3>7. QED
      BY <3>5, <3>6
  <2>6. total' = [has     |-> S \union T,
                  missing |-> total.missing \union worker[w].got.missing,
                  files   |-> total.files + worker[w].got.files]
    BY <1>5 DEF Join
  <2>7. total' = Scanned(S \union T)
    <3>1. /\ total.missing = Gone(S) /\ total.files = Cardinality(Present(S))
          /\ worker[w].got.missing = Gone(T) /\ worker[w].got.files = Cardinality(Present(T))
      BY <2>4 DEF Scanned
    <3> HIDE DEF w, S, T
    <3>2. QED
      BY <2>3, <2>5, <2>6, <3>1, ScannedUnion
  <2>8. \A j \in 1 .. joined' : j \in 1 .. joined \/ j = joined + 1
    BY <1>2, <2>1
  <2>9. 1 .. joined \subseteq 1 .. joined' /\ joined + 1 \in 1 .. joined'
    BY <1>2, <2>1
  <2>10. \A j \in 1 .. joined' : worker'[Workers[j]].status = "done"
    BY <1>2, <2>1, <2>2, <2>8
  <2>11. total'.has = S \union T
    BY <2>6
  <2>12. \A m \in Modules : m \in total'.has <=>
           \E j \in 1 .. joined' : m \in worker'[Workers[j]].got.has
    BY <1>2, <2>1, <2>8, <2>9, <2>11
  <2>13. QED
    BY <2>7, <2>10, <2>11, <2>12
<1>6. CASE UNCHANGED vars
  <2>1. UNCHANGED <<worker, joined, total>> /\ Pooled
    BY <1>6 DEF vars, pool, Pooled
  <2>2. QED
    BY <2>1 DEF JoinedSoFar
<1>7. QED
  BY <1>1, <1>4, <1>5, <1>6, PooledSteps

LEMMA NextFailedFor ==
  ASSUME Types, Phases, Taken, ReadSoFar, FailedFor, [Next]_vars
  PROVE  FailedFor'
<1> SUFFICES ASSUME phase' = "failed" PROVE \E m \in Modules : Unreadable(m)'
  BY DEF FailedFor
<1>1. CASE Join
  <2> DEFINE w == Workers[joined + 1]
             m == Manifest[worker[w].at]
  <2>1. w \in Pool /\ worker[w].status = "error" /\ Pooled
    BY <1>1, JoinFacts
  <2>2. m \in Modules
    BY <2>1, PoolFacts DEF Taken, Holds
  <2>3. Unreadable(m)
    BY <2>1, <2>2 DEF ReadSoFar
  <2>4. tree' = tree
    BY <1>1 DEF Join
  <2>5. QED
    BY <2>2, <2>3, <2>4, SourcesStay
<1>2. CASE ~ Join
  <2>1. phase = "failed" /\ tree' = tree
    BY <1>2 DEF Next, Threads, Begin, Take, ScanModule, Relate, Merge, Fail, Edit,
                Resolve, vars
  <2>2. QED
    BY <2>1, SourcesStay DEF FailedFor
<1>3. QED
  BY <1>1, <1>2

-----------------------------------------------------------------------------
\* The pool as a whole.

PoolInv ==
  /\ Types /\ Phases /\ Taken /\ Separate /\ ReadSoFar /\ JoinedSoFar /\ FailedFor

LEMMA InitPoolInv == Init => PoolInv
<1> SUFFICES ASSUME Init PROVE PoolInv
  OBVIOUS
<1>1. phase = "idle" /\ ~ Pooled /\ worker = [w \in Pool |-> Idle] /\ Idle.status = "none"
  BY DEF Init, Pooled, Pool, Idle
<1>2. Types
  <2>1. Nothing \in Collections /\ Idle \in [at : Nat, got : Collections, status : Statuses]
    BY DEF Nothing, Collections, Idle, Statuses
  <2>2. worker \in [Pool -> [at : Nat, got : Collections, status : Statuses]]
    BY <1>1, <2>1
  <2>3. found \in [evidence : [Deps -> SUBSET Kinds], seen : SUBSET Findings]
    BY DEF Init, NoneFound
  <2>4. joined \in 0 .. Len(Workers)
    BY PoolFacts DEF Init
  <2>5. tree \in [Paths -> UNION {Variants[p] : p \in Paths}]
    BY DEF Init, Paths
  <2>6. /\ boundary \in [Deps -> {"cpp_internal"} \union Kinds]
        /\ reviews \in [Findings -> {"absent", "open", "resolved"}]
    BY DEF Init
  <2>7. next \in Nat \ {0} /\ phase \in {"idle", "scan", "relate", "merge", "failed"}
    BY DEF Init
  <2>8. total \in Collections
    BY <2>1 DEF Init
  <2>9. fresh \in BOOLEAN
    BY DEF Init
  <2>10. QED
    BY <2>2, <2>3, <2>4, <2>5, <2>6, <2>7, <2>8, <2>9 DEF Types
<1>3. Phases
  BY <1>1 DEF Phases
<1>4. Taken /\ Separate /\ ReadSoFar /\ JoinedSoFar /\ FailedFor
  BY <1>1 DEF Taken, Separate, ReadSoFar, JoinedSoFar, FailedFor
<1>5. QED
  BY <1>2, <1>3, <1>4 DEF PoolInv

LEMMA NextPoolInv == PoolInv /\ [Next]_vars => PoolInv'
<1> SUFFICES ASSUME PoolInv, [Next]_vars PROVE PoolInv'
  OBVIOUS
<1>1. Types /\ Phases /\ Taken /\ Separate /\ ReadSoFar /\ JoinedSoFar /\ FailedFor
  BY DEF PoolInv
<1>2. Types'
  BY <1>1, NextTypes
<1>3. Phases'
  BY <1>1, <1>2, NextPhases
<1>4. Taken' /\ Separate' /\ ReadSoFar' /\ JoinedSoFar' /\ FailedFor'
  BY <1>1, NextTaken, NextSeparate, NextReadSoFar, NextJoinedSoFar, NextFailedFor
<1>5. QED
  BY <1>2, <1>3, <1>4 DEF PoolInv

LEMMA PoolHolds == Spec => []PoolInv
  BY InitPoolInv, NextPoolInv, PTL DEF Spec

\* When all workers are joined every module has been read, and could be.
LEMMA PoolComplete ==
  ASSUME PoolInv, phase = "relate"
  PROVE  total = Scanned(Modules) /\ \A m \in Modules : ~ Unreadable(m)
<1>1. Types /\ Phases /\ Taken /\ ReadSoFar /\ JoinedSoFar /\ Pooled
  BY DEF PoolInv, Pooled
<1>2. joined = Len(Workers) /\ DOMAIN Workers = 1 .. Len(Workers) /\ Len(Workers) \in Nat \ {0}
  BY <1>1, PoolFacts DEF Phases
<1>3. \A w \in Pool : worker[w].status = "done"
  <2>1. \A j \in 1 .. Len(Workers) : worker[Workers[j]].status = "done"
    BY <1>1, <1>2 DEF JoinedSoFar
  <2>2. QED
    BY <2>1, PoolFacts
<1>4. Pool # {}
  BY <1>2, PoolFacts
<1>5. next > Len(Manifest)
  BY <1>1, <1>3, <1>4 DEF ReadSoFar
<1>6. ASSUME NEW m \in Modules PROVE \E w \in Pool : m \in worker[w].got.has
  <2>1. PICK i \in DOMAIN Manifest : m = Manifest[i]
    BY PoolFacts
  <2>2. i < next
    BY <1>1, <1>5, PoolFacts DEF Types
  <2>3. PICK w \in Pool : m \in Hands(w)
    BY <1>1, <2>1, <2>2 DEF Taken
  <2>4. QED
    BY <1>3, <2>3 DEF Hands, Holds
<1>7. ASSUME NEW m \in Modules PROVE m \in total.has /\ ~ Unreadable(m)
  <2>1. PICK w \in Pool : m \in worker[w].got.has
    BY <1>6
  <2>2. PICK j \in 1 .. Len(Workers) : w = Workers[j]
    BY PoolFacts
  <2>3. m \in total.has
    BY <1>1, <1>2, <2>1, <2>2 DEF JoinedSoFar
  <2>4. ~ Unreadable(m)
    BY <1>1, <2>1 DEF ReadSoFar
  <2>5. QED
    BY <2>3, <2>4
<1>8. total.has \in SUBSET Modules
  BY <1>1 DEF Types, Collections
<1>9. total.has = Modules
  BY <1>7, <1>8
<1>10. total = Scanned(Modules)
  BY <1>1, <1>9 DEF JoinedSoFar
<1>11. QED
  BY <1>7, <1>10

\* However many workers share however many modules, in whatever order they take,
\* read and are joined: a scan that ends well has every module once, and it ends
\* badly exactly when a source cannot be read (scan_modules, scan_module).
THEOREM PoolReadsEachModuleOnce == Spec => []PoolLosesNothing
<1>1. PoolInv => PoolLosesNothing
  <2> SUFFICES ASSUME PoolInv PROVE PoolLosesNothing
    OBVIOUS
  <2>1. ASSUME phase = "relate"
        PROVE  /\ total.has = Modules
               /\ total.files =
                    Cardinality({r \in Modules \X DOMAIN tree : r[2] \in Files(r[1])})
               /\ total.missing =
                    {r \in Modules \X DOMAIN tree :
                       r[2] \in ToSet(ModuleSources[r[1]]) /\ tree[r[2]] = Missing}
               /\ \A m \in Modules : \A p \in ToSet(ModuleSources[m]) : tree[p] # Locked
    <3>1. total = [has |-> Modules, missing |-> Gone(Modules),
                   files |-> Cardinality(Present(Modules))]
      BY <2>1, PoolComplete DEF Scanned
    <3>2. /\ Present(Modules) = {r \in Modules \X DOMAIN tree : r[2] \in Files(r[1])}
          /\ Gone(Modules) = {r \in Modules \X DOMAIN tree :
                                r[2] \in ToSet(ModuleSources[r[1]]) /\ tree[r[2]] = Missing}
      BY DEF Present, Gone, Sourced
    <3>3. \A m \in Modules : \A p \in ToSet(ModuleSources[m]) : tree[p] # Locked
      BY <2>1, PoolComplete DEF Unreadable, Sourced
    <3>4. QED
      BY <3>1, <3>2, <3>3
  <2>2. ASSUME phase = "failed"
        PROVE  \E m \in Modules : \E p \in ToSet(ModuleSources[m]) : tree[p] = Locked
    BY <2>2 DEF PoolInv, FailedFor, Unreadable, Sourced
  <2>3. QED
    BY <2>1, <2>2 DEF PoolLosesNothing
<1>2. QED
  BY <1>1, PoolHolds, PTL

-----------------------------------------------------------------------------
\* The merge.

\* What is merged is what the sources show, read at once.
Merging ==
  phase = "merge" => found.evidence = Evidence(Modules) /\ found.seen = Seen(Modules)

\* Evidence the manifest has been merged with would change nothing in it.
Settled ==
  fresh =>
    /\ \A e \in Deps, c \in {"cpp_internal"} \union Kinds, d \in SUBSET Kinds :
         boundary[e] = c /\ Evidence(Modules)[e] = d => Relabelled(c, d) = c
    /\ \A f \in Seen(Modules) : reviews[f] # "absent"

MergeInv == PoolInv /\ Merging /\ Settled

LEMMA FindingsStay ==
  ASSUME tree' = tree
  PROVE  Evidence(Modules)' = Evidence(Modules) /\ Seen(Modules)' = Seen(Modules)
<1>1. \A m : Files(m)' = Files(m)
  BY SourcesStay
<1>2. \A m : Declares(m)' = Declares(m) /\ Defines(m)' = Defines(m)
  BY <1>1 DEF Declares, Defines
<1>3. \A m, d : CAbiEvidence(m, d)' = CAbiEvidence(m, d)
  BY <1>2 DEF CAbiEvidence
<1>4. Evidence(Modules)' = Evidence(Modules)
  BY <1>1, <1>3 DEF Evidence
<1>5. Seen(Modules)' = Seen(Modules)
  BY <1>1 DEF Seen
<1>6. QED
  BY <1>4, <1>5

LEMMA NextMerging ==
  ASSUME PoolInv, Merging, [Next]_vars
  PROVE  Merging'
<1> SUFFICES ASSUME phase' = "merge"
             PROVE  /\ tree' = tree
                    /\ found'.evidence = Evidence(Modules) /\ found'.seen = Seen(Modules)
  BY FindingsStay DEF Merging
<1>1. CASE Relate
  <2>1. total.has = Modules
    BY <1>1, PoolComplete DEF Relate, Scanned
  <2>2. found' = [evidence |-> Evidence(Modules), seen |-> Seen(Modules)]
    BY <1>1, <2>1 DEF Relate
  <2>3. QED
    BY <1>1, <2>2 DEF Relate
<1>2. CASE ~ Relate
  <2>1. CASE Join
    BY <2>1, JoinFacts DEF PoolInv
  <2>2. CASE ~ Join
    <3>1. phase = "merge" /\ tree' = tree /\ found' = found
      BY <1>2, <2>2 DEF Next, Threads, Begin, Take, ScanModule, Merge, Fail, Edit,
                        Resolve, vars
    <3>2. QED
      BY <3>1 DEF Merging
  <2>3. QED
    BY <2>1, <2>2
<1>3. QED
  BY <1>1, <1>2

LEMMA NextSettled ==
  ASSUME PoolInv, Merging, Settled, [Next]_vars
  PROVE  Settled'
<1> DEFINE labels == {"cpp_internal"} \union Kinds
           Kept == /\ tree' = tree
                   /\ \A e \in Deps, c \in labels, d \in SUBSET Kinds :
                        boundary'[e] = c /\ Evidence(Modules)[e] = d => Relabelled(c, d) = c
                   /\ \A f \in Seen(Modules) : reviews'[f] # "absent"
<1> SUFFICES ASSUME fresh' PROVE Kept
  BY FindingsStay DEF Settled
<1>1. Types
  BY DEF PoolInv
<1>2. CASE Merge
  <2>1. /\ found.evidence = Evidence(Modules) /\ found.seen = Seen(Modules)
        /\ tree' = tree
        /\ boundary' = [e \in Deps |-> Relabelled(boundary[e], found.evidence[e])]
        /\ reviews' = [f \in Findings |-> Merged(f)]
    BY <1>2 DEF Merge, Merging
  <2>2. Seen(Modules) \subseteq Findings
    BY FindsTypes
  <2>3. \A f \in Seen(Modules) : reviews'[f] # "absent"
    BY <2>1, <2>2 DEF Merged
  <2>4. ASSUME NEW e \in Deps, NEW c \in labels, NEW d \in SUBSET Kinds,
               boundary'[e] = c, Evidence(Modules)[e] = d
        PROVE  Relabelled(c, d) = c
    <3>1. c = Relabelled(boundary[e], d)
      BY <2>1, <2>4
    <3>2. QED
      BY <3>1, RelabelledOnce
  <2>5. QED
    BY <2>1, <2>3, <2>4
<1>3. ASSUME NEW f \in Findings, Resolve(f) PROVE Kept
  <2>1. /\ fresh /\ UNCHANGED <<tree, boundary>>
        /\ reviews' = [reviews EXCEPT ![f] = "resolved"]
    BY <1>3 DEF Resolve
  <2>2. \A g \in Findings : reviews'[g] = "absent" => reviews[g] = "absent"
    BY <1>1, <2>1 DEF Types
  <2>3. Seen(Modules) \subseteq Findings
    BY FindsTypes
  <2>4. QED
    BY <2>1, <2>2, <2>3 DEF Settled
<1>4. CASE ~ Merge /\ ~ (\E f \in Findings : Resolve(f))
  <2>1. fresh /\ tree' = tree /\ boundary' = boundary /\ reviews' = reviews
    BY <1>4 DEF Next, Threads, Begin, Take, ScanModule, Join, Relate, Fail, Edit,
                vars, manifest
  <2>2. QED
    BY <2>1 DEF Settled
<1>5. QED
  BY <1>2, <1>3, <1>4

LEMMA MergeHolds == Spec => []MergeInv
<1>1. Init => MergeInv
  BY InitPoolInv DEF Init, MergeInv, Merging, Settled
<1>2. MergeInv /\ [Next]_vars => MergeInv'
  BY NextPoolInv, NextMerging, NextSettled DEF MergeInv
<1>3. QED
  BY <1>1, <1>2, PTL DEF Spec

\* Scanning sources nobody has edited since the last scan leaves every label and
\* every decision, for every manifest (merge_reviews, scan_manifest).
THEOREM RescansChangeNothing == Spec => RescanChangesNothing
<1>1. ASSUME MergeInv, [Next]_vars, fresh, phase = "merge"
      PROVE  UNCHANGED manifest
  <2>1. Types /\ Merging /\ Settled
    BY <1>1 DEF MergeInv, PoolInv
  <2>2. CASE Merge
    <3>1. /\ found.evidence = Evidence(Modules) /\ found.seen = Seen(Modules)
          /\ boundary' = [e \in Deps |-> Relabelled(boundary[e], found.evidence[e])]
          /\ reviews' = [f \in Findings |-> Merged(f)]
      BY <2>1, <2>2 DEF Merge, Merging
    <3>2. /\ boundary \in [Deps -> {"cpp_internal"} \union Kinds]
          /\ reviews \in [Findings -> {"absent", "open", "resolved"}]
          /\ Evidence(Modules) \in [Deps -> SUBSET Kinds]
      BY <2>1, FindsTypes DEF Types
    <3>3. \A e \in Deps : Relabelled(boundary[e], Evidence(Modules)[e]) = boundary[e]
      BY <1>1, <2>1, <3>2 DEF Settled
    <3>4. boundary' = boundary
      BY <3>1, <3>2, <3>3
    <3>5. \A f \in Findings : Merged(f) = reviews[f]
      BY <1>1, <2>1, <3>1 DEF Merged, Settled
    <3>6. reviews' = reviews
      BY <3>1, <3>2, <3>5
    <3>7. QED
      BY <3>4, <3>6 DEF manifest
  <2>3. CASE ~ Merge
    BY <1>1, <2>3 DEF Next, Threads, Begin, Take, ScanModule, Join, Relate, Fail, Edit,
                      Resolve, vars
  <2>4. QED
    BY <2>2, <2>3
<1>2. QED
  BY <1>1, MergeHolds, PTL DEF Spec, RescanChangesNothing

-----------------------------------------------------------------------------
\* The lifecycle.

\* Lifecycle counts as this module does.
LEMMA SameCardinality == \A S : Life!Cardinality(S) = Cardinality(S)
  BY DEF Cardinality, Life!Cardinality

\* The merge of what was found is a scan of the lifecycle; a decision is the
\* lifecycle's own; nothing else touches the manifest.
LEMMA MergeIsScan ==
  ASSUME Merge
  PROVE  Life!Scan(found.evidence, found.seen)
<1>1. \A e \in Deps :
        Relabelled(boundary[e], found.evidence[e])
          = Life!ScannedBoundary(boundary[e], found.evidence[e])
  BY SameCardinality DEF Relabelled, Life!ScannedBoundary, Unaudited, Life!Unaudited
<1>2. \A f \in Findings :
        Merged(f) = IF f \in found.seen THEN Life!MergedReview(reviews[f]) ELSE reviews[f]
  BY DEF Merged, Life!MergedReview
<1>3. /\ boundary' = [e \in Deps |-> Relabelled(boundary[e], found.evidence[e])]
      /\ reviews' = [f \in Findings |-> Merged(f)]
  BY DEF Merge
<1>4. boundary' = [e \in Deps |->
                     Life!ScannedBoundary(boundary[e], found.evidence[e])]
  BY <1>1, <1>3
<1>5. reviews' = [f \in Findings |->
                    IF f \in found.seen THEN Life!MergedReview(reviews[f]) ELSE reviews[f]]
  BY <1>2, <1>3
<1>6. QED
  BY <1>4, <1>5 DEF Life!Scan

LEMMA ResolveIsResolve ==
  ASSUME NEW f \in Findings, Resolve(f)
  PROVE  Life!Resolve(f)
BY DEF Resolve, Life!Resolve

LEMMA OthersLeaveManifest ==
  ASSUME [Next]_vars, ~ Merge, ~ (\E f \in Findings : Resolve(f))
  PROVE  UNCHANGED manifest
BY DEF Next, Threads, Begin, Take, ScanModule, Join, Relate, Fail, Edit, vars, manifest

LEMMA InitIsImport ==
  ASSUME Init
  PROVE  Life!Init
BY DEF Init, Life!Init, Life!ImportedState, Life!InferredBoundary, Life!LegacyCpp

\* Seen from the manifest, a pool of any size and its merge are one scan
\* (scan_manifest).
THEOREM ScanIsOneStep == Spec => ImplementsLifecycle
<1>1. [Next]_vars =>
        [\/ phase = "merge" /\ Life!Scan(found.evidence, found.seen)
         \/ \E f \in Findings : Life!Resolve(f)]_manifest
  BY MergeIsScan, ResolveIsResolve, OthersLeaveManifest DEF Merge
<1>2. QED
  BY <1>1, InitIsImport, PTL DEF Spec, ImplementsLifecycle

\* What is proved of the lifecycle of a manifest holds of one that is scanned by
\* a pool: evidence and findings are of the kinds the lifecycle knows.
THEOREM ScanRefinesLifecycle == Spec => Life!Spec
<1>1. PoolInv /\ [Next]_vars => [Life!Next]_(Life!vars)
  <2> SUFFICES ASSUME PoolInv, [Next]_vars PROVE [Life!Next]_(Life!vars)
    OBVIOUS
  <2>1. CASE Merge
    <3>1. found.evidence \in [Deps -> SUBSET Kinds] /\ found.seen \in SUBSET Findings
      BY DEF PoolInv, Types
    <3>2. QED
      BY <2>1, <3>1, MergeIsScan DEF Life!Next, Kinds
  <2>2. ASSUME NEW f \in Findings, Resolve(f) PROVE Life!Next
    BY <2>2, ResolveIsResolve DEF Life!Next
  <2>3. CASE ~ Merge /\ ~ (\E f \in Findings : Resolve(f))
    BY <2>3, OthersLeaveManifest DEF Life!vars, manifest
  <2>4. QED
    BY <2>1, <2>2, <2>3
<1>2. QED
  BY <1>1, InitIsImport, PoolHolds, PTL DEF Spec, Life!Spec

-----------------------------------------------------------------------------
\* C symbols.

\* c is a counter of the lines 1 .. N that starts at those of O, adds F at those
\* of C and never goes below zero; sum[j][k] is what j .. k add.
Counter(N, O, C, F, c, sum) ==
  /\ c[0] = 0
  /\ \A n \in 1 .. N : F[n] \in Int
  /\ \A n \in 1 .. N : c[n - 1] \in Nat =>
       c[n] = IF n \in C /\ (n \in O \/ c[n - 1] > 0)
                THEN (IF c[n - 1] + F[n] < 0 THEN 0 ELSE c[n - 1] + F[n])
                ELSE c[n - 1]
  /\ \A j, k \in 1 .. N : j <= k => sum[j][k] \in Int
  /\ \A j \in 1 .. N : sum[j][j] = IF j \in C THEN F[j] ELSE 0
  /\ \A j, k \in 1 .. N : j < k =>
       sum[j][k] = IF k \in C THEN sum[j][k - 1] + F[k] ELSE sum[j][k - 1]

\* It is positive exactly inside of what a line of O began and nothing closed,
\* and is then the sum since that line.  Where it was kept at zero does not
\* matter, since no sum from before is positive any more.
LEMMA CounterNests ==
  ASSUME NEW N \in Nat, NEW O, NEW C, NEW F, NEW c, NEW sum, Counter(N, O, C, F, c, sum)
  PROVE  \A n \in 0 .. N :
           /\ c[n] \in Nat
           /\ c[n] > 0 <=> \E j \in 1 .. n : j \in O /\ \A k \in j .. n : sum[j][k] > 0
<1> DEFINE Runs(j, n) == j \in O /\ \A k \in j .. n : sum[j][k] > 0
           Good(n) == /\ c[n] \in Nat
                      /\ c[n] > 0 => \E j \in 1 .. n : Runs(j, n) /\ c[n] = sum[j][n]
                      /\ \A j \in 1 .. n : Runs(j, n) => c[n] >= sum[j][n]
           T == {n \in Nat : n <= N => Good(n)}
<1> USE DEF Counter
<1>1. Good(0)
  OBVIOUS
<1>2. 0 \in T
  <2> HIDE DEF Good
  <2> QED BY <1>1
<1>3. ASSUME NEW n \in Nat, n \in T PROVE n + 1 \in T
  <2> SUFFICES ASSUME n + 1 <= N PROVE Good(n + 1)
    <3> HIDE DEF Good
    <3> QED OBVIOUS
  <2>1. Good(n)
    <3> HIDE DEF Good
    <3>1. n <= N
      OBVIOUS
    <3> QED BY <1>3, <3>1
  <2> DEFINE m == n + 1
  <2>2. /\ m \in 1 .. N /\ m - 1 = n /\ F[m] \in Int /\ c[n] \in Nat
        /\ \A j \in 1 .. n : j \in 1 .. N /\ n \in 1 .. N /\ j < m /\ j <= n
    BY <2>1
  <2>3. c[m] = IF m \in C /\ (m \in O \/ c[n] > 0)
                 THEN (IF c[n] + F[m] < 0 THEN 0 ELSE c[n] + F[m])
                 ELSE c[n]
    BY <2>2
  <2>4. \A j \in 1 .. n : /\ sum[j][n] \in Int
                          /\ sum[j][m] = IF m \in C THEN sum[j][n] + F[m] ELSE sum[j][n]
    BY <2>2
  <2>5. sum[m][m] = IF m \in C THEN F[m] ELSE 0
    BY <2>2
  <2>6. \A j \in 1 .. n : Runs(j, m) <=> Runs(j, n) /\ sum[j][m] > 0
    <3> SUFFICES ASSUME NEW j \in 1 .. n PROVE Runs(j, m) <=> Runs(j, n) /\ sum[j][m] > 0
      OBVIOUS
    <3>1. \A k : k \in j .. m <=> k \in j .. n \/ k = m
      OBVIOUS
    <3> HIDE DEF m
    <3> QED BY <3>1
  <2>7. Runs(m, m) <=> m \in O /\ sum[m][m] > 0
    <3>1. \A k : k \in m .. m <=> k = m
      OBVIOUS
    <3> HIDE DEF m
    <3> QED BY <3>1
  <2>8. \A j \in 1 .. n : Runs(j, n) => sum[j][n] > 0
    <3>1. \A j \in 1 .. n : n \in j .. n
      OBVIOUS
    <3> QED BY <3>1
  <2>9. (\A j : j \in 1 .. m <=> j \in 1 .. n \/ j = m) /\ m \notin 1 .. n
    OBVIOUS
  <2>10. /\ c[n] > 0 => \E j \in 1 .. n : Runs(j, n) /\ c[n] = sum[j][n]
         /\ \A j \in 1 .. n : Runs(j, n) => c[n] >= sum[j][n]
    BY <2>1
  <2> HIDE DEF m, Runs
  <2>11. c[m] \in Nat
    BY <2>2, <2>3
  <2>12. ASSUME c[m] > 0 PROVE \E j \in 1 .. m : Runs(j, m) /\ c[m] = sum[j][m]
    <3>1. CASE c[n] > 0
      <4>1. PICK j \in 1 .. n : Runs(j, n) /\ c[n] = sum[j][n]
        BY <2>10, <3>1
      <4>2. c[m] = sum[j][m]
        BY <2>2, <2>3, <2>4, <2>12, <3>1, <4>1
      <4>3. Runs(j, m)
        BY <2>6, <2>12, <4>1, <4>2
      <4> QED BY <2>9, <4>2, <4>3
    <3>2. CASE ~ (c[n] > 0)
      <4>1. c[n] = 0
        BY <2>2, <3>2
      <4>2. m \in C /\ m \in O /\ c[m] = F[m]
        BY <2>2, <2>3, <2>12, <4>1
      <4> QED BY <2>5, <2>7, <2>9, <2>12, <4>2
    <3> QED BY <3>1, <3>2
  <2>13. ASSUME NEW j \in 1 .. m, Runs(j, m) PROVE c[m] >= sum[j][m]
    <3>1. CASE j = m
      <4>1. m \in O /\ sum[m][m] > 0
        BY <2>7, <2>13, <3>1
      <4>2. m \in C /\ sum[m][m] = F[m]
        BY <2>5, <4>1
      <4>3. c[m] = c[n] + F[m]
        BY <2>2, <2>3, <4>1, <4>2
      <4> QED BY <2>2, <3>1, <4>2, <4>3
    <3>2. CASE j \in 1 .. n
      <4>1. Runs(j, n) /\ sum[j][m] > 0 /\ sum[j][n] > 0 /\ sum[j][n] \in Int
        BY <2>4, <2>6, <2>8, <2>13, <3>2
      <4>2. c[n] >= sum[j][n] /\ c[n] > 0
        BY <2>2, <2>10, <3>2, <4>1
      <4> QED BY <2>2, <2>3, <2>4, <3>2, <4>1, <4>2
    <3> QED BY <2>9, <3>1, <3>2
  <2>14. Good(m)
    BY <2>11, <2>12, <2>13
  <2> HIDE DEF Good
  <2> QED BY <2>14 DEF m
<1>4. Nat \subseteq T
  <2> HIDE DEF T
  <2> QED BY <1>2, <1>3, Induct
<1>5. \A n \in 0 .. N : Good(n)
  <2> HIDE DEF Good
  <2>1. \A n \in 0 .. N : n \in Nat /\ n <= N
    OBVIOUS
  <2> QED BY <1>4, <2>1
<1>6. \A n \in 0 .. N : \A j \in 1 .. n : Runs(j, n) => sum[j][n] > 0 /\ sum[j][n] \in Int
  <2>1. \A n \in 0 .. N : \A j \in 1 .. n : n \in j .. n /\ j \in 1 .. N /\ n \in 1 .. N /\ j <= n
    OBVIOUS
  <2> QED BY <2>1
<1>7. ASSUME NEW n \in 0 .. N
      PROVE  c[n] \in Nat /\ (c[n] > 0 <=> \E j \in 1 .. n : Runs(j, n))
  <2>1. Good(n)
    <3> HIDE DEF Good
    <3> QED BY <1>5
  <2> HIDE DEF Runs
  <2> QED BY <1>6, <2>1
<1> QED BY <1>7

\* What a line makes of the counters and of what was found before it.
Scans(f, D, lines) ==
  f = [s \in D |->
         IF s = {} THEN [cpp |-> 0, rust |-> 0, declares |-> {}, defines |-> {}]
         ELSE CAbiLine(f[s \ {Max(s)}], lines[Max(s)])]

\* There is a function that scans the lines of every set of positions.
LEMMA ScansExist ==
  ASSUME NEW N \in Nat, NEW lines
  PROVE  \E f : Scans(f, SUBSET (1 .. N), lines)
<1> DEFINE S == 1 .. N
           T == {n \in Nat : \E f : Scans(f, Small(S, n), lines)}
           base == [cpp |-> 0, rust |-> 0, declares |-> {}, defines |-> {}]
<1>0. IsFiniteSet(S) /\ Cardinality(S) \in Nat
  BY FS_Interval, FS_CardinalityType
<1>1. 0 \in T
  <2> DEFINE f == [s \in Small(S, 0) |-> base]
  <2>1. \A s \in Small(S, 0) : s = {}
    BY <1>0, SmallSet
  <2>2. Scans(f, Small(S, 0), lines)
    BY <2>1 DEF Scans
  <2> HIDE DEF f, S
  <2> QED BY <2>2
<1>2. ASSUME NEW n \in Nat, n \in T PROVE n + 1 \in T
  <2>1. PICK f : Scans(f, Small(S, n), lines)
    BY <1>2
  <2> DEFINE h == [s \in Small(S, n + 1) |->
                     IF s = {} THEN base ELSE CAbiLine(f[s \ {Max(s)}], lines[Max(s)])]
  <2>2. \A s \in Small(S, n + 1) : s # {} =>
          s \ {Max(s)} \in Small(S, n) /\ s \ {Max(s)} \in Small(S, n + 1)
    BY MaxLess
  <2>3. \A s \in Small(S, n) : s \in Small(S, n + 1) /\ h[s] = f[s]
    <3> SUFFICES ASSUME NEW s \in Small(S, n) PROVE s \in Small(S, n + 1) /\ h[s] = f[s]
      OBVIOUS
    <3>1. s \in Small(S, n + 1)
      <4> HIDE DEF S
      <4> QED BY <1>0, SmallSet DEF Small
    <3>2. f[s] = IF s = {} THEN base ELSE CAbiLine(f[s \ {Max(s)}], lines[Max(s)])
      <4> HIDE DEF S
      <4> QED BY <2>1 DEF Scans
    <3> HIDE DEF S, base
    <3> QED BY <3>1, <3>2
  <2>4. \A s \in Small(S, n + 1) :
          h[s] = IF s = {} THEN base ELSE CAbiLine(h[s \ {Max(s)}], lines[Max(s)])
    <3> HIDE DEF S, base
    <3> QED BY <2>2, <2>3
  <2>5. Scans(h, Small(S, n + 1), lines)
    <3>1. h = [s \in Small(S, n + 1) |-> h[s]] OBVIOUS
    <3> HIDE DEF h, S
    <3> QED BY <3>1, <2>4 DEF Scans
  <2> HIDE DEF h, S
  <2> QED BY <2>5
<1>3. Nat \subseteq T
  <2> HIDE DEF T, S
  <2> QED BY <1>1, <1>2, Induct
<1>4. Small(S, Cardinality(S)) = SUBSET S
  <2> HIDE DEF S
  <2> QED BY <1>0, FS_Subset DEF Small
<1> HIDE DEF S
<1>5. PICK f : Scans(f, Small(S, Cardinality(S)), lines)
  BY <1>0, <1>3
<1> QED BY <1>4, <1>5 DEF S

\* What FoldLeft makes of the lines: at[n] is the scan after n of them.
LEMMA ScanUnfolds ==
  ASSUME NEW N \in Nat, NEW lines, DOMAIN lines = 1 .. N
  PROVE  \E at : /\ at[0] = [cpp |-> 0, rust |-> 0, declares |-> {}, defines |-> {}]
                 /\ \A n \in 1 .. N : at[n] = CAbiLine(at[n - 1], lines[n])
                 /\ CAbi(lines) = at[N]
<1> DEFINE base == [cpp |-> 0, rust |-> 0, declares |-> {}, defines |-> {}]
           f == CHOOSE f : f = [s \in SUBSET (1 .. N) |-> IF s = {} THEN base
                  ELSE CAbiLine(f[s \ {Max(s)}], lines[Max(s)])]
           at == [n \in 0 .. N |-> f[1 .. n]]
<1>1. \E i : i = [s \in SUBSET (1 .. N) |-> IF s = {} THEN base
                  ELSE CAbiLine(i[s \ {Max(s)}], lines[Max(s)])]
  <2>1. PICK i : Scans(i, SUBSET (1 .. N), lines)
    BY ScansExist
  <2> QED BY <2>1 DEF Scans
<1>2. \A s \in SUBSET (1 .. N) :
        f[s] = IF s = {} THEN base ELSE CAbiLine(f[s \ {Max(s)}], lines[Max(s)])
  <2>1. f = [s \in SUBSET (1 .. N) |-> IF s = {} THEN base
                  ELSE CAbiLine(f[s \ {Max(s)}], lines[Max(s)])]
    BY <1>1
  <2> HIDE DEF f, base
  <2> QED BY <2>1
<1>3. CAbi(lines) = f[1 .. N]
  BY DEF CAbi, FoldLeft, MapThenFoldSet
<1> HIDE DEF f, base
<1>4. at[0] = base
  <2>1. {} \in SUBSET (1 .. N) /\ 1 .. 0 = {} /\ 0 \in 0 .. N
    OBVIOUS
  <2> QED BY <1>2, <2>1
<1>5. ASSUME NEW n \in 1 .. N PROVE at[n] = CAbiLine(at[n - 1], lines[n])
  <2>1. n - 1 \in Nat /\ (n - 1) + 1 = n /\ n <= N /\ n \in 0 .. N /\ n - 1 \in 0 .. N
    OBVIOUS
  <2>2. 1 .. n \in SUBSET (1 .. N) /\ n \in 1 .. n /\ (1 .. n) \ {n} = 1 .. n - 1
    BY <2>1, FirstNumbers
  <2>3. Max(1 .. n) \in 1 .. n /\ \A y \in 1 .. n : y <= Max(1 .. n)
    BY <2>2, MaxIn
  <2>4. Max(1 .. n) = n
    <3>1. n <= Max(1 .. n)
      BY <2>2, <2>3
    <3> QED BY <2>3, <3>1
  <2>5. f[1 .. n] = CAbiLine(f[1 .. n - 1], lines[n])
    BY <1>2, <2>2, <2>4
  <2> QED BY <2>1, <2>5
<1>6. CAbi(lines) = at[N]
  BY <1>3
<1> HIDE DEF at
<1> QED BY <1>4, <1>5, <1>6 DEF base

\* The braces of the lines at the positions R.
Braces(lines, R) ==
  MapThenSumSet(LAMBDA n : lines[n].opens - lines[n].closes, R)

\* Those of the lines j .. k that count.
Stretch(lines, C, j, k) == Braces(lines, {n \in j .. k : n \in C})

\* They are one sum, whatever positions they are taken on.
LEMMA BracesAreSums ==
  ASSUME NEW S, IsFiniteSet(S), NEW lines, NEW F, NEW f,
         F = [n \in S |-> lines[n].opens - lines[n].closes],
         IsSum(f, SUBSET S, F), NEW R \in SUBSET S
  PROVE  Braces(lines, R) = f[R]
<1> DEFINE g == CHOOSE g : g = [s \in SUBSET R |-> IF s = {} THEN 0
                  ELSE (lines[One(s)].opens - lines[One(s)].closes) + g[s \ {One(s)}]]
<1>1. IsFiniteSet(R)
  BY FS_Subset
<1>2. \A s \in SUBSET R : s # {} =>
        F[One(s)] = lines[One(s)].opens - lines[One(s)].closes
  BY <1>1, OneLess
<1>3. \E i : i = [s \in SUBSET R |-> IF s = {} THEN 0
                  ELSE (lines[One(s)].opens - lines[One(s)].closes) + i[s \ {One(s)}]]
  <2>1. PICK i : IsSum(i, SUBSET R, F)
    BY <1>1, SumExists
  <2>2. i = [s \in SUBSET R |-> IF s = {} THEN 0
               ELSE (lines[One(s)].opens - lines[One(s)].closes) + i[s \ {One(s)}]]
    BY <1>2, <2>1 DEF IsSum
  <2> QED BY <2>2
<1>4. IsSum(g, SUBSET R, F)
  <2>1. g = [s \in SUBSET R |-> IF s = {} THEN 0
               ELSE (lines[One(s)].opens - lines[One(s)].closes) + g[s \ {One(s)}]]
    BY <1>3
  <2> HIDE DEF g
  <2> QED BY <1>2, <2>1 DEF IsSum
<1>5. Braces(lines, R) = g[R]
  BY DEF Braces, MapThenSumSet, MapThenFoldSet, One
<1> HIDE DEF g
<1>6. f[R] = g[R]
  BY <1>4, SumsAgree
<1> QED BY <1>5, <1>6

\* F is what each of the lines 1 .. N adds.
Delta(N, lines, F) ==
  /\ \A n \in 1 .. N : lines[n].opens \in Nat /\ lines[n].closes \in Nat
  /\ F = [n \in 1 .. N |-> lines[n].opens - lines[n].closes]

\* Stretches grow by what each line adds.
Grows(N, lines, C, F) ==
  \A j, k \in 1 .. N :
    /\ Stretch(lines, C, j, k) \in Int
    /\ Stretch(lines, C, j, j) = IF j \in C THEN F[j] ELSE 0
    /\ j < k => Stretch(lines, C, j, k) =
                 IF k \in C THEN Stretch(lines, C, j, k - 1) + F[k]
                            ELSE Stretch(lines, C, j, k - 1)

\* The sum over a stretch of lines grows with each line that counts.
LEMMA BracesGrow ==
  ASSUME NEW N \in Nat, NEW lines, NEW C,
         NEW F, Delta(N, lines, F)
  PROVE  Grows(N, lines, C, F)
<1> DEFINE S == 1 .. N
           P(j, k) == {n \in j .. k : n \in C}
           B(j, k) == Braces(lines, P(j, k))
<1>1. IsFiniteSet(S) /\ \A n \in S : F[n] \in Int
  <2>1. IsFiniteSet(S)
    BY FS_Interval
  <2>2. \A n \in S : lines[n].opens - lines[n].closes \in Int
    BY DEF Delta
  <2>3. \A n \in S : F[n] = lines[n].opens - lines[n].closes
    BY DEF Delta
  <2> HIDE DEF S
  <2> QED BY <2>1, <2>2, <2>3
<1>2. PICK f : IsSum(f, SUBSET S, F)
  BY <1>1, SumExists
<1>3. \A R \in SUBSET S : Braces(lines, R) = f[R]
  <2>1. F = [n \in S |-> lines[n].opens - lines[n].closes]
    BY DEF Delta
  <2> HIDE DEF S
  <2> QED BY <1>1, <1>2, <2>1, BracesAreSums
<1>4. \A s \in SUBSET S : f[s] \in Int /\ \A n \in s : f[s] = F[n] + f[s \ {n}]
  <2> HIDE DEF S
  <2>1. IsFiniteSet(S) /\ IsSum(f, SUBSET S, F) /\ \A x \in S : F[x] \in Int
    BY <1>1, <1>2
  <2> SUFFICES ASSUME NEW s \in SUBSET S
               PROVE  f[s] \in Int /\ \A n \in s : f[s] = F[n] + f[s \ {n}]
    OBVIOUS
  <2>2. f[s] \in Int
    BY <2>1, SumAdds
  <2>3. ASSUME NEW n \in s PROVE f[s] = F[n] + f[s \ {n}]
    BY <2>1, SumAdds
  <2> QED BY <2>2, <2>3
<1>5. f[{}] = 0
  <2>1. {} \in SUBSET S
    OBVIOUS
  <2> HIDE DEF S
  <2> QED BY <1>2, <2>1 DEF IsSum
<1>6. \A j, k \in S : P(j, k) \in SUBSET S
  OBVIOUS
<1>7. ASSUME NEW j \in S PROVE B(j, j) = IF j \in C THEN F[j] ELSE 0
  <2>1. P(j, j) = IF j \in C THEN {j} ELSE {}
    OBVIOUS
  <2>2. CASE j \in C
    <3>1. P(j, j) = {j} /\ {j} \ {j} = {} /\ {j} \in SUBSET S
      BY <2>1, <2>2
    <3>2. f[{j}] = F[j] + f[{}] /\ F[j] \in Int
      BY <1>1, <1>4, <3>1
    <3> HIDE DEF P, S
    <3>3. B(j, j) = f[{j}]
      BY <1>3, <3>1
    <3> QED BY <1>5, <2>2, <3>2, <3>3
  <2>3. CASE j \notin C
    <3>1. P(j, j) = {} /\ {} \in SUBSET S
      BY <2>1, <2>3
    <3> HIDE DEF P, S
    <3>2. B(j, j) = f[{}]
      BY <1>3, <3>1
    <3> QED BY <1>5, <2>3, <3>2
  <2> QED BY <2>2, <2>3
<1>8. ASSUME NEW j \in S, NEW k \in S, j < k
      PROVE  B(j, k) = IF k \in C THEN B(j, k - 1) + F[k] ELSE B(j, k - 1)
  <2>1. k - 1 \in S /\ \A n : n \in j .. k <=> n \in j .. k - 1 \/ n = k
    BY <1>8
  <2>2. k \notin j .. k - 1
    OBVIOUS
  <2>3. P(j, k) \in SUBSET S /\ P(j, k - 1) \in SUBSET S
    BY <1>6, <2>1
  <2>4. CASE k \in C
    <3>1. k \in P(j, k) /\ P(j, k) \ {k} = P(j, k - 1)
      BY <2>1, <2>2, <2>4
    <3> HIDE DEF P, S
    <3>2. f[P(j, k)] = F[k] + f[P(j, k - 1)] /\ F[k] \in Int /\ f[P(j, k - 1)] \in Int
      BY <1>1, <1>4, <2>3, <3>1
    <3> QED BY <1>3, <2>3, <2>4, <3>2
  <2>5. CASE k \notin C
    <3>1. P(j, k) = P(j, k - 1)
      BY <2>1, <2>5
    <3> HIDE DEF P, S
    <3> QED BY <2>5, <3>1
  <2> QED BY <2>4, <2>5
<1>9. \A j, k \in S : B(j, k) \in Int
  <2> HIDE DEF P, S
  <2> QED BY <1>3, <1>4, <1>6
<1>10. \A j, k \in S : B(j, k) = Stretch(lines, C, j, k)
  BY DEF Stretch
<1>11. \A j, k \in S : j < k => k - 1 \in S
  OBVIOUS
<1> HIDE DEF B
<1> QED BY <1>7, <1>8, <1>9, <1>10, <1>11 DEF Grows

\* The two counters after each line are those of the blocks it lies in.
LEMMA CountersNest ==
  ASSUME NEW N \in Nat, NEW lines, NEW at,
         \A n \in 1 .. N : lines[n].opens \in Nat /\ lines[n].closes \in Nat,
         at[0] = [cpp |-> 0, rust |-> 0, declares |-> {}, defines |-> {}],
         \A n \in 1 .. N : at[n] = CAbiLine(at[n - 1], lines[n])
  PROVE  \A n \in 1 .. N :
           /\ lines[n].externC \/ at[n - 1].cpp > 0 <=> InCpp(lines, n)
           /\ at[n - 1].rust > 0 <=> InRust(lines, n)
<1> DEFINE F == [n \in 1 .. N |-> lines[n].opens - lines[n].closes]
           CC == {n \in 1 .. N : ~ lines[n].comment}
           CR == {n \in 1 .. N : ~ lines[n].comment /\ ~ lines[n].externFn}
           OC == {n \in 1 .. N : ~ lines[n].comment /\ lines[n].externC}
           OR == {n \in 1 .. N : ~ lines[n].comment /\ lines[n].externC /\ lines[n].opens > 0}
           c == [n \in 0 .. N |-> at[n].cpp]
           r == [n \in 0 .. N |-> at[n].rust]
           sc == [j \in 1 .. N |-> [k \in 1 .. N |-> Stretch(lines, CC, j, k)]]
           sr == [j \in 1 .. N |-> [k \in 1 .. N |-> Stretch(lines, CR, j, k)]]
<1>1. /\ 0 \in 0 .. N
      /\ \A n \in 1 .. N : n \in 0 .. N /\ n - 1 \in 0 .. N /\ n - 1 \in Nat
      /\ \A j, k \in 1 .. N : j < k => k - 1 \in 1 .. N
  OBVIOUS
<1>2. \A n \in 1 .. N : F[n] \in Int /\ F[n] = lines[n].opens - lines[n].closes
  OBVIOUS
<1>3. c[0] = 0 /\ r[0] = 0
  BY <1>1
<1>4. ASSUME NEW n \in 1 .. N, NEW d \in Nat
      PROVE  Depth(d, lines[n]) = IF d + F[n] < 0 THEN 0 ELSE d + F[n]
  <2>1. lines[n].opens \in Nat /\ lines[n].closes \in Nat
    OBVIOUS
  <2>2. F[n] = lines[n].opens - lines[n].closes
    BY <1>2
  <2> HIDE DEF F
  <2> QED BY <2>1, <2>2 DEF Depth
<1>5. ASSUME NEW n \in 1 .. N
      PROVE  /\ c[n] = IF n \in CC /\ (n \in OC \/ c[n - 1] > 0)
                         THEN Depth(c[n - 1], lines[n]) ELSE c[n - 1]
             /\ r[n] = IF n \in CR /\ (n \in OR \/ r[n - 1] > 0)
                         THEN Depth(r[n - 1], lines[n]) ELSE r[n - 1]
  <2>1. /\ c[n] = at[n].cpp /\ c[n - 1] = at[n - 1].cpp
        /\ r[n] = at[n].rust /\ r[n - 1] = at[n - 1].rust
    BY <1>1
  <2>2. /\ n \in CC <=> ~ lines[n].comment
        /\ n \in CR <=> ~ lines[n].comment /\ ~ lines[n].externFn
        /\ n \in OC <=> ~ lines[n].comment /\ lines[n].externC
        /\ n \in OR <=> ~ lines[n].comment /\ lines[n].externC /\ lines[n].opens > 0
    OBVIOUS
  <2>3. at[n] = CAbiLine(at[n - 1], lines[n])
    OBVIOUS
  <2> DEFINE s == at[n - 1]
             l == lines[n]
  <2> HIDE DEF c, r, CC, CR, OC, OR, s, l
  <2>4. /\ at[n].cpp = IF ~ l.comment /\ (l.externC \/ s.cpp > 0) THEN Depth(s.cpp, l) ELSE s.cpp
        /\ at[n].rust = IF ~ l.comment /\ ~ l.externFn /\ ((l.externC /\ l.opens > 0) \/ s.rust > 0)
                          THEN Depth(s.rust, l) ELSE s.rust
    <3>1. at[n] = CAbiLine(s, l)
      BY <2>3 DEF s, l
    <3>2. CASE l.comment
      BY <3>1, <3>2 DEF CAbiLine
    <3>3. CASE ~ l.comment
      BY <3>1, <3>3 DEF CAbiLine
    <3> QED BY <3>2, <3>3
  <2>5. c[n] = IF n \in CC /\ (n \in OC \/ c[n - 1] > 0)
                 THEN Depth(c[n - 1], lines[n]) ELSE c[n - 1]
    BY <2>1, <2>2, <2>4 DEF s, l
  <2>6. r[n] = IF n \in CR /\ (n \in OR \/ r[n - 1] > 0)
                 THEN Depth(r[n - 1], lines[n]) ELSE r[n - 1]
    BY <2>1, <2>2, <2>4 DEF s, l
  <2> QED BY <2>5, <2>6
<1>6. /\ \A n \in 1 .. N : c[n - 1] \in Nat =>
           c[n] = IF n \in CC /\ (n \in OC \/ c[n - 1] > 0)
                    THEN (IF c[n - 1] + F[n] < 0 THEN 0 ELSE c[n - 1] + F[n])
                    ELSE c[n - 1]
      /\ \A n \in 1 .. N : r[n - 1] \in Nat =>
           r[n] = IF n \in CR /\ (n \in OR \/ r[n - 1] > 0)
                    THEN (IF r[n - 1] + F[n] < 0 THEN 0 ELSE r[n - 1] + F[n])
                    ELSE r[n - 1]
  <2> HIDE DEF c, r, CC, CR, OC, OR, F
  <2> QED BY <1>4, <1>5
<1>7. /\ \A j, k \in 1 .. N : j <= k => sc[j][k] \in Int
      /\ \A j \in 1 .. N : sc[j][j] = IF j \in CC THEN F[j] ELSE 0
      /\ \A j, k \in 1 .. N : j < k =>
           sc[j][k] = IF k \in CC THEN sc[j][k - 1] + F[k] ELSE sc[j][k - 1]
  <2>1. \A j, k \in 1 .. N : sc[j][k] = Stretch(lines, CC, j, k)
    OBVIOUS
  <2>2. Delta(N, lines, F)
    BY DEF Delta
  <2> HIDE DEF sc, CC, F
  <2>3. Grows(N, lines, CC, F)
    BY <2>2, BracesGrow
  <2> QED BY <1>1, <2>1, <2>3 DEF Grows
<1>8. /\ \A j, k \in 1 .. N : j <= k => sr[j][k] \in Int
      /\ \A j \in 1 .. N : sr[j][j] = IF j \in CR THEN F[j] ELSE 0
      /\ \A j, k \in 1 .. N : j < k =>
           sr[j][k] = IF k \in CR THEN sr[j][k - 1] + F[k] ELSE sr[j][k - 1]
  <2>1. \A j, k \in 1 .. N : sr[j][k] = Stretch(lines, CR, j, k)
    OBVIOUS
  <2>2. Delta(N, lines, F)
    BY DEF Delta
  <2> HIDE DEF sr, CR, F
  <2>3. Grows(N, lines, CR, F)
    BY <2>2, BracesGrow
  <2> QED BY <1>1, <2>1, <2>3 DEF Grows
<1>9. \A n \in 0 .. N :
        c[n] > 0 <=> \E j \in 1 .. n : j \in OC /\ \A k \in j .. n : sc[j][k] > 0
  <2> HIDE DEF c, sc, CC, OC, F
  <2>1. Counter(N, OC, CC, F, c, sc)
    BY <1>2, <1>3, <1>6, <1>7 DEF Counter
  <2> QED BY <2>1, CounterNests
<1>10. \A n \in 0 .. N :
         r[n] > 0 <=> \E j \in 1 .. n : j \in OR /\ \A k \in j .. n : sr[j][k] > 0
  <2> HIDE DEF r, sr, CR, OR, F
  <2>1. Counter(N, OR, CR, F, r, sr)
    BY <1>2, <1>3, <1>6, <1>8 DEF Counter
  <2> QED BY <2>1, CounterNests
<1>11. ASSUME NEW n \in 1 .. N
       PROVE  at[n - 1].cpp > 0 <=>
                Inside(lines, n, LAMBDA l : ~ l.comment /\ l.externC, LAMBDA l : ~ l.comment)
  <2>1. at[n - 1].cpp = c[n - 1] /\ n - 1 \in 0 .. N
    BY <1>1
  <2>2. \A j, k \in 1 .. N : {m \in j .. k : ~ lines[m].comment} = {m \in j .. k : m \in CC}
    OBVIOUS
  <2>3. \A j, k \in 1 .. N : sc[j][k] = Stretch(lines, CC, j, k)
    OBVIOUS
  <2>4. \A j \in 1 .. N : j \in OC <=> ~ lines[j].comment /\ lines[j].externC
    OBVIOUS
  <2>5. \A j \in 1 .. n - 1 : j \in 1 .. N /\ \A k \in j .. n - 1 : k \in 1 .. N
    OBVIOUS
  <2> HIDE DEF c, sc, CC, OC, F
  <2>6. \A j, k \in 1 .. N : sc[j][k] = Braces(lines, {m \in j .. k : ~ lines[m].comment})
    BY <2>2, <2>3 DEF Stretch
  <2> DEFINE b(j, k) == Braces(lines, {m \in j .. k : ~ lines[m].comment})
  <2> HIDE DEF b
  <2>7. \A j \in 1 .. n - 1, k \in 1 .. N : sc[j][k] = b(j, k)
    BY <2>5, <2>6 DEF b
  <2>8. at[n - 1].cpp > 0 <=>
          \E j \in 1 .. n - 1 : j \in OC /\ \A k \in j .. n - 1 : sc[j][k] > 0
    BY <1>9, <2>1
  <2>9. at[n - 1].cpp > 0 <=>
          \E j \in 1 .. n - 1 : /\ ~ lines[j].comment /\ lines[j].externC
                               /\ \A k \in j .. n - 1 : b(j, k) > 0
    BY <2>4, <2>5, <2>7, <2>8
  <2> QED BY <2>9 DEF Inside, Braces, b
<1>12. ASSUME NEW n \in 1 .. N PROVE at[n - 1].rust > 0 <=> InRust(lines, n)
  <2>1. at[n - 1].rust = r[n - 1] /\ n - 1 \in 0 .. N
    BY <1>1
  <2>2. \A j, k \in 1 .. N : {m \in j .. k : ~ lines[m].comment /\ ~ lines[m].externFn}
                               = {m \in j .. k : m \in CR}
    OBVIOUS
  <2>3. \A j, k \in 1 .. N : sr[j][k] = Stretch(lines, CR, j, k)
    OBVIOUS
  <2>4. \A j \in 1 .. N : j \in OR <=> ~ lines[j].comment /\ lines[j].externC /\ lines[j].opens > 0
    OBVIOUS
  <2>5. \A j \in 1 .. n - 1 : j \in 1 .. N /\ \A k \in j .. n - 1 : k \in 1 .. N
    OBVIOUS
  <2> HIDE DEF r, sr, CR, OR, F
  <2>6. \A j, k \in 1 .. N :
          sr[j][k] = Braces(lines, {m \in j .. k : ~ lines[m].comment /\ ~ lines[m].externFn})
    BY <2>2, <2>3 DEF Stretch
  <2> DEFINE b(j, k) ==
               Braces(lines, {m \in j .. k : ~ lines[m].comment /\ ~ lines[m].externFn})
  <2> HIDE DEF b
  <2>7. \A j \in 1 .. n - 1, k \in 1 .. N : sr[j][k] = b(j, k)
    BY <2>5, <2>6 DEF b
  <2>8. at[n - 1].rust > 0 <=>
          \E j \in 1 .. n - 1 : j \in OR /\ \A k \in j .. n - 1 : sr[j][k] > 0
    BY <1>10, <2>1
  <2>9. at[n - 1].rust > 0 <=>
          \E j \in 1 .. n - 1 :
            /\ ~ lines[j].comment /\ lines[j].externC /\ lines[j].opens > 0
            /\ \A k \in j .. n - 1 : b(j, k) > 0
    BY <2>4, <2>5, <2>7, <2>8
  <2> QED BY <2>9 DEF InRust, Inside, Braces, b
<1> QED BY <1>11, <1>12 DEF InCpp

\* Lines that count their braces and know whether they define.
LinesTyped(lines) ==
  /\ lines \in Seq(ToSet(lines))
  /\ \A l \in ToSet(lines) : l.opens \in Nat /\ l.closes \in Nat /\ l.defines \in BOOLEAN

\* One line adds the symbols it declares and those it defines.
LEMMA LineAdds ==
  ASSUME NEW lines, NEW n, NEW a, lines[n].defines \in BOOLEAN,
         lines[n].externC \/ a.cpp > 0 <=> InCpp(lines, n),
         a.rust > 0 <=> InRust(lines, n), NEW s
  PROVE  /\ s \in CAbiLine(a, lines[n]).declares <=>
              s \in a.declares \/ (s # NoName /\ DeclaredAt(lines, n, s))
         /\ s \in CAbiLine(a, lines[n]).defines <=>
              s \in a.defines \/ (s # NoName /\ DefinedAt(lines, n, s))
<1> DEFINE l == lines[n]
           inCpp  == l.externC \/ a.cpp > 0
           inRust == ~ l.externFn /\ ((l.externC /\ l.opens > 0) \/ a.rust > 0)
           foreign == l.externFn /\ (a.rust > 0 \/ l.semicolon)
           cpp(defines) == IF inCpp /\ l.defines = defines THEN {l.name} ELSE {}
           rust(holds) == IF holds THEN {l.fn} ELSE {}
<1>1. CASE l.comment
  <2>1. CAbiLine(a, lines[n]) = a
    BY <1>1 DEF CAbiLine
  <2> QED BY <1>1, <2>1 DEF DeclaredAt, DefinedAt
<1>2. CASE ~ l.comment
  <2>1. /\ CAbiLine(a, lines[n]).declares =
             a.declares \union ((cpp(FALSE) \union rust(inRust \/ foreign)) \ {NoName})
        /\ CAbiLine(a, lines[n]).defines =
             a.defines \union ((cpp(TRUE) \union rust(l.externFn /\ ~ foreign)) \ {NoName})
    BY <1>2 DEF CAbiLine
  <2>2. /\ s \in cpp(FALSE) <=> l.name = s /\ ~ l.defines /\ InCpp(lines, n)
        /\ s \in cpp(TRUE) <=> l.name = s /\ l.defines /\ InCpp(lines, n)
    OBVIOUS
  <2>3. s \in rust(inRust \/ foreign) <=>
          \/ l.fn = s /\ l.externFn /\ (l.semicolon \/ InRust(lines, n))
          \/ l.fn = s /\ ~ l.externFn
               /\ ((l.externC /\ l.opens > 0) \/ InRust(lines, n))
    OBVIOUS
  <2>4. s \in rust(l.externFn /\ ~ foreign) <=>
          l.fn = s /\ l.externFn /\ ~ l.semicolon /\ ~ InRust(lines, n)
    OBVIOUS
  <2>5. /\ DeclaredAt(lines, n, s) <=>
             s \in cpp(FALSE) \/ s \in rust(inRust \/ foreign)
        /\ DefinedAt(lines, n, s) <=>
             s \in cpp(TRUE) \/ s \in rust(l.externFn /\ ~ foreign)
    <3> HIDE DEF cpp, rust
    <3> QED BY <1>2, <2>2, <2>3, <2>4 DEF DeclaredAt, DefinedAt
  <2> HIDE DEF cpp, rust
  <2> QED BY <2>1, <2>5
<1> QED BY <1>1, <1>2

\* The scan of a file finds the symbols that its lines declare or define.
LEMMA ScanFindsSymbols ==
  ASSUME NEW lines, LinesTyped(lines), NEW s
  PROVE  /\ s \in CAbi(lines).declares <=> s # NoName /\ IsDeclared(lines, s)
         /\ s \in CAbi(lines).defines <=> s # NoName /\ IsDefined(lines, s)
<1> DEFINE N == Len(lines)
<1>1. /\ N \in Nat /\ DOMAIN lines = 1 .. N
      /\ \A n \in 1 .. N : /\ lines[n].opens \in Nat /\ lines[n].closes \in Nat
                           /\ lines[n].defines \in BOOLEAN
  <2>1. lines \in Seq(ToSet(lines)) /\ \A n \in DOMAIN lines : lines[n] \in ToSet(lines)
    BY DEF LinesTyped, ToSet
  <2>2. DOMAIN lines = 1 .. N /\ N \in Nat
    BY <2>1
  <2> HIDE DEF N
  <2> QED BY <2>1, <2>2 DEF LinesTyped
<1> HIDE DEF N
<1>2. PICK at : /\ at[0] = [cpp |-> 0, rust |-> 0, declares |-> {}, defines |-> {}]
                /\ \A n \in 1 .. N : at[n] = CAbiLine(at[n - 1], lines[n])
                /\ CAbi(lines) = at[N]
  BY <1>1, ScanUnfolds
<1>3. \A n \in 1 .. N :
        /\ lines[n].externC \/ at[n - 1].cpp > 0 <=> InCpp(lines, n)
        /\ at[n - 1].rust > 0 <=> InRust(lines, n)
  BY <1>1, <1>2, CountersNest
<1> DEFINE Found(n) ==
             /\ s \in at[n].declares <=>
                  s # NoName /\ \E i \in 1 .. n : DeclaredAt(lines, i, s)
             /\ s \in at[n].defines <=>
                  s # NoName /\ \E i \in 1 .. n : DefinedAt(lines, i, s)
           T == {n \in Nat : n <= N => Found(n)}
<1>4. 0 \in T
  <2>1. Found(0)
    BY <1>2
  <2> HIDE DEF Found
  <2> QED BY <2>1
<1>5. ASSUME NEW n \in Nat, n \in T PROVE n + 1 \in T
  <2> SUFFICES ASSUME n + 1 <= N PROVE Found(n + 1)
    <3> HIDE DEF Found
    <3> QED OBVIOUS
  <2>1. Found(n)
    <3>1. n <= N
      BY <1>1
    <3> HIDE DEF Found
    <3> QED BY <1>5, <3>1
  <2> DEFINE m == n + 1
  <2>2. /\ m \in 1 .. N /\ m - 1 = n
        /\ \A i : i \in 1 .. m <=> i \in 1 .. n \/ i = m
    BY <1>1
  <2> HIDE DEF m
  <2>3. at[m] = CAbiLine(at[n], lines[m])
    BY <1>2, <2>2
  <2>4. /\ lines[m].externC \/ at[n].cpp > 0 <=> InCpp(lines, m)
        /\ at[n].rust > 0 <=> InRust(lines, m)
        /\ lines[m].defines \in BOOLEAN
    BY <1>1, <1>3, <2>2
  <2>5. /\ s \in at[m].declares <=>
             s \in at[n].declares \/ (s # NoName /\ DeclaredAt(lines, m, s))
        /\ s \in at[m].defines <=>
             s \in at[n].defines \/ (s # NoName /\ DefinedAt(lines, m, s))
    BY <2>3, <2>4, LineAdds
  <2>6. Found(m)
    BY <2>1, <2>2, <2>5
  <2> QED BY <2>6 DEF m
<1>6. Nat \subseteq T
  <2> HIDE DEF T
  <2> QED BY <1>4, <1>5, Induct
<1>7. Found(N)
  <2> HIDE DEF Found
  <2> QED BY <1>1, <1>6
<1> QED BY <1>1, <1>2, <1>7 DEF IsDeclared, IsDefined

\* What it finds is a symbol of the file.
LEMMA FoundIsSymbol ==
  ASSUME NEW lines, NEW s, IsDeclared(lines, s) \/ IsDefined(lines, s)
  PROVE  s \in Symbols(lines)
BY DEF IsDeclared, IsDefined, DeclaredAt, DefinedAt, Symbols, ToSet

\* Two modules share a symbol in C exactly when the scan says so.
LEMMA EvidenceIsShared ==
  ASSUME \A m \in Modules : \A p \in Files(m) : LinesTyped(tree[p].lines),
         NEW m \in Modules, NEW d \in Modules
  PROVE  ShareSymbol(m, d) <=> CAbiEvidence(m, d) # {}
<1>1. ASSUME NEW c \in Modules, NEW s
      PROVE  /\ s \in Declares(c) <=>
                  s # NoName /\ \E p \in Files(c) : IsDeclared(tree[p].lines, s)
             /\ s \in Defines(c) <=>
                  s # NoName /\ \E p \in Files(c) : IsDefined(tree[p].lines, s)
  <2>1. \A p \in Files(c) :
          /\ s \in CAbi(tree[p].lines).declares <=> s # NoName /\ IsDeclared(tree[p].lines, s)
          /\ s \in CAbi(tree[p].lines).defines <=> s # NoName /\ IsDefined(tree[p].lines, s)
    BY ScanFindsSymbols
  <2> QED BY <2>1 DEF Declares, Defines
<1>2. CAbiEvidence(m, d) # {} <=>
        \E s : \/ s \in Declares(m) /\ s \in Defines(d)
               \/ s \in Defines(m) /\ s \in Declares(d)
  BY DEF CAbiEvidence
<1>3. ShareSymbol(m, d) <=>
        \E p \in Files(m), q \in Files(d) : \E s :
          /\ s # NoName
          /\ \/ IsDeclared(tree[p].lines, s) /\ IsDefined(tree[q].lines, s)
             \/ IsDefined(tree[p].lines, s) /\ IsDeclared(tree[q].lines, s)
  BY FoundIsSymbol DEF ShareSymbol
<1>4. ASSUME ShareSymbol(m, d) PROVE CAbiEvidence(m, d) # {}
  <2>1. PICK p, q, s :
          /\ p \in Files(m) /\ q \in Files(d) /\ s # NoName
          /\ \/ IsDeclared(tree[p].lines, s) /\ IsDefined(tree[q].lines, s)
             \/ IsDefined(tree[p].lines, s) /\ IsDeclared(tree[q].lines, s)
    BY <1>3, <1>4
  <2>2. /\ IsDeclared(tree[p].lines, s) => s \in Declares(m)
        /\ IsDefined(tree[p].lines, s) => s \in Defines(m)
        /\ IsDeclared(tree[q].lines, s) => s \in Declares(d)
        /\ IsDefined(tree[q].lines, s) => s \in Defines(d)
    BY <1>1, <2>1
  <2> QED BY <1>2, <2>1, <2>2
<1>5. ASSUME CAbiEvidence(m, d) # {} PROVE ShareSymbol(m, d)
  <2>1. PICK s : \/ s \in Declares(m) /\ s \in Defines(d)
                 \/ s \in Defines(m) /\ s \in Declares(d)
    BY <1>2, <1>5
  <2>2. /\ s \in Declares(m) => s # NoName /\ \E p \in Files(m) : IsDeclared(tree[p].lines, s)
        /\ s \in Defines(m) => s # NoName /\ \E p \in Files(m) : IsDefined(tree[p].lines, s)
        /\ s \in Declares(d) => s # NoName /\ \E q \in Files(d) : IsDeclared(tree[q].lines, s)
        /\ s \in Defines(d) => s # NoName /\ \E q \in Files(d) : IsDefined(tree[q].lines, s)
    BY <1>1
  <2> QED BY <1>3, <2>1, <2>2
<1> QED BY <1>4, <1>5

\* Every source that can be there has typed lines.
LEMMA SourcesTyped ==
  ASSUME Types, NEW m \in Modules, NEW p \in Files(m)
  PROVE  LinesTyped(tree[p].lines)
<1>1. p \in Paths
  BY PoolFacts DEF Files, Sourced
<1>2. PICK q \in Paths : tree[p] \in Variants[q]
  BY <1>1 DEF Types
<1> QED BY <1>2, SourceScanAssumption DEF LinesTyped, Paths

\* A dependency counts as C ABI exactly when its ends share a symbol in C, as
\* the braces of their lines nest (scan_c_abi_line).
THEOREM CAbiEvidenceExact == Spec => []CAbiAsNested
<1>1. ASSUME Types PROVE CAbiAsNested
  <2>1. \A m \in Modules : \A p \in Files(m) : LinesTyped(tree[p].lines)
    BY <1>1, SourcesTyped
  <2>2. \A e \in Deps : e[1] \in Modules /\ e[2] \in Modules
    BY SourceScanAssumption
  <2>3. ASSUME NEW e \in Deps
        PROVE  ShareSymbol(e[1], e[2]) <=> CAbiEvidence(e[1], e[2]) # {}
    BY <2>1, <2>2, EvidenceIsShared
  <2> QED BY <2>3 DEF CAbiAsNested
<1>2. PoolInv => Types
  BY DEF PoolInv
<1> QED BY <1>1, <1>2, PoolHolds, PTL
=============================================================================
