----------------------------- MODULE SourceScan -----------------------------
(***************************************************************************)
(* scan-boundaries of chromifer-source: a pool of workers reads the        *)
(* sources of a manifest, what they show is related to its dependencies,   *)
(* and labels and findings are merged into the manifest.  Between scans    *)
(* developers edit the sources and maintainers resolve findings.           *)
(*                                                                         *)
(* A line of a source is represented by what the scanner looks for in it,  *)
(* a path by the sequence of its names.                                    *)
(***************************************************************************)
EXTENDS Integers, Sequences, FiniteSets, FiniteSetsExt, SequencesExt

CONSTANTS
  Manifest,     \* the modules of the manifest, in order
  ModulePath,   \* ModulePath[m]: its path, <<>> for "."
  ModuleSources,\* ModuleSources[m]: the paths of its sources, in order
  Deps,         \* pairs <<dependent, dependency>>
  Variants,     \* Variants[p]: what may be at path p
  Findings,     \* <<place, file, line, kind>>: what may be on record
  Workers,      \* the threads of the pool, in the order they are joined
  MaxEdits,     \* bound on edits
  MaxScans      \* bound on scans

Missing == [is |-> "missing", lines |-> <<>>]
Locked  == [is |-> "locked", lines |-> <<>>]      \* it cannot be read

Modules == ToSet(Manifest)

\* Manifest::validate refuses a second module of one id and a dependency that
\* leads nowhere; there is always a thread, and each is joined once.
ASSUME SourceScanAssumption ==
  /\ Manifest \in Seq(Modules) /\ Workers \in Seq(ToSet(Workers)) /\ Workers # <<>>
  /\ \A i, j \in DOMAIN Manifest : Manifest[i] = Manifest[j] => i = j
  /\ \A i, j \in DOMAIN Workers : Workers[i] = Workers[j] => i = j
  /\ Deps \subseteq Modules \X Modules
  /\ \A m \in Modules : ModuleSources[m] \in Seq(DOMAIN Variants)
  /\ \A p \in DOMAIN Variants : \A v \in Variants[p] :
       /\ v.lines \in Seq(ToSet(v.lines))
       /\ \A l \in ToSet(v.lines) : l.opens \in Nat /\ l.closes \in Nat /\ l.defines \in BOOLEAN
  /\ MaxEdits \in Nat /\ MaxScans \in Nat

VARIABLES
  tree,       \* path -> what is there
  edits,      \* how many edits there were
  scans,      \* how many scans were started
  boundary,   \* dependency -> boundary label
  reviews,    \* finding -> "absent", "open" or "resolved"
  next,       \* next_module, the counter the workers share
  worker,     \* worker -> the module it has, and its ScanCollection
  joined,     \* how many workers are joined
  total,      \* the ScanCollection of the joined workers
  phase,      \* "idle", "scan", "relate", "merge" or "failed"
  found,      \* edge_evidence, and edge_reviews with module_reviews
  fresh       \* whether the tree is as the last finished scan found it

pool == <<next, worker, joined, total>>
manifest == <<boundary, reviews>>
vars == <<tree, edits, scans, manifest, pool, phase, found, fresh>>

Unaudited == {"unclassified", "cpp_internal"}

-----------------------------------------------------------------------------
\* Lines.  [comment, bridge, externC, externFn, defines, semicolon] are
\* Boolean, [opens, closes] count braces, [name, fn] are the function a line
\* names in C++ and in Rust, include is what it includes, kinds its findings.

NoName == ""
NoInclude == [path |-> <<>>, made |-> ""]

\* Slip: a brace too many is remembered.
Depth_Unclamped(depth, l) == depth + l.opens - l.closes

\* brace_delta; a depth does not go below zero.
Depth(depth, l) ==
  IF depth + l.opens < l.closes THEN 0 ELSE depth + l.opens - l.closes

\* scan_c_abi_line.
CAbiLine(s, l) ==
  LET inCpp  == l.externC \/ s.cpp > 0
      inRust == ~ l.externFn /\ ((l.externC /\ l.opens > 0) \/ s.rust > 0)
      foreign == l.externFn /\ (s.rust > 0 \/ l.semicolon)
      cpp(defines)  == IF inCpp /\ l.defines = defines THEN {l.name} ELSE {}
      rust(holds)   == IF holds THEN {l.fn} ELSE {}
  IN  IF l.comment THEN s
      ELSE [cpp  |-> IF inCpp THEN Depth(s.cpp, l) ELSE s.cpp,
            rust |-> IF inRust THEN Depth(s.rust, l) ELSE s.rust,
            declares |-> s.declares \union
                           ((cpp(FALSE) \union rust(inRust \/ foreign)) \ {NoName}),
            defines  |-> s.defines \union
                           ((cpp(TRUE) \union rust(l.externFn /\ ~ foreign)) \ {NoName})]

\* The C symbols of a file, as scan_file finds them.
CAbi(lines) ==
  FoldLeft(CAbiLine, [cpp |-> 0, rust |-> 0, declares |-> {}, defines |-> {}], lines)

-----------------------------------------------------------------------------
\* From includes to dependencies.

\* The part of a path behind a directory gen inside of it.
WithoutGen(path) ==
  LET gens == {i \in 2 .. Len(path) - 1 : path[i] = "gen"}
  IN  IF gens = {} THEN path ELSE SubSeq(path, Min(gens) + 1, Len(path))

DependenciesOf(m) == {d \in Modules : <<m, d>> \in Deps}

\* matching_dependencies over build_match_index: by the path of a source, or of
\* what it is generated from, by a module's directory, or by the bare name of a
\* file.
Matching(m, include) ==
  {d \in DependenciesOf(m) :
     LET own == ModuleSources[d]
     IN  \/ \E p \in {include.path, WithoutGen(include.path)} :
              \/ \E s \in ToSet(own) : p \in {s, WithoutGen(s)}
              \/ ModulePath[d] # <<>> /\ IsStrictPrefix(ModulePath[d], p)
         \/ include.made = "" /\ \E s \in ToSet(own) : Last(s) = Last(include.path)}

\* A file refers to the dependency that alone matches one of its includes.
Refers(m, l, d) == l.include # NoInclude /\ Matching(m, l.include) = {d}

Referenced(m, lines) ==
  {d \in DependenciesOf(m) : \E i \in DOMAIN lines : Refers(m, lines[i], d)}

\* collect_include_evidence: the mechanism an include of d shows.
IncludeEvidence(m, lines, d) ==
  LET bridge  == \E i \in DOMAIN lines : lines[i].bridge
      kind(l) == CASE l.include.made = "mojo" -> {"mojo"}
                   [] l.include.made = "cxx"  -> {"cxx"}
                   [] OTHER                   -> IF bridge THEN {"cxx"} ELSE {}
  IN  UNION {kind(lines[i]) : i \in {k \in DOMAIN lines : Refers(m, lines[k], d)}}

\* A finding belongs to the one dependency its file refers to, or the module.
PlacesOf(m, lines) ==
  IF Cardinality(Referenced(m, lines)) = 1
    THEN {<<m, d>> : d \in Referenced(m, lines)}
    ELSE {<<m>>}

-----------------------------------------------------------------------------
\* What a scan finds.  The sources do not change while it runs, so what it has
\* of a module is named by the module alone.

Files(m) == {p \in ToSet(ModuleSources[m]) : tree[p].is = "file"}

Declares(m) == UNION {CAbi(tree[p].lines).declares : p \in Files(m)}
Defines(m)  == UNION {CAbi(tree[p].lines).defines : p \in Files(m)}

\* collect_c_abi_evidence.
CAbiEvidence(m, d) ==
  IF Declares(m) \intersect Defines(d) # {} \/ Defines(m) \intersect Declares(d) # {}
    THEN {"c_abi"} ELSE {}

Evidence(S) ==
  [e \in Deps |->
     IF e[1] \notin S THEN {}
     ELSE (UNION {IncludeEvidence(e[1], tree[p].lines, e[2]) : p \in Files(e[1])})
          \union (IF e[2] \in S THEN CAbiEvidence(e[1], e[2]) ELSE {})]

Seen(S) ==
  {f \in Findings :
     LET lines == tree[f[2]].lines
     IN  /\ f[1][1] \in S /\ f[2] \in Files(f[1][1])
         /\ f[1] \in PlacesOf(f[1][1], lines)
         /\ f[3] \in DOMAIN lines /\ f[4] \in lines[f[3]].kinds}

-----------------------------------------------------------------------------
\* The pool.

Nothing == [has |-> {}, missing |-> {}, files |-> 0]
NoneFound == [evidence |-> [e \in Deps |-> {}], seen |-> {}]
Idle == [at |-> 0, got |-> Nothing, status |-> "none"]

Init ==
  /\ tree \in [DOMAIN Variants -> UNION {Variants[p] : p \in DOMAIN Variants}]
  /\ \A p \in DOMAIN Variants : tree[p] \in Variants[p]
  /\ edits = 0 /\ scans = 0
  /\ boundary = [e \in Deps |-> "cpp_internal"]
  /\ reviews = [f \in Findings |-> "absent"]
  /\ next = 1
  /\ worker = [w \in ToSet(Workers) |-> Idle]
  /\ joined = 0
  /\ total = Nothing
  /\ phase = "idle"
  /\ found = NoneFound
  /\ fresh = FALSE

\* scan_modules starts as many workers as there are, but no more than modules.
Begin ==
  /\ phase = "idle" /\ scans < MaxScans
  /\ scans' = scans + 1
  /\ phase' = "scan"
  /\ next' = 1 /\ joined' = 0 /\ total' = Nothing
  /\ worker' = [w \in ToSet(Workers) |-> [Idle EXCEPT !.status = "free"]]
  /\ UNCHANGED <<tree, edits, manifest, found, fresh>>

\* fetch_add: a worker takes the next module, or ends when there is none.
Take(w) ==
  /\ phase = "scan" /\ worker[w].status = "free"
  /\ worker' = [worker EXCEPT ![w].at = next,
                              ![w].status = IF next > Len(Manifest) THEN "done" ELSE "busy"]
  /\ next' = next + 1
  /\ UNCHANGED <<tree, edits, scans, manifest, joined, total, phase, found, fresh>>

\* scan_module: a file that is not there is noted, one that cannot be read ends
\* the worker, and the rest of the module's files with it; so does a path that
\* leads out of the tree (InvalidSourcePath), which is as good as locked.
ScanModule(w) ==
  /\ worker[w].status = "busy"
  /\ LET m   == Manifest[worker[w].at]
         bad == \E p \in ToSet(ModuleSources[m]) : tree[p] = Locked
         gone == {p \in ToSet(ModuleSources[m]) : tree[p] = Missing}
     IN  IF bad
           THEN worker' = [worker EXCEPT ![w].status = "error"]
           ELSE worker' = [worker EXCEPT
                  ![w].status = "free",
                  ![w].got = [has     |-> @.has \union {m},
                              missing |-> @.missing \union ({m} \X gone),
                              files   |-> @.files + Cardinality(Files(m))]]
  /\ UNCHANGED <<tree, edits, scans, manifest, next, joined, total, phase, found, fresh>>

\* Slip: a worker that failed is passed over.
AfterJoin_Lenient(status) == IF joined' = Len(Workers) THEN "relate" ELSE "scan"

AfterJoin(status) ==
  IF status = "error" THEN "failed"
  ELSE IF joined' = Len(Workers) THEN "relate" ELSE "scan"

\* Slip: a worker that failed never reports.
Returned_WhenDone(w) == worker[w].status = "done"

\* The thread of w has returned.
Returned(w) == worker[w].status \in {"done", "error"}

\* The workers are joined one after the other; the first error is the answer,
\* and the scope waits for the others before it is given.
Join ==
  /\ phase = "scan"
  /\ LET w == Workers[joined + 1]
     IN  /\ Returned(w)
         /\ worker[w].status = "error" => \A v \in ToSet(Workers) : Returned(v)
         /\ joined' = joined + 1
         /\ total' = [has     |-> total.has \union worker[w].got.has,
                      missing |-> total.missing \union worker[w].got.missing,
                      files   |-> total.files + worker[w].got.files]
         /\ phase' = AfterJoin(worker[w].status)
  /\ UNCHANGED <<tree, edits, scans, manifest, next, worker, found, fresh>>

-----------------------------------------------------------------------------
\* The merge.

\* Slip: unanimous evidence replaces any label.
Relabelled_Always(current, detected) ==
  IF Cardinality(detected) = 1 THEN CHOOSE b \in detected : TRUE ELSE current

\* scan_manifest: one mechanism replaces an unaudited label; anything else is
\* reported as a conflict and changes nothing.
Relabelled(current, detected) ==
  IF Cardinality(detected) = 1 /\ current \in Unaudited
    THEN CHOOSE b \in detected : TRUE ELSE current

\* Slip: a scan starts from a clean record.
Merged_Replaces(f) == IF f \in found.seen THEN "open" ELSE "absent"

\* merge_reviews.
Merged(f) ==
  IF f \in found.seen /\ reviews[f] = "absent" THEN "open" ELSE reviews[f]

\* What the workers have is related to the dependencies of the manifest.
Relate ==
  /\ phase = "relate"
  /\ found' = [evidence |-> Evidence(total.has), seen |-> Seen(total.has)]
  /\ phase' = "merge"
  /\ UNCHANGED <<tree, edits, scans, manifest, pool, fresh>>

\* The new manifest is written.
Merge ==
  /\ phase = "merge"
  /\ boundary' = [e \in Deps |-> Relabelled(boundary[e], found.evidence[e])]
  /\ reviews' = [f \in Findings |-> Merged(f)]
  /\ phase' = "idle"
  /\ found' = NoneFound
  /\ fresh' = TRUE
  /\ UNCHANGED <<tree, edits, scans, pool>>

\* The command ends with an error and writes nothing; it may be called again.
Fail ==
  /\ phase = "failed"
  /\ phase' = "idle"
  /\ UNCHANGED <<tree, edits, scans, manifest, pool, found, fresh>>

-----------------------------------------------------------------------------
\* In between.

Edit(p, lines) ==
  /\ phase = "idle" /\ edits < MaxEdits
  /\ tree[p] # lines
  /\ tree' = [tree EXCEPT ![p] = lines]
  /\ edits' = edits + 1
  /\ fresh' = FALSE
  /\ UNCHANGED <<scans, manifest, pool, phase, found>>

Resolve(f) ==
  /\ phase = "idle"
  /\ reviews[f] = "open"
  /\ reviews' = [reviews EXCEPT ![f] = "resolved"]
  /\ UNCHANGED <<tree, edits, scans, boundary, pool, phase, found, fresh>>

Threads == (\E w \in ToSet(Workers) : Take(w) \/ ScanModule(w)) \/ Join

Next ==
  \/ Begin
  \/ Threads
  \/ Relate \/ Merge \/ Fail
  \/ \E p \in DOMAIN Variants : \E lines \in Variants[p] : Edit(p, lines)
  \/ \E f \in Findings : Resolve(f)

\* Threads that can run do; nobody has to start a scan, edit or resolve.
Spec == Init /\ [][Next]_vars /\ WF_vars(Threads)

-----------------------------------------------------------------------------
\* What the sources say, read off all of them at once.

\* Line i lies in a block that a line like opens began and nothing closed.
Inside(lines, i, Opens(_), Counts(_)) ==
  \E j \in 1 .. i - 1 :
    /\ Opens(lines[j])
    /\ \A k \in j .. i - 1 :
         MapThenSumSet(LAMBDA n : lines[n].opens - lines[n].closes,
                       {n \in j .. k : Counts(lines[n])}) > 0

InCpp(lines, i) ==
  \/ lines[i].externC
  \/ Inside(lines, i, LAMBDA l : ~ l.comment /\ l.externC, LAMBDA l : ~ l.comment)

InRust(lines, i) ==
  Inside(lines, i, LAMBDA l : ~ l.comment /\ l.externC /\ l.opens > 0,
                   LAMBDA l : ~ l.comment /\ ~ l.externFn)

Symbols(lines) == {l.name : l \in ToSet(lines)} \union {l.fn : l \in ToSet(lines)}

\* Line i declares a C symbol, or defines it.
DeclaredAt(lines, i, symbol) ==
  ~ lines[i].comment /\
    \/ lines[i].name = symbol /\ ~ lines[i].defines /\ InCpp(lines, i)
    \/ lines[i].fn = symbol /\ lines[i].externFn
         /\ (lines[i].semicolon \/ InRust(lines, i))
    \/ lines[i].fn = symbol /\ ~ lines[i].externFn
         /\ ((lines[i].externC /\ lines[i].opens > 0) \/ InRust(lines, i))

DefinedAt(lines, i, symbol) ==
  ~ lines[i].comment /\
    \/ lines[i].name = symbol /\ lines[i].defines /\ InCpp(lines, i)
    \/ lines[i].fn = symbol /\ lines[i].externFn
         /\ ~ lines[i].semicolon /\ ~ InRust(lines, i)

IsDeclared(lines, symbol) == \E i \in DOMAIN lines : DeclaredAt(lines, i, symbol)
IsDefined(lines, symbol)  == \E i \in DOMAIN lines : DefinedAt(lines, i, symbol)

\* m and d meet at a C symbol.
ShareSymbol(m, d) ==
  \E p \in Files(m), q \in Files(d) :
    LET mine == tree[p].lines  theirs == tree[q].lines
    IN  \E s \in (Symbols(mine) \intersect Symbols(theirs)) \ {NoName} :
          \/ IsDeclared(mine, s) /\ IsDefined(theirs, s)
          \/ IsDefined(mine, s) /\ IsDeclared(theirs, s)

-----------------------------------------------------------------------------
\* Properties

\* However the workers share the modules, the scan that ends well has every
\* module once: each file that is there is counted once and each that is not is
\* listed; and it ends badly exactly when a file cannot be read (scan_modules,
\* scan_module).
PoolLosesNothing ==
  /\ phase = "relate" =>
       /\ total.has = Modules
       /\ total.files = Cardinality({r \in Modules \X DOMAIN tree : r[2] \in Files(r[1])})
       /\ total.missing = {r \in Modules \X DOMAIN tree :
                             r[2] \in ToSet(ModuleSources[r[1]]) /\ tree[r[2]] = Missing}
  /\ phase \in {"relate", "failed"} =>
       (phase = "failed" <=>
          \E m \in Modules : \E p \in ToSet(ModuleSources[m]) : tree[p] = Locked)

\* A dependency counts as C ABI exactly when its two ends declare and define
\* one symbol inside of extern "C" as its braces nest (scan_c_abi_line).
CAbiAsNested ==
  \A e \in Deps :
    ShareSymbol(e[1], e[2]) <=> CAbiEvidence(e[1], e[2]) # {}

\* A scan of sources that have not changed since the last one changes nothing
\* in the manifest (merge_reviews, scan_manifest).
RescanChangesNothing == [][fresh /\ phase = "merge" => UNCHANGED manifest]_vars

\* Seen from the manifest, the pool and its merge are one Scan of the lifecycle.
Life == INSTANCE Lifecycle WITH
  Edges <- Deps, Place <- [f \in Findings |-> f[1]], Gates <- {"gate"},
  GateTargets <- [g \in {"gate"} |-> {}], Required <- {}, ImportGate <- {"gate"},
  InferState <- FALSE, Sources <- [m \in Modules |-> "cpp"],
  Mechanisms <- {"cxx", "c_abi", "mojo"},
  state <- [m \in Modules |-> "legacy_cpp"],
  gates <- [m \in Modules |-> {"gate"}], approved <- {}

ImplementsLifecycle ==
  /\ Life!Init
  /\ [][\/ phase = "merge" /\ Life!Scan(found.evidence, found.seen)
        \/ \E f \in Findings : Life!Resolve(f)]_manifest

\* The scope ends, also when workers fail: nobody waits for a worker that left
\* its modules behind.
PoolEnds == phase = "scan" ~> phase # "scan"
=============================================================================
