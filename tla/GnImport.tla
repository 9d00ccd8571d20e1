------------------------------- MODULE GnImport -------------------------------
(***************************************************************************)
(* The import of a GN project (import_gn_project): which targets are       *)
(* selected, which of them become modules, and the dependencies between    *)
(* modules once the targets without sources are contracted away.           *)
(*                                                                         *)
(* A label is a base and a toolchain suffix; sources are reduced to what   *)
(* they say about a target.  The importer takes pending labels in the      *)
(* order of vectors and of its own recursion; here any order will do.      *)
(* States and boundaries of the modules are Lifecycle's Init.  Of the      *)
(* validation at the end there is the search for circles: it is what can   *)
(* refuse a manifest that the importer has put together.                   *)
(***************************************************************************)
EXTENDS FiniteSets, Naturals, Sequences

CONSTANTS
  Names,      \* label names: <<base, suffix>>, with "" for no suffix
  Default,    \* the default toolchain
  Projects,   \* GN exports considered
  Options     \* import options considered

\* What the type and the sources of a target say; rust_meta is a Rust target
\* type without sources.
Kinds      == {"meta", "rust_meta", "cpp", "rust", "mixed"}
Sourceless == {"meta", "rust_meta"}

ASSUME GnImportAssumption ==
  /\ \A p \in Projects :
       /\ p.targets \subseteq Names /\ p.testonly \subseteq p.targets
       /\ p.kind \in [p.targets -> Kinds]
       /\ p.deps \in [p.targets -> SUBSET Names]
       /\ DOMAIN p.toolchain = p.targets
  /\ \A o \in Options : o.roots \subseteq Names

VARIABLES
  project, options,   \* what is imported, and how
  at,                 \* where the importer is
  pending, selected,  \* labels to look at, and labels the import is about
  module,             \* the module whose dependencies are collected, or None
  todo, visited,      \* labels to follow, and contracted targets met so far
  found,              \* modules met so far
  edges,              \* module -> its dependencies
  stack, complete     \* find_cycle: the modules it is in, and those it is through

searchVars == <<stack, complete>>
importVars == <<project, options, at, pending, selected, module, todo, visited, found, edges,
                stack, complete>>

None    == {}
Some(x) == {x}

ImportInit ==
  /\ project \in Projects /\ options \in Options
  /\ at = "roots"
  /\ pending = {} /\ selected = {}
  /\ module = None /\ todo = {} /\ visited = {} /\ found = {}
  /\ edges = [m \in {} |-> {}]
  /\ stack = <<>> /\ complete = {}

-----------------------------------------------------------------------------
\* Labels.

\* The toolchain a target says it has, or the one of its label.
IsDefaultToolchain(l) ==
  IF project.toolchain[l] # "" THEN project.toolchain[l] = Default
                               ELSE l[2] \in {"", Default}

\* The targets that name is short for.
Aliased(name) ==
  {l \in project.targets : /\ l[1] = name[1] /\ name[2] \in {"", Default}
                           /\ IsDefaultToolchain(l)}

\* A target's own label first; otherwise what the name is short for, unless it
\* is short for nothing or for more than one target.
ResolveLabel(name) ==
  IF name \in project.targets THEN {name}
  ELSE {l \in Aliased(name) : Aliased(name) = {l}}

Resolvable(names) == \A n \in names : ResolveLabel(n) # {}
Resolved(names)   == UNION {ResolveLabel(n) : n \in names}
Deps(l)           == Resolved(project.deps[l])

Eligible ==
  {l \in project.targets : /\ options.toolchains \/ IsDefaultToolchain(l)
                           /\ options.testonly \/ l \notin project.testonly}

\* The modules that a selection makes.
ModulesOf(chosen) == {l \in chosen : options.meta \/ project.kind[l] \notin Sourceless}
Imported          == ModulesOf(selected)

\* infer_state: a module is not legacy C++ as soon as it has Rust.
HasRust(l) == project.kind[l] \in {"rust_meta", "rust", "mixed"}

-----------------------------------------------------------------------------
\* What is selected.

Fail == /\ at' = "failed"
        /\ UNCHANGED <<project, options, pending, selected, module, todo, visited,
                       found, edges, searchVars>>

RootsUsable ==
  Resolvable(options.roots) /\ Resolved(options.roots) \subseteq Eligible

\* Without roots everything eligible is selected.
TakeRoots ==
  /\ at = "roots"
  /\ IF ~RootsUsable THEN Fail
     ELSE /\ at' = "closure"
          /\ pending' = Resolved(options.roots)
          /\ selected' = IF options.roots = {} THEN Eligible ELSE {}
          /\ UNCHANGED <<project, options, module, todo, visited, found, edges, searchVars>>

\* Slip: names are taken for labels.
Follow_Labels(l) == project.deps[l] \cap Eligible

\* The dependencies of l that the closure goes on with.
Follow(l) == Deps(l) \cap Eligible

\* select_root_closure, one label.
Select(l) ==
  /\ at = "closure" /\ l \in pending
  /\ IF l \in selected
       THEN pending' = pending \ {l} /\ UNCHANGED <<at, selected>>
     ELSE IF Resolvable(project.deps[l])
       THEN /\ pending' = (pending \ {l}) \union Follow(l)
            /\ selected' = selected \union {l}
            /\ UNCHANGED at
       ELSE at' = "failed" /\ UNCHANGED <<pending, selected>>
  /\ UNCHANGED <<project, options, module, todo, visited, found, edges, searchVars>>

\* Slip: every target of the export counts.
GateGiven_Everything ==
  options.infer /\ ~options.gate => \A l \in project.targets : ~HasRust(l)

\* An inferred state needs a gate.
GateGiven == options.infer /\ ~options.gate => \A l \in Imported : ~HasRust(l)

\* collect_omitted_dependencies resolves every dependency once more.
BeginModules ==
  /\ at = "closure" /\ pending = {}
  /\ IF (\A l \in selected : Resolvable(project.deps[l])) /\ GateGiven
       THEN /\ at' = "modules"
            /\ UNCHANGED <<project, options, pending, selected, module, todo, visited,
                           found, edges, searchVars>>
       ELSE Fail

-----------------------------------------------------------------------------
\* The dependencies of the modules, one after the other.

BeginModule ==
  /\ at = "modules" /\ module = None /\ DOMAIN edges # Imported
  /\ LET m == CHOOSE l \in Imported : l \notin DOMAIN edges IN
       module' = Some(m) /\ todo' = Deps(m)
  /\ visited' = {} /\ found' = {}
  /\ UNCHANGED <<project, options, at, pending, selected, edges, searchVars>>

\* Slip: contracted targets are not remembered.
Remember_Nothing(l) == {}

\* The contracted target is not followed again.
Remember(l) == {l}

\* Slip: the search goes on behind a module.
Stops_NotSelected(l) == l \notin selected

\* The search stops at modules, and at what is not selected.
Stops(l) == l \notin selected \/ l \in Imported

\* collect_effective_dependencies, one label.
Visit(l) ==
  /\ module # None /\ l \in todo
  /\ found' = found \union ({l} \cap Imported)
  /\ IF Stops(l) \/ l \in visited
       THEN todo' = todo \ {l} /\ UNCHANGED visited
       ELSE /\ todo' = (todo \ {l}) \union Deps(l)
            /\ visited' = visited \union Remember(l)
  /\ UNCHANGED <<project, options, at, pending, selected, module, edges, searchVars>>

\* A module does not depend on itself.
EndModule ==
  /\ module # None /\ todo = {}
  /\ edges' = [m \in DOMAIN edges \union module |->
                 IF m \in module THEN found \ module ELSE edges[m]]
  /\ module' = None
  /\ UNCHANGED <<project, options, at, pending, selected, todo, visited, found, searchVars>>

EndModules ==
  /\ at = "modules" /\ module = None /\ DOMAIN edges = Imported
  /\ at' = "validate"
  /\ UNCHANGED <<project, options, pending, selected, module, todo, visited, found, edges,
                 searchVars>>

-----------------------------------------------------------------------------
\* manifest.validate: the search for a circle of modules, depth first.

\* The search is inside m.
Active(m) == \E i \in DOMAIN stack : m = stack[i]

\* What the search looks at next: a module's dependencies, or the next module.
Ahead == (IF stack = <<>> THEN Imported ELSE edges[stack[Len(stack)]]) \ complete

\* visit, up to its loop.
Enter(m) ==
  /\ at = "validate" /\ m \in Ahead
  /\ IF Active(m) THEN Fail
     ELSE /\ stack' = Append(stack, m)
          /\ UNCHANGED <<project, options, at, pending, selected, module, todo, visited,
                         found, edges, complete>>

\* visit, after its loop.
Leave ==
  /\ at = "validate" /\ stack # <<>> /\ Ahead = {}
  /\ stack' = SubSeq(stack, 1, Len(stack) - 1)
  /\ complete' = complete \union {stack[Len(stack)]}
  /\ UNCHANGED <<project, options, at, pending, selected, module, todo, visited, found, edges>>

EndSearch ==
  /\ at = "validate" /\ stack = <<>> /\ Ahead = {}
  /\ at' = "done"
  /\ UNCHANGED <<project, options, pending, selected, module, todo, visited, found, edges,
                 searchVars>>

ImportNext ==
  \/ TakeRoots \/ BeginModules \/ BeginModule \/ EndModule \/ EndModules
  \/ Leave \/ EndSearch
  \/ \E l \in project.targets : Select(l) \/ Visit(l) \/ Enter(l)

\* The importer is one sequential function.
ImportSpec == ImportInit /\ [][ImportNext]_importVars /\ WF_importVars(ImportNext)
-----------------------------------------------------------------------------
\* Properties

ImportTypeOK ==
  /\ at \in {"roots", "closure", "modules", "validate", "done", "failed"}
  /\ pending \subseteq project.targets /\ selected \subseteq Eligible
  /\ todo \subseteq project.targets
  /\ visited \subseteq selected \ Imported /\ found \subseteq Imported
  /\ module \subseteq Imported
  /\ \A m \in DOMAIN edges : m \in Imported /\ edges[m] \subseteq Imported \ {m}
  /\ stack \in Seq(Imported) /\ complete \subseteq Imported

\* A set of targets that has the roots and what its targets depend on.
Closed(S) ==
  /\ Resolved(options.roots) \subseteq S
  /\ \A l \in S : Deps(l) \cap Eligible \subseteq S

\* The least closed set.
Closure == {l \in Eligible : \A S \in SUBSET Eligible : Closed(S) => l \in S}

\* What the options ask for (docs/gn-import.md).
Asked == IF options.roots = {} THEN Eligible ELSE Closure

\* docs/gn-import.md: the import is of "the browser target and its transitive
\* default-toolchain dependencies": no target is missing and none is too many,
\* whatever order the labels are taken in.
SelectedAsAsked == at \in {"modules", "validate", "done"} => selected = Asked

\* Targets chosen that lead from m to what S holds, all of them contracted.
Leads(chosen, m, S) ==
  /\ Deps(m) \cap chosen \subseteq S
  /\ \A l \in S \ ModulesOf(chosen) : Deps(l) \cap chosen \subseteq S

\* The modules chosen that m reaches over contracted targets only.
Nearest(chosen, m) ==
  {n \in ModulesOf(chosen) \ {m} : \A S \in SUBSET chosen : Leads(chosen, m, S) => n \in S}

\* docs/gn-import.md: the dependencies of contracted targets "are connected
\* directly to the nearest source targets".  A module's dependencies are
\* exactly those, with contracted targets in diamonds and circles too.
EdgesAreNearest == \A m \in DOMAIN edges : edges[m] = Nearest(selected, m)

\* A circle of the modules asked for: each of them leads to another one of it.
Circular ==
  \E chosen \in {Asked} : \E S \in SUBSET ModulesOf(chosen) :
    S # {} /\ \A m \in S : Nearest(chosen, m) \cap S # {}

\* What the importer itself refuses.
Refused ==
  \/ ~RootsUsable
  \/ \E l \in Asked : ~Resolvable(project.deps[l])
  \/ options.infer /\ ~options.gate /\ \E l \in ModulesOf(Asked) : HasRust(l)

\* The import fails for a reason the whole project shows, not for one that
\* depends on the order in which targets are met: a root that cannot be used, a
\* dependency of what is asked for that is no target, a missing gate, or
\* modules that depend on each other in a circle once the targets between them
\* are contracted.
FailsForAReason ==
  /\ at = "failed" => Refused \/ Circular
  /\ at = "done"   => ~Refused /\ ~Circular

\* The import ends, in whatever circles the targets depend on each other.
ImportEnds == <>(at \in {"done", "failed"})
=============================================================================
