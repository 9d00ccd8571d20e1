------------------------------ MODULE Overlay ------------------------------
(***************************************************************************)
(* run-gn-integration: each run copies a package into a GN source tree,    *)
(* may install a host adapter under build/rust, builds and runs an         *)
(* endpoint, and removes what it put there.  OverlayGuard remembers the    *)
(* paths to remove; its Drop removes them when the run returns early.      *)
(* Several runs may use one source tree, developers work in it, and a run  *)
(* may be killed, which skips the guard.                                   *)
(*                                                                         *)
(* The tree is a set of paths with, for each, who put it there.  Creating  *)
(* a path with its parents and removing a path with all below it are one   *)
(* step each.                                                              *)
(***************************************************************************)
EXTENDS FiniteSets

CONSTANTS
  Paths,      \* the paths of the source tree that matter
  Above,      \* Above[p]: the directories p is in
  Present,    \* the paths there before any run
  Runs,
  Dest,       \* Dest[r]: the destination of the package
  Package,    \* Package[r]: the last file copied, below Dest[r]
  Out,        \* Out[r]: the Ninja output directory
  Host,       \* the runs whose contract installs the host adapter
  RustDir,    \* build/rust
  Adapter,    \* the template written into it
  UserPaths   \* paths a developer may create meanwhile

Nobody == "nobody"
User   == "user"
Left   == "left by a killed run"

ASSUME OverlayAssumption ==
  /\ Above \in [Paths -> SUBSET Paths]
  /\ \A p \in Paths : p \notin Above[p] /\ \A q \in Above[p] : Above[q] \subseteq Above[p]
  /\ \A p \in Paths : \A a, b \in Above[p] : a = b \/ a \in Above[b] \/ b \in Above[a]
  /\ Present \subseteq Paths /\ \A p \in Present : Above[p] \subseteq Present
  /\ Dest \in [Runs -> Paths] /\ Package \in [Runs -> Paths] /\ Out \in [Runs -> Paths]
  /\ \A r \in Runs : Dest[r] \in Above[Package[r]]
  /\ Host \subseteq Runs
  /\ RustDir \in Paths /\ Adapter \in Paths /\ RustDir \in Above[Adapter]
  /\ UserPaths \subseteq Paths
  /\ Runs \intersect {Nobody, User, Left} = {}

VARIABLES
  tree,      \* the paths that exist
  owner,     \* path -> who created it last
  pc,        \* run -> where it is
  tracked,   \* run -> paths its guard remembers
  pending,   \* run -> those the cleanup or Drop has not handled yet
  stuck      \* history: the runs whose Drop could not remove something

vars == <<tree, owner, pc, tracked, pending, stuck>>
guard == <<tracked, pending, stuck>>

Below(p) == {q \in Paths : q = p \/ p \in Above[q]}

Goto(r, where) == pc' = [pc EXCEPT ![r] = where]

Init ==
  /\ tree = Present
  /\ owner = [p \in Paths |-> Nobody]
  /\ pc = [r \in Runs |-> "check"]
  /\ tracked = [r \in Runs |-> {}]
  /\ pending = [r \in Runs |-> {}]
  /\ stuck = {}

\* create_dir_all of a path, or the copy of a file: by is the owner of what is
\* new, and of the path itself.
Put(by, p) ==
  /\ tree' = tree \union Above[p] \union {p}
  /\ owner' = [q \in Paths |->
                 IF q = p \/ (q \in Above[p] /\ q \notin tree) THEN by ELSE owner[q]]

MakeDir(by, p) ==
  /\ tree' = tree \union Above[p] \union {p}
  /\ owner' = [q \in Paths |-> IF q \in (Above[p] \union {p}) \ tree THEN by ELSE owner[q]]

Remove(p) ==
  /\ tree' = tree \ Below(p)
  /\ owner' = [q \in Paths |-> IF q \in Below(p) THEN Nobody ELSE owner[q]]

-----------------------------------------------------------------------------
\* The run.

\* Slip: an existing destination is taken over.
CheckDestination_Reuses(r) ==
  /\ pc[r] = "check"
  /\ Goto(r, "parents")
  /\ UNCHANGED <<tree, owner, guard>>

\* destination.exists() comes before anything is tracked.
CheckDestination(r) ==
  /\ pc[r] = "check"
  /\ Goto(r, IF Dest[r] \in tree THEN "refused" ELSE "parents")
  /\ UNCHANGED <<tree, owner, guard>>

\* Slip: all parents are tracked, those that exist too.
TrackParents_All(r) ==
  /\ pc[r] = "parents"
  /\ tracked' = [tracked EXCEPT ![r] = Above[Dest[r]] \union {Dest[r]}]
  /\ Goto(r, "create")
  /\ UNCHANGED <<tree, owner, pending, stuck>>

\* track_missing_parents, then the destination itself.
TrackParents(r) ==
  /\ pc[r] = "parents"
  /\ tracked' = [tracked EXCEPT ![r] = (Above[Dest[r]] \ tree) \union {Dest[r]}]
  /\ Goto(r, "create")
  /\ UNCHANGED <<tree, owner, pending, stuck>>

CreateDestination(r) ==
  /\ pc[r] = "create"
  /\ MakeDir(r, Dest[r])
  /\ Goto(r, "copy")
  /\ UNCHANGED guard

CopyPackage(r) ==
  /\ pc[r] = "copy"
  /\ Put(r, Package[r])
  /\ Goto(r, IF r \in Host THEN "adapter" ELSE "out")
  /\ UNCHANGED guard

\* An existing build/rust is somebody else's template.
CheckAdapter(r) ==
  /\ pc[r] = "adapter"
  /\ IF RustDir \in tree
       THEN Goto(r, "drop") /\ pending' = [pending EXCEPT ![r] = tracked[r]]
       ELSE Goto(r, "install") /\ UNCHANGED pending
  /\ UNCHANGED <<tree, owner, tracked, stuck>>

\* Slip: the adapter is created and not tracked.
InstallAdapter_Untracked(r) ==
  /\ pc[r] = "install"
  /\ Put(r, Adapter)
  /\ Goto(r, "out")
  /\ UNCHANGED guard

\* The directory is created, then tracked; its parent build is not.
InstallAdapter(r) ==
  /\ pc[r] = "install"
  /\ Put(r, Adapter)
  /\ tracked' = [tracked EXCEPT ![r] = @ \union {RustDir}]
  /\ Goto(r, "out")
  /\ UNCHANGED <<pending, stuck>>

CreateOut(r) ==
  /\ pc[r] = "out"
  /\ MakeDir(r, Out[r])
  /\ Goto(r, "build")
  /\ UNCHANGED guard

\* gn, ninja and the endpoint succeed; the guard is asked to clean up.
Build(r) ==
  /\ pc[r] = "build" /\ Package[r] \in tree
  /\ r \in Host => Adapter \in tree
  /\ pending' = [pending EXCEPT ![r] = tracked[r]]
  /\ Goto(r, "cleanup")
  /\ UNCHANGED <<tree, owner, tracked, stuck>>

\* A step returns an error after the guard was made; Drop removes what is
\* tracked.
StepFails(r) ==
  /\ pc[r] \in {"create", "copy", "adapter", "install", "out", "build"}
  /\ pending' = [pending EXCEPT ![r] = tracked[r]]
  /\ Goto(r, "drop")
  /\ UNCHANGED <<tree, owner, tracked, stuck>>

\* The paths are handled in the reverse of the order they were tracked in: a
\* path after all those below it.
Innermost(p, S) == p \in S /\ \A q \in S : p \notin Above[q]

\* cleanup removes one tracked path.
CleanOne(r) ==
  /\ pc[r] = "cleanup"
  /\ \E p \in pending[r] :
       /\ Innermost(p, pending[r])
       /\ Remove(p)
       /\ pending' = [pending EXCEPT ![r] = @ \ {p}]
  /\ UNCHANGED <<pc, tracked, stuck>>

\* A removal fails: cleanup returns the error and Drop starts over.
CleanFails(r) ==
  /\ pc[r] = "cleanup" /\ pending[r] \intersect tree # {}
  /\ pending' = [pending EXCEPT ![r] = tracked[r]]
  /\ Goto(r, "drop")
  /\ UNCHANGED <<tree, owner, tracked, stuck>>

\* The guard is disarmed, the tools are looked at again.
Cleaned(r) ==
  /\ pc[r] = "cleanup" /\ pending[r] = {}
  /\ tracked' = [tracked EXCEPT ![r] = {}]
  /\ \E end \in {"done", "failed"} : Goto(r, end)
  /\ UNCHANGED <<tree, owner, pending, stuck>>

\* Drop goes on whatever becomes of a removal.
DropOne(r) ==
  /\ pc[r] = "drop"
  /\ \E p \in pending[r] :
       /\ Innermost(p, pending[r])
       /\ pending' = [pending EXCEPT ![r] = @ \ {p}]
       /\ \/ Remove(p) /\ UNCHANGED stuck
          \/ p \in tree /\ stuck' = stuck \union {r} /\ UNCHANGED <<tree, owner>>
  /\ UNCHANGED <<pc, tracked>>

Dropped(r) ==
  /\ pc[r] = "drop" /\ pending[r] = {}
  /\ tracked' = [tracked EXCEPT ![r] = {}]
  /\ Goto(r, "failed")
  /\ UNCHANGED <<tree, owner, pending, stuck>>

Step(r) ==
  \/ CheckDestination(r) \/ TrackParents(r) \/ CreateDestination(r)
  \/ CopyPackage(r) \/ CheckAdapter(r) \/ InstallAdapter(r) \/ CreateOut(r)
  \/ Build(r) \/ StepFails(r) \/ CleanOne(r) \/ CleanFails(r) \/ Cleaned(r)
  \/ DropOne(r) \/ Dropped(r)

-----------------------------------------------------------------------------
\* The world around it.

Ended(r) == pc[r] \in {"done", "failed", "refused", "killed"}

\* A signal that runs no destructors.
Kill(r) ==
  /\ ~Ended(r)
  /\ Goto(r, "killed")
  /\ tracked' = [tracked EXCEPT ![r] = {}]
  /\ pending' = [pending EXCEPT ![r] = {}]
  /\ owner' = [p \in Paths |-> IF owner[p] = r THEN Left ELSE owner[p]]
  /\ UNCHANGED <<tree, stuck>>

\* The command is given again.
Rerun(r) ==
  /\ Ended(r)
  /\ Goto(r, "check")
  /\ owner' = [p \in Paths |-> IF owner[p] = r THEN Left ELSE owner[p]]
  /\ UNCHANGED <<tree, guard>>

UserCreates(p) ==
  /\ p \notin tree
  /\ MakeDir(User, p)
  /\ UNCHANGED <<pc, guard>>

Next ==
  \/ \E r \in Runs : Step(r) \/ Kill(r) \/ Rerun(r)
  \/ \E p \in UserPaths : UserCreates(p)

Spec == Init /\ [][Next]_vars
-----------------------------------------------------------------------------
\* Properties

TypeOK ==
  /\ tree \subseteq Paths
  /\ owner \in [Paths -> Runs \union {Nobody, User, Left}]
  /\ pc \in [Runs -> {"check", "parents", "create", "copy", "adapter", "install",
                      "out", "build", "cleanup", "drop", "done", "failed",
                      "refused", "killed"}]
  /\ tracked \in [Runs -> SUBSET Paths]
  /\ pending \in [Runs -> SUBSET Paths]
  /\ stuck \subseteq Runs

\* Nothing that was in the tree before the first run is ever removed, however
\* runs overlap, fail or are killed: only paths that were missing are tracked
\* (track_missing_parents, the checks before the guard and the adapter).
PresentStays == Present \subseteq tree

\* What the guards are about to remove lies outside of what was there.
GuardsAvoidPresent ==
  /\ \A r \in Runs : tracked[r] \union pending[r] \subseteq Paths \ Present
  /\ \A r \in Runs : pc[r] \in {"parents"} => Dest[r] \notin Present
  /\ \A r \in Runs : pc[r] = "install" => RustDir \notin Present

\* What the guard of r may come to hold, and what r may create.
Claims(r) == (Above[Dest[r]] \ Present) \union {Dest[r]}
               \union (IF r \in Host THEN {RustDir} ELSE {})
Writes(r) ==
  LET made == {Package[r], Out[r]} \union (IF r \in Host THEN {Adapter} ELSE {})
  IN made \union UNION {Above[p] : p \in made}

\* No run removes a directory that the destination of another one lies in, and
\* build, which the adapter does not track, is there.
Apart ==
  /\ \A q, r \in Runs : q # r => Claims(q) \intersect Above[Dest[r]] = {}
  /\ Host # {} => Above[RustDir] \subseteq Present

\* Nobody else writes where r builds from.
Zone(r) == Below(Dest[r]) \union (IF r \in Host THEN Below(RustDir) ELSE {})

OwnDestinations ==
  \A r \in Runs :
    /\ \A q \in Runs \ {r} : Writes(q) \intersect Zone(r) = {}
    /\ \A p \in UserPaths : (Above[p] \union {p}) \intersect Zone(r) = {}

\* A run that was not killed leaves nothing but its Ninja output, whichever
\* step failed, unless even Drop could not remove a path; for runs that are
\* Apart, since a parent that was there when the run looked, and that another
\* run has removed by the time it is created, is tracked by nobody.
\* docs/architecture.md: "temporary source overlays and newly created parent
\* directories are removed in reverse order".
NothingLeft ==
  \A r \in Runs : pc[r] \in {"done", "failed", "refused"} /\ r \notin stuck =>
    \A p \in tree : owner[p] = r => p \in Above[Out[r]] \union {Out[r]}

\* A build sees only the package of its own run: leftovers of a killed run are
\* refused, never built (DestinationExists, AdapterExists); for runs with
\* OwnDestinations, since the checks and the creation are steps of their own.
BuildsItsOwn ==
  \A r \in Runs : pc[r] = "build" =>
    \A p \in tree : p \in Below(Dest[r]) \/ (r \in Host /\ p \in Below(RustDir)) =>
      owner[p] = r

=============================================================================
