--------------------------- MODULE MigrationProofs ---------------------------
(***************************************************************************)
(* Theorems about a migration in the checkout and on record.               *)
(*                                                                         *)
(* Overlay: for any tree, any number of runs and any destinations, nothing *)
(* that was in the source tree is ever removed; runs with places of their  *)
(* own leave nothing behind and build what they installed.                 *)
(*                                                                         *)
(* PilotRecord: what a committed record says, for any revisions,           *)
(* platforms, cases and suites, however often the record was moved,        *)
(* measured again or reopened.                                             *)
(***************************************************************************)
EXTENDS Overlay, PilotRecord, TLAPS

IInv == TypeOK /\ PresentStays /\ GuardsAvoidPresent

\* What lies below a path that was not there was not there either.
LEMMA BelowMissing ==
  ASSUME NEW p \in Paths \ Present PROVE Below(p) \intersect Present = {}
BY OverlayAssumption DEF Below

LEMMA MakingKeeps ==
  ASSUME TypeOK, PresentStays, NEW by \in Runs \union {Nobody, User, Left},
         NEW p \in Paths, MakeDir(by, p) \/ Put(by, p)
  PROVE  /\ tree' \subseteq Paths /\ Present \subseteq tree'
         /\ owner' \in [Paths -> Runs \union {Nobody, User, Left}]
<1>1. Above[p] \subseteq Paths BY OverlayAssumption
<1>2. tree' = tree \union Above[p] \union {p} BY DEF MakeDir, Put
<1>3. owner' \in [Paths -> Runs \union {Nobody, User, Left}]
  <2>1. CASE MakeDir(by, p) BY <2>1 DEF MakeDir, TypeOK
  <2>2. CASE Put(by, p) BY <2>2 DEF Put, TypeOK
  <2> QED BY <2>1, <2>2
<1> QED BY <1>1, <1>2, <1>3 DEF TypeOK, PresentStays

LEMMA RemovingKeeps ==
  ASSUME TypeOK, PresentStays, NEW p \in Paths \ Present, Remove(p)
  PROVE  /\ tree' \subseteq Paths /\ Present \subseteq tree'
         /\ owner' \in [Paths -> Runs \union {Nobody, User, Left}]
BY BelowMissing DEF Remove, TypeOK, PresentStays

\* The guard of a run is changed only by that run.
LEMMA GotoType ==
  ASSUME TypeOK, NEW r \in Runs, NEW where, Goto(r, where),
         where \in {"check", "parents", "create", "copy", "adapter", "install",
                    "out", "build", "cleanup", "drop", "done", "failed",
                    "refused", "killed"}
  PROVE  /\ pc' \in [Runs -> {"check", "parents", "create", "copy", "adapter",
                      "install", "out", "build", "cleanup", "drop", "done",
                      "failed", "refused", "killed"}]
         /\ pc'[r] = where
         /\ \A q \in Runs : q # r => pc'[q] = pc[q]
BY DEF Goto, TypeOK

LEMMA InitHolds == Init => IInv
BY OverlayAssumption DEF Init, IInv, TypeOK, PresentStays, GuardsAvoidPresent

\* The steps of a run up to the moment its guard is asked to clean up.
LEMMA BuildingKeeps ==
  ASSUME IInv, NEW r \in Runs,
         \/ CheckDestination(r) \/ TrackParents(r) \/ CreateDestination(r)
         \/ CopyPackage(r) \/ CheckAdapter(r) \/ InstallAdapter(r) \/ CreateOut(r)
         \/ Build(r) \/ StepFails(r)
  PROVE  IInv'
<1> USE DEF IInv
<1>0. /\ Dest[r] \in Paths /\ Package[r] \in Paths /\ Out[r] \in Paths
      /\ Above[Dest[r]] \subseteq Paths /\ RustDir \in Paths /\ Adapter \in Paths
  BY OverlayAssumption
<1>1. CASE CheckDestination(r)
  <2>1. Dest[r] \in tree \/ Dest[r] \notin Present BY DEF PresentStays
  <2>2. Goto(r, IF Dest[r] \in tree THEN "refused" ELSE "parents")
    BY <1>1 DEF CheckDestination
  <2>3. UNCHANGED <<tree, owner, tracked, pending, stuck>>
    BY <1>1 DEF CheckDestination, guard
  <2> QED BY <2>1, <2>2, <2>3, GotoType DEF TypeOK, PresentStays, GuardsAvoidPresent
<1>2. CASE TrackParents(r)
  <2>1. (Above[Dest[r]] \ tree) \union {Dest[r]} \subseteq Paths \ Present
    BY <1>0, <1>2 DEF TrackParents, PresentStays, GuardsAvoidPresent
  <2>2. Goto(r, "create") BY <1>2 DEF TrackParents
  <2>3. UNCHANGED <<tree, owner, pending, stuck>> BY <1>2 DEF TrackParents
  <2>4. /\ tracked' \in [Runs -> SUBSET Paths]
        /\ \A q \in Runs : tracked'[q] \subseteq Paths \ Present
    BY <1>2, <2>1 DEF TrackParents, TypeOK, GuardsAvoidPresent
  <2> QED BY <2>2, <2>3, <2>4, GotoType DEF TypeOK, PresentStays, GuardsAvoidPresent
<1>3. CASE CreateDestination(r) \/ CopyPackage(r) \/ CreateOut(r)
  <2>1. PICK p \in Paths : MakeDir(r, p) \/ Put(r, p)
    BY <1>0, <1>3 DEF CreateDestination, CopyPackage, CreateOut
  <2>2. PICK where \in {"copy", "adapter", "out", "build"} : Goto(r, where)
    BY <1>3 DEF CreateDestination, CopyPackage, CreateOut
  <2>3. UNCHANGED <<tracked, pending, stuck>>
    BY <1>3 DEF CreateDestination, CopyPackage, CreateOut, guard
  <2> QED BY <2>1, <2>2, <2>3, GotoType, MakingKeeps
          DEF TypeOK, PresentStays, GuardsAvoidPresent
<1>4. CASE CheckAdapter(r)
  <2>1. CASE RustDir \in tree
    <3>1. /\ Goto(r, "drop") /\ pending' = [pending EXCEPT ![r] = tracked[r]]
          /\ UNCHANGED <<tree, owner, tracked, stuck>>
      BY <1>4, <2>1 DEF CheckAdapter
    <3> QED BY <3>1, GotoType DEF TypeOK, PresentStays, GuardsAvoidPresent
  <2>2. CASE RustDir \notin tree
    <3>1. Goto(r, "install") /\ UNCHANGED <<tree, owner, tracked, pending, stuck>>
      BY <1>4, <2>2 DEF CheckAdapter
    <3> QED BY <2>2, <3>1, GotoType DEF TypeOK, PresentStays, GuardsAvoidPresent
  <2> QED BY <2>1, <2>2
<1>5. CASE InstallAdapter(r)
  <2>1. Put(r, Adapter) /\ Goto(r, "out") /\ UNCHANGED <<pending, stuck>>
    BY <1>5 DEF InstallAdapter
  <2>2. /\ tracked' \in [Runs -> SUBSET Paths]
        /\ \A q \in Runs : tracked'[q] \subseteq Paths \ Present
    BY <1>0, <1>5 DEF InstallAdapter, TypeOK, GuardsAvoidPresent
  <2> QED BY <1>0, <2>1, <2>2, GotoType, MakingKeeps
          DEF TypeOK, PresentStays, GuardsAvoidPresent
<1>6. CASE Build(r) \/ StepFails(r)
  <2>1. PICK where \in {"cleanup", "drop"} : Goto(r, where)
    BY <1>6 DEF Build, StepFails
  <2>2. /\ pending' = [pending EXCEPT ![r] = tracked[r]]
        /\ UNCHANGED <<tree, owner, tracked, stuck>>
    BY <1>6 DEF Build, StepFails
  <2> QED BY <2>1, <2>2, GotoType DEF TypeOK, PresentStays, GuardsAvoidPresent
<1> QED BY <1>1, <1>2, <1>3, <1>4, <1>5, <1>6

\* The steps that remove: they take only what a guard holds.
LEMMA CleaningKeeps ==
  ASSUME IInv, NEW r \in Runs,
         CleanOne(r) \/ CleanFails(r) \/ Cleaned(r) \/ DropOne(r) \/ Dropped(r)
  PROVE  IInv'
<1> USE DEF IInv
<1>1. CASE CleanOne(r) \/ DropOne(r)
  <2>1. PICK p \in pending[r] :
          /\ pending' = [pending EXCEPT ![r] = @ \ {p}]
          /\ Remove(p) \/ UNCHANGED <<tree, owner>>
          /\ stuck' = stuck \/ stuck' = stuck \union {r}
          /\ UNCHANGED <<pc, tracked>>
    BY <1>1 DEF CleanOne, DropOne
  <2>2. p \in Paths \ Present BY DEF GuardsAvoidPresent
  <2>3. /\ tree' \subseteq Paths /\ Present \subseteq tree'
        /\ owner' \in [Paths -> Runs \union {Nobody, User, Left}]
    <3>1. CASE Remove(p) BY <2>2, <3>1, RemovingKeeps
    <3>2. CASE UNCHANGED <<tree, owner>> BY <3>2 DEF TypeOK, PresentStays
    <3> QED BY <2>1, <3>1, <3>2
  <2>4. /\ pending' \in [Runs -> SUBSET Paths]
        /\ \A q \in Runs : pending'[q] \subseteq pending[q]
    BY <2>1 DEF TypeOK
  <2> QED BY <2>1, <2>3, <2>4 DEF TypeOK, PresentStays, GuardsAvoidPresent
<1>2. CASE CleanFails(r)
  BY <1>2, GotoType DEF CleanFails, TypeOK, PresentStays, GuardsAvoidPresent
<1>3. CASE Cleaned(r) \/ Dropped(r)
  <2>1. PICK end \in {"done", "failed"} : Goto(r, end)
    BY <1>3 DEF Cleaned, Dropped
  <2>2. /\ tracked' = [tracked EXCEPT ![r] = {}]
        /\ UNCHANGED <<tree, owner, pending, stuck>>
    BY <1>3 DEF Cleaned, Dropped
  <2> QED BY <2>1, <2>2, GotoType DEF TypeOK, PresentStays, GuardsAvoidPresent
<1> QED BY <1>1, <1>2, <1>3

\* Kills, reruns and developers remove nothing.
LEMMA WorldKeeps ==
  ASSUME IInv,
         \/ \E r \in Runs : Kill(r) \/ Rerun(r)
         \/ \E p \in UserPaths : UserCreates(p)
  PROVE  IInv'
<1> USE DEF IInv
<1>1. ASSUME NEW r \in Runs, Kill(r) PROVE IInv'
  <2>1. Goto(r, "killed") /\ UNCHANGED <<tree, stuck>> BY <1>1 DEF Kill
  <2>2. owner' \in [Paths -> Runs \union {Nobody, User, Left}]
    BY <1>1 DEF Kill, TypeOK
  <2>3. /\ tracked' = [tracked EXCEPT ![r] = {}]
        /\ pending' = [pending EXCEPT ![r] = {}]
    BY <1>1 DEF Kill
  <2> QED BY <2>1, <2>2, <2>3, GotoType DEF TypeOK, PresentStays, GuardsAvoidPresent
<1>2. ASSUME NEW r \in Runs, Rerun(r) PROVE IInv'
  <2>1. Goto(r, "check") /\ UNCHANGED <<tree, tracked, pending, stuck>>
    BY <1>2 DEF Rerun, guard
  <2>2. owner' \in [Paths -> Runs \union {Nobody, User, Left}]
    BY <1>2 DEF Rerun, TypeOK
  <2> QED BY <2>1, <2>2, GotoType DEF TypeOK, PresentStays, GuardsAvoidPresent
<1>3. ASSUME NEW p \in UserPaths, UserCreates(p) PROVE IInv'
  <2>1. MakeDir(User, p) /\ UNCHANGED <<pc, tracked, pending, stuck>> /\ p \in Paths
    BY <1>3, OverlayAssumption DEF UserCreates, guard
  <2> QED BY <2>1, MakingKeeps DEF TypeOK, PresentStays, GuardsAvoidPresent
<1> QED BY <1>1, <1>2, <1>3

LEMMA NextHolds == IInv /\ [Next]_vars => IInv'
<1> SUFFICES ASSUME IInv, [Next]_vars PROVE IInv' OBVIOUS
<1>1. CASE UNCHANGED vars
  BY <1>1 DEF vars, IInv, TypeOK, PresentStays, GuardsAvoidPresent
<1>2. ASSUME NEW r \in Runs, Step(r) PROVE IInv'
  BY <1>2, BuildingKeeps, CleaningKeeps DEF Step
<1>3. CASE \/ \E r \in Runs : Kill(r) \/ Rerun(r)
           \/ \E p \in UserPaths : UserCreates(p)
  BY <1>3, WorldKeeps
<1> QED BY <1>1, <1>2, <1>3 DEF Next

\* Type correctness, and that guards hold only paths that were missing.
THEOREM GuardsStayOff == Spec => [](TypeOK /\ GuardsAvoidPresent)
<1>1. IInv => TypeOK /\ GuardsAvoidPresent BY DEF IInv
<1> QED BY <1>1, InitHolds, NextHolds, PTL DEF Spec

\* Nothing that was in the source tree is ever removed: track_missing_parents
\* and the two existence checks keep it out of every OverlayGuard.
THEOREM SourceTreeSafe == Spec => []PresentStays
<1>1. IInv => PresentStays BY DEF IInv
<1> QED BY <1>1, InitHolds, NextHolds, PTL DEF Spec

-----------------------------------------------------------------------------
\* What the steps of one run are to the others.

\* A guard holds only claims of its run, and only a run whose contract says so
\* gets to the adapter.
ClaimsInv ==
  \A r \in Runs :
    /\ tracked[r] \union pending[r] \subseteq Claims(r)
    /\ pc[r] \in {"adapter", "install"} => r \in Host

TreeClosed == \A p \in tree : Above[p] \subseteq tree

\* by creates path p with its parents.
Makes(by, p) == MakeDir(by, p) \/ Put(by, p)

Relabels(r) ==
  /\ owner' = [p \in Paths |-> IF owner[p] = r THEN Left ELSE owner[p]]
  /\ UNCHANGED tree

\* A step of run r, or of its caller, does one of four things to the tree and
\* nothing to the other runs.
LEMMA StepShape ==
  ASSUME IInv, ClaimsInv, NEW r \in Runs, Step(r) \/ Kill(r) \/ Rerun(r)
  PROVE  /\ \A q \in Runs \ {r} : /\ pc'[q] = pc[q] /\ tracked'[q] = tracked[q]
                                  /\ pending'[q] = pending[q]
         /\ stuck \subseteq stuck'
         /\ \/ \E p \in Paths : Makes(r, p) /\ Above[p] \union {p} \subseteq Writes(r)
            \/ \E p \in pending[r] : Remove(p)
            \/ UNCHANGED <<tree, owner>>
            \/ Relabels(r)
<1> DEFINE Alone == /\ \A q \in Runs \ {r} : /\ pc'[q] = pc[q]
                                             /\ tracked'[q] = tracked[q]
                                             /\ pending'[q] = pending[q]
                    /\ stuck \subseteq stuck'
<1> USE DEF IInv, TypeOK
<1>0. /\ Dest[r] \in Above[Package[r]] /\ Above[Dest[r]] \subseteq Above[Package[r]]
      /\ Package[r] \in Paths /\ Dest[r] \in Paths /\ Out[r] \in Paths /\ Adapter \in Paths
  BY OverlayAssumption
<1>1. CASE CheckDestination(r) \/ TrackParents(r) \/ Build(r) \/ StepFails(r)
             \/ CleanFails(r) \/ Cleaned(r) \/ Dropped(r) \/ CheckAdapter(r)
  <2>1. UNCHANGED <<tree, owner>>
    BY <1>1 DEF CheckDestination, TrackParents, Build, StepFails, CleanFails,
                Cleaned, Dropped, CheckAdapter
  <2>2. Alone
    BY <1>1 DEF CheckDestination, TrackParents, Build, StepFails, CleanFails,
                Cleaned, Dropped, CheckAdapter, Goto, guard
  <2> QED BY <2>1, <2>2
<1>2. CASE CreateDestination(r)
  <2>1. Alone BY <1>2 DEF CreateDestination, Goto, guard
  <2>2. Makes(r, Dest[r]) BY <1>2 DEF CreateDestination, Makes
  <2>3. Above[Dest[r]] \union {Dest[r]} \subseteq Writes(r) BY <1>0 DEF Writes
  <2> QED BY <1>0, <2>1, <2>2, <2>3
<1>3. CASE CopyPackage(r)
  <2>1. Alone BY <1>3 DEF CopyPackage, Goto, guard
  <2>2. Makes(r, Package[r]) BY <1>3 DEF CopyPackage, Makes
  <2>3. Above[Package[r]] \union {Package[r]} \subseteq Writes(r) BY DEF Writes
  <2> QED BY <1>0, <2>1, <2>2, <2>3
<1>4. CASE InstallAdapter(r)
  <2>1. Alone BY <1>4 DEF InstallAdapter, Goto
  <2>2. Makes(r, Adapter) /\ r \in Host BY <1>4 DEF InstallAdapter, Makes, ClaimsInv
  <2>3. Above[Adapter] \union {Adapter} \subseteq Writes(r) BY <2>2 DEF Writes
  <2> QED BY <1>0, <2>1, <2>2, <2>3
<1>5. CASE CreateOut(r)
  <2>1. Alone BY <1>5 DEF CreateOut, Goto, guard
  <2>2. Makes(r, Out[r]) BY <1>5 DEF CreateOut, Makes
  <2>3. Above[Out[r]] \union {Out[r]} \subseteq Writes(r) BY DEF Writes
  <2> QED BY <1>0, <2>1, <2>2, <2>3
<1>6. CASE CleanOne(r) \/ DropOne(r)
  <2>1. Alone BY <1>6 DEF CleanOne, DropOne
  <2>2. (\E p \in pending[r] : Remove(p)) \/ UNCHANGED <<tree, owner>>
    BY <1>6 DEF CleanOne, DropOne
  <2> QED BY <2>1, <2>2
<1>7. CASE Kill(r) \/ Rerun(r)
  <2>1. Alone BY <1>7 DEF Kill, Rerun, Goto, guard
  <2>2. Relabels(r) BY <1>7 DEF Kill, Rerun, Relabels
  <2> QED BY <2>1, <2>2
<1> QED BY <1>1, <1>2, <1>3, <1>4, <1>5, <1>6, <1>7 DEF Step

LEMMA ClaimsStep == IInv /\ ClaimsInv /\ [Next]_vars => ClaimsInv'
<1> SUFFICES ASSUME IInv, ClaimsInv, [Next]_vars PROVE ClaimsInv'
  OBVIOUS
<1> USE DEF IInv, TypeOK
<1>0. ASSUME NEW r \in Runs,
             \A q \in Runs \ {r} : /\ pc'[q] = pc[q] /\ tracked'[q] = tracked[q]
                                   /\ pending'[q] = pending[q],
             tracked'[r] \subseteq Claims(r), pending'[r] \subseteq Claims(r),
             pc'[r] \in {"adapter", "install"} => r \in Host
      PROVE  ClaimsInv'
  BY <1>0 DEF ClaimsInv, Claims
<1>1. ASSUME NEW r \in Runs, Step(r) \/ Kill(r) \/ Rerun(r) PROVE ClaimsInv'
  <2>0. /\ \A q \in Runs \ {r} : /\ pc'[q] = pc[q] /\ tracked'[q] = tracked[q]
                                 /\ pending'[q] = pending[q]
        /\ tracked[r] \subseteq Claims(r) /\ pending[r] \subseteq Claims(r)
    BY <1>1, StepShape DEF ClaimsInv
  <2>1. tracked'[r] \subseteq Claims(r)
    <3>1. CASE TrackParents(r)
      <4>1. tracked'[r] = (Above[Dest[r]] \ tree) \union {Dest[r]}
        BY <3>1 DEF TrackParents
      <4> QED BY <4>1 DEF Claims, PresentStays
    <3>2. CASE InstallAdapter(r)
      <4>1. tracked'[r] = tracked[r] \union {RustDir} /\ r \in Host
        BY <3>2 DEF InstallAdapter, ClaimsInv
      <4> QED BY <2>0, <4>1 DEF Claims
    <3>3. CASE ~TrackParents(r) /\ ~InstallAdapter(r)
      <4>1. tracked'[r] = tracked[r] \/ tracked'[r] = {}
        BY <1>1, <3>3 DEF Step, CheckDestination, CreateDestination, CopyPackage,
           CheckAdapter, CreateOut, Build, StepFails, CleanOne, CleanFails,
           Cleaned, DropOne, Dropped, Kill, Rerun, guard
      <4> QED BY <2>0, <4>1
    <3> QED BY <3>1, <3>2, <3>3
  <2>2. pending'[r] \subseteq Claims(r)
    <3>1. \/ pending'[r] \subseteq pending[r] \/ pending'[r] = tracked[r]
      BY <1>1 DEF Step, CheckDestination, TrackParents, CreateDestination, CopyPackage,
         CheckAdapter, InstallAdapter, CreateOut, Build, StepFails, CleanOne, CleanFails,
         Cleaned, DropOne, Dropped, Kill, Rerun, guard
    <3> QED BY <2>0, <3>1
  <2>3. pc'[r] \in {"adapter", "install"} => r \in Host
    <3>1. CASE Step(r) /\ ~CopyPackage(r) /\ ~CheckAdapter(r) /\ ~CleanOne(r) /\ ~DropOne(r)
      <4>1. pc'[r] \notin {"adapter", "install"}
        BY <3>1 DEF Step, CheckDestination, TrackParents, CreateDestination,
           InstallAdapter, CreateOut, Build, StepFails, CleanFails,
           Cleaned, Dropped, Goto
      <4> QED BY <4>1
    <3>2. CASE CopyPackage(r)
      BY <3>2 DEF CopyPackage, Goto
    <3>3. CASE CheckAdapter(r)
      BY <3>3 DEF CheckAdapter, Goto, ClaimsInv
    <3>4. CASE CleanOne(r) \/ DropOne(r)
      BY <3>4 DEF CleanOne, DropOne, ClaimsInv
    <3>5. CASE Kill(r) \/ Rerun(r)
      BY <3>5 DEF Kill, Rerun, Goto
    <3> QED BY <1>1, <3>1, <3>2, <3>3, <3>4, <3>5
  <2> QED BY <1>0, <2>0, <2>1, <2>2, <2>3
<1>2. CASE UNCHANGED <<pc, tracked, pending>>
  BY <1>2 DEF ClaimsInv, Claims
<1> QED BY <1>1, <1>2 DEF Next, vars, UserCreates, guard

-----------------------------------------------------------------------------
\* What a run leaves.

\* What r has created and not given back, its Ninja output apart.
Mine(r) == {p \in tree : owner[p] = r /\ p \notin Above[Out[r]] \union {Out[r]}}

Covered(S, by) == \A p \in S : \E t \in by : p \in Below(t)

Making == {"copy", "adapter", "install", "out", "build"}

\* Before it creates anything and after it has ended a run has nothing; in
\* between all it has is below what its guard holds.
LeftInv(r) ==
  /\ pc[r] \notin Making \union {"cleanup", "drop"} => Mine(r) = {}
  /\ pc[r] \in Making \union {"create"} =>
       (Above[Dest[r]] \ tree) \union {Dest[r]} \subseteq tracked[r]
  /\ pc[r] \in Making => Covered(Mine(r), tracked[r])
  /\ pc[r] \in {"cleanup", "drop"} =>
       pending[r] \subseteq tracked[r] /\ Covered(Mine(r), pending[r])

LInv == \A r \in Runs \ stuck : LeftInv(r)

\* A run keeps what it has as long as the others leave its parents alone.
LEMMA LeftStands ==
  ASSUME IInv, NEW r \in Runs, LeftInv(r),
         pc'[r] = pc[r], tracked'[r] = tracked[r], pending'[r] = pending[r],
         Mine(r)' \subseteq Mine(r),
         Above[Dest[r]] \intersect tree \subseteq tree'
  PROVE  LeftInv(r)'
BY DEF LeftInv, Covered, Below

\* Creating, removing and relabelling, seen from run q.
LEMMA MakingMine ==
  ASSUME IInv, NEW by \in Runs \union {User}, NEW p \in Paths, Makes(by, p), NEW q \in Runs
  PROVE  /\ tree \subseteq tree'
         /\ q # by => Mine(q)' \subseteq Mine(q)
         /\ q = by => Mine(q)' \subseteq Mine(q) \union (Above[p] \ tree) \union {p}
<1>1. tree' = tree \union Above[p] \union {p} /\ Above[p] \subseteq Paths
  BY OverlayAssumption DEF Makes, MakeDir, Put
<1>2. CASE MakeDir(by, p)
  BY <1>1, <1>2 DEF MakeDir, Mine, IInv, TypeOK
<1>3. CASE Put(by, p)
  <2>1. \A x \in Paths : owner'[x] =
          IF x = p \/ (x \in Above[p] /\ x \notin tree) THEN by ELSE owner[x]
    BY <1>3 DEF Put
  <2>2. tree' \subseteq Paths
    BY <1>1 DEF IInv, TypeOK
  <2>3. ASSUME NEW x \in tree', owner'[x] = q
        PROVE  \/ x \in tree /\ owner[x] = q
               \/ q = by /\ (x = p \/ x \in Above[p] \ tree)
    BY <1>1, <2>1, <2>2, <2>3
  <2> QED BY <1>1, <1>2, <2>3 DEF Mine
<1> QED BY <1>2, <1>3 DEF Makes

LEMMA RemovingMine ==
  ASSUME IInv, NEW p \in Paths, Remove(p), NEW q \in Runs
  PROVE  /\ Mine(q)' \subseteq Mine(q) \ Below(p)
         /\ \A x \in tree : p \notin Above[x] \union {x} => x \in tree'
BY OverlayAssumption DEF Remove, Mine, Below, IInv, TypeOK

LEMMA OthersMine ==
  ASSUME IInv, ClaimsInv, Apart, NEW r \in Runs, Step(r) \/ Kill(r) \/ Rerun(r),
         NEW q \in Runs \ {r}, LeftInv(q)
  PROVE  LeftInv(q)'
<1>1. CASE \E p \in Paths : Makes(r, p)
  BY <1>1, MakingMine, StepShape, LeftStands
<1>2. CASE \E p \in pending[r] : Remove(p)
  <2>1. PICK p \in pending[r] : Remove(p)
    BY <1>2
  <2>2. p \in Paths /\ p \in Claims(r)
    BY DEF IInv, TypeOK, ClaimsInv
  <2>3. ASSUME NEW x \in Above[Dest[q]] PROVE p \notin Above[x] \union {x}
    <3>1. x \in Paths /\ Dest[q] \in Paths /\ Above[x] \subseteq Above[Dest[q]]
      BY OverlayAssumption
    <3> QED BY <2>2, <3>1 DEF Apart
  <2> QED BY <2>1, <2>2, <2>3, RemovingMine, StepShape, LeftStands
<1>3. CASE UNCHANGED <<tree, owner>> \/ Relabels(r)
  <2>1. Mine(q)' \subseteq Mine(q) /\ tree' = tree
    <3>1. Left \notin Runs
      BY OverlayAssumption
    <3> QED BY <1>3, <3>1 DEF Mine, Relabels, IInv, TypeOK
  <2> QED BY <2>1, StepShape, LeftStands
<1> QED BY <1>1, <1>2, <1>3, StepShape

\* The steps of the run itself.
LEMMA OwnBuilding ==
  ASSUME IInv, ClaimsInv, Apart, NEW r \in Runs, LeftInv(r),
         \/ CheckDestination(r) \/ TrackParents(r) \/ CreateDestination(r)
         \/ CopyPackage(r) \/ InstallAdapter(r) \/ CreateOut(r)
  PROVE  LeftInv(r)'
<1> USE DEF IInv
<1>0. /\ Dest[r] \in Above[Package[r]] /\ Package[r] \in Paths /\ Dest[r] \in Paths
      /\ Out[r] \in Paths /\ RustDir \in Above[Adapter] /\ Adapter \in Paths
      /\ RustDir \in Paths
      /\ \A p \in Paths : \A a, b \in Above[p] : a = b \/ a \in Above[b] \/ b \in Above[a]
  BY OverlayAssumption
<1>1. CASE CheckDestination(r) \/ TrackParents(r)
  <2>1. Goto(r, pc'[r]) /\ pc'[r] \in {"refused", "parents", "create"}
    BY <1>1, GotoType DEF CheckDestination, TrackParents, Goto, TypeOK
  <2>2. UNCHANGED <<tree, owner>> /\ Mine(r) = {}
    BY <1>1 DEF CheckDestination, TrackParents, LeftInv, Making
  <2>3. pc'[r] = "create" => tracked'[r] = (Above[Dest[r]] \ tree) \union {Dest[r]}
    BY <1>1 DEF CheckDestination, TrackParents, Goto, TypeOK
  <2> QED BY <2>1, <2>2, <2>3 DEF LeftInv, Mine, Making
<1>2. CASE CreateDestination(r)
  <2>1. MakeDir(r, Dest[r]) /\ Goto(r, "copy") /\ UNCHANGED guard /\ pc[r] = "create"
    BY <1>2 DEF CreateDestination
  <2>2. /\ Mine(r)' \subseteq Mine(r) \union (Above[Dest[r]] \ tree) \union {Dest[r]}
        /\ tree \subseteq tree'
    BY <1>0, <2>1, MakingMine DEF Makes
  <2>3. Mine(r) = {} /\ (Above[Dest[r]] \ tree) \union {Dest[r]} \subseteq tracked[r]
    BY <2>1 DEF LeftInv, Making
  <2>4. Mine(r)' \subseteq Paths
    BY <2>1, MakingKeeps, <1>0 DEF Mine
  <2>5. Covered(Mine(r)', tracked[r])
    BY <2>2, <2>3, <2>4 DEF Covered, Below
  <2> QED BY <2>1, <2>2, <2>3, <2>5, GotoType DEF LeftInv, Making, guard
<1>3. CASE CopyPackage(r)
  <2>1. /\ Put(r, Package[r]) /\ Goto(r, pc'[r]) /\ pc'[r] \in {"adapter", "out"}
        /\ UNCHANGED guard /\ pc[r] = "copy"
    BY <1>3, GotoType DEF CopyPackage, Goto, TypeOK
  <2>2. /\ Mine(r)' \subseteq Mine(r) \union (Above[Package[r]] \ tree) \union {Package[r]}
        /\ tree \subseteq tree'
    BY <1>0, <2>1, MakingMine DEF Makes
  <2>3. /\ (Above[Dest[r]] \ tree) \union {Dest[r]} \subseteq tracked[r]
        /\ Covered(Mine(r), tracked[r])
    BY <2>1 DEF LeftInv, Making
  <2>4. Mine(r)' \subseteq Paths
    BY <2>1, MakingKeeps, <1>0 DEF Mine
  <2>5. ASSUME NEW x \in Mine(r)', x \notin Mine(r)
        PROVE  \E t \in tracked[r] : x \in Below(t)
    <3>1. x = Package[r] \/ x \in Above[Package[r]] \ tree
      BY <2>2, <2>5
    <3>2. x = Package[r] \/ x = Dest[r] \/ Dest[r] \in Above[x] \/ x \in Above[Dest[r]] \ tree
      BY <1>0, <3>1
    <3> QED BY <1>0, <2>3, <2>4, <3>2 DEF Below
  <2>6. Covered(Mine(r)', tracked[r])
    BY <2>3, <2>5 DEF Covered
  <2> QED BY <2>1, <2>2, <2>3, <2>6 DEF LeftInv, Making, guard
<1>4. CASE InstallAdapter(r)
  <2>1. /\ Put(r, Adapter) /\ pc'[r] = "out" /\ pc[r] = "install"
        /\ tracked'[r] = tracked[r] \union {RustDir} /\ UNCHANGED <<pending, stuck>>
    BY <1>4, GotoType DEF InstallAdapter, TypeOK
  <2>2. /\ Mine(r)' \subseteq Mine(r) \union (Above[Adapter] \ tree) \union {Adapter}
        /\ tree \subseteq tree'
    BY <1>0, <2>1, MakingMine DEF Makes
  <2>3. /\ (Above[Dest[r]] \ tree) \union {Dest[r]} \subseteq tracked[r]
        /\ Covered(Mine(r), tracked[r])
    BY <2>1 DEF LeftInv, Making
  <2>4. Mine(r)' \subseteq Paths
    BY <2>1, MakingKeeps, <1>0 DEF Mine
  <2>5. Above[RustDir] \subseteq tree
    BY <2>1 DEF Apart, ClaimsInv, PresentStays
  <2>6. ASSUME NEW x \in Mine(r)', x \notin Mine(r) PROVE x \in Below(RustDir)
    <3>1. x = Adapter \/ x \in Above[Adapter] \ tree
      BY <2>2, <2>6
    <3>2. x = Adapter \/ x = RustDir \/ RustDir \in Above[x]
      BY <1>0, <2>5, <3>1
    <3> QED BY <1>0, <2>4, <3>2 DEF Below
  <2>7. Covered(Mine(r)', tracked'[r])
    BY <2>1, <2>3, <2>6 DEF Covered
  <2> QED BY <2>1, <2>2, <2>3, <2>7 DEF LeftInv, Making
<1>5. CASE CreateOut(r)
  <2>1. MakeDir(r, Out[r]) /\ Goto(r, "build") /\ UNCHANGED guard /\ pc[r] = "out"
    BY <1>5 DEF CreateOut
  <2>2. Mine(r)' \subseteq Mine(r) /\ tree \subseteq tree'
    <3>1. /\ Mine(r)' \subseteq Mine(r) \union (Above[Out[r]] \ tree) \union {Out[r]}
          /\ tree \subseteq tree'
      BY <1>0, <2>1, MakingMine DEF Makes
    <3>2. Mine(r)' \intersect (Above[Out[r]] \union {Out[r]}) = {}
      BY DEF Mine
    <3> QED BY <3>1, <3>2
  <2> QED BY <2>1, <2>2, GotoType DEF LeftInv, Making, Covered, guard
<1> QED BY <1>1, <1>2, <1>3, <1>4, <1>5

LEMMA OwnEnding ==
  ASSUME IInv, NEW r \in Runs, LeftInv(r), r \notin stuck',
         \/ CheckAdapter(r) \/ Build(r) \/ StepFails(r) \/ CleanOne(r)
         \/ CleanFails(r) \/ Cleaned(r) \/ DropOne(r) \/ Dropped(r)
         \/ Kill(r) \/ Rerun(r)
  PROVE  LeftInv(r)'
<1> USE DEF IInv
<1>1. CASE CheckAdapter(r) /\ RustDir \notin tree
  <2>1. /\ pc[r] = "adapter" /\ Goto(r, "install")
        /\ UNCHANGED <<tree, owner, tracked, pending>>
    BY <1>1 DEF CheckAdapter
  <2> QED BY <2>1, GotoType DEF LeftInv, Making, Mine, Covered
<1>2. CASE (CheckAdapter(r) /\ RustDir \in tree) \/ Build(r) \/ StepFails(r) \/ CleanFails(r)
  <2>1. /\ pc[r] \in Making \union {"create", "cleanup"}
        /\ pc'[r] \in {"cleanup", "drop"}
        /\ pending'[r] = tracked[r] /\ UNCHANGED <<tree, owner, tracked>>
    BY <1>2, GotoType DEF CheckAdapter, Build, StepFails, CleanFails, Making, TypeOK
  <2>2. Covered(Mine(r), tracked[r])
    BY <2>1 DEF LeftInv, Making, Covered
  <2>3. Mine(r)' = Mine(r)
    BY <2>1 DEF Mine
  <2> QED BY <2>1, <2>2, <2>3 DEF LeftInv, Making
<1>3. CASE CleanOne(r) \/ DropOne(r)
  <2>1. PICK p \in pending[r] :
          pending' = [pending EXCEPT ![r] = @ \ {p}] /\ Remove(p)
    BY <1>3 DEF CleanOne, DropOne
  <2>2. /\ pc[r] \in {"cleanup", "drop"} /\ pc'[r] = pc[r] /\ tracked'[r] = tracked[r]
        /\ pending'[r] = pending[r] \ {p}
    BY <1>3, <2>1 DEF CleanOne, DropOne, TypeOK
  <2>3. p \in Paths
    BY DEF TypeOK
  <2>4. Mine(r)' \subseteq Mine(r) \ Below(p)
    BY <2>1, <2>3, RemovingMine
  <2>5. Covered(Mine(r)', pending'[r])
    BY <2>2, <2>4 DEF LeftInv, Covered
  <2> QED BY <2>2, <2>5 DEF LeftInv, Making
<1>4. CASE Cleaned(r) \/ Dropped(r)
  <2>1. /\ pc[r] \in {"cleanup", "drop"} /\ pending[r] = {}
        /\ pc'[r] \in {"done", "failed"} /\ UNCHANGED <<tree, owner>>
    BY <1>4, GotoType DEF Cleaned, Dropped
  <2>2. Mine(r)' = {}
    BY <2>1 DEF LeftInv, Covered, Mine
  <2> QED BY <2>1, <2>2 DEF LeftInv, Making
<1>5. CASE Kill(r) \/ Rerun(r)
  <2>1. pc'[r] \in {"killed", "check"} /\ tree' = tree
    BY <1>5, GotoType DEF Kill, Rerun
  <2>2. \A p \in Paths : owner'[p] # r
    <3>1. r # Left
      BY OverlayAssumption
    <3> QED BY <1>5, <3>1 DEF Kill, Rerun
  <2>3. Mine(r)' = {}
    BY <2>1, <2>2 DEF Mine, TypeOK
  <2> QED BY <2>1, <2>3 DEF LeftInv, Making
<1> QED BY <1>1, <1>2, <1>3, <1>4, <1>5

LEMMA InitLeft == Init => ClaimsInv /\ LInv
<1> SUFFICES ASSUME Init PROVE ClaimsInv /\ LInv
  OBVIOUS
<1>1. \A r \in Runs : r # Nobody
  BY OverlayAssumption
<1>2. \A r \in Runs : Mine(r) = {}
  BY <1>1, OverlayAssumption DEF Init, Mine
<1> QED BY <1>2 DEF Init, ClaimsInv, LInv, LeftInv, Making

LEMMA NextLeft == IInv /\ ClaimsInv /\ Apart /\ LInv /\ [Next]_vars => LInv'
<1> SUFFICES ASSUME IInv, ClaimsInv, Apart, LInv, [Next]_vars PROVE LInv'
  OBVIOUS
<1>1. ASSUME NEW r \in Runs, Step(r) \/ Kill(r) \/ Rerun(r),
             NEW q \in Runs, q \notin stuck'
      PROVE  LeftInv(q)'
  <2>1. LeftInv(q)
    BY <1>1, StepShape DEF LInv
  <2>2. CASE q = r
    BY <1>1, <2>1, <2>2, OwnBuilding, OwnEnding DEF Step
  <2>3. CASE q # r
    BY <1>1, <2>1, <2>3, OthersMine
  <2> QED BY <2>2, <2>3
<1>2. ASSUME NEW p \in UserPaths, UserCreates(p), NEW q \in Runs, q \notin stuck'
      PROVE  LeftInv(q)'
  <2>1. Makes(User, p) /\ p \in Paths /\ UNCHANGED <<pc, tracked, pending, stuck>> /\ q # User
    BY <1>2, OverlayAssumption DEF UserCreates, Makes, guard
  <2>2. tree \subseteq tree' /\ Mine(q)' \subseteq Mine(q)
    BY <2>1, MakingMine
  <2> QED BY <1>2, <2>1, <2>2, LeftStands DEF LInv
<1>3. ASSUME UNCHANGED vars, NEW q \in Runs, q \notin stuck' PROVE LeftInv(q)'
  BY <1>3, LeftStands DEF vars, LInv, Mine
<1> QED BY <1>1, <1>2, <1>3 DEF LInv, Next

\* Whichever step fails, a run that was not killed and whose Drop could remove
\* everything leaves only its Ninja output, if no other run removes the
\* directories of its destination (OverlayGuard::cleanup and drop).
THEOREM OverlayRemoved ==
  ASSUME Apart PROVE Spec => []NothingLeft
<1>1. Init => IInv /\ ClaimsInv /\ LInv
  BY InitHolds, InitLeft
<1>2. IInv /\ ClaimsInv /\ LInv /\ [Next]_vars => (IInv /\ ClaimsInv /\ LInv)'
  BY NextHolds, ClaimsStep, NextLeft
<1>3. LInv => NothingLeft
  BY DEF LInv, LeftInv, NothingLeft, Mine, Making
<1> QED BY <1>1, <1>2, <1>3, PTL DEF Spec

-----------------------------------------------------------------------------
\* What a run builds from.

\* All there is below p is r's.
OwnedBelow(p, r) == \A x \in tree : x \in Below(p) => owner[x] = r

EmptyBelow(p) == tree \intersect Below(p) = {}

\* From the existence checks on, what is where r builds from is r's.
ZoneInv(r) ==
  /\ pc[r] \in {"parents", "create"} => EmptyBelow(Dest[r])
  /\ pc[r] \in Making => OwnedBelow(Dest[r], r)
  /\ pc[r] = "install" => EmptyBelow(RustDir)
  /\ pc[r] \in {"out", "build"} /\ r \in Host => OwnedBelow(RustDir, r)

ZInv == TreeClosed /\ \A r \in Runs : ZoneInv(r)

\* Where nothing is, nothing is below.
LEMMA NothingBelow ==
  ASSUME TreeClosed, NEW p \in Paths, p \notin tree PROVE EmptyBelow(p)
BY DEF TreeClosed, EmptyBelow, Below

LEMMA MakesOwner ==
  ASSUME IInv, NEW by \in Runs \union {User}, NEW p \in Paths, Makes(by, p)
  PROVE  /\ tree' = tree \union Above[p] \union {p} /\ tree' \subseteq Paths
         /\ \A x \in tree' : \/ owner'[x] = by
                             \/ x \in tree /\ owner'[x] = owner[x]
         /\ \A x \in tree' : x \notin Above[p] \union {p} => owner'[x] = owner[x]
<1>1. tree' = tree \union Above[p] \union {p} /\ tree' \subseteq Paths
  BY OverlayAssumption DEF Makes, MakeDir, Put, IInv, TypeOK
<1>2. CASE MakeDir(by, p)
  BY <1>1, <1>2 DEF MakeDir
<1>3. CASE Put(by, p)
  BY <1>1, <1>3 DEF Put
<1> QED BY <1>1, <1>2, <1>3 DEF Makes

LEMMA RemovesOwner ==
  ASSUME IInv, NEW p \in Paths, Remove(p)
  PROVE  tree' \subseteq tree /\ \A x \in tree' : owner'[x] = owner[x]
BY DEF Remove, IInv, TypeOK

LEMMA ClosedStep == IInv /\ ClaimsInv /\ TreeClosed /\ [Next]_vars => TreeClosed'
<1> SUFFICES ASSUME IInv, ClaimsInv, TreeClosed, [Next]_vars PROVE TreeClosed'
  OBVIOUS
<1>0. \A p \in Paths : Above[p] \subseteq Paths /\ \A a \in Above[p] : Above[a] \subseteq Above[p]
  BY OverlayAssumption
<1>1. ASSUME NEW p \in Paths, NEW by, Makes(by, p) PROVE TreeClosed'
  <2>1. tree' = tree \union Above[p] \union {p}
    BY <1>1 DEF Makes, MakeDir, Put
  <2> QED BY <1>0, <2>1 DEF TreeClosed
<1>2. ASSUME NEW p \in Paths, Remove(p) PROVE TreeClosed'
  <2>1. tree' = tree \ Below(p) /\ tree \subseteq Paths
    BY <1>2 DEF Remove, IInv, TypeOK
  <2> QED BY <1>0, <2>1 DEF TreeClosed, Below
<1>3. CASE tree' = tree
  BY <1>3 DEF TreeClosed
<1>4. ASSUME NEW r \in Runs, Step(r) \/ Kill(r) \/ Rerun(r) PROVE TreeClosed'
  BY <1>1, <1>2, <1>3, <1>4, StepShape DEF Relabels, IInv, TypeOK
<1>5. ASSUME NEW p \in UserPaths, UserCreates(p) PROVE TreeClosed'
  BY <1>1, <1>5, OverlayAssumption DEF UserCreates, Makes
<1> QED BY <1>3, <1>4, <1>5 DEF Next, vars

\* A run keeps what it builds from as long as the others add nothing to it and
\* change no owner in it.
LEMMA ZoneStands ==
  ASSUME NEW q \in Runs, ZoneInv(q), pc'[q] = pc[q],
         \A x \in tree' \intersect Zone(q) :
           x \in tree /\ (owner[x] = q => owner'[x] = q),
         pc[q] = "install" => q \in Host
  PROVE  ZoneInv(q)'
BY DEF ZoneInv, Zone, EmptyBelow, OwnedBelow, Below, Making

LEMMA OthersZone ==
  ASSUME IInv, ClaimsInv, OwnDestinations, NEW r \in Runs,
         Step(r) \/ Kill(r) \/ Rerun(r), NEW q \in Runs \ {r}, ZoneInv(q)
  PROVE  ZoneInv(q)'
<1>1. CASE \E p \in Paths : Makes(r, p) /\ Above[p] \union {p} \subseteq Writes(r)
  <2>1. PICK p \in Paths : Makes(r, p) /\ Above[p] \union {p} \subseteq Writes(r)
    BY <1>1
  <2>2. (Above[p] \union {p}) \intersect Zone(q) = {}
    BY <2>1 DEF OwnDestinations
  <2> QED BY <2>1, <2>2, MakesOwner, StepShape, ZoneStands DEF ClaimsInv
<1>2. CASE \E p \in pending[r] : Remove(p)
  <2>1. \A p \in pending[r] : p \in Paths
    BY DEF IInv, TypeOK
  <2> QED BY <1>2, <2>1, RemovesOwner, StepShape, ZoneStands DEF ClaimsInv
<1>3. CASE UNCHANGED <<tree, owner>> \/ Relabels(r)
  <2>1. tree' = tree /\ \A x \in tree : owner[x] = q => owner'[x] = q
    BY <1>3 DEF Relabels, IInv, TypeOK
  <2> QED BY <2>1, StepShape, ZoneStands DEF ClaimsInv
<1> QED BY <1>1, <1>2, <1>3, StepShape

LEMMA OwnZone ==
  ASSUME IInv, ClaimsInv, TreeClosed, NEW r \in Runs, ZoneInv(r),
         Step(r) \/ Kill(r) \/ Rerun(r)
  PROVE  ZoneInv(r)'
<1> USE DEF IInv
<1>0. /\ Package[r] \in Paths /\ Dest[r] \in Paths /\ Out[r] \in Paths
      /\ Adapter \in Paths /\ RustDir \in Paths
  BY OverlayAssumption
<1>a. ASSUME NEW p \in Paths, Makes(r, p), NEW d \in Paths,
             EmptyBelow(d) \/ OwnedBelow(d, r)
      PROVE  OwnedBelow(d, r)'
  BY <1>a, MakesOwner DEF EmptyBelow, OwnedBelow, Below
<1>1. CASE CheckDestination(r) \/ TrackParents(r)
  <2>1. /\ UNCHANGED <<tree, owner>>
        /\ \/ pc'[r] = "refused"
           \/ pc'[r] = "parents" /\ Dest[r] \notin tree
           \/ pc'[r] = "create" /\ pc[r] = "parents"
    BY <1>1, GotoType DEF CheckDestination, TrackParents
  <2>2. pc'[r] \in {"parents", "create"} => EmptyBelow(Dest[r])
    BY <1>0, <2>1, NothingBelow DEF ZoneInv
  <2> QED BY <2>1, <2>2 DEF ZoneInv, Making, EmptyBelow
<1>2. CASE CreateDestination(r) \/ CopyPackage(r)
  <2>1. /\ \E p \in Paths : Makes(r, p)
        /\ pc[r] \in {"create", "copy"} /\ pc'[r] \in {"copy", "adapter", "out"}
        /\ pc'[r] = "out" => r \notin Host
    BY <1>0, <1>2, GotoType DEF CreateDestination, CopyPackage, Makes
  <2>2. OwnedBelow(Dest[r], r)'
    BY <1>0, <1>a, <2>1 DEF ZoneInv, Making
  <2> QED BY <2>1, <2>2 DEF ZoneInv, Making
<1>3. CASE CheckAdapter(r)
  <2>1. /\ UNCHANGED <<tree, owner>> /\ pc[r] = "adapter"
        /\ pc'[r] = "drop" \/ (pc'[r] = "install" /\ RustDir \notin tree)
    BY <1>3, GotoType DEF CheckAdapter
  <2>2. pc'[r] = "install" => EmptyBelow(RustDir)
    BY <1>0, <2>1, NothingBelow
  <2>3. OwnedBelow(Dest[r], r)
    BY <2>1 DEF ZoneInv, Making
  <2> QED BY <2>1, <2>2, <2>3 DEF ZoneInv, Making, EmptyBelow, OwnedBelow
<1>4. CASE InstallAdapter(r)
  <2>1. Makes(r, Adapter) /\ pc[r] = "install" /\ pc'[r] = "out"
    BY <1>4, GotoType DEF InstallAdapter, Makes
  <2>2. OwnedBelow(Dest[r], r)' /\ OwnedBelow(RustDir, r)'
    BY <1>0, <1>a, <2>1 DEF ZoneInv, Making
  <2> QED BY <2>1, <2>2 DEF ZoneInv, Making
<1>5. CASE CreateOut(r)
  <2>1. Makes(r, Out[r]) /\ pc[r] = "out" /\ pc'[r] = "build"
    BY <1>5, GotoType DEF CreateOut, Makes
  <2>2. OwnedBelow(Dest[r], r)' /\ (r \in Host => OwnedBelow(RustDir, r)')
    BY <1>0, <1>a, <2>1 DEF ZoneInv, Making
  <2> QED BY <2>1, <2>2 DEF ZoneInv, Making
<1>6. CASE \/ Build(r) \/ StepFails(r) \/ CleanOne(r) \/ CleanFails(r) \/ Cleaned(r)
           \/ DropOne(r) \/ Dropped(r) \/ Kill(r) \/ Rerun(r)
  <2>1. pc'[r] \in {"cleanup", "drop", "done", "failed", "killed", "check"}
    BY <1>6, GotoType DEF Build, StepFails, CleanOne, CleanFails, Cleaned,
       DropOne, Dropped, Kill, Rerun
  <2> QED BY <2>1 DEF ZoneInv, Making
<1> QED BY <1>1, <1>2, <1>3, <1>4, <1>5, <1>6 DEF Step

\* A build sees only the package of its own run, and only its own adapter, if
\* no other run and no developer writes where it builds from: whatever killed
\* runs have left, it is refused by the two existence checks of run_integration.
THEOREM OwnBuilds ==
  ASSUME OwnDestinations PROVE Spec => []BuildsItsOwn
<1>1. Init => IInv /\ ClaimsInv /\ ZInv
  <2>1. Init => TreeClosed
    BY OverlayAssumption DEF Init, TreeClosed
  <2>2. Init => ClaimsInv /\ \A r \in Runs : ZoneInv(r)
    BY InitLeft DEF Init, ZoneInv, Making
  <2> QED BY <2>1, <2>2, InitHolds DEF ZInv
<1>2. IInv /\ ClaimsInv /\ ZInv /\ [Next]_vars => (IInv /\ ClaimsInv /\ ZInv)'
  <2> SUFFICES ASSUME IInv, ClaimsInv, ZInv, [Next]_vars PROVE ZInv'
    BY NextHolds, ClaimsStep
  <2>1. ASSUME NEW r \in Runs, Step(r) \/ Kill(r) \/ Rerun(r), NEW q \in Runs
        PROVE  ZoneInv(q)'
    BY <2>1, OwnZone, OthersZone DEF ZInv
  <2>2. ASSUME NEW p \in UserPaths, UserCreates(p), NEW q \in Runs PROVE ZoneInv(q)'
    <3>1. /\ Makes(User, p) /\ p \in Paths /\ pc' = pc
          /\ (Above[p] \union {p}) \intersect Zone(q) = {}
      BY <2>2, OverlayAssumption DEF UserCreates, Makes, OwnDestinations
    <3> QED BY <3>1, MakesOwner, ZoneStands DEF ZInv, ClaimsInv
  <2>3. ASSUME UNCHANGED vars, NEW q \in Runs PROVE ZoneInv(q)'
    BY <2>3, ZoneStands DEF vars, ZInv, ClaimsInv
  <2> QED BY <2>1, <2>2, <2>3, ClosedStep DEF ZInv, Next
<1>3. ZInv => BuildsItsOwn
  BY DEF ZInv, ZoneInv, BuildsItsOwn, OwnedBelow, Making
<1> QED BY <1>1, <1>2, <1>3, PTL DEF Spec

-----------------------------------------------------------------------------
(***************************************************************************)
(* The record.                                                             *)
(***************************************************************************)

At == {None} \union {Some(r) : r \in Revisions}
Measurement ==
  [revision : Revisions, results : At,
   status : {"defined_not_measured", "passed", "failed"}]
RecordedBuild == [value : BOOLEAN, clean : BOOLEAN]

Record ==
  [revision : Revisions, status : {"in_progress", "complete", "retired"},
   closeout : BOOLEAN, rustValue : BOOLEAN, verification : SUBSET RecordedBuild,
   rollback : {"pending", "verified"}, patch : At,
   accepted : [Criteria -> {"pending", "verified", "passed"}],
   desktop : [Platforms -> At], fallback : [Platforms -> At],
   cases : [Cases -> At], suites : [Suites -> At],
   performance : Measurement, exposure : Measurement]

\* Results are of the revision a measured record is for, and a build without
\* Rust dependencies is one of the fallback value.
Honest(p) ==
  /\ \A e \in {p.performance, p.exposure} : e.results \subseteq Some(e.revision)
  /\ \A v \in p.verification : v.clean => v.value # p.rustValue

RecordInv == rec \in Record /\ Valid(rec) /\ Honest(rec)

-----------------------------------------------------------------------------
\* A record that nothing is claimed in is valid.
LEMMA InitValid == RecordInit => RecordInv
<1> SUFFICES ASSUME RecordInit PROVE RecordInv OBVIOUS
<1>1. PICK r \in Revisions, p \in Polarities :
        rec = [revision |-> r, status |-> "in_progress", closeout |-> FALSE,
           rustValue |-> p, verification |-> {}, rollback |-> "pending",
           patch |-> None, accepted |-> [c \in Criteria |-> "pending"],
           desktop |-> Pending(Platforms), fallback |-> Pending(Platforms),
           cases |-> Pending(Cases), suites |-> Pending(Suites),
           performance |-> Plan(r), exposure |-> Plan(r)]
  BY DEF RecordInit
<1>2. Plan(r) \in Measurement BY DEF Plan, Measurement, At
<1>3. \A S : Pending(S) \in [S -> At] BY DEF Pending, At
<1>4. rec \in Record
  BY <1>1, <1>2, <1>3, PilotAssumption DEF Record, At
<1>5. \A c \in Criteria : rec.accepted[c] = "pending" BY <1>1
<1>6. {"feature_parity", "upstream_tests", "rollback", "performance",
       "memory_safety", "maintenance"} = Criteria
  BY DEF Criteria, Budgets
<1>7. RollbackValid(rec) /\ ImplementationValid(rec) /\ ParityValid(rec) /\ ClosureValid(rec)
  BY <1>1, <1>5, <1>6
  DEF RollbackValid, ImplementationValid, ParityValid, ClosureValid, Satisfied, None
<1>8. PerformanceValid(rec) /\ ExposureValid(rec)
  BY <1>1, <1>5, <1>6
  DEF PerformanceValid, ExposureValid, ExposureAccepted, Measured, Plan, Satisfied
<1>9. Honest(rec) BY <1>1 DEF Honest, Plan, None
<1> QED BY <1>4, <1>7, <1>8, <1>9 DEF Valid, RecordInv

\* Commits are valid; what is left is that they keep records honest.
LEMMA PassRowKeeps ==
  ASSUME RecordInv,
         \/ \E s \in Platforms : PassRow("desktop", s) \/ PassRow("fallback", s)
         \/ \E s \in Cases : PassRow("cases", s)
         \/ \E s \in Suites : PassRow("suites", s)
  PROVE  RecordInv'
<1>1. Some(rec.revision) \in At BY DEF RecordInv, Record, At
<1>2. Valid(rec)' BY DEF PassRow, Commit
<1>3. CASE \E s \in Platforms : PassRow("desktop", s)
  BY <1>1, <1>2, <1>3 DEF PassRow, Commit, RecordInv, Record, Honest
<1>4. CASE \E s \in Platforms : PassRow("fallback", s)
  BY <1>1, <1>2, <1>4 DEF PassRow, Commit, RecordInv, Record, Honest
<1>5. CASE \E s \in Cases : PassRow("cases", s)
  BY <1>1, <1>2, <1>5 DEF PassRow, Commit, RecordInv, Record, Honest
<1>6. CASE \E s \in Suites : PassRow("suites", s)
  BY <1>1, <1>2, <1>6 DEF PassRow, Commit, RecordInv, Record, Honest
<1> QED BY <1>3, <1>4, <1>5, <1>6

LEMMA VerifyKeeps ==
  ASSUME RecordInv, VerifyDirty \/ \E b \in BOOLEAN : Verify(b)
  PROVE  RecordInv'
<1>1. PICK v \in RecordedBuild :
        /\ rec' = [rec EXCEPT !.verification = @ \union {v}]
        /\ v.clean => v.value # rec.rustValue
        /\ Valid(rec')
  <2>1. rec.rustValue \in BOOLEAN BY DEF RecordInv, Record
  <2>2. CASE VerifyDirty
    <3> DEFINE v == [value |-> ~rec.rustValue, clean |-> FALSE]
    <3>1. v \in RecordedBuild BY <2>1 DEF RecordedBuild
    <3> QED BY <2>2, <3>1 DEF VerifyDirty, Commit
  <2>3. ASSUME NEW b \in BOOLEAN, Verify(b)
        PROVE  \E v \in RecordedBuild :
                 /\ rec' = [rec EXCEPT !.verification = @ \union {v}]
                 /\ v.clean => v.value # rec.rustValue
                 /\ Valid(rec')
    <3> DEFINE v == [value |-> b, clean |-> b # rec.rustValue]
    <3>1. v \in RecordedBuild /\ (v.clean => v.value # rec.rustValue)
      BY <2>1 DEF RecordedBuild
    <3>2. rec' = [rec EXCEPT !.verification = @ \union {v}] /\ Valid(rec')
      BY <2>3 DEF Verify, Commit
    <3> HIDE DEF v
    <3> QED BY <3>1, <3>2
  <2> QED BY <2>2, <2>3
<1>2. rec' \in Record BY <1>1 DEF RecordInv, Record
<1>3. Honest(rec') BY <1>1 DEF RecordInv, Record, Honest
<1> QED BY <1>1, <1>2, <1>3 DEF RecordInv

\* A measurement is recorded for the revision the record is pinned to.
LEMMA MeasureKeeps ==
  ASSUME RecordInv, NEW s \in {"passed", "failed"},
         MeasurePerformance(s) \/ MeasureExposure(s)
  PROVE  RecordInv'
<1>1. Some(rec.revision) \in At BY DEF RecordInv, Record, At
<1>2. rec.performance.revision = rec.revision /\ rec.exposure.revision = rec.revision
  BY DEF RecordInv, Valid, PerformanceValid, ExposureValid
<1>3. CASE MeasurePerformance(s)
  <2>1. rec' = [rec EXCEPT !.performance =
                  [rec.performance EXCEPT !.results = Some(rec.revision), !.status = s]]
        /\ Valid(rec')
    BY <1>3 DEF MeasurePerformance, Commit, RecordInv, Record, Measurement
  <2>2. rec'.performance \in Measurement /\ rec'.performance.results = Some(rec.revision)
        /\ rec'.performance.revision = rec.revision
    BY <1>1, <1>2, <2>1 DEF RecordInv, Record, Measurement
  <2>3. rec' \in Record /\ rec'.exposure = rec.exposure
        /\ rec'.verification = rec.verification /\ rec'.rustValue = rec.rustValue
    BY <2>1, <2>2 DEF RecordInv, Record
  <2> QED BY <2>1, <2>2, <2>3 DEF RecordInv, Honest
<1>4. CASE MeasureExposure(s)
  <2>1. rec' = [rec EXCEPT !.exposure =
                  [rec.exposure EXCEPT !.results = Some(rec.revision), !.status = s]]
        /\ Valid(rec')
    BY <1>4 DEF MeasureExposure, Commit, RecordInv, Record, Measurement
  <2>2. rec'.exposure \in Measurement /\ rec'.exposure.results = Some(rec.revision)
        /\ rec'.exposure.revision = rec.revision
    BY <1>1, <1>2, <2>1 DEF RecordInv, Record, Measurement
  <2>3. rec' \in Record /\ rec'.performance = rec.performance
        /\ rec'.verification = rec.verification /\ rec'.rustValue = rec.rustValue
    BY <2>1, <2>2 DEF RecordInv, Record
  <2> QED BY <2>1, <2>2, <2>3 DEF RecordInv, Honest
<1> QED BY <1>3, <1>4

\* A measured record that is kept is refused, unless it is for the new revision.
LEMMA RepinKeeps ==
  ASSUME RecordInv, NEW r \in Revisions,
         NEW kept \in SUBSET {"patch", "performance", "exposure"}, Repin(r, kept)
  PROVE  RecordInv'
<1>1. Plan(r) \in Measurement BY DEF Plan, Measurement, At
<1>2. Plan(r).results = {} BY DEF Plan, None
<1>3. /\ rec' = [rec EXCEPT
           !.revision    = r,
           !.status      = "in_progress",
           !.closeout    = FALSE,
           !.patch       = IF "patch" \in kept THEN @ ELSE None,
           !.performance = IF "performance" \in kept THEN @ ELSE Plan(r),
           !.exposure    = IF "exposure" \in kept THEN @ ELSE Plan(r)]
      /\ Valid(rec')
  BY DEF Repin, Commit
<1>4. rec' \in Record BY <1>1, <1>3 DEF RecordInv, Record, At
<1>5. /\ rec'.performance \in {rec.performance, Plan(r)}
      /\ rec'.exposure \in {rec.exposure, Plan(r)}
      /\ rec'.verification = rec.verification /\ rec'.rustValue = rec.rustValue
  BY <1>3 DEF RecordInv, Record
<1>6. Honest(rec') BY <1>2, <1>5 DEF RecordInv, Honest
<1> QED BY <1>3, <1>4, <1>6 DEF RecordInv

\* What is claimed in a record is checked by the validator alone.
LEMMA ClaimKeeps ==
  ASSUME RecordInv,
         \/ RecordPatch \/ VerifyRollback
         \/ \E c \in Criteria, s \in {"verified", "passed"} : Accept(c, s)
         \/ \E s \in {"complete", "retired"} : Close(s)
         \/ \E c \in Criteria : Withdraw(c)
  PROVE  RecordInv'
<1>1. Some(rec.revision) \in At BY DEF RecordInv, Record, At
<1>2. Valid(rec')
  BY DEF RecordPatch, VerifyRollback, Accept, Close, Withdraw, Commit
<1>3. rec' \in Record
      /\ rec'.performance = rec.performance /\ rec'.exposure = rec.exposure
      /\ rec'.verification = rec.verification /\ rec'.rustValue = rec.rustValue
  <2>1. CASE RecordPatch BY <1>1, <2>1 DEF RecordPatch, Commit, RecordInv, Record
  <2>2. CASE VerifyRollback BY <2>2 DEF VerifyRollback, Commit, RecordInv, Record
  <2>3. CASE \E c \in Criteria, s \in {"verified", "passed"} : Accept(c, s)
    BY <2>3 DEF Accept, Commit, RecordInv, Record
  <2>4. CASE \E s \in {"complete", "retired"} : Close(s)
    BY <2>4 DEF Close, Commit, RecordInv, Record
  <2>5. CASE \E c \in Criteria : Withdraw(c)
    <3>1. PICK c \in Criteria :
            rec' = [rec EXCEPT !.accepted = [rec.accepted EXCEPT ![c] = "pending"],
                               !.status = "in_progress", !.closeout = FALSE]
      BY <2>5 DEF Withdraw, Commit, RecordInv, Record
    <3>2. [rec.accepted EXCEPT ![c] = "pending"]
            \in [Criteria -> {"pending", "verified", "passed"}]
      BY DEF RecordInv, Record
    <3> QED BY <3>1, <3>2 DEF RecordInv, Record
  <2> QED BY <2>1, <2>2, <2>3, <2>4, <2>5
<1>4. Honest(rec') BY <1>3 DEF RecordInv, Honest
<1> QED BY <1>2, <1>3, <1>4 DEF RecordInv

LEMMA StepKeeps == RecordInv /\ [RecordNext]_rec => RecordInv'
<1> SUFFICES ASSUME RecordInv, [RecordNext]_rec PROVE RecordInv' OBVIOUS
<1>1. CASE UNCHANGED rec BY <1>1 DEF RecordInv
<1>2. CASE \E s \in {"passed", "failed"} : MeasurePerformance(s) \/ MeasureExposure(s)
  BY <1>2, MeasureKeeps
<1>3. CASE \E r \in Revisions \ {rec.revision} :
             \E kept \in SUBSET {"patch", "performance", "exposure"} : Repin(r, kept)
  BY <1>3, RepinKeeps
<1>4. CASE Accept("rollback", "verified") \/ \E c \in Criteria : Accept(c, "passed")
  BY <1>4, ClaimKeeps DEF Criteria
<1> QED
  BY <1>1, <1>2, <1>3, <1>4, PassRowKeeps, VerifyKeeps, ClaimKeeps DEF RecordNext

LEMMA Invariant == RecordSpec => []RecordInv
BY InitValid, StepKeeps, PTL DEF RecordSpec

-----------------------------------------------------------------------------
\* A record's fields have their types, and a passed measurement has results
\* (validate_performance, validate_exposure).
THEOREM TypeCorrect == RecordSpec => []RecordTypeOK
<1>1. RecordInv => RecordTypeOK
  <2> SUFFICES ASSUME RecordInv PROVE RecordTypeOK OBVIOUS
  <2>1. rec.revision \in Revisions
        /\ rec.status \in {"in_progress", "complete", "retired"}
        /\ rec.accepted \in [Criteria -> {"pending", "verified", "passed"}]
    BY DEF RecordInv, Record
  <2>2. rec.accepted["rollback"] # "pending" => rec.rollback = "verified"
    BY <2>1 DEF RecordInv, Valid, RollbackValid, Criteria
  <2>3. ASSUME NEW e \in {rec.performance, rec.exposure}
        PROVE  e.results \subseteq Revisions /\ (e.status = "passed" => e.results # None)
    <3>1. e \in Measurement /\ \E violated : Measured(e, violated)
      BY <2>3 DEF RecordInv, Record, Valid, PerformanceValid, ExposureValid
    <3>2. e.results \in At BY <3>1 DEF Measurement
    <3> QED BY <3>1, <3>2 DEF At, None, Some, Measured
  <2> QED BY <2>1, <2>2, <2>3 DEF RecordTypeOK
<1> QED BY <1>1, Invariant, PTL

\* A rollback that is claimed was built with the fallback value, although the
\* check never looks at which value that is (validate_rollback).
THEOREM RollbackBuilt == RecordSpec => []RollbackWasBuilt
<1>1. RecordInv => RollbackWasBuilt
  BY DEF RecordInv, Honest, Valid, RollbackValid, RollbackVerified, RollbackWasBuilt
<1> QED BY <1>1, Invariant, PTL

\* A complete pilot has its patch and its measurements at the pinned revision,
\* and that revision meets every budget (validate_performance,
\* validate_exposure, validate_implementation).
THEOREM CompleteMeetsBudgets == RecordSpec => []CompleteWithinBudget
<1>1. RecordInv => CompleteWithinBudget
  <2> SUFFICES ASSUME RecordInv, rec.status = "complete"
               PROVE  /\ rec.patch = Some(rec.revision)
                      /\ rec.performance.results = Some(rec.revision)
                      /\ rec.exposure.results = Some(rec.revision)
                      /\ InBudget[rec.revision] = Budgets
    BY DEF CompleteWithinBudget
  <2>1. (\A c \in Criteria : Satisfied(rec, c)) /\ rec.patch # None
    BY DEF RecordInv, Valid, ClosureValid
  <2>2. rec.patch = Some(rec.revision)
    <3>1. \A b \in rec.patch : b = rec.revision
      BY DEF RecordInv, Valid, ImplementationValid
    <3> QED BY <2>1, <3>1 DEF None, Some
  <2>3. rec.performance.status = "passed" /\ rec.exposure.status = "passed"
    BY <2>1 DEF RecordInv, Valid, PerformanceValid, ExposureValid, ExposureAccepted, Criteria, Budgets
  <2>4. rec.performance.results = Some(rec.revision)
    <3>1. rec.performance.results # None /\ rec.performance.results \subseteq Some(rec.revision)
      BY <2>3 DEF RecordInv, Valid, PerformanceValid, Measured, Honest
    <3> QED BY <3>1 DEF None, Some
  <2>5. rec.exposure.results = Some(rec.revision)
    <3>1. rec.exposure.results # None /\ rec.exposure.results \subseteq Some(rec.revision)
      BY <2>3 DEF RecordInv, Valid, ExposureValid, Measured, Honest
    <3> QED BY <3>1 DEF None, Some
  <2>6. ~ Violated(rec.performance, {"performance"})
        /\ ~ Violated(rec.exposure, {"memory_safety", "maintenance"})
    BY <2>3 DEF RecordInv, Valid, PerformanceValid, ExposureValid, Measured
  <2>7. {"performance", "memory_safety", "maintenance"} \subseteq InBudget[rec.revision]
    BY <2>4, <2>5, <2>6 DEF Violated, Some
  <2>8. InBudget[rec.revision] \subseteq Budgets
    BY PilotAssumption DEF RecordInv, Record
  <2> QED BY <2>2, <2>4, <2>5, <2>7, <2>8 DEF Budgets
<1> QED BY <1>1, Invariant, PTL

=============================================================================
