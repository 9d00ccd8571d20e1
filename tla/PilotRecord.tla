----------------------------- MODULE PilotRecord -----------------------------
(***************************************************************************)
(* The life of a production migration's record: pilot.toml with its        *)
(* parity, performance and exposure records, as maintainers fill it in     *)
(* from what they have run, move it to another upstream revision and close *)
(* it.  validate-migration runs on every committed record, so a commit is  *)
(* any edit whose result MigrationEvidence::validate accepts.              *)
(*                                                                         *)
(* Results carry the revision they were obtained at as a ghost: the files  *)
(* have no place for it.  Maintainers are honest: they record what ran,    *)
(* at the revision that is pinned when it runs.                            *)
(***************************************************************************)
EXTENDS FiniteSets

CONSTANTS
  Revisions,   \* upstream revisions a record may be pinned to
  Platforms,   \* the desktop platforms of the parity and rollback matrices
  Cases,       \* the contract cases
  Suites,      \* the upstream test suites
  InBudget,    \* InBudget[r]: the budgets a measurement at r would meet
  Polarities   \* the values rollback.rust_value may have

Budgets  == {"performance", "memory_safety", "maintenance"}
\* The M3 acceptance criteria; "pending" stands for every status that neither
\* satisfies a criterion nor claims a verified rollback.
Criteria == {"feature_parity", "upstream_tests", "rollback"} \union Budgets

ASSUME PilotAssumption ==
  /\ Revisions # {} /\ Platforms # {} /\ Cases # {} /\ Suites # {}
  /\ InBudget \in [Revisions -> SUBSET Budgets]
  /\ Polarities \subseteq BOOLEAN

None    == {}
Some(x) == {x}

VARIABLE rec    \* the committed record

\* A measured record: the revision it is planned for, its results, its status.
Plan(r) == [revision |-> r, results |-> None, status |-> "defined_not_measured"]

\* A row of a matrix, a case or a suite: None, or passed with a digest, at r.
Pending(S) == [s \in S |-> None]

RecordInit ==
  \E r \in Revisions, p \in Polarities :
    rec = [revision |-> r, status |-> "in_progress", closeout |-> FALSE,
           rustValue |-> p, verification |-> {}, rollback |-> "pending",
           patch |-> None, accepted |-> [c \in Criteria |-> "pending"],
           desktop |-> Pending(Platforms), fallback |-> Pending(Platforms),
           cases |-> Pending(Cases), suites |-> Pending(Suites),
           performance |-> Plan(r), exposure |-> Plan(r)]

-----------------------------------------------------------------------------
\* MigrationEvidence::validate

Satisfied(p, c) == p.accepted[c] = "passed"

AllPass(rows) == \A s \in DOMAIN rows : rows[s] # None

\* Slip: the fallback may still depend on the Rust receiver.
RollbackVerified_Dirty(p) ==
  /\ \E v \in p.verification : v.value
  /\ \E v \in p.verification : ~v.value

\* "<gn_arg>=true" has passed, and "<gn_arg>=false" without Rust dependencies;
\* rollback.rust_value is not consulted.
RollbackVerified(p) ==
  /\ \E v \in p.verification : v.value
  /\ \E v \in p.verification : ~v.value /\ v.clean

RollbackValid(p) ==
  /\ p.rollback = "verified" => RollbackVerified(p)
  /\ p.accepted["rollback"] \in {"verified", "passed"} => p.rollback = "verified"
  /\ Satisfied(p, "rollback") => AllPass(p.fallback)

\* validate_implementation: the patch is based on the pinned revision.  Its
\* paths, digests and descriptions are texts with checks of their own.
ImplementationValid(p) == \A b \in p.patch : b = p.revision

\* validate_parity
ParityValid(p) ==
  /\ Satisfied(p, "feature_parity") => AllPass(p.desktop) /\ AllPass(p.cases)
  /\ Satisfied(p, "upstream_tests") => AllPass(p.suites)

\* A measured record is passed when nothing is violated and failed otherwise.
Measured(e, violated) ==
  IF e.results = None THEN e.status = "defined_not_measured"
  ELSE e.status = IF violated THEN "failed" ELSE "passed"

\* The configured budgets of this kind that the results violate.
Violated(e, kinds) == \E r \in e.results : ~(kinds \subseteq InBudget[r])

\* validate_performance
PerformanceValid(p) ==
  /\ p.performance.revision = p.revision
  /\ Measured(p.performance, Violated(p.performance, {"performance"}))
  /\ Satisfied(p, "performance") => p.performance.status = "passed"

\* Slip: a criterion is accepted once it has been measured.
ExposureAccepted_Measured(p) ==
  \A c \in {"memory_safety", "maintenance"} :
    Satisfied(p, c) => p.exposure.results # None

\* validate_exposure, of the acceptance: one of its two criteria may be
\* accepted on a failed record, both only on a passed one.
ExposureAccepted(p) ==
  /\ \A c \in {"memory_safety", "maintenance"} :
       Satisfied(p, c) => p.exposure.results # None /\ ~Violated(p.exposure, {c})
  /\ Satisfied(p, "memory_safety") /\ Satisfied(p, "maintenance") =>
       p.exposure.status = "passed"

\* validate_exposure
ExposureValid(p) ==
  /\ p.exposure.revision = p.revision
  /\ Measured(p.exposure, Violated(p.exposure, {"memory_safety", "maintenance"}))
  /\ ExposureAccepted(p)

\* A retired pilot gives a reason and is not one that could be complete.
ClosureValid(p) ==
  LET everything == \A c \in Criteria : Satisfied(p, c) IN
  /\ p.status = "retired"  => p.closeout /\ ~(everything /\ p.patch # None)
  /\ p.status = "complete" => everything /\ p.patch # None

Valid(p) ==
  /\ RollbackValid(p) /\ ImplementationValid(p) /\ ParityValid(p)
  /\ PerformanceValid(p) /\ ExposureValid(p) /\ ClosureValid(p)

-----------------------------------------------------------------------------
\* Commits.

Commit(p) == Valid(p) /\ rec' = p

Verify(value) ==
  Commit([rec EXCEPT !.verification = @ \union
    {[value |-> value, clean |-> value # rec.rustValue]}])

\* A build of the fallback in which the Rust receiver is still linked.
VerifyDirty ==
  Commit([rec EXCEPT !.verification = @ \union
    {[value |-> ~rec.rustValue, clean |-> FALSE]}])

PassRow(field, s) ==
  Commit([rec EXCEPT ![field][s] = Some(rec.revision)])

RecordPatch == Commit([rec EXCEPT !.patch = Some(rec.revision)])

MeasurePerformance(status) ==
  Commit([rec EXCEPT !.performance.results = Some(rec.revision),
                     !.performance.status = status])

\* measure-migration-exposure, for the pinned revision: it reads the baseline
\* from that revision, and the candidate from a tree the maintainer has there.
MeasureExposure(status) ==
  Commit([rec EXCEPT !.exposure.results = Some(rec.revision),
                     !.exposure.status = status])

VerifyRollback == Commit([rec EXCEPT !.rollback = "verified"])

Accept(c, status) == Commit([rec EXCEPT !.accepted[c] = status])

Close(status) == Commit([rec EXCEPT !.status = status, !.closeout = TRUE])

\* An acceptance is withdrawn; a closed pilot is opened again.
Withdraw(c) ==
  /\ rec.accepted[c] # "pending"
  /\ Commit([rec EXCEPT !.accepted[c] = "pending",
                        !.status = "in_progress", !.closeout = FALSE])

\* The record moves to revision r and is open there.  Each pinned part is
\* planned anew for r or left as it is; what has no revision stays.
Repin(r, kept) ==
  Commit([rec EXCEPT
    !.revision    = r,
    !.status      = "in_progress",
    !.closeout    = FALSE,
    !.patch       = IF "patch" \in kept THEN @ ELSE None,
    !.performance = IF "performance" \in kept THEN @ ELSE Plan(r),
    !.exposure    = IF "exposure" \in kept THEN @ ELSE Plan(r)])

RecordNext ==
  \/ \E b \in BOOLEAN : Verify(b)
  \/ VerifyDirty
  \/ \E s \in Platforms : PassRow("desktop", s) \/ PassRow("fallback", s)
  \/ \E s \in Cases : PassRow("cases", s)
  \/ \E s \in Suites : PassRow("suites", s)
  \/ RecordPatch
  \/ \E s \in {"passed", "failed"} : MeasurePerformance(s) \/ MeasureExposure(s)
  \/ VerifyRollback
  \/ \E c \in Criteria : Accept(c, "passed")
  \/ Accept("rollback", "verified")
  \/ \E s \in {"complete", "retired"} : Close(s)
  \/ \E c \in Criteria : Withdraw(c)
  \/ \E r \in Revisions \ {rec.revision} :
       \E kept \in SUBSET {"patch", "performance", "exposure"} : Repin(r, kept)

RecordSpec == RecordInit /\ [][RecordNext]_rec
-----------------------------------------------------------------------------
\* Properties

RecordTypeOK ==
  /\ rec.revision \in Revisions
  /\ rec.status \in {"in_progress", "complete", "retired"}
  /\ rec.accepted \in [Criteria -> {"pending", "verified", "passed"}]
  /\ rec.accepted["rollback"] # "pending" => rec.rollback = "verified"
  /\ \A e \in {rec.performance, rec.exposure} :
       e.results \subseteq Revisions /\ (e.status = "passed" => e.results # None)

\* Of a complete pilot, the patch and the measured results are those of the
\* pinned revision, and that revision really is within every budget, however
\* often the record was moved in between (validate_performance,
\* validate_exposure, validate_implementation).
CompleteWithinBudget ==
  rec.status = "complete" =>
    /\ rec.patch = Some(rec.revision)
    /\ rec.performance.results = Some(rec.revision)
    /\ rec.exposure.results = Some(rec.revision)
    /\ InBudget[rec.revision] = Budgets

\* migrations/README.md: "a rollback flag is not considered verified until the
\* fallback configuration is actually built and its contract test executed".
\* It is the fallback value's build that has passed, without Rust dependencies,
\* although the check never looks at rollback.fallback_value.
RollbackWasBuilt ==
  rec.accepted["rollback"] \in {"verified", "passed"} =>
    \E v \in rec.verification : v.value # rec.rustValue /\ v.clean

\* migrations/README.md: M3 is complete only when all criteria "have recorded
\* passing evidence at the same pinned Chromium revision".
CompleteAtOneRevision ==
  rec.status = "complete" =>
    /\ \A field \in {"desktop", "fallback", "cases", "suites"} :
         \A s \in DOMAIN rec[field] : rec[field][s] = Some(rec.revision)
    /\ rec.performance.results \union rec.exposure.results \union rec.patch
         = Some(rec.revision)
=============================================================================
