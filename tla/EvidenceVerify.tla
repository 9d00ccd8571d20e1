--------------------------- MODULE EvidenceVerify ---------------------------
(***************************************************************************)
(* The evidence bundle and what verify-evidence asks of it.                *)
(*                                                                         *)
(* An optional field is a set with at most one element.  Paths, digests    *)
(* and messages are abstracted to what the checks compare: an executable   *)
(* is a version, a checkout snapshot is the revision with the set of files *)
(* git status lists, and of an error message there is whether there is     *)
(* one, and whether it ends in a space: run_git's does when git says       *)
(* nothing of its own.                                                     *)
(***************************************************************************)
CONSTANTS
  Gates,      \* gate ids; a bundle runs them in their order
  Program,    \* Program[g]: the program of a direct gate, {} for a shell gate
  Empty,      \* versions of programs that are files of no bytes
  Padded,     \* direct gates that name their program with a space at an end
  Garbled     \* revisions with a submodule status that its lines do not give back

None    == {}
Some(x) == {x}

\* validate_attestation_options
PolicyValid(p) ==
  ~p.checkout => p.revision = None /\ ~p.clean

Dirty(snapshot) == snapshot.listed # {}

-----------------------------------------------------------------------------
\* verify_attestation_consistency

\* The error messages a record may carry.
ErrorTaken(error) == error # "padded"

\* validate_executable_record
ExecutableTaken(e) == e.before \notin Empty /\ e.after \notin Empty

\* validate_git_snapshot
SnapshotTaken(s) == s.revision \notin Garbled

CheckoutConsistent(b) ==
  LET p == b.policy IN
  /\ PolicyValid(p)
  /\ p.checkout <=> b.checkout # None
  /\ \A c \in b.checkout :
       /\ ErrorTaken(c.error)
       /\ \A e \in c.git : ExecutableTaken(e)
       /\ \A s \in c.before \union c.after : SnapshotTaken(s)
  /\ \A c \in b.checkout : c.error = "none" =>
       /\ c.git # None /\ c.before # None /\ c.after = c.before
       /\ \A e \in c.git : e.before = e.after
       /\ \A s \in c.before : /\ p.clean => ~Dirty(s)
                              /\ p.revision \subseteq {s.revision}

\* No error is recorded of the gate.
ErrorFree(r) == r.launchErr = "none" /\ r.inputErr = "none" /\ r.exeErr = "none"

RecordConsistent(b, g) ==
  LET r == b.records[g] IN
  /\ ErrorTaken(r.launchErr) /\ ErrorTaken(r.inputErr) /\ ErrorTaken(r.exeErr)
  /\ r.status = "passed" => r.exit = "zero" /\ ErrorFree(r)
  /\ r.status = "launch_failed" => r.exit = "none"
  /\ Program[g] = None \/ ~b.policy.executables =>
       r.exe = None /\ r.exeErr = "none"
  /\ Program[g] # None /\ b.policy.executables =>
       /\ r.exe = None => r.exeErr # "none"
       /\ \A e \in r.exe : /\ ExecutableTaken(e) /\ g \notin Padded
                           /\ e.before # e.after => r.exeErr # "none"

AttestationConsistent(b) ==
  /\ CheckoutConsistent(b)
  /\ \A g \in DOMAIN b.records : RecordConsistent(b, g)
  /\ b.passed =>
       /\ \A c \in b.checkout : c.error = "none"
       /\ \A g \in DOMAIN b.records : ErrorFree(b.records[g])

\* Executed and skipped gates partition the selected ones.
GateSetsConsistent(b) ==
  /\ DOMAIN b.records \intersect b.skipped = {}
  /\ DOMAIN b.records \union b.skipped = b.selected

\* Slip: only a non-zero exit counts against the run.
OverallPass_NoneFailed(checkout, skipped, selected, records) ==
  /\ \A c \in checkout : c.error = "none"
  /\ skipped = {}
  /\ DOMAIN records = selected
  /\ \A g \in DOMAIN records : records[g].status # "failed"

\* The overall verdict the runner computes and the verifier recomputes.
OverallPass(checkout, skipped, selected, records) ==
  /\ \A c \in checkout : c.error = "none"
  /\ skipped = {}
  /\ DOMAIN records = selected
  /\ \A g \in DOMAIN records : records[g].status = "passed"

\* What verify_evidence checks of a bundle taken by itself.
BundleVerifies(b) ==
  /\ AttestationConsistent(b)
  /\ GateSetsConsistent(b)
  /\ b.passed = OverallPass(b.checkout, b.skipped, b.selected, b.records)

\* The gates a verified bundle reports as passed.
PassedGates(b) == {g \in DOMAIN b.records : b.records[g].status = "passed"}
=============================================================================
