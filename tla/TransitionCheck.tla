--------------------------- MODULE TransitionCheck ---------------------------
(***************************************************************************)
(* check-transition with evidence: one manifest on disk that maintainers   *)
(* edit, run-gates producing bundles for it, and a check that answers for  *)
(* one candidate module.  Both commands read the manifest twice: its bytes *)
(* for the digest, then again for what they work with, and an edit may     *)
(* fall in between.                                                        *)
(*                                                                         *)
(* A manifest is a version: its digest is the version itself.  A bundle's  *)
(* digest is the bundle itself: run-gates names each file for its content, *)
(* and somebody may edit the content, and rename the file for what it now  *)
(* holds.  A log is what a gate has written; of its two logs there is one. *)
(* What gates do while they run is GateRun's matter; here a run takes      *)
(* effect in one step.                                                     *)
(***************************************************************************)
EXTENDS EvidenceVerify, FiniteSets, Naturals

CONSTANTS
  ManifestVersions, \* versions of the manifest
  Identity,     \* Identity[v]: its project name and baseline
  Definition,   \* Definition[v]: gate -> program, inputs and targets
  Declares,     \* Declares[v]: the gates the candidate module declares
  Ready,        \* Ready[v]: the targets assess_transition finds no blocker for
  Outputs,      \* what gates write
  MaxBundles    \* bound: bundle files in the evidence directory

RustOwned == "rust_owned"
Targets   == {"bridged", RustOwned}
Results   == {"passed", "failed"}

ASSUME TransitionCheckAssumption ==
  /\ \A v \in ManifestVersions :
       /\ DOMAIN Definition[v] \subseteq Gates
       /\ Declares[v] \subseteq DOMAIN Definition[v]
       /\ Ready[v] \subseteq Targets
  /\ MaxBundles \in Nat

VARIABLES
  manifest,   \* the version on disk
  runner,     \* the bytes run-gates has read, or None between runs
  bundles,    \* bundle files: their name and their content
  logs,       \* the log files that are there, each named for its content
  check,      \* the running check-transition, or None
  answer,     \* the last answer, until the next check begins
  runs,       \* history: what each run loaded and wrote, and which gates passed
  refiled,    \* history: the contents somebody has renamed a file for
  lost        \* history: the logs that were removed

artifacts == <<bundles, logs>>
past      == <<runs, refiled, lost>>
checkVars == <<manifest, runner, artifacts, check, answer, past>>

CheckInit ==
  /\ manifest \in ManifestVersions
  /\ runner = None /\ bundles = {} /\ logs = {}
  /\ check = None /\ answer = None
  /\ runs = {} /\ refiled = {} /\ lost = {}

-----------------------------------------------------------------------------
\* run-gates.

\* fs::read(&manifest)
RunReadsBytes ==
  /\ runner = None /\ Cardinality(bundles) < MaxBundles
  /\ runner' = Some(manifest)
  /\ UNCHANGED <<manifest, artifacts, check, answer, past>>

\* The bundle of a run over the version that is loaded now.
BundleOf(bytes, selected, executed, verdict, output) ==
  LET records == [g \in executed |->
        [definition |-> Definition[manifest][g], status |-> verdict[g], log |-> output[g]]]
  IN [identity |-> Identity[manifest], manifest |-> bytes, selected |-> selected,
      skipped |-> selected \ executed, records |-> records,
      passed |-> OverallPass(None, selected \ executed, selected, records)]

\* write_content_addressed: a file of that name is left as it is; when it holds
\* something else the command fails.
Store(b) ==
  bundles' = IF \E f \in bundles : f.name = b THEN bundles
             ELSE bundles \union {[name |-> b, content |-> b]}

\* Manifest::load(&manifest) and the run: the gates of the version read now,
\* in a bundle that names the bytes read before.  With fail-fast a gate that
\* did not pass ends the run early.
RunLoadsAndRuns(bytes, selected, executed, verdict, output) ==
  LET b == BundleOf(bytes, selected, executed, verdict, output)
  IN /\ runner = Some(bytes) /\ runner' = None
     /\ executed # selected => \E g \in executed : verdict[g] = "failed"
     /\ Store(b)
     /\ logs' = logs \union {output[g] : g \in executed}
     /\ runs' = runs \union {[bundle |-> b, loaded |-> manifest,
                              passed |-> {g \in executed : verdict[g] = "passed"}]}
     /\ UNCHANGED <<manifest, check, answer, refiled, lost>>

-----------------------------------------------------------------------------
\* verify-evidence, called with the bytes and the version that were read.

\* Slip: a gate's record is compared by name only.
RecordMatches_ByName(b, g, v) ==
  /\ g \in DOMAIN Definition[v]
  /\ b.records[g].log \in logs

\* The record is of the gate as the manifest defines it, and its log is there.
RecordMatches(b, g, v) ==
  /\ g \in DOMAIN Definition[v]
  /\ b.records[g].definition = Definition[v][g]
  /\ b.records[g].log \in logs

\* The bundle is of this manifest.
Recognises(b, bytes, v) == b.identity = Identity[v] /\ b.manifest = bytes

Verifies(f, bytes, v) ==
  LET b == f.content IN
  /\ f.name = b
  /\ Recognises(b, bytes, v)
  /\ GateSetsConsistent(b)
  /\ b.selected \subseteq DOMAIN Definition[v]
  /\ \A g \in DOMAIN b.records : RecordMatches(b, g, v)
  /\ b.passed = OverallPass(None, b.skipped, b.selected, b.records)

-----------------------------------------------------------------------------
\* check-transition.

\* fs::read(&manifest), for a target and with or without the name of a bundle.
CheckReadsBytes(target, evidence) ==
  /\ check = None
  /\ check' = Some([target |-> target, evidence |-> evidence, bytes |-> manifest])
  /\ answer' = None
  /\ UNCHANGED <<manifest, runner, artifacts, past>>

\* Slip: a bundle in which some gate has failed shows nothing of any gate.
MissingEvidence_WholeBundle(target, evidence, v) ==
  IF target = RustOwned
    THEN {g \in Declares[v] : \E f \in evidence :
            g \notin PassedGates(f.content) \/ ~f.content.passed}
    ELSE {}

\* The declared gates without a verified passing record; only asked for when
\* evidence is given and the module is to become Rust-owned.
MissingEvidence(target, evidence, v) ==
  IF target = RustOwned
    THEN {g \in Declares[v] : \E f \in evidence : g \notin PassedGates(f.content)}
    ELSE {}

\* Manifest::load(&manifest), assess_transition, verify_evidence on what the
\* file holds now, the answer.  Evidence that is not there or does not verify
\* ends the command with an error, which is a refusal.
CheckAnswers ==
  /\ \E c \in check :
       LET evidence == {f \in bundles : f.name \in c.evidence} IN
       answer' = Some([target |-> c.target, evidence |-> evidence,
         bytes |-> c.bytes, loaded |-> manifest,
         allowed |-> /\ c.evidence # None => evidence # None
                     /\ \A f \in evidence : Verifies(f, c.bytes, manifest)
                     /\ c.target \in Ready[manifest]
                     /\ MissingEvidence(c.target, evidence, manifest) = {}])
  /\ check' = None
  /\ UNCHANGED <<manifest, runner, artifacts, past>>

-----------------------------------------------------------------------------
\* The maintainers.

EditManifest(v) ==
  /\ manifest' = v
  /\ UNCHANGED <<runner, artifacts, check, answer, past>>

\* A bundle with a pass written over the result of gate g, and a verdict over
\* that of the run.
Edited(b, g, verdict) == [b EXCEPT !.records[g].status = "passed", !.passed = verdict]

\* Somebody edits a bundle file, which keeps its name.
EditBundle(f, g, verdict) ==
  /\ g \in DOMAIN f.content.records
  /\ bundles' = (bundles \ {f})
                  \union {[name |-> f.name, content |-> Edited(f.content, g, verdict)]}
  /\ UNCHANGED <<manifest, runner, logs, check, answer, past>>

\* Somebody renames a bundle file for the digest of what it holds.
Refile(f) ==
  /\ f.name # f.content
  /\ bundles' = {k \in bundles \ {f} : k.name # f.content}
                  \union {[name |-> f.content, content |-> f.content]}
  /\ refiled' = refiled \union {f.content}
  /\ UNCHANGED <<manifest, runner, logs, check, answer, runs, lost>>

\* A log is removed.
LoseLog(l) ==
  /\ logs' = logs \ {l}
  /\ lost' = lost \union {l}
  /\ UNCHANGED <<manifest, runner, bundles, check, answer, runs, refiled>>

CheckNext ==
  \/ RunReadsBytes
  \/ \E bytes \in runner :
       \E selected \in SUBSET DOMAIN Definition[manifest] \ {{}} :
         \E executed \in (SUBSET selected) \ {{}} :
           \E verdict \in [executed -> Results], output \in [executed -> Outputs] :
             RunLoadsAndRuns(bytes, selected, executed, verdict, output)
  \/ \E t \in Targets : CheckReadsBytes(t, None)
  \/ \E t \in Targets, f \in bundles : CheckReadsBytes(t, Some(f.name))
  \/ CheckAnswers
  \/ \E v \in ManifestVersions : EditManifest(v)
  \/ \E f \in bundles, g \in Gates, verdict \in BOOLEAN : EditBundle(f, g, verdict)
  \/ \E f \in bundles : Refile(f)
  \/ \E l \in logs : LoseLog(l)

CheckSpec == CheckInit /\ [][CheckNext]_checkVars
-----------------------------------------------------------------------------
\* Properties

TypeOK ==
  /\ manifest \in ManifestVersions /\ runner \subseteq ManifestVersions
  /\ \A f \in bundles : \A b \in {f.name, f.content} :
       /\ b.manifest \in ManifestVersions /\ b.selected \subseteq Gates
       /\ b.skipped \subseteq b.selected /\ DOMAIN b.records \subseteq b.selected
       /\ \A g \in DOMAIN b.records : b.records[g].status \in Results
  /\ \A c \in check : c.target \in Targets /\ c.bytes \in ManifestVersions
  /\ \A a \in answer : a.target \in Targets /\ a.loaded \in ManifestVersions

\* When evidence was given and the answer is that the module may become
\* Rust-owned, the run that wrote the bundle has executed every gate the module
\* declares, as the manifest of the answer defines it, and each has passed:
\* whatever edits fell between the two reads of run-gates and of
\* check-transition, and whatever was written into the bundle file.  The
\* exception is a file that was edited and then renamed for its new digest,
\* which verify_evidence takes for what it says (docs/gate-evidence.md leaves
\* that to signatures, which are Attestation's).
AllowedGatesRan ==
  \A a \in answer : a.allowed /\ a.target = RustOwned =>
    \A f \in a.evidence :
      \/ f.content \in refiled
      \/ \E r \in runs :
           /\ r.bundle = f.content
           /\ \A g \in Declares[a.loaded] :
                g \in r.passed /\ Definition[r.loaded][g] = Definition[a.loaded][g]

\* docs/gate-evidence.md: "A valid bundle may contain failed unrelated gates;
\* only the candidate module's declared gates are required for this check."
\* A check is not refused for its evidence when the run that wrote the bundle
\* had read and loaded the versions the check has read and loaded, every
\* declared gate passed in it, and its logs are still there; gates that failed
\* or were skipped after a failure do not matter.
WrittenEvidenceCounts ==
  \A a \in answer : a.target = RustOwned /\ RustOwned \in Ready[a.loaded] =>
    \A f \in a.evidence, r \in runs :
      /\ r.bundle = f.content /\ f.name = f.content
      /\ r.loaded = a.loaded /\ r.bundle.manifest = a.bytes
      /\ Declares[a.loaded] \subseteq r.passed
      /\ \A g \in DOMAIN r.bundle.records : r.bundle.records[g].log \notin lost
      => a.allowed

=============================================================================
