------------------------------ MODULE GateRun ------------------------------
(***************************************************************************)
(* run-gates: one executor that runs the selected gates in gate order, a   *)
(* child process per gate, a clock, and an environment that edits files,   *)
(* moves HEAD and replaces executables while the executor is between two   *)
(* of its own reads.                                                       *)
(*                                                                         *)
(* Each file has numbered contents, 0 being the committed one; each        *)
(* program has numbered versions.  With Restores = FALSE numbers only      *)
(* grow: nobody puts an old content back between two reads.                *)
(***************************************************************************)
EXTENDS EvidenceVerify, FiniteSets, Integers

CONSTANTS
  Inputs,      \* Inputs[g]: the files gate g declares
  Declared,    \* Declared[f]: the content whose digest the manifest declares
  Files,       \* the tracked files of the checkout
  Contents,    \* their contents, 0 is the committed one
  Programs,    \* the programs of direct gates, "git" among them
  Versions,    \* versions of a program
  Target,      \* Target[v]: what the program's entry resolves to, or "none"
  Revisions,   \* values of HEAD
  Selections,  \* the selections of gates considered
  Policies,    \* the attestation policies of the runs considered
  FailFasts,   \* the fail-fast settings considered
  GitErrors,   \* how the messages of a git that fails may end
  Restores     \* whether a change may be undone

ASSUME GateRunAssumption ==
  /\ Gates \subseteq Nat /\ IsFiniteSet(Gates)
  /\ "git" \in Programs
  /\ Program \in [Gates -> SUBSET Programs]
  /\ \A g \in Gates : \A p, q \in Program[g] : p = q
  /\ Selections \subseteq (SUBSET Gates) \ {{}}
  /\ Inputs \in [Gates -> SUBSET Files]
  /\ Contents \subseteq Nat /\ 0 \in Contents
  /\ Declared \in [Files -> Contents]
  /\ Versions \subseteq Nat /\ Revisions \subseteq Nat
  /\ GitErrors \subseteq {"text", "padded"}
  /\ \A p \in Policies : PolicyValid(p)

VARIABLES
  pc,          \* where the executor is
  policy,      \* the attestation options of this run
  failFast,    \* the fail-fast option
  selected,    \* the gates the options select
  todo,        \* the selected gates not yet executed or skipped
  cur,         \* the evidence of the gate being executed
  runtime,     \* ExecutableRuntime.before of the current gate
  records,     \* finished gate evidence
  skipped,     \* gates that were not run
  start,       \* CheckoutRuntime: git identity and snapshot, before
  preError,    \* what begin_checkout_attestation or its preflight said
  bundle,      \* the bundle, once it is written
  child,       \* the current child: "none", "running", "zero", "nonzero"
  expired,     \* timer.elapsed() >= timeout for the current gate
  orphans,     \* descendants of a killed gate are still running
  file, head, exe,   \* the machine: file contents, HEAD, program versions
  seen,        \* history: what each launched child really ran on
  edited,      \* history: the files edited between the two snapshots
  disturbed    \* history: somebody else than a gate has changed the machine

machine  == <<file, head, exe>>
progress == <<todo, records, skipped>>
checkout == <<start, preError>>
options  == <<policy, failFast, selected>>
process  == <<child, expired, orphans>>
history  == <<seen, edited, disturbed>>
vars == <<pc, options, progress, cur, runtime, checkout, bundle, process,
          machine, history>>

BlankEvidence ==
  [status |-> "launch_failed", exit |-> "none", launchErr |-> "none",
   inputErr |-> "none", exeErr |-> "none", exe |-> None]

Init ==
  /\ pc = "begin"
  /\ policy \in Policies /\ failFast \in FailFasts
  /\ selected \in Selections
  /\ todo = selected /\ skipped = {} /\ records = [g \in {} |-> BlankEvidence]
  /\ cur = BlankEvidence /\ runtime = None
  /\ start = None /\ preError = "none" /\ bundle = None
  /\ child = "none" /\ expired = FALSE /\ orphans = FALSE
  /\ file \in [Files -> {0, 1} \intersect Contents]
  /\ head = 1 /\ exe = [p \in Programs |-> 1]
  /\ seen = [g \in {} |-> 0] /\ edited = {} /\ disturbed = FALSE

\* The gates run in the order of their ids.
Current == CHOOSE g \in todo : \A h \in todo : g <= h

-----------------------------------------------------------------------------
\* What the executor reads from the machine.

Missing(p) == Target[exe[p]] = "none"

\* capture_git_snapshot.  git status lists a file that differs from HEAD; what
\* it differs by is not part of the output.
Snapshot ==
  [revision |-> head, listed |-> {f \in Files : file[f] # 0}]

\* How capture_git_snapshot may end: it succeeds, or with the message of a git
\* that has failed or could not be started.
CaptureErrors ==
  IF Missing("git") \/ exe["git"] \in Empty THEN {"text"} ELSE {"none"} \union GitErrors

PreflightFails(s) ==
  \/ \E r \in policy.revision : r # s.revision
  \/ policy.clean /\ Dirty(s)

InputsMatch(g) == \A f \in Inputs[g] : file[f] = Declared[f]

\* verify_current_resolution, then file_identity: the version now, unless the
\* entry is gone or resolves to another target.
Reidentified(p, before) ==
  IF Target[exe[p]] = Target[before] THEN Some(exe[p]) ELSE None

-----------------------------------------------------------------------------
\* The executor.

\* The message of a failure that there is, or is not.
Said(failed) == IF failed THEN "text" ELSE "none"

\* push_attestation_error: the last message ends the whole.
Push(error, current) == IF current = "none" THEN error ELSE current

\* begin_checkout_attestation and its preflight, when the capture ends so.
TakeFirstSnapshot(error) ==
  /\ start' = IF error = "none"
                THEN Some([git |-> exe["git"], snapshot |-> Snapshot]) ELSE None
  /\ preError' = Push(error, Said(error = "none" /\ PreflightFails(Snapshot)))

\* Selection is done; take the first snapshot, or none.  A failed preflight
\* skips every gate.
Begin ==
  /\ pc = "begin"
  /\ IF policy.checkout THEN \E error \in CaptureErrors : TakeFirstSnapshot(error)
                        ELSE UNCHANGED checkout
  /\ IF preError' # "none"
       THEN skipped' = todo /\ todo' = {} /\ pc' = "finish"
       ELSE pc' = "verify" /\ UNCHANGED <<skipped, todo>>
  /\ UNCHANGED <<options, records, cur, runtime, bundle, process, machine,
                 history>>

\* verify_gate_inputs, the first time; no process is started on a mismatch.
VerifyInputs ==
  /\ pc = "verify"
  /\ cur' = [BlankEvidence EXCEPT !.inputErr = Said(~InputsMatch(Current))]
  /\ pc' = IF InputsMatch(Current) THEN "prepare" ELSE "record"
  /\ UNCHANGED <<options, progress, runtime, checkout, bundle, process,
                 machine, history>>

\* prepare_gate_command: only an attested direct gate is resolved and hashed.
Prepare ==
  /\ pc = "prepare"
  /\ IF policy.executables /\ Program[Current] # None
       THEN \E p \in Program[Current] :
              IF Missing(p)
                THEN /\ cur' = [cur EXCEPT !.exeErr = "text"]
                     /\ pc' = "recheck" /\ UNCHANGED runtime
                ELSE /\ runtime' = Some(exe[p])
                     /\ pc' = "spawn" /\ UNCHANGED cur
       ELSE pc' = "spawn" /\ UNCHANGED <<cur, runtime>>
  /\ UNCHANGED <<options, progress, checkout, bundle, process, machine, history>>

\* command.spawn() fails: for a gate of any kind, and always for a program that
\* is not there or holds nothing.
SpawnFails ==
  /\ pc = "spawn"
  /\ cur' = [cur EXCEPT !.launchErr = "text"]
  /\ pc' = "recheck"
  /\ UNCHANGED <<options, progress, runtime, checkout, bundle, process, machine, history>>

\* command.spawn() succeeds.
Spawn ==
  /\ pc = "spawn"
  /\ \A p \in Program[Current] : ~Missing(p) /\ exe[p] \notin Empty
  /\ child' = "running" /\ pc' = "poll"
  /\ seen' = [g \in DOMAIN seen \union {Current} |->
        IF g # Current THEN seen[g]
        ELSE [ran    |-> {exe[p] : p \in Program[g]},
              inputs |-> InputsMatch(g)]]
  /\ UNCHANGED <<options, progress, cur, runtime, checkout, bundle, expired, orphans,
                 machine, edited, disturbed>>

\* The child is reaped with this exit code.
Reap(status, exit) ==
  /\ cur' = [cur EXCEPT !.status = status, !.exit = exit]
  /\ child' = "none"
  /\ pc' = "recheck"

ClassifyExit(exit) == IF exit = "zero" THEN "passed" ELSE "failed"

\* child.try_wait(): an exit is taken as it is, however late it is seen.
TryWait ==
  /\ pc = "poll"
  /\ IF child = "running"
       THEN pc' = "clock" /\ UNCHANGED <<cur, child>>
       ELSE Reap(ClassifyExit(child), child)
  /\ UNCHANGED <<options, progress, runtime, checkout, bundle, expired, orphans,
                 machine, history>>

\* Slip: the deadline is never looked at.
CheckClock_Never ==
  /\ pc = "clock"
  /\ pc' = "poll"
  /\ UNCHANGED <<options, progress, cur, runtime, checkout, bundle, process,
                 machine, history>>

\* The deadline is looked at only after try_wait found the child running.
CheckClock ==
  /\ pc = "clock"
  /\ pc' = IF expired THEN "kill" ELSE "poll"
  /\ UNCHANGED <<options, progress, cur, runtime, checkout, bundle, process,
                 machine, history>>

\* kill and wait.  The child may have exited since try_wait.  Only the child is
\* killed: what a gate of either kind has started may go on.
Kill ==
  /\ pc = "kill"
  /\ Reap("timed_out", IF child = "running" THEN "none" ELSE child)
  /\ orphans' \in IF child = "running" THEN {orphans, TRUE} ELSE {orphans}
  /\ UNCHANGED <<options, progress, runtime, checkout, bundle, expired, machine,
                 history>>

\* The kill is refused and the child is still there: the run ends without a
\* bundle and leaves the child running.
KillRefused ==
  /\ pc = "kill" /\ child = "running"
  /\ pc' = "aborted"
  /\ UNCHANGED <<options, progress, cur, runtime, checkout, bundle, process,
                 machine, history>>

\* Slip: a late problem is noted but the verdict stays.
Failing_Kept(r) == r

Failing(r) == [r EXCEPT !.status = IF @ = "passed" THEN "failed" ELSE @]

\* Slip: the inputs are not looked at again after the child.
RecheckInputs_Skipped ==
  /\ pc = "recheck" /\ pc' = "record"
  /\ UNCHANGED <<options, progress, cur, runtime, checkout, bundle, process,
                 machine, history>>

\* verify_gate_inputs, the second time.
RecheckInputs ==
  /\ pc = "recheck"
  /\ cur' = IF InputsMatch(Current) THEN cur
            ELSE [Failing(cur) EXCEPT !.inputErr = "text"]
  /\ pc' = "record"
  /\ UNCHANGED <<options, progress, runtime, checkout, bundle, process, machine,
                 history>>

\* finish_executable_attestation
Attested(r, p, before) ==
  LET after == Reidentified(p, before) IN
  IF after = None THEN [Failing(r) EXCEPT !.exeErr = "text"]
  ELSE IF after = Some(before)
    THEN [r EXCEPT !.exe = {[before |-> before, after |-> a] : a \in after}]
    ELSE [Failing(r) EXCEPT !.exeErr = "text",
            !.exe = {[before |-> before, after |-> a] : a \in after}]

\* The gate's evidence is complete and its logs are stored; with fail-fast a
\* gate that did not pass skips the rest.
Record ==
  /\ pc = "record"
  /\ LET r == IF runtime = None THEN cur
              ELSE Attested(cur, CHOOSE p \in Program[Current] : TRUE,
                                 CHOOSE v \in runtime : TRUE)
         rest == todo \ {Current}
         stop == failFast /\ r.status # "passed"
     IN /\ records' = [g \in DOMAIN records \union {Current} |->
                         IF g = Current THEN r ELSE records[g]]
        /\ skipped' = IF stop THEN rest ELSE skipped
        /\ todo'    = IF stop THEN {} ELSE rest
        /\ pc'      = IF stop \/ rest = {} THEN "finish" ELSE "verify"
  /\ runtime' = None /\ cur' = BlankEvidence /\ expired' = FALSE
  /\ UNCHANGED <<options, checkout, bundle, child, orphans, machine, history>>

\* A checkout whose first snapshot failed.
Unfinished == [git |-> None, before |-> None, after |-> None, error |-> preError]

\* Slip: the snapshots are recorded and not compared.
FinishedCheckout_NotCompared(s, capture) ==
  LET gitAfter == Reidentified("git", s.git)
      after    == IF capture = "none" THEN Some(Snapshot) ELSE None
      early    == Push(Push(preError, Said(gitAfter = None)), capture)
  IN [git    |-> {[before |-> s.git, after |-> a] : a \in gitAfter},
      before |-> Some(s.snapshot),
      after  |-> after,
      error  |-> Push(early, Said(\E a \in gitAfter : a # s.git))]

\* finish_checkout_attestation, when its capture ends so.
FinishedCheckout(s, capture) ==
  LET gitAfter == Reidentified("git", s.git)
      after    == IF capture = "none" THEN Some(Snapshot) ELSE None
      early    == Push(Push(preError, Said(gitAfter = None)), capture)
  IN [git    |-> {[before |-> s.git, after |-> a] : a \in gitAfter},
      before |-> Some(s.snapshot),
      after  |-> after,
      error  |-> Push(early, Said(\/ \E a \in gitAfter : a # s.git
                                 \/ \E t \in after : t # s.snapshot))]

\* The bundle says what was found, and the verdict is computed from it.
Write(c) ==
  bundle' = Some([policy |-> policy, checkout |-> c, selected |-> selected,
                  skipped |-> skipped, records |-> records,
                  passed |-> OverallPass(c, skipped, selected, records)])

Finish ==
  /\ pc = "finish"
  /\ \/ ~policy.checkout /\ Write(None)
     \/ policy.checkout /\ start = None /\ Write(Some(Unfinished))
     \/ \E s \in start, capture \in CaptureErrors : Write(Some(FinishedCheckout(s, capture)))
  /\ pc' = "done"
  /\ UNCHANGED <<options, progress, cur, runtime, checkout, process, machine,
                 history>>

\* Storing a log or the bundle fails: execute_gate and run_gates return the
\* error and there is no bundle.
StoreFails ==
  /\ pc \in {"record", "finish"}
  /\ pc' = "aborted"
  /\ UNCHANGED <<options, progress, cur, runtime, checkout, bundle, process,
                 machine, history>>

Executor ==
  \/ Begin \/ VerifyInputs \/ Prepare \/ SpawnFails \/ Spawn \/ TryWait \/ CheckClock \/ Kill
  \/ RecheckInputs \/ Record \/ Finish
-----------------------------------------------------------------------------
\* The world around it.

executorState == <<pc, options, progress, cur, runtime, checkout, bundle>>

ChildExits(exit) ==
  /\ child = "running"
  /\ child' = exit
  /\ UNCHANGED <<executorState, expired, orphans, machine, history>>

\* The timeout passes; the timer runs from before the first input check.
Expire ==
  /\ pc \in {"verify", "prepare", "spawn", "poll", "clock"} /\ ~expired
  /\ expired' = TRUE
  /\ UNCHANGED <<executorState, child, orphans, machine, history>>

\* A gate writes only while its child or a descendant of a killed one runs: what
\* one that exited has left behind counts as somebody else.
Disturb == disturbed' = (disturbed \/ ~(child = "running" \/ orphans))

Later(old, new) == old < new \/ (Restores /\ old # new)

EditFile(f, c) ==
  /\ Disturb /\ Later(file[f], c)
  /\ file' = [file EXCEPT ![f] = c]
  /\ edited' = IF pc \in {"begin", "done", "aborted"} THEN edited
               ELSE edited \union {f}
  /\ UNCHANGED <<executorState, process, seen, head, exe>>

MoveHead(r) ==
  /\ Disturb /\ Later(head, r)
  /\ head' = r
  /\ UNCHANGED <<executorState, process, seen, edited, file, exe>>

ReplaceProgram(p, v) ==
  /\ Disturb /\ Later(exe[p], v)
  /\ exe' = [exe EXCEPT ![p] = v]
  /\ UNCHANGED <<executorState, process, seen, edited, file, head>>

World ==
  \/ \E x \in {"zero", "nonzero"} : ChildExits(x)
  \/ Expire
  \/ \E f \in Files, c \in Contents : EditFile(f, c)
  \/ \E r \in Revisions : MoveHead(r)
  \/ \E p \in Programs, v \in Versions : ReplaceProgram(p, v)

\* A finished run leaves a stuttering system.
Finished == pc \in {"done", "aborted"} /\ UNCHANGED vars

Next == Executor \/ KillRefused \/ StoreFails \/ World \/ Finished

\* The executor is a sequential program and time passes; nothing is assumed of
\* the children.
Fairness == WF_vars(Executor) /\ WF_vars(Expire)

Spec == Init /\ [][Next]_vars /\ Fairness
-----------------------------------------------------------------------------
\* Properties

\* docs/gate-evidence.md: "A failed, unlaunchable, or timed-out gate still
\* produces a complete evidence bundle."  Whatever happened during a run,
\* verify-evidence should accept the bundle that run-gates wrote.
BundleVerifiable == \A b \in bundle : BundleVerifies(b)

\* An attested direct gate that was stopped at its first input check: its
\* program was never resolved, so its evidence names neither an executable nor
\* a resolution error.
StoppedAtInputs(b, g) ==
  /\ b.policy.executables /\ Program[g] # None
  /\ b.records[g].inputErr # "none" /\ b.records[g].exe = None
  /\ b.records[g].exeErr = "none"

\* An executable record of which one side is a file of no bytes.
Hollow(e) == e.before \in Empty \/ e.after \in Empty

\* What the runner writes down and the verifier does not take: besides a gate
\* stopped at its inputs, the message of a git that failed without a word, an
\* executable of no bytes, a program with a space at an end of its name, and
\* submodules with names that are not UTF-8.
Unverifiable(b) ==
  \/ \E g \in DOMAIN b.records :
       \/ StoppedAtInputs(b, g)
       \/ b.records[g].exe # None /\ g \in Padded
       \/ \E e \in b.records[g].exe : Hollow(e)
  \/ \E c \in b.checkout :
       \/ c.error = "padded"
       \/ \E e \in c.git : Hollow(e)
       \/ \E s \in c.before \union c.after : s.revision \in Garbled

\* The verifier refuses those bundles of its own and no others: apart from them,
\* verify_attestation_consistency asks nothing that execute_gate and
\* finish_checkout_attestation do not establish, whatever changed meanwhile.
OwnBundlesVerify == \A b \in bundle : BundleVerifies(b) <=> ~Unverifiable(b)

\* A gate recorded as passed was really started on its declared inputs, and an
\* attested one really ran the version its record names; changes that stay are
\* caught by the second verify_gate_inputs and by finish_executable_attestation.
PassedRanAsRecorded ==
  \A g \in DOMAIN records : records[g].status = "passed" =>
    /\ g \in DOMAIN seen /\ seen[g].inputs
    /\ \A e \in records[g].exe : seen[g].ran = {e.before} /\ e.after = e.before

\* After a run that passed under checkout attestation, on a machine that only
\* the gates have touched, the checkout is still the one the bundle records: no
\* killed gate's descendant is left to change it.
PassedCheckoutStands ==
  \A b \in bundle : b.passed /\ ~disturbed =>
    \A c \in b.checkout : c.after = Some(Snapshot)

\* A run that passed from a clean checkout saw no edit between its snapshots
\* (capture_git_snapshot before and after, compared in
\* finish_checkout_attestation).  Of a checkout that was dirty at the start
\* this is not true: git status names a file that is already modified whatever
\* is written to it next.
EditOfCleanCheckoutFails ==
  \A b \in bundle : b.passed =>
    \A c \in b.checkout : (\A s \in c.before : ~Dirty(s)) => edited = {}

\* A child that never exits cannot hold the run: the timeout ends it.
RunEnds == <>(pc \in {"done", "aborted"})
=============================================================================
