--------------------------- MODULE EvidenceProofs ---------------------------
(***************************************************************************)
(* Theorems about the two users of evidence bundles, for any gates.        *)
(*                                                                         *)
(* GateRun writes them: for any programs, files and policies, and whatever *)
(* the machine does meanwhile, what a bundle says is what happened.        *)
(*                                                                         *)
(* TransitionCheck reads them: an allowed transition with evidence is      *)
(* backed by executions that really passed, for any versions and edits,    *)
(* however many bundles there are.  A bundle file is known by its name,    *)
(* and the name is what a run wrote, unless somebody has renamed the file. *)
(***************************************************************************)
EXTENDS GateRun, TransitionCheck, TLAPS, WellFoundedInduction

Stages == {"verify", "prepare", "spawn", "poll", "clock", "kill", "recheck", "record"}

Evidence ==
  [status : {"launch_failed", "passed", "failed", "timed_out"},
   exit : {"none", "zero", "nonzero"}, launchErr : {"none", "text"},
   inputErr : {"none", "text"}, exeErr : {"none", "text"},
   exe : SUBSET [before : Nat, after : Nat]]

Snapshots == [revision : Nat, listed : SUBSET Files]

Types ==
  /\ pc \in Stages \union {"begin", "finish", "done", "aborted"}
  /\ policy \in Policies /\ selected \subseteq Gates
  /\ cur \in Evidence /\ records \in [DOMAIN records -> Evidence]
  /\ runtime = None \/ \E v \in Nat : runtime = Some(v)
  /\ child \in {"none", "running", "zero", "nonzero"}
  /\ file \in [Files -> Nat] /\ head \in Nat /\ exe \in [Programs -> Nat]
  /\ edited \subseteq Files

\* Every selected gate is to do, skipped or recorded, and only one of these.
Partition ==
  /\ selected = todo \union skipped \union DOMAIN records
  /\ todo \intersect DOMAIN records = {} /\ skipped \intersect DOMAIN records = {}
  /\ todo = {} \/ skipped = {}
  /\ pc \in Stages \union {"begin"} => todo # {}
  /\ pc \in {"finish", "done"} => todo = {}

\* There is a child exactly while the executor waits for one, unless the run
\* ended and left it.
ChildAwaited ==
  /\ pc \in {"poll", "clock", "kill"} => child # "none"
  /\ child # "none" => pc \in {"poll", "clock", "kill", "aborted"}

\* A killed gate's descendants come with a gate that timed out.
OrphansTimedOut ==
  orphans => \/ pc = "aborted"
             \/ pc \in {"recheck", "record"} /\ cur.status = "timed_out"
             \/ \E g \in DOMAIN records : records[g].status = "timed_out"

\* The gate is one whose executable is to be attested.
IsAttested(g) == policy.executables /\ Program[g] # None

\* The verdict of evidence follows from what it says went wrong.
VerdictOf(r) ==
  /\ r.status = "passed" => r.exit = "zero" /\ ErrorFree(r)
  /\ r.status = "launch_failed" => r.exit = "none"

\* The evidence being collected: blank until the child is gone, without an
\* executable until it is recorded, and of an attested gate with the version
\* found before the start, or with the error that there is none.
CurrentSound ==
  /\ pc \in {"begin", "verify", "prepare", "spawn", "poll", "clock", "kill"}
       => cur = BlankEvidence
  /\ pc \in {"begin", "verify", "prepare"} => runtime = None
  /\ pc \in {"spawn", "poll", "clock", "kill", "recheck", "record"} =>
       /\ runtime # None => IsAttested(Current)
       /\ IsAttested(Current) => runtime # None \/ cur.exeErr # "none" \/ cur.inputErr # "none"
  /\ pc \in {"recheck", "record"} =>
       VerdictOf(cur) /\ cur.exe = None /\ (cur.exeErr # "none" => IsAttested(Current))

\* What the verifier asks of a record, but for a gate stopped at its inputs.
RecordsSound ==
  \A g \in DOMAIN records : LET r == records[g] IN
    /\ VerdictOf(r)
    /\ ~IsAttested(g) => r.exe = None /\ r.exeErr = "none"
    /\ IsAttested(g) /\ r.exe = None => r.exeErr # "none" \/ r.inputErr # "none"
    /\ \A e \in r.exe : e.before # e.after => r.exeErr # "none"

\* The checkout snapshot a run goes on with is one its policy accepts.
CheckoutAccepted ==
  /\ start = None \/ \E v \in Nat, s \in Snapshots : start = Some([git |-> v, snapshot |-> s])
  /\ pc = "begin" \/ ~policy.checkout => start = None
  /\ pc # "begin" /\ policy.checkout /\ preError = "none" =>
       /\ start # None
       /\ \A s \in start : ~PreflightFails(s.snapshot)

\* The checkout attestation is one finish_checkout_attestation may write.
Finishes(c) == \E s \in start : \E capture : c = FinishedCheckout(s, capture)

BundleSound ==
  /\ bundle # None => pc = "done"
  /\ \A b \in bundle : b.passed => \A g \in DOMAIN records : records[g].status = "passed"
  /\ OwnBundlesVerify
  /\ PassedCheckoutStands

Inv == /\ Types /\ Partition /\ ChildAwaited /\ OrphansTimedOut /\ CurrentSound
       /\ RecordsSound /\ CheckoutAccepted /\ BundleSound

\* What a file or a program was when it was last compared bounds it from below.
Prepared ==
  /\ pc \in {"prepare", "spawn"} =>
       \A f \in Inputs[Current] : Declared[f] <= file[f]
  /\ pc = "spawn" => \A p \in Program[Current], v \in runtime : v <= exe[p]

\* The stages in which the verdict rests on how the child was started.
Verdictable ==
  \/ pc \in {"poll", "clock", "kill"}
  \/ pc \in {"recheck", "record"} /\ cur.status = "passed"

\* A child that was not started on its declared inputs left a trace: one of
\* them has moved past its declared content.  The version it ran lies between
\* the one found before the start and the one that is there now.
Launched ==
  Verdictable =>
     /\ Current \in DOMAIN seen
     /\ ~seen[Current].inputs =>
          pc # "record" /\ \E f \in Inputs[Current] : Declared[f] < file[f]
     /\ \A p \in Program[Current], v \in runtime : \E w \in Nat :
          seen[Current].ran = {w} /\ v <= w /\ w <= exe[p]

\* An edit of a checkout that was clean at the start shows.
EditsShow ==
  /\ pc = "begin" => edited = {}
  /\ \A s \in start : ~Dirty(s.snapshot) => \A f \in edited : 0 < file[f]

Grown == Prepared /\ Launched /\ PassedRanAsRecorded /\ EditsShow /\ EditOfCleanCheckoutFails
-----------------------------------------------------------------------------
\* While a gate is left there is a first one.
LEMMA LeastOf ==
  ASSUME NEW S, S \subseteq Nat, S # {}
  PROVE  \E x \in S : \A y \in S : x <= y
<1> DEFINE R == OpToRel(<, Nat)
<1>1. IsWellFoundedOn(R, Nat) BY NatLessThanWellFounded
<1> HIDE DEF R
<1>2. PICK x \in S : \A y \in S : ~ (<<y, x>> \in R)
  BY <1>1, WFMin
<1>3. \A y \in S : y < x => <<y, x>> \in R
  BY DEF R, OpToRel
<1>4. \A y \in S : x <= y
  <2> TAKE y \in S
  <2>1. ~ (y < x) BY <1>2, <1>3
  <2>2. x \in Nat /\ y \in Nat OBVIOUS
  <2> QED BY <2>1, <2>2
<1> QED BY <1>4

LEMMA CurrentIs ==
  ASSUME Types, Partition, todo # {}
  PROVE  /\ Current \in todo /\ Current \in Gates
         /\ Current \notin DOMAIN records /\ skipped = {}
<1>1. todo \subseteq Nat BY GateRunAssumption DEF Types, Partition
<1>2. \E x \in todo : \A y \in todo : x <= y BY <1>1, LeastOf
<1>3. Current \in todo BY <1>2 DEF Current
<1> QED BY <1>3 DEF Types, Partition

LEMMA SameCurrent == ASSUME todo' = todo PROVE Current' = Current
BY DEF Current

\* The machine is the world's to change, the run the executor's.
LEMMA ExecutorStays ==
  ASSUME Executor \/ KillRefused \/ StoreFails \/ Finished
  PROVE  UNCHANGED <<policy, failFast, selected, file, head, exe, edited, disturbed>>
BY DEF Executor, KillRefused, StoreFails, Finished, Begin, VerifyInputs, Prepare, SpawnFails, Spawn,
       TryWait, CheckClock, Kill, RecheckInputs, Record, Finish, vars, options, history, machine

LEMMA WorldStays ==
  ASSUME World
  PROVE  /\ UNCHANGED <<pc, policy, failFast, selected, todo, records, skipped, cur>>
         /\ UNCHANGED <<runtime, start, preError, bundle, orphans, seen>>
         /\ child' = child \/ (child = "running" /\ child' \in {"zero", "nonzero"})
BY DEF World, ChildExits, Expire, EditFile, MoveHead, ReplaceProgram, executorState,
       options, progress, checkout, process, machine, history

\* Files and programs change to other ones the machine may have, and a change
\* is an edit of the run or comes from outside.
LEMMA WorldMoves ==
  ASSUME Types, World
  PROVE  /\ file' \in [Files -> Nat] /\ head' \in Nat /\ exe' \in [Programs -> Nat]
         /\ edited' \subseteq Files
         /\ disturbed => disturbed'
         /\ (file' = file /\ head' = head) \/ disturbed' \/ child = "running" \/ orphans
<1>1. ASSUME NEW x \in {"zero", "nonzero"}, ChildExits(x)
      PROVE  UNCHANGED <<file, head, exe, edited, disturbed>>
  BY <1>1 DEF ChildExits, machine, history
<1>2. ASSUME Expire PROVE UNCHANGED <<file, head, exe, edited, disturbed>>
  BY <1>2 DEF Expire, machine, history
<1>3. ASSUME NEW f \in Files, NEW c \in Contents, EditFile(f, c)
      PROVE  /\ file' \in [Files -> Nat] /\ UNCHANGED <<head, exe>>
             /\ edited' \subseteq Files /\ Disturb
  BY <1>3, GateRunAssumption DEF EditFile, Types
<1>4. ASSUME NEW r \in Revisions, MoveHead(r)
      PROVE  head' \in Nat /\ UNCHANGED <<file, exe, edited>> /\ Disturb
  BY <1>4, GateRunAssumption DEF MoveHead, Types
<1>5. ASSUME NEW p \in Programs, NEW v \in Versions, ReplaceProgram(p, v)
      PROVE  exe' \in [Programs -> Nat] /\ UNCHANGED <<file, head, edited>> /\ Disturb
  BY <1>5, GateRunAssumption DEF ReplaceProgram, Types
<1>6. Disturb => (disturbed => disturbed') /\ (disturbed' \/ child = "running" \/ orphans)
  BY DEF Disturb
<1>7. /\ file \in [Files -> Nat] /\ head \in Nat /\ exe \in [Programs -> Nat]
      /\ edited \subseteq Files
  BY DEF Types
<1>8. CASE \E x \in {"zero", "nonzero"} : ChildExits(x) BY <1>1, <1>7, <1>8
<1>9. CASE Expire BY <1>2, <1>7, <1>9
<1>10. CASE \E f \in Files, c \in Contents : EditFile(f, c) BY <1>3, <1>6, <1>7, <1>10
<1>11. CASE \E r \in Revisions : MoveHead(r) BY <1>4, <1>6, <1>7, <1>11
<1>12. CASE \E p \in Programs, v \in Versions : ReplaceProgram(p, v)
  BY <1>5, <1>6, <1>7, <1>12
<1> QED BY <1>8, <1>9, <1>10, <1>11, <1>12 DEF World

LEMMA FailingIs ==
  ASSUME NEW r \in Evidence
  PROVE  /\ Failing(r) \in Evidence
         /\ Failing(r).status = (IF r.status = "passed" THEN "failed" ELSE r.status)
         /\ Failing(r).exit = r.exit /\ Failing(r).launchErr = r.launchErr
         /\ Failing(r).inputErr = r.inputErr /\ Failing(r).exeErr = r.exeErr
         /\ Failing(r).exe = r.exe
BY DEF Failing, Evidence

\* What finish_executable_attestation makes of evidence: the same version on
\* both sides, or an error and a verdict that is not a pass.
LEMMA AttestedIs ==
  ASSUME NEW r \in Evidence, r.exe = None, NEW p, NEW v \in Nat, exe[p] \in Nat,
         NEW a, a = Attested(r, p, v)
  PROVE  /\ a \in Evidence
         /\ a.exit = r.exit /\ a.launchErr = r.launchErr /\ a.inputErr = r.inputErr
         /\ a.status = r.status \/ (r.status = "passed" /\ a.status = "failed")
         /\ \/ /\ a.status = r.status /\ a.exeErr = r.exeErr /\ exe[p] = v
               /\ a.exe = {[before |-> v, after |-> v]}
            \/ a.exeErr # "none" /\ a.status # "passed"
<1> DEFINE f == Failing(r)
           after == Reidentified(p, v)
<1>1. /\ f \in Evidence
      /\ f.status = (IF r.status = "passed" THEN "failed" ELSE r.status)
      /\ f.exit = r.exit /\ f.launchErr = r.launchErr
      /\ f.inputErr = r.inputErr /\ f.exeErr = r.exeErr /\ f.exe = r.exe
  BY FailingIs
<1>2. after = None \/ after = {exe[p]} BY DEF Reidentified, Some
<1>3. CASE after = None
  <2>1. a = [f EXCEPT !.exeErr = "text"] BY <1>3 DEF Attested
  <2> HIDE DEF f, after
  <2> QED BY <1>1, <2>1 DEF Evidence
<1>4. CASE after = Some(v)
  <2>1. exe[p] = v BY <1>2, <1>4 DEF Some, None
  <2>2. {[before |-> v, after |-> x] : x \in after} = {[before |-> v, after |-> v]}
    BY <1>4 DEF Some
  <2>3. a = [r EXCEPT !.exe = {[before |-> v, after |-> v]}]
    BY <1>4, <2>2 DEF Attested, Some, None
  <2> HIDE DEF f, after
  <2> QED BY <2>1, <2>3 DEF Evidence
<1>5. CASE after # None /\ after # Some(v)
  <2> DEFINE e == {[before |-> v, after |-> x] : x \in after}
  <2>1. e \subseteq [before : Nat, after : Nat] BY <1>2 DEF None
  <2>2. a = [f EXCEPT !.exeErr = "text", !.exe = e] BY <1>5 DEF Attested
  <2> HIDE DEF f, after, e
  <2> QED BY <1>1, <2>1, <2>2 DEF Evidence
<1> QED BY <1>3, <1>4, <1>5

\* What recording a gate adds, and which gates are left.
LEMMA Recorded ==
  ASSUME Types, Partition, CurrentSound, Record
  PROVE  /\ \E r \in Evidence :
              /\ records' = [g \in DOMAIN records \union {Current} |->
                               IF g = Current THEN r ELSE records[g]]
              /\ VerdictOf(r)
              /\ ~IsAttested(Current) => r.exe = None /\ r.exeErr = "none"
              /\ IsAttested(Current) /\ r.exe = None => r.exeErr # "none" \/ r.inputErr # "none"
              /\ \A e \in r.exe : e.before # e.after => r.exeErr # "none"
              /\ cur.status = "timed_out" => r.status = "timed_out"
              /\ r.status = "passed" =>
                   /\ cur.status = "passed"
                   /\ \A e \in r.exe : \E p \in Program[Current] :
                        /\ runtime = Some(exe[p])
                        /\ e.before = exe[p] /\ e.after = exe[p]
         /\ \/ skipped' = todo \ {Current} /\ todo' = {}
            \/ skipped' = skipped /\ todo' = todo \ {Current}
         /\ pc' = IF todo' = {} THEN "finish" ELSE "verify"
<1>0. pc = "record" BY DEF Record
<1> Current \in Gates BY <1>0, CurrentIs DEF Partition, Stages
<1>1. PICK r : /\ r = (IF runtime = None THEN cur
                       ELSE Attested(cur, CHOOSE p \in Program[Current] : TRUE,
                                          CHOOSE v \in runtime : TRUE))
               /\ records' = [g \in DOMAIN records \union {Current} |->
                               IF g = Current THEN r ELSE records[g]]
               /\ skipped' = IF failFast /\ r.status # "passed"
                               THEN todo \ {Current} ELSE skipped
               /\ todo' = IF failFast /\ r.status # "passed"
                            THEN {} ELSE todo \ {Current}
               /\ pc' = IF (failFast /\ r.status # "passed") \/ todo \ {Current} = {}
                          THEN "finish" ELSE "verify"
  BY DEF Record
<1>2. /\ cur \in Evidence /\ VerdictOf(cur) /\ cur.exe = None
      /\ cur.exeErr # "none" => IsAttested(Current)
      /\ runtime # None => IsAttested(Current)
      /\ IsAttested(Current) => runtime # None \/ cur.exeErr # "none" \/ cur.inputErr # "none"
  BY <1>0 DEF CurrentSound, Types
<1>3. CASE runtime = None
  <2>1. r = cur BY <1>1, <1>3
  <2> QED BY <1>1, <1>2, <1>3, <2>1 DEF None
<1>4. CASE runtime # None
  <2>1. PICK v \in Nat : runtime = Some(v) BY <1>4 DEF Types
  <2>2. Program[Current] # {} BY <1>2, <1>4 DEF IsAttested, None
  <2>3. PICK p \in Program[Current] : p = CHOOSE q \in Program[Current] : TRUE BY <2>2
  <2>4. p \in Programs BY GateRunAssumption
  <2>5. exe[p] \in Nat BY <2>4 DEF Types
  <2>6. (CHOOSE w \in runtime : TRUE) = v BY <2>1 DEF Some
  <2>7. r = Attested(cur, p, v) BY <1>1, <1>4, <2>3, <2>6
  <2>8. /\ r \in Evidence
        /\ r.exit = cur.exit /\ r.launchErr = cur.launchErr /\ r.inputErr = cur.inputErr
        /\ r.status = cur.status \/ (cur.status = "passed" /\ r.status = "failed")
        /\ \/ /\ r.status = cur.status /\ r.exeErr = cur.exeErr /\ exe[p] = v
              /\ r.exe = {[before |-> v, after |-> v]}
           \/ r.exeErr # "none" /\ r.status # "passed"
    BY <1>2, <2>5, <2>7, AttestedIs
  <2>9. VerdictOf(r) BY <1>2, <2>8 DEF VerdictOf, ErrorFree
  <2>10. IsAttested(Current) BY <1>2, <1>4
  <2>11. r.exe = None => r.exeErr # "none" BY <2>8 DEF None
  <2>12. \A e \in r.exe : e.before # e.after => r.exeErr # "none" BY <2>8
  <2>13. ASSUME r.status = "passed"
         PROVE  /\ cur.status = "passed"
                /\ \A e \in r.exe : runtime = Some(exe[p]) /\ e.before = exe[p] /\ e.after = exe[p]
    BY <2>1, <2>8, <2>13
  <2>14. cur.status = "timed_out" => r.status = "timed_out" BY <2>8
  <2>15. \/ skipped' = todo \ {Current} /\ todo' = {}
         \/ skipped' = skipped /\ todo' = todo \ {Current}
    BY <1>1
  <2>16. pc' = IF todo' = {} THEN "finish" ELSE "verify" BY <1>1
  <2> QED BY <1>1, <2>8, <2>9, <2>10, <2>11, <2>12, <2>13, <2>14, <2>15, <2>16
<1> QED BY <1>3, <1>4

LEMMA NextTypes == ASSUME Types, Partition, CurrentSound, [Next]_vars PROVE Types'
<1>1. CASE UNCHANGED vars
  BY <1>1 DEF vars, options, progress, process, machine, history, Types
<1>2. CASE World BY <1>2, WorldStays, WorldMoves DEF Types
<1>3. CASE Executor \/ KillRefused \/ StoreFails
  <2>1. UNCHANGED <<policy, selected, file, head, exe, edited>> BY <1>3, ExecutorStays
  <2>2. CASE Begin BY <2>1, <2>2 DEF Begin, process, Types, Stages
  <2>3. CASE VerifyInputs
    <3>1. cur' \in Evidence
      BY <2>3 DEF VerifyInputs, BlankEvidence, Evidence, None, Said
    <3> QED BY <2>1, <2>3, <3>1 DEF VerifyInputs, progress, process, Types, Stages
  <2>4. CASE Prepare
    <3>1. cur' \in Evidence BY <2>4 DEF Prepare, Types, Evidence
    <3>2. Current \in Gates BY <2>4, CurrentIs DEF Prepare, Partition, Stages
    <3>3. \A p \in Program[Current] : exe[p] \in Nat
      BY <3>2, GateRunAssumption DEF Types
    <3>4. runtime' = None \/ \E v \in Nat : runtime' = Some(v)
      BY <2>4, <3>3 DEF Prepare, Types
    <3> QED BY <2>1, <2>4, <3>1, <3>4 DEF Prepare, progress, process, Types, Stages
  <2>5. CASE SpawnFails \/ Spawn
    <3>1. cur' \in Evidence BY <2>5 DEF SpawnFails, Spawn, Types, Evidence
    <3> QED BY <2>1, <2>5, <3>1 DEF SpawnFails, Spawn, progress, process, Types, Stages
  <2>6. CASE TryWait
    <3>1. cur' \in Evidence BY <2>6 DEF TryWait, Reap, ClassifyExit, Types, Evidence
    <3> QED BY <2>1, <2>6, <3>1 DEF TryWait, Reap, progress, Types, Stages
  <2>7. CASE CheckClock BY <2>1, <2>7 DEF CheckClock, progress, process, Types, Stages
  <2>8. CASE Kill
    <3>1. cur' \in Evidence BY <2>8 DEF Kill, Reap, Types, Evidence
    <3> QED BY <2>1, <2>8, <3>1 DEF Kill, Reap, progress, Types, Stages
  <2>9. CASE RecheckInputs
    <3>1. cur' \in Evidence
      BY <2>9, FailingIs DEF RecheckInputs, Types, Evidence
    <3> QED BY <2>1, <2>9, <3>1 DEF RecheckInputs, progress, process, Types, Stages
  <2>10. CASE Record
    <3>1. \A g \in DOMAIN records' : records'[g] \in Evidence
      BY <2>10, Recorded DEF Types
    <3>2. records' \in [DOMAIN records' -> Evidence] BY <2>10, <3>1, Recorded
    <3>3. cur' \in Evidence
      BY <2>10 DEF Record, BlankEvidence, Evidence, None
    <3> QED BY <2>1, <2>10, <3>2, <3>3, Recorded DEF Record, Types, Stages
  <2>11. CASE Finish \/ KillRefused \/ StoreFails
    BY <2>1, <2>11 DEF Finish, KillRefused, StoreFails, progress, process, Types, Stages
  <2> QED BY <1>3, <2>2, <2>3, <2>4, <2>5, <2>6, <2>7, <2>8, <2>9, <2>10, <2>11 DEF Executor
<1> QED BY <1>1, <1>2, <1>3 DEF Next, Finished

LEMMA NextPartition ==
  ASSUME Types, Partition, CurrentSound, [Next]_vars PROVE Partition'
<1>1. CASE UNCHANGED vars BY <1>1 DEF vars, options, progress, Partition
<1>2. CASE World BY <1>2, WorldStays DEF Partition
<1>3. CASE Begin
  <2>1. selected' = selected /\ records' = records BY <1>3 DEF Begin, options
  <2>2. \/ skipped' = todo /\ todo' = {} /\ pc' = "finish"
        \/ skipped' = skipped /\ todo' = todo /\ pc' = "verify"
    BY <1>3 DEF Begin
  <2>3. skipped = {} /\ todo # {} BY <1>3 DEF Begin, Partition
  <2> QED BY <2>1, <2>2, <2>3 DEF Partition, Stages
<1>4. CASE Record
  <2>1. pc = "record" /\ selected' = selected BY <1>4 DEF Record, options
  <2>2. Current \in todo /\ Current \notin DOMAIN records /\ skipped = {}
    BY <2>1, CurrentIs DEF Partition, Stages
  <2>3. DOMAIN records' = DOMAIN records \union {Current} BY <1>4, Recorded
  <2>4. \/ skipped' = todo \ {Current} /\ todo' = {}
        \/ skipped' = skipped /\ todo' = todo \ {Current}
    BY <1>4, Recorded
  <2>5. pc' = IF todo' = {} THEN "finish" ELSE "verify" BY <1>4, Recorded
  <2> QED BY <2>1, <2>2, <2>3, <2>4, <2>5 DEF Partition, Stages
<1>5. CASE VerifyInputs \/ Prepare \/ SpawnFails \/ Spawn \/ TryWait \/ CheckClock \/ Kill
           \/ RecheckInputs \/ Finish \/ KillRefused \/ StoreFails
  <2>1. UNCHANGED <<selected, todo, records, skipped>>
    BY <1>5 DEF VerifyInputs, Prepare, SpawnFails, Spawn, TryWait, CheckClock, Kill, RecheckInputs,
                Finish, KillRefused, StoreFails, options, progress
  <2>2. \/ pc \in Stages /\ pc' \in Stages
        \/ pc = "finish" /\ pc' = "done"
        \/ pc' = "aborted"
    BY <1>5 DEF VerifyInputs, Prepare, SpawnFails, Spawn, TryWait, Reap, CheckClock, Kill,
                RecheckInputs, Finish, KillRefused, StoreFails, Stages
  <2> QED BY <2>1, <2>2 DEF Partition, Stages
<1> QED BY <1>1, <1>2, <1>3, <1>4, <1>5 DEF Next, Executor, Finished

LEMMA NextChild == ASSUME ChildAwaited, [Next]_vars PROVE ChildAwaited'
<1>1. CASE UNCHANGED vars BY <1>1 DEF vars, process, ChildAwaited
<1>2. CASE World BY <1>2, WorldStays DEF ChildAwaited
<1>3. CASE Spawn BY <1>3 DEF Spawn, ChildAwaited
<1>4. CASE TryWait \/ Kill BY <1>4 DEF TryWait, Kill, Reap, process, ChildAwaited
<1>5. CASE Begin \/ VerifyInputs \/ Prepare \/ SpawnFails \/ CheckClock \/ RecheckInputs
           \/ Record \/ Finish \/ KillRefused \/ StoreFails
  <2>1. child' = child
    BY <1>5 DEF Begin, VerifyInputs, Prepare, SpawnFails, CheckClock, RecheckInputs, Record,
                Finish, KillRefused, StoreFails, process
  <2>2. \/ pc \in {"poll", "clock", "kill"} /\ pc' \in {"poll", "clock", "kill", "aborted"}
        \/ pc \notin {"poll", "clock", "kill", "aborted"} /\ pc' \notin {"poll", "clock", "kill"}
    BY <1>5 DEF Begin, VerifyInputs, Prepare, SpawnFails, CheckClock, RecheckInputs, Record,
                Finish, KillRefused, StoreFails
  <2> QED BY <2>1, <2>2 DEF ChildAwaited
<1> QED BY <1>1, <1>2, <1>3, <1>4, <1>5 DEF Next, Executor, Finished

LEMMA NextOrphans ==
  ASSUME Types, Partition, CurrentSound, OrphansTimedOut, [Next]_vars
  PROVE  OrphansTimedOut'
<1>1. CASE UNCHANGED vars BY <1>1 DEF vars, process, progress, OrphansTimedOut
<1>2. CASE World BY <1>2, WorldStays DEF OrphansTimedOut
<1>3. CASE Kill
  <2>1. pc' = "recheck" /\ cur'.status = "timed_out"
    BY <1>3 DEF Kill, Reap, Types, Evidence
  <2> QED BY <2>1 DEF OrphansTimedOut
<1>4. CASE RecheckInputs
  <2>1. cur.status = "timed_out" => cur'.status = "timed_out"
    BY <1>4, FailingIs DEF RecheckInputs, Types, Evidence
  <2> QED BY <1>4, <2>1 DEF RecheckInputs, process, progress, OrphansTimedOut
<1>5. CASE Record
  <2>1. pc = "record" /\ orphans' = orphans BY <1>5 DEF Record
  <2>2. Current \notin DOMAIN records BY <2>1, CurrentIs DEF Partition, Stages
  <2>3. /\ \A g \in DOMAIN records : g \in DOMAIN records' /\ records'[g] = records[g]
        /\ cur.status = "timed_out" =>
             Current \in DOMAIN records' /\ records'[Current].status = "timed_out"
    BY <1>5, <2>2, Recorded
  <2> QED BY <2>1, <2>3 DEF OrphansTimedOut
<1>6. CASE Begin \/ VerifyInputs \/ Prepare \/ SpawnFails \/ Spawn \/ TryWait \/ CheckClock \/ Finish
           \/ KillRefused \/ StoreFails
  <2>1. orphans' = orphans /\ records' = records
    BY <1>6 DEF Begin, VerifyInputs, Prepare, SpawnFails, Spawn, TryWait, CheckClock, Finish,
                KillRefused, StoreFails, process, progress
  <2>2. pc \notin {"recheck", "record", "aborted"} \/ pc' = "aborted"
    BY <1>6 DEF Begin, VerifyInputs, Prepare, SpawnFails, Spawn, TryWait, CheckClock, Finish,
                KillRefused, StoreFails
  <2> QED BY <2>1, <2>2 DEF OrphansTimedOut
<1> QED BY <1>1, <1>2, <1>3, <1>4, <1>5, <1>6 DEF Next, Executor, Finished

LEMMA NextCurrent ==
  ASSUME Types, Partition, ChildAwaited, CurrentSound, [Next]_vars PROVE CurrentSound'
<1> USE DEF IsAttested
<1>1. CASE UNCHANGED vars
  <2>1. Current' = Current BY <1>1, SameCurrent DEF vars, progress
  <2> QED BY <1>1, <2>1 DEF vars, options, CurrentSound, VerdictOf, ErrorFree
<1>2. CASE World
  <2>1. Current' = Current BY <1>2, WorldStays, SameCurrent
  <2> QED BY <1>2, <2>1, WorldStays DEF CurrentSound, VerdictOf, ErrorFree
<1>3. CASE VerifyInputs
  <2>1. Current' = Current /\ runtime' = runtime /\ runtime = None
    BY <1>3, SameCurrent DEF VerifyInputs, progress, CurrentSound
  <2>2. CASE InputsMatch(Current)
    <3>1. cur' = BlankEvidence BY <1>3, <2>2 DEF VerifyInputs, BlankEvidence, Said
    <3> QED BY <1>3, <2>1, <2>2, <3>1 DEF VerifyInputs, CurrentSound
  <2>3. CASE ~InputsMatch(Current)
    <3>1. cur' = [BlankEvidence EXCEPT !.inputErr = "text"]
      BY <1>3, <2>3 DEF VerifyInputs, BlankEvidence, Said
    <3> QED BY <1>3, <2>1, <2>3, <3>1 DEF VerifyInputs, CurrentSound, BlankEvidence, VerdictOf, ErrorFree
  <2> QED BY <2>2, <2>3
<1>4. CASE Prepare
  <2>1. Current' = Current /\ runtime = None /\ cur = BlankEvidence /\ policy' = policy
    BY <1>4, SameCurrent DEF Prepare, progress, options, CurrentSound
  <2>2. CASE pc' = "recheck"
    <3>1. /\ cur' = [cur EXCEPT !.exeErr = "text"] /\ IsAttested(Current)
          /\ runtime' = runtime
      BY <1>4, <2>2 DEF Prepare
    <3> QED BY <2>1, <2>2, <3>1 DEF CurrentSound, BlankEvidence, VerdictOf, ErrorFree
  <2>3. CASE pc' # "recheck"
    <3>1. /\ cur' = cur /\ pc' = "spawn"
          /\ IsAttested(Current) => runtime' # None
          /\ ~IsAttested(Current) => runtime' = runtime
      BY <1>4, <2>3 DEF Prepare, None, Some
    <3> QED BY <2>1, <3>1 DEF CurrentSound
  <2> QED BY <2>2, <2>3
<1>5. CASE SpawnFails \/ Spawn
  <2>1. Current' = Current /\ cur = BlankEvidence /\ policy' = policy /\ runtime' = runtime
    BY <1>5, SameCurrent DEF SpawnFails, Spawn, progress, options, CurrentSound
  <2>2. /\ runtime # None => IsAttested(Current)
        /\ IsAttested(Current) => runtime # None
    BY <1>5 DEF SpawnFails, Spawn, CurrentSound, BlankEvidence
  <2>3. \/ pc' = "recheck" /\ cur' = [cur EXCEPT !.launchErr = "text"]
        \/ pc' = "poll" /\ cur' = cur
    BY <1>5 DEF SpawnFails, Spawn
  <2> QED BY <2>1, <2>2, <2>3 DEF CurrentSound, BlankEvidence, VerdictOf, ErrorFree
<1>6. CASE TryWait \/ Kill
  <2>1. Current' = Current /\ cur = BlankEvidence /\ policy' = policy /\ runtime' = runtime
    BY <1>6, SameCurrent DEF TryWait, Kill, progress, options, CurrentSound
  <2>2. /\ runtime # None => IsAttested(Current)
        /\ IsAttested(Current) => runtime # None
    <3>1. pc \in {"poll", "kill"} BY <1>6 DEF TryWait, Kill
    <3>2. cur.exeErr = "none" /\ cur.inputErr = "none" BY <2>1 DEF BlankEvidence
    <3> QED BY <3>1, <3>2 DEF CurrentSound
  <2>3. \/ pc' = "clock" /\ cur' = cur
        \/ /\ pc' = "recheck"
           /\ cur' = [cur EXCEPT !.status = cur'.status, !.exit = cur'.exit]
           /\ cur'.status \in {"passed", "failed", "timed_out"}
           /\ cur'.status = "passed" => cur'.exit = "zero"
    <3>1. ASSUME NEW t, NEW x, cur' = [cur EXCEPT !.status = t, !.exit = x]
          PROVE  /\ cur' = [cur EXCEPT !.status = cur'.status, !.exit = cur'.exit]
                 /\ cur'.status = t /\ cur'.exit = x
      BY <2>1, <3>1 DEF BlankEvidence
    <3>2. CASE TryWait
      <4>1. CASE child = "running" BY <3>2, <4>1 DEF TryWait
      <4>2. CASE child # "running"
        <5>1. cur' = [cur EXCEPT !.status = ClassifyExit(child), !.exit = child] /\ pc' = "recheck"
          BY <3>2, <4>2 DEF TryWait, Reap
        <5> QED BY <3>1, <5>1 DEF ClassifyExit
      <4> QED BY <4>1, <4>2
    <3>3. CASE Kill
      <4> DEFINE x == IF child = "running" THEN "none" ELSE child
      <4>1. cur' = [cur EXCEPT !.status = "timed_out", !.exit = x] /\ pc' = "recheck"
        BY <3>3 DEF Kill, Reap
      <4> HIDE DEF x
      <4> QED BY <3>1, <4>1
    <3> QED BY <1>6, <3>2, <3>3
  <2> QED BY <2>1, <2>2, <2>3 DEF CurrentSound, BlankEvidence, VerdictOf, ErrorFree
<1>7. CASE RecheckInputs
  <2>1. Current' = Current /\ policy' = policy /\ runtime' = runtime /\ pc' = "record"
    BY <1>7, SameCurrent DEF RecheckInputs, progress, options
  <2>2. /\ runtime # None => IsAttested(Current)
        /\ IsAttested(Current) => runtime # None \/ cur.exeErr # "none" \/ cur.inputErr # "none"
        /\ VerdictOf(cur) /\ cur.exe = None /\ (cur.exeErr # "none" => IsAttested(Current))
        /\ cur \in Evidence
    BY <1>7 DEF RecheckInputs, CurrentSound, Types
  <2>3. CASE cur' = cur BY <2>1, <2>2, <2>3 DEF CurrentSound, VerdictOf, ErrorFree
  <2>4. CASE cur' = [Failing(cur) EXCEPT !.inputErr = "text"]
    <3>1. /\ Failing(cur) \in Evidence
          /\ Failing(cur).status = (IF cur.status = "passed" THEN "failed" ELSE cur.status)
          /\ Failing(cur).exit = cur.exit /\ Failing(cur).exe = cur.exe
          /\ Failing(cur).exeErr = cur.exeErr
      BY <2>2, FailingIs
    <3>2. /\ cur'.status # "passed" /\ cur'.exit = cur.exit /\ cur'.exe = cur.exe
          /\ cur'.status = "launch_failed" => cur.status = "launch_failed"
          /\ cur'.exeErr = cur.exeErr /\ cur'.inputErr # "none"
      BY <2>4, <3>1 DEF Evidence
    <3> QED BY <2>1, <2>2, <3>2 DEF CurrentSound, VerdictOf, ErrorFree
  <2> QED BY <1>7, <2>3, <2>4 DEF RecheckInputs
<1>8. CASE Record
  <2>1. runtime' = None /\ cur' = BlankEvidence /\ pc' \in {"verify", "finish"}
    BY <1>8, Recorded DEF Record
  <2> QED BY <2>1 DEF CurrentSound
<1>9. CASE Begin \/ CheckClock \/ Finish \/ KillRefused \/ StoreFails
  <2>1. runtime' = runtime /\ cur' = cur /\ policy' = policy
    BY <1>9 DEF Begin, CheckClock, Finish, KillRefused, StoreFails, options
  <2>2. \/ pc = "begin" /\ pc' = "verify"
        \/ pc = "clock" /\ pc' \in {"poll", "kill"} /\ todo' = todo
        \/ pc' \in {"finish", "done", "aborted"}
    BY <1>9 DEF Begin, CheckClock, Finish, KillRefused, StoreFails, progress
  <2>3. todo' = todo => Current' = Current BY SameCurrent
  <2> QED BY <2>1, <2>2, <2>3 DEF CurrentSound
<1> QED BY <1>1, <1>2, <1>3, <1>4, <1>5, <1>6, <1>7, <1>8, <1>9 DEF Next, Executor, Finished

LEMMA NextRecords ==
  ASSUME Types, Partition, CurrentSound, RecordsSound, [Next]_vars PROVE RecordsSound'
<1> USE DEF IsAttested
<1>1. CASE UNCHANGED vars BY <1>1 DEF vars, progress, options, RecordsSound, VerdictOf, ErrorFree
<1>2. CASE World BY <1>2, WorldStays DEF RecordsSound, VerdictOf, ErrorFree
<1>3. CASE Record
  <2>1. policy' = policy BY <1>3, ExecutorStays DEF Executor
  <2>2. PICK r : /\ records' = [g \in DOMAIN records \union {Current} |->
                                  IF g = Current THEN r ELSE records[g]]
                 /\ VerdictOf(r)
                 /\ ~IsAttested(Current) => r.exe = None /\ r.exeErr = "none"
                 /\ IsAttested(Current) /\ r.exe = None => r.exeErr # "none" \/ r.inputErr # "none"
                 /\ \A e \in r.exe : e.before # e.after => r.exeErr # "none"
    BY <1>3, Recorded
  <2> SUFFICES ASSUME NEW g \in DOMAIN records', NEW s, s = records'[g]
               PROVE  /\ VerdictOf(s)
                      /\ ~IsAttested(g) => s.exe = None /\ s.exeErr = "none"
                      /\ IsAttested(g) /\ s.exe = None => s.exeErr # "none" \/ s.inputErr # "none"
                      /\ \A e \in s.exe : e.before # e.after => s.exeErr # "none"
    BY <2>1 DEF RecordsSound, VerdictOf, ErrorFree
  <2>3. CASE g = Current
    <3>1. s = r BY <2>2, <2>3
    <3> QED BY <2>2, <2>3, <3>1
  <2>4. CASE g # Current
    <3>1. g \in DOMAIN records /\ s = records[g] BY <2>2, <2>4
    <3> QED BY <3>1 DEF RecordsSound
  <2> QED BY <2>3, <2>4
<1>4. CASE Begin \/ VerifyInputs \/ Prepare \/ SpawnFails \/ Spawn \/ TryWait \/ CheckClock \/ Kill
           \/ RecheckInputs \/ Finish \/ KillRefused \/ StoreFails
  <2>1. records' = records /\ policy' = policy
    BY <1>4 DEF Begin, VerifyInputs, Prepare, SpawnFails, Spawn, TryWait, CheckClock, Kill,
                RecheckInputs, Finish, KillRefused, StoreFails, progress, options
  <2> QED BY <2>1 DEF RecordsSound, VerdictOf, ErrorFree
<1> QED BY <1>1, <1>2, <1>3, <1>4 DEF Next, Executor, Finished

LEMMA SnapshotIs == Types => Snapshot \in Snapshots
BY DEF Types, Snapshot, Snapshots

LEMMA NextCheckout ==
  ASSUME Types, CheckoutAccepted, [Next]_vars PROVE CheckoutAccepted'
<1>1. CASE UNCHANGED vars
  BY <1>1 DEF vars, checkout, options, CheckoutAccepted, PreflightFails
<1>2. CASE World BY <1>2, WorldStays DEF CheckoutAccepted, PreflightFails
<1>3. CASE Begin
  <2>1. policy' = policy /\ pc' # "begin" BY <1>3, ExecutorStays DEF Begin, Executor
  <2>2. CASE policy.checkout
    <3>1. PICK error : TakeFirstSnapshot(error) BY <1>3, <2>2 DEF Begin
    <3>2. CASE error = "none"
      <4>1. start' = Some([git |-> exe["git"], snapshot |-> Snapshot])
        BY <3>1, <3>2 DEF TakeFirstSnapshot
      <4>2. exe["git"] \in Nat BY GateRunAssumption DEF Types
      <4>3. preError' = "none" => ~PreflightFails(Snapshot)
        BY <3>1, <3>2 DEF TakeFirstSnapshot, Push, Said
      <4>4. \A s \in start' : s.snapshot = Snapshot BY <4>1 DEF Some
      <4>5. \E v \in Nat, s \in Snapshots : start' = Some([git |-> v, snapshot |-> s])
        BY <4>1, <4>2, SnapshotIs
      <4>6. start' # None BY <4>1 DEF Some, None
      <4> HIDE DEF Snapshot
      <4>7. ASSUME NEW s \in start', preError' = "none" PROVE ~PreflightFails(s.snapshot)'
        <5>1. ~PreflightFails(s.snapshot) BY <4>3, <4>4, <4>7
        <5> QED BY <2>1, <5>1 DEF PreflightFails
      <4> QED BY <2>1, <2>2, <4>5, <4>6, <4>7 DEF CheckoutAccepted
    <3>3. CASE error # "none"
      <4>1. start' = None /\ preError' # "none"
        BY <3>1, <3>3 DEF TakeFirstSnapshot, Push, Said
      <4> QED BY <2>1, <4>1 DEF CheckoutAccepted
    <3> QED BY <3>2, <3>3
  <2>3. CASE ~policy.checkout
    <3>1. start' = start /\ start = None
      BY <1>3, <2>3 DEF Begin, checkout, CheckoutAccepted
    <3> QED BY <2>1, <2>3, <3>1 DEF CheckoutAccepted
  <2> QED BY <2>2, <2>3
<1>4. CASE VerifyInputs \/ Prepare \/ SpawnFails \/ Spawn \/ TryWait \/ CheckClock \/ Kill
           \/ RecheckInputs \/ Record \/ Finish \/ KillRefused \/ StoreFails
  <2>1. /\ start' = start /\ preError' = preError /\ policy' = policy
        /\ pc # "begin" /\ pc' # "begin"
    BY <1>4 DEF VerifyInputs, Prepare, SpawnFails, Spawn, TryWait, Reap, CheckClock, Kill,
                RecheckInputs, Record, Finish, KillRefused, StoreFails, checkout, options
  <2> QED BY <2>1 DEF CheckoutAccepted, PreflightFails
<1> QED BY <1>1, <1>2, <1>3, <1>4 DEF Next, Executor, Finished

\* What finish_checkout_attestation finds without an error is one snapshot.
LEMMA FinishedIs ==
  ASSUME Types, CheckoutAccepted, policy.checkout, pc = "finish", NEW s \in start,
         NEW capture, NEW c, c = FinishedCheckout(s, capture), c.error = "none"
  PROVE  /\ c.git # None /\ c.before = Some(s.snapshot) /\ c.after = c.before
         /\ \A e \in c.git : e.before = e.after
         /\ c.after = Some(Snapshot)
         /\ ~PreflightFails(s.snapshot)
<1> DEFINE gitAfter == Reidentified("git", s.git)
           after == IF capture = "none" THEN Some(Snapshot) ELSE None
           git   == {[before |-> s.git, after |-> a] : a \in gitAfter}
           early == Push(Push(preError, Said(gitAfter = None)), capture)
           error == Push(early, Said(\/ \E a \in gitAfter : a # s.git
                                     \/ \E t \in after : t # s.snapshot))
<1>1. c = [git |-> git, before |-> Some(s.snapshot), after |-> after, error |-> error]
  BY DEF FinishedCheckout
<1>2. c.git = git /\ c.before = Some(s.snapshot) /\ c.after = after /\ c.error = error
  <2> HIDE DEF git, after, error
  <2> QED BY <1>1
<1>3. /\ preError = "none" /\ gitAfter # None /\ capture = "none"
      /\ \A a \in gitAfter : a = s.git
      /\ \A t \in after : t = s.snapshot
  <2> HIDE DEF gitAfter, after
  <2> QED BY <1>2 DEF Push, Said
<1>4. after = Some(Snapshot) BY <1>3
<1>5. Snapshot = s.snapshot
  <2> HIDE DEF Snapshot
  <2> QED BY <1>3, <1>4 DEF Some
<1>6. gitAfter = {s.git}
  <2> HIDE DEF gitAfter
  <2> QED BY <1>3 DEF None
<1>7. git = {[before |-> s.git, after |-> s.git]}
  <2> HIDE DEF gitAfter
  <2> QED BY <1>6
<1>8. ~PreflightFails(s.snapshot) BY <1>3 DEF CheckoutAccepted
<1> HIDE DEF gitAfter, after, git, error
<1> QED BY <1>2, <1>4, <1>5, <1>7, <1>8 DEF None

\* What the bundle holds that is written at the end.
LEMMA WrittenIs ==
  ASSUME CheckoutAccepted, Finish
  PROVE  \E b : /\ bundle' = Some(b)
                /\ b.policy = policy /\ b.selected = selected
                /\ b.skipped = skipped /\ b.records = records
                /\ b.passed = OverallPass(b.checkout, skipped, selected, records)
                /\ policy.checkout <=> b.checkout # None
                /\ \A c \in b.checkout : c.error = "none" => Finishes(c)
<1>1. PICK x : /\ Write(x)
               /\ \/ ~policy.checkout /\ x = None
                  \/ policy.checkout /\ start = None /\ x = Some(Unfinished)
                  \/ policy.checkout /\ \E c : x = Some(c) /\ Finishes(c)
  <2>1. CASE ~policy.checkout /\ Write(None) BY <2>1
  <2>2. CASE policy.checkout /\ start = None /\ Write(Some(Unfinished)) BY <2>2
  <2>3. CASE \E s \in start, capture \in CaptureErrors : Write(Some(FinishedCheckout(s, capture)))
    <3>1. policy.checkout BY <2>3 DEF CheckoutAccepted, None
    <3> QED BY <2>3, <3>1 DEF Finishes
  <2> QED BY <2>1, <2>2, <2>3 DEF Finish
<1> DEFINE pass == OverallPass(x, skipped, selected, records)
           b == [policy |-> policy, checkout |-> x, selected |-> selected,
                 skipped |-> skipped, records |-> records, passed |-> pass]
<1>2. bundle' = Some(b) BY <1>1 DEF Write
<1>3. /\ b.policy = policy /\ b.checkout = x /\ b.selected = selected
      /\ b.skipped = skipped /\ b.records = records /\ b.passed = pass
  <2> HIDE DEF pass
  <2> QED OBVIOUS
<1>4. policy.checkout <=> x # None
  <2> HIDE DEF Unfinished, FinishedCheckout, Finishes
  <2> QED BY <1>1 DEF Some, None
<1>5. ASSUME NEW c \in x, c.error = "none"
      PROVE  Finishes(c)
  <2>1. CASE x = Some(Unfinished) /\ policy.checkout /\ start = None
    <3>1. preError = "none" BY <1>5, <2>1 DEF Some, Unfinished
    <3> QED BY <2>1, <3>1 DEF CheckoutAccepted, Finish
  <2> QED BY <1>1, <1>5, <2>1 DEF Some, None
<1> HIDE DEF b
<1> QED BY <1>2, <1>3, <1>4, <1>5

\* The verifier takes nothing that the runner could write and it must refuse.
LEMMA RefusedIs == ASSUME NEW b, BundleVerifies(b) PROVE ~Unverifiable(b)
<1>1. CheckoutConsistent(b) /\ \A g \in DOMAIN b.records : RecordConsistent(b, g)
  BY DEF BundleVerifies, AttestationConsistent
<1>2. ASSUME NEW g \in DOMAIN b.records
      PROVE  /\ ~StoppedAtInputs(b, g) /\ (b.records[g].exe # None => g \notin Padded)
             /\ \A e \in b.records[g].exe : ~Hollow(e)
  <2>1. RecordConsistent(b, g) BY <1>1
  <2> QED BY <2>1 DEF RecordConsistent, StoppedAtInputs, ExecutableTaken, Hollow, None
<1>3. ASSUME NEW c \in b.checkout
      PROVE  /\ c.error # "padded"
             /\ \A e \in c.git : ~Hollow(e)
             /\ \A s \in c.before \union c.after : s.revision \notin Garbled
  BY <1>1 DEF CheckoutConsistent, ErrorTaken, ExecutableTaken, Hollow, SnapshotTaken
<1> QED BY <1>2, <1>3 DEF Unverifiable

\* The bundle run_gates writes is one the verifier takes, but for what is said
\* in Unverifiable.
LEMMA FinishVerifies ==
  ASSUME Types, Partition, RecordsSound, CheckoutAccepted, Finish, NEW b,
         b.policy = policy, b.selected = selected, b.skipped = skipped, b.records = records,
         b.passed = OverallPass(b.checkout, skipped, selected, records),
         policy.checkout <=> b.checkout # None,
         \A c \in b.checkout : c.error = "none" => Finishes(c),
         ~Unverifiable(b)
  PROVE  BundleVerifies(b)
<1>1. pc = "finish" /\ todo = {} BY DEF Finish, Partition
<1>2. GateSetsConsistent(b) BY <1>1 DEF GateSetsConsistent, Partition
<1>3. CheckoutConsistent(b)
  <2>1. PolicyValid(b.policy) BY GateRunAssumption DEF Types
  <2>2. ASSUME NEW c \in b.checkout, c.error = "none"
        PROVE  /\ c.git # None /\ c.before # None /\ c.after = c.before
               /\ \A e \in c.git : e.before = e.after
               /\ \A s \in c.before : /\ policy.clean => ~Dirty(s)
                                      /\ policy.revision \subseteq {s.revision}
    <3>1. policy.checkout BY <2>2 DEF None
    <3>2. PICK s \in start : \E capture : c = FinishedCheckout(s, capture)
      BY <2>2 DEF Finishes
    <3>3. /\ c.git # None /\ c.before = Some(s.snapshot) /\ c.after = c.before
          /\ \A e \in c.git : e.before = e.after
          /\ ~PreflightFails(s.snapshot)
      BY <1>1, <2>2, <3>1, <3>2, FinishedIs
    <3> QED BY <3>3 DEF PreflightFails, Some, None
  <2>3. ASSUME NEW c \in b.checkout
        PROVE  /\ ErrorTaken(c.error)
               /\ \A e \in c.git : ExecutableTaken(e)
               /\ \A s \in c.before \union c.after : SnapshotTaken(s)
    BY DEF Unverifiable, Hollow, ErrorTaken, ExecutableTaken, SnapshotTaken
  <2> QED BY <2>1, <2>2, <2>3 DEF CheckoutConsistent
<1>4. ASSUME NEW g \in DOMAIN records PROVE RecordConsistent(b, g)
  <2>1. ~StoppedAtInputs(b, g) /\ (records[g].exe # None => g \notin Padded)
    BY DEF Unverifiable
  <2>2. \A e \in records[g].exe : ExecutableTaken(e)
    BY DEF Unverifiable, Hollow, ExecutableTaken
  <2>3. records[g] \in Evidence BY DEF Types
  <2>4. ErrorTaken(records[g].launchErr) /\ ErrorTaken(records[g].inputErr) /\ ErrorTaken(records[g].exeErr)
    BY <2>3 DEF Evidence, ErrorTaken
  <2> QED
    BY <2>1, <2>2, <2>4
    DEF RecordConsistent, RecordsSound, VerdictOf, ErrorFree, IsAttested, StoppedAtInputs, None
<1>5. ASSUME b.passed
      PROVE  /\ \A c \in b.checkout : c.error = "none"
             /\ \A g \in DOMAIN records : ErrorFree(records[g])
  <2>1. /\ \A c \in b.checkout : c.error = "none"
        /\ \A g \in DOMAIN records : records[g].status = "passed"
    BY <1>5 DEF OverallPass
  <2> QED BY <2>1 DEF RecordsSound, VerdictOf
<1>6. AttestationConsistent(b) BY <1>3, <1>4, <1>5 DEF AttestationConsistent
<1> QED BY <1>2, <1>6 DEF BundleVerifies

LEMMA NextBundle ==
  ASSUME Types, Partition, ChildAwaited, OrphansTimedOut, CurrentSound, RecordsSound,
         CheckoutAccepted, BundleSound, [Next]_vars
  PROVE  BundleSound'
<1> USE DEF OwnBundlesVerify
<1>1. CASE Finish
  <2>1. PICK b : /\ bundle' = Some(b)
                 /\ b.policy = policy /\ b.selected = selected
                 /\ b.skipped = skipped /\ b.records = records
                 /\ b.passed = OverallPass(b.checkout, skipped, selected, records)
                 /\ policy.checkout <=> b.checkout # None
                 /\ \A c \in b.checkout : c.error = "none" => Finishes(c)
    BY <1>1, WrittenIs
  <2>2. \A x \in bundle' : x = b BY <2>1 DEF Some
  <2>3. pc = "finish" /\ pc' = "done" /\ records' = records /\ UNCHANGED <<file, head>>
    BY <1>1, ExecutorStays DEF Finish, progress, Executor
  <2>4. OwnBundlesVerify'
    <3>1. BundleVerifies(b) <=> ~Unverifiable(b) BY <1>1, <2>1, FinishVerifies, RefusedIs
    <3> QED BY <2>2, <3>1 DEF OwnBundlesVerify
  <2>5. b.passed => \A g \in DOMAIN records' : records'[g].status = "passed"
    BY <2>1, <2>3 DEF OverallPass
  <2>6. b.passed => \A c \in b.checkout : c.after = Some(Snapshot)
    <3> SUFFICES ASSUME b.passed, NEW c \in b.checkout PROVE c.after = Some(Snapshot)
      OBVIOUS
    <3>1. c.error = "none" BY <2>1 DEF OverallPass
    <3>2. policy.checkout BY <2>1 DEF None
    <3>3. PICK s \in start : \E capture : c = FinishedCheckout(s, capture)
      BY <2>1, <3>1 DEF Finishes
    <3> QED BY <2>3, <3>1, <3>2, <3>3, FinishedIs
  <2>7. Snapshot' = Snapshot BY <2>3 DEF Snapshot
  <2>8. PassedCheckoutStands' BY <2>2, <2>6, <2>7 DEF PassedCheckoutStands, Some
  <2> QED BY <2>2, <2>3, <2>4, <2>5, <2>8 DEF BundleSound
<1>2. CASE World
  <2>1. UNCHANGED <<pc, records, bundle, orphans>> BY <1>2, WorldStays
  <2>2. CASE bundle = None BY <2>1, <2>2 DEF BundleSound, None, PassedCheckoutStands
  <2>3. CASE bundle # None
    <3>1. pc = "done" BY <2>3 DEF BundleSound
    <3>2. child = "none" BY <3>1 DEF ChildAwaited
    <3>3. \A x \in bundle : x.passed => ~orphans
      BY <3>1 DEF BundleSound, OrphansTimedOut
    <3>4. ASSUME NEW x \in bundle, x.passed, ~disturbed' PROVE ~disturbed /\ Snapshot' = Snapshot
      <4>1. file' = file /\ head' = head /\ ~disturbed BY <1>2, <3>2, <3>3, <3>4, WorldMoves
      <4> QED BY <4>1 DEF Snapshot
    <3>5. PassedCheckoutStands' BY <2>1, <3>4 DEF BundleSound, PassedCheckoutStands, Some
    <3> QED BY <2>1, <3>5 DEF BundleSound
  <2> QED BY <2>2, <2>3
<1>3. CASE UNCHANGED vars
  <2>1. UNCHANGED <<pc, bundle, records, file, head, disturbed>>
    BY <1>3 DEF vars, progress, machine, history
  <2> QED BY <2>1 DEF BundleSound, PassedCheckoutStands, Some, Snapshot
<1>4. CASE Begin \/ VerifyInputs \/ Prepare \/ SpawnFails \/ Spawn \/ TryWait \/ CheckClock \/ Kill
           \/ RecheckInputs \/ Record \/ KillRefused \/ StoreFails
  <2>1. pc # "done" /\ bundle' = bundle
    BY <1>4 DEF Begin, VerifyInputs, Prepare, SpawnFails, Spawn, TryWait, CheckClock, Kill,
                RecheckInputs, Record, KillRefused, StoreFails
  <2>2. bundle' = None BY <2>1 DEF BundleSound
  <2> QED BY <2>2 DEF BundleSound, PassedCheckoutStands, None
<1> QED BY <1>1, <1>2, <1>3, <1>4 DEF Next, Executor, Finished

LEMMA InitInv == Init => Inv
<1> SUFFICES ASSUME Init PROVE Inv OBVIOUS
<1>1. Types
  <2>1. cur \in Evidence BY DEF Init, BlankEvidence, Evidence, None
  <2>2. records \in [DOMAIN records -> Evidence] BY DEF Init
  <2>3. file \in [Files -> Nat] BY GateRunAssumption DEF Init
  <2>4. exe \in [Programs -> Nat] /\ head \in Nat BY DEF Init
  <2>5. policy \in Policies /\ selected \subseteq Gates BY GateRunAssumption DEF Init
  <2>6. runtime = None /\ child = "none" /\ edited = {} /\ pc = "begin" BY DEF Init
  <2> QED BY <2>1, <2>2, <2>3, <2>4, <2>5, <2>6 DEF Types
<1>2. DOMAIN records = {} BY DEF Init
<1>3. Partition
  <2>1. selected # {} BY GateRunAssumption DEF Init
  <2> QED BY <1>2, <2>1 DEF Init, Partition
<1>4. ChildAwaited BY DEF Init, ChildAwaited
<1>5. OrphansTimedOut BY DEF Init, OrphansTimedOut
<1>6. CurrentSound BY DEF Init, CurrentSound
<1>7. RecordsSound BY <1>2 DEF RecordsSound
<1>8. CheckoutAccepted BY DEF Init, CheckoutAccepted
<1>9. BundleSound
  BY DEF Init, None, BundleSound, OwnBundlesVerify, PassedCheckoutStands
<1> QED BY <1>1, <1>3, <1>4, <1>5, <1>6, <1>7, <1>8, <1>9 DEF Inv

LEMMA NextInv == Inv /\ [Next]_vars => Inv'
BY NextTypes, NextPartition, NextChild, NextOrphans, NextCurrent, NextRecords,
   NextCheckout, NextBundle DEF Inv

LEMMA Invariance == Spec => []Inv
BY InitInv, NextInv, PTL DEF Spec

\* Whatever changes on the machine while gates run (files, HEAD, programs, even
\* back and forth), and however git or a gate fails, the bundle that run_gates
\* writes passes verify_attestation_consistency, unless it records one of the
\* things Unverifiable names, and then it does not.
THEOREM BundlesVerify == Spec => []OwnBundlesVerify
<1>1. Inv => OwnBundlesVerify BY DEF Inv, BundleSound
<1> QED BY <1>1, Invariance, PTL

\* After a run that passed, finish_checkout_attestation's second snapshot is
\* the checkout as it stays, as long as nobody but gates changes it: what a
\* killed gate leaves running comes with a gate that timed out.
THEOREM PassedCheckoutsStand == Spec => []PassedCheckoutStands
<1>1. Inv => PassedCheckoutStands BY DEF Inv, BundleSound
<1> QED BY <1>1, Invariance, PTL
-----------------------------------------------------------------------------
\* From here on nobody puts an old content back between two reads.

\* Contents and versions only grow, and so an edit shows.
LEMMA WorldGrows ==
  ASSUME Types, ~Restores, World
  PROVE  /\ \A f \in Files : file[f] <= file'[f]
         /\ \A p \in Programs : exe[p] <= exe'[p]
         /\ \A f \in edited' : f \in edited \/ 0 < file'[f]
         /\ pc \in {"begin", "done", "aborted"} => edited' = edited
<1>1. /\ file \in [Files -> Nat] /\ exe \in [Programs -> Nat]
      /\ file' \in [Files -> Nat] /\ exe' \in [Programs -> Nat]
  BY WorldMoves DEF Types
<1>2. (\A f \in Files : file[f] <= file[f]) /\ (\A p \in Programs : exe[p] <= exe[p])
  BY <1>1
<1>3. CASE \E f \in Files, c \in Contents : EditFile(f, c)
  <2> PICK f \in Files, c \in Contents : EditFile(f, c) BY <1>3
  <2>1. c \in Nat /\ file[f] \in Nat /\ file[f] < c
    BY <1>1, GateRunAssumption DEF EditFile, Later
  <2>2. file' = [file EXCEPT ![f] = c] /\ exe' = exe BY DEF EditFile
  <2>3. \/ edited' = edited
        \/ pc \notin {"begin", "done", "aborted"} /\ edited' = edited \union {f}
    BY DEF EditFile
  <2>4. file'[f] = c /\ \A g \in Files : g # f => file'[g] = file[g] BY <1>1, <2>2
  <2> QED BY <1>1, <1>2, <2>1, <2>2, <2>3, <2>4
<1>4. CASE \E p \in Programs, v \in Versions : ReplaceProgram(p, v)
  <2> PICK p \in Programs, v \in Versions : ReplaceProgram(p, v) BY <1>4
  <2>1. v \in Nat /\ exe[p] \in Nat /\ exe[p] < v
    BY <1>1, GateRunAssumption DEF ReplaceProgram, Later
  <2>2. exe' = [exe EXCEPT ![p] = v] /\ UNCHANGED <<file, edited>> BY DEF ReplaceProgram
  <2>3. exe'[p] = v /\ \A q \in Programs : q # p => exe'[q] = exe[q] BY <1>1, <2>2
  <2> QED BY <1>1, <1>2, <2>1, <2>2, <2>3
<1>5. CASE (\E x \in {"zero", "nonzero"} : ChildExits(x)) \/ Expire
           \/ \E r \in Revisions : MoveHead(r)
  <2>1. UNCHANGED <<file, exe, edited>>
    BY <1>5 DEF ChildExits, Expire, MoveHead, machine, history
  <2> QED BY <1>2, <2>1
<1> QED BY <1>3, <1>4, <1>5 DEF World

LEMMA InputsAre ==
  ASSUME Types, Partition, pc \in Stages
  PROVE  /\ Current \in Gates
         /\ \A f \in Inputs[Current] : f \in Files /\ Declared[f] \in Nat /\ file[f] \in Nat
         /\ \A p \in Program[Current] : p \in Programs /\ exe[p] \in Nat
         /\ \A v \in runtime : v \in Nat
<1>1. Current \in Gates BY CurrentIs DEF Partition
<1>2. Inputs[Current] \subseteq Files /\ Program[Current] \subseteq Programs
  BY <1>1, GateRunAssumption
<1>3. /\ file \in [Files -> Nat] /\ exe \in [Programs -> Nat]
      /\ Declared \in [Files -> Nat]
  BY GateRunAssumption DEF Types
<1>4. \A v \in runtime : v \in Nat BY DEF Types, None, Some
<1> QED BY <1>1, <1>2, <1>3, <1>4

LEMMA NextPrepared ==
  ASSUME Inv, ~Restores, Prepared, [Next]_vars PROVE Prepared'
<1> SUFFICES ASSUME pc' \in {"prepare", "spawn"} PROVE Prepared' BY DEF Prepared
<1>0. Types /\ Partition /\ CurrentSound BY DEF Inv
<1>1. CASE UNCHANGED vars
  <2>1. Current' = Current /\ UNCHANGED <<pc, file, exe, runtime>>
    BY <1>1, SameCurrent DEF vars, progress, machine
  <2> QED BY <2>1 DEF Prepared
<1>2. CASE World
  <2>1. Current' = Current /\ pc' = pc /\ runtime' = runtime BY <1>2, WorldStays, SameCurrent
  <2>2. /\ \A f \in Files : file[f] <= file'[f]
        /\ \A p \in Programs : exe[p] <= exe'[p]
    BY <1>0, <1>2, WorldGrows
  <2>3. /\ \A f \in Files : file'[f] \in Nat
        /\ \A p \in Programs : exe'[p] \in Nat
    BY <1>0, <1>2, WorldMoves
  <2>4. ASSUME NEW f \in Inputs[Current] PROVE Declared[f] <= file'[f]
    <3>1. f \in Files /\ Declared[f] \in Nat /\ file[f] \in Nat
      BY <1>0, <2>1, InputsAre DEF Stages
    <3>2. Declared[f] <= file[f] BY <2>1 DEF Prepared
    <3> QED BY <2>2, <2>3, <3>1, <3>2
  <2>5. ASSUME pc = "spawn", NEW p \in Program[Current], NEW v \in runtime
        PROVE  v <= exe'[p]
    <3>1. p \in Programs /\ exe[p] \in Nat /\ v \in Nat
      BY <1>0, <2>1, InputsAre DEF Stages
    <3>2. v <= exe[p] BY <2>5 DEF Prepared
    <3> QED BY <2>2, <2>3, <3>1, <3>2
  <2> QED BY <2>1, <2>4, <2>5 DEF Prepared
<1>3. CASE VerifyInputs
  <2>1. /\ Current' = Current /\ pc' = "prepare" /\ pc = "verify"
        /\ file' = file /\ InputsMatch(Current)
    BY <1>3, SameCurrent DEF VerifyInputs, progress, machine
  <2>2. \A f \in Inputs[Current] : Declared[f] <= file[f]
    BY <1>0, <2>1, InputsAre DEF InputsMatch, Stages
  <2> QED BY <2>1, <2>2 DEF Prepared
<1>4. CASE Prepare
  <2>1. /\ Current' = Current /\ pc' = "spawn" /\ pc = "prepare"
        /\ file' = file /\ exe' = exe
    BY <1>4, SameCurrent DEF Prepare, progress, machine
  <2>2. ASSUME NEW p \in Program[Current], NEW v \in runtime' PROVE v <= exe[p]
    <3>1. runtime' # runtime \/ runtime = None BY <1>0, <2>1 DEF CurrentSound
    <3>2. \E q \in Program[Current] : runtime' = Some(exe[q])
      BY <1>4, <2>1, <2>2, <3>1 DEF Prepare, None
    <3>3. Current \in Gates /\ exe[p] \in Nat BY <1>0, <2>1, InputsAre DEF Stages
    <3>4. v = exe[p] BY <3>2, <3>3, GateRunAssumption DEF Some
    <3> QED BY <3>3, <3>4
  <2> QED BY <2>1, <2>2 DEF Prepared
<1>5. CASE Begin \/ SpawnFails \/ Spawn \/ TryWait \/ CheckClock \/ Kill \/ RecheckInputs \/ Record
           \/ Finish \/ KillRefused \/ StoreFails
  <2>1. pc' \notin {"prepare", "spawn"}
    <3>1. CASE Record BY <1>0, <3>1, Recorded
    <3>2. CASE ~Record
      BY <1>5, <3>2 DEF Begin, SpawnFails, Spawn, TryWait, Reap, CheckClock, Kill, RecheckInputs,
                        Finish, KillRefused, StoreFails
    <3> QED BY <3>1, <3>2
  <2> QED BY <2>1
<1> QED BY <1>1, <1>2, <1>3, <1>4, <1>5 DEF Next, Executor, Finished

LEMMA NextLaunched ==
  ASSUME Inv, ~Restores, Prepared, Launched, [Next]_vars PROVE Launched'
<1> USE DEF Verdictable
<1> SUFFICES ASSUME Verdictable' PROVE Launched' BY DEF Launched
<1>0. Types /\ Partition /\ CurrentSound BY DEF Inv
<1>1. CASE UNCHANGED vars
  <2>1. Current' = Current /\ UNCHANGED <<pc, cur, file, exe, runtime, seen>>
    BY <1>1, SameCurrent DEF vars, progress, machine, history
  <2> QED BY <2>1 DEF Launched
<1>2. CASE World
  <2>1. Current' = Current /\ UNCHANGED <<pc, cur, runtime, seen>>
    BY <1>2, WorldStays, SameCurrent
  <2>2. /\ \A f \in Files : file[f] <= file'[f]
        /\ \A p \in Programs : exe[p] <= exe'[p]
    BY <1>0, <1>2, WorldGrows
  <2>3. /\ \A f \in Files : file'[f] \in Nat
        /\ \A p \in Programs : exe'[p] \in Nat
    BY <1>0, <1>2, WorldMoves
  <2>4. Current \in DOMAIN seen BY <2>1 DEF Launched
  <2>5. ASSUME ~seen[Current].inputs
        PROVE  pc # "record" /\ \E f \in Inputs[Current] : Declared[f] < file'[f]
    <3>1. pc # "record" /\ \E f \in Inputs[Current] : Declared[f] < file[f]
      BY <2>1, <2>5 DEF Launched
    <3>2. PICK f \in Inputs[Current] : Declared[f] < file[f] BY <3>1
    <3>3. f \in Files /\ Declared[f] \in Nat /\ file[f] \in Nat
      BY <1>0, <2>1, InputsAre DEF Stages
    <3>4. Declared[f] < file'[f] BY <2>2, <2>3, <3>2, <3>3
    <3> QED BY <3>1, <3>4
  <2>6. ASSUME NEW p \in Program[Current], NEW v \in runtime
        PROVE  \E w \in Nat : seen[Current].ran = {w} /\ v <= w /\ w <= exe'[p]
    <3>1. PICK w \in Nat : seen[Current].ran = {w} /\ v <= w /\ w <= exe[p]
      BY <2>1 DEF Launched
    <3>2. p \in Programs /\ exe[p] \in Nat BY <1>0, <2>1, InputsAre DEF Stages
    <3>3. w <= exe'[p] BY <2>2, <2>3, <3>1, <3>2
    <3> QED BY <3>1, <3>3
  <2> QED BY <2>1, <2>4, <2>5, <2>6 DEF Launched
<1>3. CASE Spawn
  <2>0. pc = "spawn" /\ cur = BlankEvidence BY <1>0, <1>3 DEF Spawn, CurrentSound
  <2>1. /\ Current' = Current /\ pc' = "poll" /\ UNCHANGED <<runtime, file, exe>>
        /\ seen' = [g \in DOMAIN seen \union {Current} |->
                 IF g # Current THEN seen[g]
                 ELSE [ran    |-> {exe[p] : p \in Program[g]},
                       inputs |-> InputsMatch(g)]]
    BY <1>3, <2>0, SameCurrent DEF Spawn, progress, machine, BlankEvidence
  <2>2. /\ Current \in DOMAIN seen'
        /\ seen'[Current].ran = {exe[p] : p \in Program[Current]}
        /\ seen'[Current].inputs = InputsMatch(Current)
    BY <2>1
  <2>3. ASSUME ~InputsMatch(Current)
        PROVE  \E f \in Inputs[Current] : Declared[f] < file[f]
    <3>1. PICK f \in Inputs[Current] : file[f] # Declared[f] BY <2>3 DEF InputsMatch
    <3>2. Declared[f] <= file[f] /\ Declared[f] \in Nat /\ file[f] \in Nat
      BY <1>0, <2>0, InputsAre DEF Prepared, Stages
    <3> QED BY <3>1, <3>2
  <2>4. ASSUME NEW p \in Program[Current], NEW v \in runtime
        PROVE  seen'[Current].ran = {exe[p]} /\ v <= exe[p] /\ exe[p] <= exe[p] /\ exe[p] \in Nat
    <3>1. Current \in Gates /\ exe[p] \in Nat BY <1>0, <2>0, InputsAre DEF Stages
    <3>2. \A q \in Program[Current] : q = p BY <3>1, GateRunAssumption
    <3>3. {exe[q] : q \in Program[Current]} = {exe[p]} BY <3>2
    <3>4. v <= exe[p] BY <2>0 DEF Prepared
    <3> QED BY <2>2, <3>1, <3>3, <3>4
  <2> QED BY <2>1, <2>2, <2>3, <2>4 DEF Launched
<1>4. CASE TryWait \/ CheckClock
  <2>1. /\ Current' = Current /\ UNCHANGED <<runtime, file, exe, seen>>
        /\ pc \in {"poll", "clock"} /\ pc' # "record"
    BY <1>4, SameCurrent DEF TryWait, Reap, CheckClock, progress, machine, history
  <2> QED BY <2>1 DEF Launched
<1>5. CASE RecheckInputs
  <2>1. /\ Current' = Current /\ UNCHANGED <<runtime, file, exe, seen>>
        /\ pc = "recheck" /\ pc' = "record" /\ cur'.status = "passed"
    BY <1>5, SameCurrent DEF RecheckInputs, progress, machine, history
  <2>2. InputsMatch(Current) /\ cur' = cur
    <3>1. cur \in Evidence BY <1>0 DEF Types
    <3>2. ASSUME ~InputsMatch(Current) PROVE FALSE
      <4>1. cur' = [Failing(cur) EXCEPT !.inputErr = "text"] BY <1>5, <3>2 DEF RecheckInputs
      <4>2. Failing(cur) \in Evidence /\ Failing(cur).status # "passed" BY <3>1, FailingIs
      <4>3. cur'.status = Failing(cur).status BY <4>1, <4>2 DEF Evidence
      <4> QED BY <2>1, <4>2, <4>3
    <3> QED BY <1>5, <3>2 DEF RecheckInputs
  <2>3. ~ \E f \in Inputs[Current] : Declared[f] < file[f]
    BY <1>0, <2>1, <2>2, InputsAre DEF InputsMatch, Stages
  <2> QED BY <2>1, <2>2, <2>3 DEF Launched
<1>6. CASE Begin \/ VerifyInputs \/ Prepare \/ SpawnFails \/ Kill \/ Record \/ Finish
           \/ KillRefused \/ StoreFails
  <2>1. ~Verdictable'
    <3>1. CASE Record BY <1>0, <3>1, Recorded
    <3>2. CASE Kill BY <1>0, <3>2 DEF Kill, Reap, Types, Evidence
    <3>3. CASE Prepare \/ SpawnFails
      <4>1. cur = BlankEvidence BY <1>0, <3>3 DEF Prepare, SpawnFails, CurrentSound
      <4> QED BY <3>3, <4>1 DEF Prepare, SpawnFails, BlankEvidence
    <3>4. CASE VerifyInputs
      <4>1. cur'.status = "launch_failed" BY <3>4 DEF VerifyInputs, BlankEvidence
      <4> QED BY <3>4, <4>1 DEF VerifyInputs
    <3>5. CASE Begin \/ Finish \/ KillRefused \/ StoreFails
      BY <3>5 DEF Begin, Finish, KillRefused, StoreFails
    <3> QED BY <1>6, <3>1, <3>2, <3>3, <3>4, <3>5
  <2> QED BY <2>1
<1> QED BY <1>1, <1>2, <1>3, <1>4, <1>5, <1>6 DEF Next, Executor, Finished

LEMMA NextRan ==
  ASSUME Inv, ~Restores, Launched, PassedRanAsRecorded, [Next]_vars
  PROVE  PassedRanAsRecorded'
<1>0. Types /\ Partition /\ CurrentSound BY DEF Inv
<1>1. CASE UNCHANGED vars BY <1>1 DEF vars, progress, history, PassedRanAsRecorded
<1>2. CASE World BY <1>2, WorldStays DEF PassedRanAsRecorded
<1>3. CASE Spawn
  <2>1. pc = "spawn" /\ records' = records BY <1>3 DEF Spawn, progress
  <2>2. Current \notin DOMAIN records
    BY <1>0, <2>1, CurrentIs DEF Partition, Stages
  <2>3. \A g \in DOMAIN seen : g # Current => g \in DOMAIN seen' /\ seen'[g] = seen[g]
    BY <1>3 DEF Spawn
  <2> QED BY <2>1, <2>2, <2>3 DEF PassedRanAsRecorded
<1>4. CASE Record
  <2>1. pc = "record" /\ seen' = seen BY <1>4 DEF Record, history
  <2>2. PICK r : /\ records' = [g \in DOMAIN records \union {Current} |->
                                  IF g = Current THEN r ELSE records[g]]
                 /\ r.status = "passed" =>
                      /\ cur.status = "passed"
                      /\ \A e \in r.exe : \E p \in Program[Current] :
                           /\ runtime = Some(exe[p])
                           /\ e.before = exe[p] /\ e.after = exe[p]
    BY <1>0, <1>4, Recorded
  <2>3. ASSUME r.status = "passed"
        PROVE  /\ Current \in DOMAIN seen /\ seen[Current].inputs
               /\ \A e \in r.exe : seen[Current].ran = {e.before} /\ e.after = e.before
    <3>1. Verdictable BY <2>1, <2>2, <2>3 DEF Verdictable
    <3>2. Current \in DOMAIN seen /\ seen[Current].inputs BY <2>1, <3>1 DEF Launched
    <3>3. ASSUME NEW e \in r.exe
          PROVE  seen[Current].ran = {e.before} /\ e.after = e.before
      <4>1. PICK p \in Program[Current] : /\ runtime = Some(exe[p])
                                         /\ e.before = exe[p] /\ e.after = exe[p]
        BY <2>2, <2>3
      <4>2. exe[p] \in Nat BY <1>0, <2>1, InputsAre DEF Stages
      <4>3. \E w \in Nat : seen[Current].ran = {w} /\ exe[p] <= w /\ w <= exe[p]
        BY <3>1, <4>1 DEF Launched, Some
      <4> QED BY <4>1, <4>2, <4>3
    <3> QED BY <3>2, <3>3
  <2> SUFFICES ASSUME NEW g \in DOMAIN records', records'[g].status = "passed"
               PROVE  /\ g \in DOMAIN seen /\ seen[g].inputs
                      /\ \A e \in records'[g].exe :
                           seen[g].ran = {e.before} /\ e.after = e.before
    BY <2>1 DEF PassedRanAsRecorded
  <2>4. CASE g = Current
    <3>1. records'[g] = r BY <2>2, <2>4
    <3> QED BY <2>3, <2>4, <3>1
  <2>5. CASE g # Current
    <3>1. g \in DOMAIN records /\ records'[g] = records[g] BY <2>2, <2>5
    <3> QED BY <3>1 DEF PassedRanAsRecorded
  <2> QED BY <2>4, <2>5
<1>5. CASE Begin \/ VerifyInputs \/ Prepare \/ SpawnFails \/ TryWait \/ CheckClock \/ Kill
           \/ RecheckInputs \/ Finish \/ KillRefused \/ StoreFails
  <2>1. UNCHANGED <<records, seen>>
    BY <1>5 DEF Begin, VerifyInputs, Prepare, SpawnFails, TryWait, CheckClock, Kill, RecheckInputs,
                Finish, KillRefused, StoreFails, progress, history
  <2> QED BY <2>1 DEF PassedRanAsRecorded
<1> QED BY <1>1, <1>2, <1>3, <1>4, <1>5 DEF Next, Executor, Finished

LEMMA NextEdits ==
  ASSUME Inv, ~Restores, EditsShow, [Next]_vars PROVE EditsShow'
<1>0. Types /\ CheckoutAccepted BY DEF Inv
<1>1. CASE UNCHANGED vars BY <1>1 DEF vars, checkout, machine, history, EditsShow
<1>2. CASE World
  <2>1. pc' = pc /\ start' = start BY <1>2, WorldStays
  <2>2. /\ \A f \in Files : file[f] <= file'[f]
        /\ \A f \in edited' : f \in edited \/ 0 < file'[f]
        /\ pc = "begin" => edited' = edited
    BY <1>0, <1>2, WorldGrows
  <2>3. \A f \in Files : file[f] \in Nat /\ file'[f] \in Nat
    BY <1>0, <1>2, WorldMoves DEF Types
  <2>4. ASSUME NEW s \in start, ~Dirty(s.snapshot), NEW f \in edited' PROVE 0 < file'[f]
    <3>1. CASE f \in edited
      <4>1. 0 < file[f] /\ f \in Files BY <1>0, <2>4, <3>1 DEF EditsShow, Types
      <4> QED BY <2>2, <2>3, <4>1
    <3>2. CASE f \notin edited BY <2>2, <3>2
    <3> QED BY <3>1, <3>2
  <2> QED BY <2>1, <2>2, <2>4 DEF EditsShow
<1>3. CASE Begin
  <2>1. edited' = edited /\ edited = {} /\ pc' # "begin"
    BY <1>3, ExecutorStays DEF Begin, Executor, EditsShow
  <2> QED BY <2>1 DEF EditsShow
<1>4. CASE VerifyInputs \/ Prepare \/ SpawnFails \/ Spawn \/ TryWait \/ CheckClock \/ Kill
           \/ RecheckInputs \/ Record \/ Finish \/ KillRefused \/ StoreFails
  <2>1. UNCHANGED <<file, edited>> BY <1>4, ExecutorStays DEF Executor
  <2>2. start' = start /\ pc' # "begin"
    BY <1>4 DEF VerifyInputs, Prepare, SpawnFails, Spawn, TryWait, Reap, CheckClock, Kill,
                RecheckInputs, Record, Finish, KillRefused, StoreFails, checkout
  <2> QED BY <2>1, <2>2 DEF EditsShow
<1> QED BY <1>1, <1>2, <1>3, <1>4 DEF Next, Executor, Finished

LEMMA NextClean ==
  ASSUME Inv, ~Restores, EditsShow, EditOfCleanCheckoutFails, [Next]_vars
  PROVE  EditOfCleanCheckoutFails'
<1>0. /\ Types /\ Partition /\ CurrentSound /\ RecordsSound /\ CheckoutAccepted
      /\ bundle # None => pc = "done"
  BY DEF Inv, BundleSound
<1>1. CASE Finish
  <2>1. PICK b : /\ bundle' = Some(b)
                 /\ b.passed = OverallPass(b.checkout, skipped, selected, records)
                 /\ policy.checkout <=> b.checkout # None
                 /\ \A c \in b.checkout : c.error = "none" => Finishes(c)
    BY <1>0, <1>1, WrittenIs
  <2>2. pc = "finish" /\ edited' = edited BY <1>1, ExecutorStays DEF Finish, Executor
  <2>3. ASSUME b.passed, NEW c \in b.checkout, \A s \in c.before : ~Dirty(s)
        PROVE  edited = {}
    <3>1. c.error = "none" /\ policy.checkout BY <2>1, <2>3 DEF OverallPass, None
    <3>2. PICK s \in start : \E capture : c = FinishedCheckout(s, capture)
      BY <2>1, <2>3, <3>1 DEF Finishes
    <3>3. /\ c.before = Some(s.snapshot) /\ c.after = c.before /\ c.after = Some(Snapshot)
      BY <1>0, <2>2, <3>1, <3>2, FinishedIs
    <3>4. Dirty(Snapshot) <=> Snapshot.listed # {} BY DEF Dirty
    <3>5. Snapshot.listed = {f \in Files : file[f] # 0} BY DEF Snapshot
    <3> HIDE DEF Snapshot
    <3>6. ~Dirty(Snapshot) /\ ~Dirty(s.snapshot) BY <2>3, <3>3 DEF Some
    <3>7. \A f \in edited : 0 < file[f] BY <3>2, <3>6 DEF EditsShow
    <3>8. \A f \in Files : file[f] = 0 BY <3>4, <3>5, <3>6
    <3>9. edited \subseteq Files BY <1>0 DEF Types
    <3> QED BY <3>7, <3>8, <3>9
  <2> QED BY <2>1, <2>2, <2>3 DEF EditOfCleanCheckoutFails, Some
<1>2. CASE World
  <2>1. bundle' = bundle BY <1>2, WorldStays
  <2>2. bundle # None => edited' = edited BY <1>0, <1>2, WorldGrows
  <2> QED BY <2>1, <2>2 DEF EditOfCleanCheckoutFails, None
<1>3. CASE UNCHANGED vars BY <1>3 DEF vars, history, EditOfCleanCheckoutFails
<1>4. CASE Begin \/ VerifyInputs \/ Prepare \/ SpawnFails \/ Spawn \/ TryWait \/ CheckClock \/ Kill
           \/ RecheckInputs \/ Record \/ KillRefused \/ StoreFails
  <2>1. bundle' = bundle
    BY <1>4 DEF Begin, VerifyInputs, Prepare, SpawnFails, Spawn, TryWait, CheckClock, Kill,
                RecheckInputs, Record, KillRefused, StoreFails
  <2>2. edited' = edited BY <1>4, ExecutorStays DEF Executor
  <2> QED BY <2>1, <2>2 DEF EditOfCleanCheckoutFails
<1> QED BY <1>1, <1>2, <1>3, <1>4 DEF Next, Executor, Finished

LEMMA GrowthInvariance == ASSUME ~Restores PROVE Spec => [](Inv /\ Grown)
<1>1. Init => Inv /\ Grown
  <2> SUFFICES ASSUME Init PROVE Inv /\ Grown OBVIOUS
  <2>1. Inv BY InitInv
  <2>2. DOMAIN records = {} BY DEF Init
  <2>3. pc = "begin" /\ bundle = {} /\ start = {} /\ edited = {} BY DEF Init, None
  <2> QED BY <2>1, <2>2, <2>3
        DEF Grown, Prepared, Launched, Verdictable, PassedRanAsRecorded, EditsShow,
            EditOfCleanCheckoutFails
<1>2. Inv /\ Grown /\ [Next]_vars => (Inv /\ Grown)'
  BY NextInv, NextPrepared, NextLaunched, NextRan, NextEdits, NextClean DEF Grown
<1> QED BY <1>1, <1>2, PTL DEF Spec

\* A gate recorded as passed was started on its declared inputs, and an
\* attested one ran the version its record names: a change that stays is seen
\* by the second verify_gate_inputs or by finish_executable_attestation.
THEOREM PassedGatesRanAsRecorded ==
  ASSUME ~Restores PROVE Spec => []PassedRanAsRecorded
<1>1. Inv /\ Grown => PassedRanAsRecorded BY DEF Grown
<1> QED BY <1>1, GrowthInvariance, PTL

\* A run that passed from a clean checkout saw no edit between the two
\* capture_git_snapshot calls that finish_checkout_attestation compares.
THEOREM CleanPassSawNoEdit ==
  ASSUME ~Restores PROVE Spec => []EditOfCleanCheckoutFails
<1>1. Inv /\ Grown => EditOfCleanCheckoutFails BY DEF Grown
<1> QED BY <1>1, GrowthInvariance, PTL
-----------------------------------------------------------------------------
\* TransitionCheck.

\* The types of what is written.
Def == {Definition[v][g] : v \in ManifestVersions, g \in Gates}
GateRecord == [definition : Def, status : Results, log : Outputs]
Bundle ==
  [identity : {Identity[v] : v \in ManifestVersions}, manifest : ManifestVersions,
   selected : SUBSET Gates, skipped : SUBSET Gates,
   records : UNION {[S -> GateRecord] : S \in SUBSET Gates}, passed : BOOLEAN]
BundleFile == [name : Bundle, content : Bundle]

InSets(b) == b.skipped \subseteq b.selected /\ DOMAIN b.records \subseteq b.selected

TInv ==
  /\ TypeOK
  /\ bundles \subseteq BundleFile

\* An edited result is still one, of the same gate, with the same log.
LEMMA EditedType ==
  ASSUME NEW b \in Bundle, NEW g \in DOMAIN b.records, NEW verdict \in BOOLEAN
  PROVE  /\ Edited(b, g, verdict) \in Bundle
         /\ DOMAIN Edited(b, g, verdict).records = DOMAIN b.records
         /\ Edited(b, g, verdict).selected = b.selected
         /\ Edited(b, g, verdict).skipped = b.skipped
         /\ \A h \in DOMAIN b.records :
              Edited(b, g, verdict).records[h].log = b.records[h].log
<1> DEFINE made == [b.records[g] EXCEPT !.status = "passed"]
           results == [b.records EXCEPT ![g] = made]
<1>1. PICK S \in SUBSET Gates : b.records \in [S -> GateRecord]
  BY DEF Bundle
<1>2. b.records[g] \in GateRecord BY <1>1
<1>3. made \in GateRecord /\ made.log = b.records[g].log
  BY <1>2 DEF GateRecord, Results
<1> HIDE DEF made
<1>4. results \in [S -> GateRecord] BY <1>1, <1>3
<1>5. results \in UNION {[T -> GateRecord] : T \in SUBSET Gates}
  BY <1>1, <1>4
<1>6. DOMAIN results = DOMAIN b.records BY <1>1
<1>7. \A h \in DOMAIN b.records : results[h].log = b.records[h].log
  BY <1>1, <1>3
<1> DEFINE e == Edited(b, g, verdict)
<1>8. e = [b EXCEPT !.records = results, !.passed = verdict]
  BY DEF Bundle, made, Edited
<1> HIDE DEF results, e
<1>9. e \in Bundle /\ e.records = results /\ e.selected = b.selected /\ e.skipped = b.skipped
  BY <1>5, <1>8 DEF Bundle
<1>10. DOMAIN e.records = DOMAIN b.records BY <1>6, <1>9
<1>11. \A h \in DOMAIN b.records : e.records[h].log = b.records[h].log BY <1>7, <1>9
<1> QED BY <1>9, <1>10, <1>11 DEF e

\* The bundle of a run is of the manifest it has read.
LEMMA RunType ==
  ASSUME TypeOK, NEW bytes \in runner,
         NEW chosen \in SUBSET DOMAIN Definition[manifest], NEW executed \in SUBSET chosen,
         NEW verdict \in [executed -> Results], NEW output \in [executed -> Outputs]
  PROVE  LET b == BundleOf(bytes, chosen, executed, verdict, output)
         IN  b \in Bundle /\ InSets(b)
<1> DEFINE results == [g \in executed |->
             [definition |-> Definition[manifest][g], status |-> verdict[g], log |-> output[g]]]
<1>1. manifest \in ManifestVersions /\ bytes \in ManifestVersions /\ chosen \subseteq Gates
  BY TransitionCheckAssumption DEF TypeOK
<1>2. results \in [executed -> GateRecord]
  BY <1>1 DEF GateRecord, Def
<1>3. results \in UNION {[T -> GateRecord] : T \in SUBSET Gates} /\ DOMAIN results = executed
  BY <1>1, <1>2
<1>4. OverallPass(None, chosen \ executed, chosen, results) \in BOOLEAN
  BY DEF OverallPass
<1> HIDE DEF results
<1> QED BY <1>1, <1>3, <1>4 DEF BundleOf, Bundle, InSets, results

\* Storing a bundle leaves the others, and a file of its name.
LEMMA StoreIs ==
  ASSUME NEW b, Store(b)
  PROVE  \/ bundles' = bundles
         \/ /\ bundles' = bundles \union {[name |-> b, content |-> b]}
            /\ \A f \in bundles : f.name # b
BY DEF Store

\* What an edit makes of a bundle file.
LEMMA EditIs ==
  ASSUME TInv, NEW f \in bundles, NEW g \in Gates, NEW verdict \in BOOLEAN,
         EditBundle(f, g, verdict)
  PROVE  \E e \in Bundle :
           /\ bundles' = (bundles \ {f}) \union {[name |-> f.name, content |-> e]}
           /\ e.selected = f.content.selected /\ e.skipped = f.content.skipped
           /\ DOMAIN e.records = DOMAIN f.content.records
           /\ \A h \in DOMAIN e.records : e.records[h].log = f.content.records[h].log
<1> DEFINE e == Edited(f.content, g, verdict)
<1>1. f \in BundleFile /\ f.content \in Bundle /\ g \in DOMAIN f.content.records
  BY DEF EditBundle, BundleFile, TInv
<1>2. /\ e \in Bundle /\ DOMAIN e.records = DOMAIN f.content.records
      /\ e.selected = f.content.selected /\ e.skipped = f.content.skipped
      /\ \A h \in DOMAIN f.content.records : e.records[h].log = f.content.records[h].log
  BY <1>1, EditedType
<1>3. bundles' = (bundles \ {f}) \union {[name |-> f.name, content |-> e]}
  BY DEF EditBundle
<1> HIDE DEF e
<1> QED BY <1>2, <1>3

LEMMA StepTypes == TInv /\ [CheckNext]_checkVars => TInv'
<1> SUFFICES ASSUME TInv, [CheckNext]_checkVars PROVE TInv' OBVIOUS
<1>0. ASSUME UNCHANGED bundles,
             manifest' \in ManifestVersions /\ runner' \subseteq ManifestVersions,
             \A c \in check' : c.target \in Targets /\ c.bytes \in ManifestVersions,
             \A a \in answer' : a.target \in Targets /\ a.loaded \in ManifestVersions
      PROVE  TInv'
  BY <1>0 DEF TInv, TypeOK
<1> USE DEF TInv, TypeOK, artifacts, past
<1>1. CASE RunReadsBytes
  BY <1>0, <1>1 DEF RunReadsBytes, Some
<1>2. ASSUME NEW bytes \in runner, NEW chosen \in SUBSET DOMAIN Definition[manifest] \ {{}},
             NEW executed \in (SUBSET chosen) \ {{}}, NEW verdict \in [executed -> Results],
             NEW output \in [executed -> Outputs],
             RunLoadsAndRuns(bytes, chosen, executed, verdict, output)
      PROVE  TInv'
  <2> DEFINE b == BundleOf(bytes, chosen, executed, verdict, output)
  <2>1. b \in Bundle /\ InSets(b) BY RunType
  <2>2. Store(b) /\ UNCHANGED <<manifest, check, answer>> /\ runner' = None
    BY <1>2 DEF RunLoadsAndRuns
  <2> HIDE DEF b
  <2>3. [name |-> b, content |-> b] \in BundleFile BY <2>1 DEF BundleFile
  <2>4. \A g \in DOMAIN b.records : b.records[g].status \in Results
    BY <2>1 DEF Bundle, GateRecord
  <2>5. b.manifest \in ManifestVersions /\ b.selected \subseteq Gates BY <2>1 DEF Bundle
  <2> QED BY <2>1, <2>2, <2>3, <2>4, <2>5, StoreIs DEF InSets, None
<1>3. ASSUME NEW t \in Targets, NEW e, CheckReadsBytes(t, e) PROVE TInv'
  BY <1>0, <1>3 DEF CheckReadsBytes, Some, None
<1>4. CASE CheckAnswers
  BY <1>0, <1>4 DEF CheckAnswers, Some, None
<1>5. ASSUME NEW v \in ManifestVersions, EditManifest(v) PROVE TInv'
  BY <1>0, <1>5 DEF EditManifest
<1>6. ASSUME NEW f \in bundles, NEW g \in Gates, NEW verdict \in BOOLEAN,
             EditBundle(f, g, verdict)
      PROVE  TInv'
  <2>1. PICK e \in Bundle :
           /\ bundles' = (bundles \ {f}) \union {[name |-> f.name, content |-> e]}
           /\ e.selected = f.content.selected /\ e.skipped = f.content.skipped
           /\ DOMAIN e.records = DOMAIN f.content.records
    BY <1>6, EditIs
  <2>2. [name |-> f.name, content |-> e] \in BundleFile BY <2>1 DEF BundleFile
  <2>3. /\ e.manifest \in ManifestVersions /\ e.selected \subseteq Gates
        /\ \A k \in DOMAIN e.records : e.records[k].status \in Results
    BY <2>1 DEF Bundle, GateRecord
  <2>4. UNCHANGED <<manifest, runner, check, answer>> BY <1>6 DEF EditBundle
  <2> QED BY <2>1, <2>2, <2>3, <2>4
<1>7. ASSUME NEW f \in bundles, Refile(f) PROVE TInv'
  <2>1. /\ bundles' = {k \in bundles \ {f} : k.name # f.content}
                        \union {[name |-> f.content, content |-> f.content]}
        /\ UNCHANGED <<manifest, runner, check, answer>>
    BY <1>7 DEF Refile
  <2>2. [name |-> f.content, content |-> f.content] \in BundleFile
    BY DEF BundleFile
  <2> QED BY <2>1, <2>2
<1>8. ASSUME NEW l \in logs, LoseLog(l) PROVE TInv'
  BY <1>0, <1>8 DEF LoseLog
<1>9. CASE UNCHANGED checkVars
  BY <1>0, <1>9 DEF checkVars
<1> QED BY <1>1, <1>2, <1>3, <1>4, <1>5, <1>6, <1>7, <1>8, <1>9 DEF CheckNext

LEMMA InitTypes == CheckInit => TInv
BY DEF CheckInit, TInv, TypeOK, None

\* The bundles on disk and the answers are of versions there are, and a bundle
\* has no gate it did not select (run_gates, run_check_transition).
THEOREM TypeCorrect == CheckSpec => []TypeOK
<1>1. TInv => TypeOK BY DEF TInv
<1> QED BY <1>1, InitTypes, StepTypes, PTL DEF CheckSpec

-----------------------------------------------------------------------------
\* What a run has written, and what an answer rests on.

\* A run wrote a file of this name, or somebody renamed one to it.
Genuine(n) == n \in refiled \/ \E r \in runs : r.bundle = n

\* The logs a bundle names were there once.
Held(b) == \A g \in DOMAIN b.records : b.records[g].log \in logs \union lost

\* What Verifies asks of a bundle, but for its logs.
Reads(b, bytes, v) ==
  /\ Recognises(b, bytes, v)
  /\ GateSetsConsistent(b)
  /\ b.selected \subseteq DOMAIN Definition[v]
  /\ \A g \in DOMAIN b.records :
       g \in DOMAIN Definition[v] /\ b.records[g].definition = Definition[v][g]
  /\ b.passed = OverallPass(None, b.skipped, b.selected, b.records)

\* A run writes what the verifier will read, and the passes there were.
Faithful(r) ==
  Reads(r.bundle, r.bundle.manifest, r.loaded) /\ r.passed = PassedGates(r.bundle)

\* A bundle that reads well and whose logs were never lost is not refused.
Counted ==
  \A a \in answer : \A f \in a.evidence :
    /\ f.name = f.content /\ Reads(f.content, a.bytes, a.loaded)
    /\ a.target = RustOwned /\ RustOwned \in Ready[a.loaded]
    /\ Declares[a.loaded] \subseteq PassedGates(f.content)
    /\ \A g \in DOMAIN f.content.records : f.content.records[g].log \notin lost
    => a.allowed

\* The strengthening of the two properties that is inductive.
IInv ==
  /\ TInv
  /\ \A f \in bundles : Genuine(f.name) /\ Held(f.content)
  /\ \A r \in runs : Faithful(r)
  /\ \A f, k \in bundles : f.name = k.name => f = k
  /\ \A c \in check : c.evidence = None \/ \E n : c.evidence = Some(n)
  /\ AllowedGatesRan /\ Counted

\* Initially there are no bundles (run_gates has not been called).
LEMMA InitEstablishes == CheckInit => IInv
BY InitTypes DEF CheckInit, IInv, None, AllowedGatesRan, Counted

\* A run only adds to the history: what a file was named for stays.
LEMMA RunKeeps ==
  ASSUME IInv, NEW bytes \in runner, NEW chosen \in SUBSET DOMAIN Definition[manifest],
         NEW executed \in SUBSET chosen, NEW verdict \in [executed -> Results],
         NEW output \in [executed -> Outputs],
         RunLoadsAndRuns(bytes, chosen, executed, verdict, output), TInv'
  PROVE  IInv'
<1> DEFINE results == [g \in executed |->
             [definition |-> Definition[manifest][g], status |-> verdict[g], log |-> output[g]]]
<1>1. PICK b, loaded, passes :
        /\ b = BundleOf(bytes, chosen, executed, verdict, output)
        /\ loaded = manifest /\ passes = {g \in executed : verdict[g] = "passed"}
  OBVIOUS
<1>2. /\ Store(b) /\ runs' = runs \union {[bundle |-> b, loaded |-> loaded, passed |-> passes]}
      /\ logs' = logs \union {output[g] : g \in executed}
      /\ UNCHANGED <<check, answer, refiled, lost>>
  BY <1>1 DEF RunLoadsAndRuns
<1>3. /\ b.identity = Identity[loaded] /\ b.manifest = bytes /\ b.selected = chosen
      /\ b.skipped = chosen \ executed /\ b.records = results
      /\ b.passed = OverallPass(None, chosen \ executed, chosen, results)
  <2> HIDE DEF results
  <2> QED BY <1>1 DEF BundleOf, results
<1>4. /\ DOMAIN results = executed
      /\ \A g \in executed : /\ results[g].definition = Definition[loaded][g]
                             /\ results[g].status = verdict[g] /\ results[g].log = output[g]
  BY <1>1
<1> HIDE DEF results
<1>5. PICK run : run.bundle = b /\ run.loaded = loaded /\ run.passed = passes
                 /\ runs' = runs \union {run}
  <2>1. PICK run : run = [bundle |-> b, loaded |-> loaded, passed |-> passes] OBVIOUS
  <2> QED BY <1>2, <2>1
<1>6. PICK made : /\ made.name = b /\ made.content = b
                  /\ \/ bundles' = bundles
                     \/ /\ bundles' = bundles \union {made}
                        /\ \A f \in bundles : f.name # made.name
  <2>1. PICK made : made = [name |-> b, content |-> b] OBVIOUS
  <2>2. made.name = b /\ made.content = b BY <2>1
  <2> QED BY <1>2, <2>1, <2>2, StoreIs
<1>7. Faithful(run)
  <2>1. Reads(b, b.manifest, loaded)
    BY <1>1, <1>3, <1>4 DEF Reads, Recognises, GateSetsConsistent
  <2>2. passes = PassedGates(b) BY <1>1, <1>3, <1>4 DEF PassedGates
  <2> QED BY <1>5, <2>1, <2>2 DEF Faithful
<1>8. \A f \in bundles' : Genuine(f.name)' /\ Held(f.content)'
  <2>1. \A f \in bundles : Genuine(f.name)' /\ Held(f.content)'
    BY <1>2 DEF IInv, Genuine, Held
  <2>2. Genuine(made.name)' BY <1>5, <1>6 DEF Genuine
  <2>3. \A g \in DOMAIN made.content.records : made.content.records[g].log \in logs'
    BY <1>2, <1>3, <1>4, <1>6
  <2> QED BY <1>6, <2>1, <2>2, <2>3 DEF Held
<1>9. \A r \in runs' : Faithful(r)'
  BY <1>5, <1>7 DEF IInv, Faithful, Reads
<1>10. AllowedGatesRan' BY <1>2 DEF IInv, AllowedGatesRan
<1>11. Counted' BY <1>2 DEF IInv, Counted, Reads
<1>12. (\A f, k \in bundles : f.name = k.name => f = k)' BY <1>6 DEF IInv
<1> QED BY <1>2, <1>8, <1>9, <1>10, <1>11, <1>12 DEF IInv

\* The answer looks at the content of a bundle file only when it is what the
\* file is named for, and compares each record's definition.
LEMMA AnswerKeeps == ASSUME IInv, CheckAnswers, TInv' PROVE IInv'
<1>1. PICK c \in check : \E evidence :
        /\ evidence = {f \in bundles : f.name \in c.evidence}
        /\ answer' = Some([target |-> c.target, evidence |-> evidence,
             bytes |-> c.bytes, loaded |-> manifest,
             allowed |-> /\ c.evidence # None => evidence # None
                         /\ \A f \in evidence : Verifies(f, c.bytes, manifest)
                         /\ c.target \in Ready[manifest]
                         /\ MissingEvidence(c.target, evidence, manifest) = {}])
  BY DEF CheckAnswers
<1> PICK evidence :
        /\ evidence = {f \in bundles : f.name \in c.evidence}
        /\ answer' = Some([target |-> c.target, evidence |-> evidence,
             bytes |-> c.bytes, loaded |-> manifest,
             allowed |-> /\ c.evidence # None => evidence # None
                         /\ \A f \in evidence : Verifies(f, c.bytes, manifest)
                         /\ c.target \in Ready[manifest]
                         /\ MissingEvidence(c.target, evidence, manifest) = {}])
  BY <1>1
<1>2. check' = {} /\ UNCHANGED <<manifest, bundles, logs, runs, refiled, lost>>
  BY DEF CheckAnswers, None, artifacts, past
<1> SUFFICES AllowedGatesRan' /\ Counted'
  BY <1>2 DEF IInv, Genuine, Held, Faithful, Reads
<1>3. ASSUME NEW a \in answer'
      PROVE  /\ a.evidence = evidence /\ a.target = c.target /\ a.loaded = manifest
             /\ a.bytes = c.bytes
             /\ a.allowed <=>
                  /\ c.evidence # None => evidence # None
                  /\ \A f \in evidence : Verifies(f, c.bytes, manifest)
                  /\ c.target \in Ready[manifest]
                  /\ MissingEvidence(c.target, evidence, manifest) = {}
  BY DEF Some
<1>4. \A f \in evidence : f \in bundles /\ \A k \in evidence : k = f
  <2> SUFFICES ASSUME NEW f \in evidence, NEW k \in evidence PROVE f \in bundles /\ k = f
    OBVIOUS
  <2>1. f \in bundles /\ k \in bundles /\ f.name \in c.evidence /\ k.name \in c.evidence
    OBVIOUS
  <2>2. f.name = k.name BY <2>1 DEF IInv, Some, None
  <2> QED BY <2>1, <2>2 DEF IInv
<1>5. AllowedGatesRan'
  <2> SUFFICES ASSUME NEW a \in answer', a.allowed, a.target = RustOwned,
                      NEW f \in a.evidence, f.content \notin refiled
               PROVE  \E r \in runs :
                        /\ r.bundle = f.content
                        /\ \A g \in Declares[a.loaded] :
                             g \in r.passed /\ Definition[r.loaded][g] = Definition[a.loaded][g]
    BY <1>2 DEF AllowedGatesRan
  <2>1. f \in bundles /\ Verifies(f, c.bytes, manifest) BY <1>3, <1>4
  <2>2. PICK r \in runs : r.bundle = f.content
    BY <2>1 DEF IInv, Genuine, Verifies
  <2>3. Reads(f.content, f.content.manifest, r.loaded) /\ r.passed = PassedGates(f.content)
    BY <2>2 DEF IInv, Faithful
  <2>4. ASSUME NEW g \in Declares[manifest]
        PROVE  g \in r.passed /\ Definition[r.loaded][g] = Definition[manifest][g]
    <3>1. g \in PassedGates(f.content) BY <1>3 DEF MissingEvidence
    <3>2. g \in DOMAIN f.content.records BY <3>1 DEF PassedGates
    <3>3. f.content.records[g].definition = Definition[manifest][g]
      BY <2>1, <3>2 DEF Verifies, RecordMatches
    <3>4. f.content.records[g].definition = Definition[r.loaded][g] BY <2>3, <3>2 DEF Reads
    <3> QED BY <2>3, <3>1, <3>3, <3>4
  <2> QED BY <1>3, <2>2, <2>4
<1>6. Counted'
  <2> SUFFICES ASSUME NEW a \in answer', NEW f \in a.evidence, f.name = f.content,
                      Reads(f.content, a.bytes, a.loaded), a.target = RustOwned,
                      RustOwned \in Ready[a.loaded],
                      Declares[a.loaded] \subseteq PassedGates(f.content),
                      \A g \in DOMAIN f.content.records : f.content.records[g].log \notin lost
               PROVE  a.allowed
    BY <1>2 DEF Counted, Reads
  <2>1. f \in bundles /\ \A k \in evidence : k = f BY <1>3, <1>4
  <2>2. Reads(f.content, c.bytes, manifest) BY <1>3
  <2>3. \A g \in DOMAIN f.content.records : f.content.records[g].log \in logs
    BY <2>1 DEF IInv, Held
  <2>4. Verifies(f, c.bytes, manifest) BY <2>2, <2>3 DEF Verifies, RecordMatches, Reads
  <2>5. MissingEvidence(c.target, evidence, manifest) = {}
    BY <1>3, <2>1 DEF MissingEvidence
  <2>6. evidence # None BY <1>3 DEF None
  <2> QED BY <1>3, <2>1, <2>4, <2>5, <2>6
<1> QED BY <1>5, <1>6

\* Every step keeps the invariant.
LEMMA StepPreserves == IInv /\ [CheckNext]_checkVars => IInv'
<1> SUFFICES ASSUME IInv, [CheckNext]_checkVars PROVE IInv'
  OBVIOUS
<1>0. TInv' BY StepTypes DEF IInv
<1> USE DEF artifacts, past
<1>1. ASSUME UNCHANGED <<bundles, logs, runs, refiled, lost>>, answer' = answer \/ answer' = None,
             \A x \in check' : x.evidence = None \/ \E n : x.evidence = Some(n)
      PROVE  IInv'
  BY <1>0, <1>1 DEF IInv, Genuine, Held, Faithful, Reads, AllowedGatesRan, Counted, None
<1>2. CASE RunReadsBytes
  BY <1>1, <1>2 DEF RunReadsBytes, IInv
<1>3. ASSUME NEW bytes \in runner, NEW chosen \in SUBSET DOMAIN Definition[manifest] \ {{}},
             NEW executed \in (SUBSET chosen) \ {{}}, NEW verdict \in [executed -> Results],
             NEW output \in [executed -> Outputs],
             RunLoadsAndRuns(bytes, chosen, executed, verdict, output)
      PROVE  IInv'
  BY <1>0, <1>3, RunKeeps
<1>4. ASSUME NEW t \in Targets, CheckReadsBytes(t, None) PROVE IInv'
  BY <1>1, <1>4 DEF CheckReadsBytes, Some
<1>5. ASSUME NEW t \in Targets, NEW f \in bundles, CheckReadsBytes(t, Some(f.name))
      PROVE  IInv'
  BY <1>1, <1>5 DEF CheckReadsBytes, Some
<1>6. CASE CheckAnswers
  BY <1>0, <1>6, AnswerKeeps
<1>7. ASSUME NEW v \in ManifestVersions, EditManifest(v) PROVE IInv'
  BY <1>1, <1>7 DEF EditManifest, IInv
<1>8. ASSUME NEW f \in bundles, NEW g \in Gates, NEW verdict \in BOOLEAN,
             EditBundle(f, g, verdict)
      PROVE  IInv'
  <2>1. PICK e \in Bundle :
           /\ bundles' = (bundles \ {f}) \union {[name |-> f.name, content |-> e]}
           /\ DOMAIN e.records = DOMAIN f.content.records
           /\ \A h \in DOMAIN e.records : e.records[h].log = f.content.records[h].log
    BY <1>8, EditIs DEF IInv
  <2>2. UNCHANGED <<logs, check, answer, runs, refiled, lost>>
    BY <1>8 DEF EditBundle
  <2>3. PICK changed : /\ changed.name = f.name /\ changed.content = e
                       /\ bundles' = (bundles \ {f}) \union {changed}
    <3>1. PICK changed : changed = [name |-> f.name, content |-> e] OBVIOUS
    <3> QED BY <2>1, <3>1
  <2>4. Held(e) BY <2>1 DEF IInv, Held
  <2> QED BY <1>0, <2>2, <2>3, <2>4
    DEF IInv, Genuine, Held, Faithful, Reads, AllowedGatesRan, Counted
<1>9. ASSUME NEW f \in bundles, Refile(f) PROVE IInv'
  <2>1. PICK made : /\ made.name = f.content /\ made.content = f.content
                    /\ bundles' = {k \in bundles \ {f} : k.name # f.content} \union {made}
    <3>1. PICK made : made = [name |-> f.content, content |-> f.content] OBVIOUS
    <3> QED BY <1>9, <3>1 DEF Refile
  <2>2. refiled' = refiled \union {f.content} /\ UNCHANGED <<logs, check, answer, runs, lost>>
    BY <1>9 DEF Refile
  <2>3. \A k \in bundles' : Genuine(k.name)' /\ Held(k.content)'
    BY <2>1, <2>2 DEF IInv, Genuine, Held
  <2>4. (\A j, k \in bundles : j.name = k.name => j = k)'
    BY <2>1 DEF IInv
  <2> QED BY <1>0, <2>2, <2>3, <2>4 DEF IInv, Faithful, Reads, AllowedGatesRan, Counted
<1>10. ASSUME NEW l \in logs, LoseLog(l) PROVE IInv'
  <2>1. /\ logs' = logs \ {l} /\ lost' = lost \union {l}
        /\ UNCHANGED <<bundles, check, answer, runs, refiled>>
    BY <1>10 DEF LoseLog
  <2>2. \A k \in bundles' : Genuine(k.name)' /\ Held(k.content)'
    BY <2>1 DEF IInv, Genuine, Held
  <2>3. Counted' BY <2>1 DEF IInv, Counted, Reads
  <2> QED BY <1>0, <2>1, <2>2, <2>3 DEF IInv, Faithful, Reads, AllowedGatesRan
<1>11. CASE UNCHANGED checkVars
  BY <1>1, <1>11 DEF checkVars, IInv
<1> QED
  BY <1>2, <1>3, <1>4, <1>5, <1>6, <1>7, <1>8, <1>9, <1>10, <1>11 DEF CheckNext

\* Whatever is edited between the reads of run-gates and check-transition, and
\* whatever is written into bundle files that keep their names, an allowed
\* rust_owned transition with evidence has every declared gate of the module
\* executed and passed, as the manifest defines it, in the run that wrote the
\* bundle.
THEOREM TransitionsBacked == CheckSpec => []AllowedGatesRan
<1>1. IInv => AllowedGatesRan
  BY DEF IInv
<1> QED BY <1>1, InitEstablishes, StepPreserves, PTL DEF CheckSpec

\* A bundle that a run wrote for the versions check-transition reads is not
\* refused when the declared gates passed: what else failed or was skipped in
\* the run does not count (missing_gate_evidence looks at the module's gates).
THEOREM EvidenceCounts == CheckSpec => []WrittenEvidenceCounts
<1>1. IInv => WrittenEvidenceCounts
  <2> SUFFICES ASSUME IInv, NEW a \in answer, a.target = RustOwned,
                      RustOwned \in Ready[a.loaded], NEW f \in a.evidence, NEW r \in runs,
                      r.bundle = f.content, f.name = f.content, r.loaded = a.loaded,
                      r.bundle.manifest = a.bytes, Declares[a.loaded] \subseteq r.passed,
                      \A g \in DOMAIN r.bundle.records : r.bundle.records[g].log \notin lost
               PROVE  a.allowed
    BY DEF WrittenEvidenceCounts
  <2>1. Reads(f.content, a.bytes, a.loaded) /\ r.passed = PassedGates(f.content)
    BY DEF IInv, Faithful
  <2> QED BY <2>1 DEF IInv, Counted
<1> QED BY <1>1, InitEstablishes, StepPreserves, PTL DEF CheckSpec
=============================================================================
