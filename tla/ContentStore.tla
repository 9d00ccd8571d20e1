---------------------------- MODULE ContentStore ----------------------------
(***************************************************************************)
(* The artifact store under an evidence directory.  Several run-gates      *)
(* processes may share the directory; each stores the logs of its gates    *)
(* and then its bundle through write_content_addressed, which creates the  *)
(* file under the digest of its bytes and only then writes them.           *)
(*                                                                         *)
(* An object is named by its content.  A file is absent, partial (created, *)
(* its bytes not all there) or full.  A run that died may be started       *)
(* again: its gates print the same logs, its bundle is a new one because   *)
(* it records the time.                                                    *)
(***************************************************************************)
EXTENDS Naturals, Sequences

CONSTANTS
  Runs,       \* processes that use the directory
  Logs,       \* log contents
  Empty,      \* the log contents of no bytes
  Output,     \* Output[r]: the logs of run r, in the order they are stored
  Attempts    \* how often a run may be started

ASSUME ContentStoreAssumption ==
  /\ Empty \subseteq Logs
  /\ Output \in [Runs -> Seq(Logs)]
  /\ Attempts \in Nat \ {0}

Bundles == Runs \X (1..Attempts)
Objects == Logs \union Bundles

ASSUME LogsAreNotBundles == Logs \intersect Bundles = {}

VARIABLES
  disk,      \* object -> "absent", "partial" or "full"
  pc,        \* run -> where it is in write_content_addressed, or how it ended
  next,      \* run -> number of the artifact it stores next
  attempt    \* run -> how often it has been started

vars == <<disk, pc, next, attempt>>

Bundle(r) == <<r, attempt[r]>>

\* Slip: the bundle is stored before the logs.
Artifact_BundleFirst(r) == IF next[r] = 1 THEN Bundle(r) ELSE Output[r][next[r] - 1]

\* The artifacts of a run: its logs, then its bundle.
Artifact(r) == IF next[r] <= Len(Output[r]) THEN Output[r][next[r]] ELSE Bundle(r)

Init ==
  /\ disk = [o \in Objects |-> "absent"]
  /\ pc = [r \in Runs |-> "open"]
  /\ next = [r \in Runs |-> 1]
  /\ attempt = [r \in Runs |-> 1]

\* The artifact is stored; the bundle is the last one.
Advance(r) ==
  IF next[r] > Len(Output[r])
    THEN pc' = [pc EXCEPT ![r] = "done"] /\ UNCHANGED next
    ELSE pc' = [pc EXCEPT ![r] = "open"] /\ next' = [next EXCEPT ![r] = @ + 1]

\* Slip: a plain create, which empties the file that is there.
Create_Truncates(r) ==
  /\ pc[r] = "open"
  /\ disk' = [disk EXCEPT ![Artifact(r)] =
                IF Artifact(r) \in Empty THEN "full" ELSE "partial"]
  /\ pc' = [pc EXCEPT ![r] = "write"]
  /\ UNCHANGED <<next, attempt>>

\* create_new: the file exists from here on, with no bytes in it.
Create(r) ==
  /\ pc[r] = "open" /\ disk[Artifact(r)] = "absent"
  /\ disk' = [disk EXCEPT ![Artifact(r)] =
                IF Artifact(r) \in Empty THEN "full" ELSE "partial"]
  /\ pc' = [pc EXCEPT ![r] = "write"]
  /\ UNCHANGED <<next, attempt>>

Exists(r) ==
  /\ pc[r] = "open" /\ disk[Artifact(r)] # "absent"
  /\ pc' = [pc EXCEPT ![r] = "compare"]
  /\ UNCHANGED <<disk, next, attempt>>

WriteAll(r) ==
  /\ pc[r] = "write"
  /\ disk' = [disk EXCEPT ![Artifact(r)] = "full"]
  /\ Advance(r)
  /\ UNCHANGED attempt

\* The device is full or fails: the file stays as it is and the run returns
\* the error.
WriteFails(r) ==
  /\ pc[r] = "write" /\ Artifact(r) \notin Empty
  /\ pc' = [pc EXCEPT ![r] = "storage_error"]
  /\ UNCHANGED <<disk, next, attempt>>

\* The file is read back; anything but the same bytes ends the run.
Compare(r) ==
  /\ pc[r] = "compare"
  /\ IF disk[Artifact(r)] = "full"
       THEN Advance(r)
       ELSE pc' = [pc EXCEPT ![r] = "different_bytes"] /\ UNCHANGED next
  /\ UNCHANGED <<disk, attempt>>

Running(r) == pc[r] \in {"open", "write", "compare"}

Crash(r) ==
  /\ Running(r)
  /\ pc' = [pc EXCEPT ![r] = "crashed"]
  /\ UNCHANGED <<disk, next, attempt>>

\* Somebody runs the gates again; only a run without a bundle is repeated.
Restart(r) ==
  /\ ~Running(r) /\ pc[r] # "done" /\ attempt[r] < Attempts
  /\ pc' = [pc EXCEPT ![r] = "open"]
  /\ next' = [next EXCEPT ![r] = 1]
  /\ attempt' = [attempt EXCEPT ![r] = @ + 1]
  /\ UNCHANGED disk

Step(r) == Create(r) \/ Exists(r) \/ WriteAll(r) \/ Compare(r)

Next == \E r \in Runs : Step(r) \/ WriteFails(r) \/ Crash(r) \/ Restart(r)

Spec == Init /\ [][Next]_vars
-----------------------------------------------------------------------------
\* Properties

TypeOK ==
  /\ disk \in [Objects -> {"absent", "partial", "full"}]
  /\ pc \in [Runs -> {"open", "write", "compare", "done", "storage_error",
                      "different_bytes", "crashed"}]
  /\ next \in [Runs -> Nat]
  /\ \A r \in Runs : next[r] \in 1..Len(Output[r]) + 1
  /\ attempt \in [Runs -> 1..Attempts]

LogsOf(r) == {Output[r][i] : i \in 1..Len(Output[r])}
Refs == [o \in Objects |-> IF o \in Bundles THEN LogsOf(o[1]) ELSE {}]

\* A bundle a reader finds complete refers to complete logs, whichever
\* processes share the directory and wherever one of them dies: execute_gate
\* stores the logs before run_gates stores the bundle, and a name that exists
\* is not trusted (write_content_addressed).
BundlesAreWhole ==
  \A b \in Bundles : disk[b] = "full" => \A l \in Refs[b] : disk[l] = "full"

\* What a run has got past is complete and stays complete, though other runs
\* store under the same names (the comparison in write_content_addressed).
StoredSoFar ==
  \A r \in Runs : \A i \in 1..Len(Output[r]) :
    i < next[r] => disk[Output[r][i]] = "full"

\* The store implements its promise.
Promise == INSTANCE ObjectStore WITH stored <- {o \in Objects : disk[o] = "full"}

ImplementsObjectStore == Promise!Spec
=============================================================================
