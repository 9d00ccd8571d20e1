------------------------- MODULE AttestationProofs -------------------------
(***************************************************************************)
(* Theorems about ContentStore and about Attestation, which extends it.    *)
(*                                                                         *)
(* The store: for any number of runs that share an evidence directory,     *)
(* whatever they print and wherever they die, complete objects stay        *)
(* complete and a complete bundle has complete logs.                       *)
(*                                                                         *)
(* The signatures: for any runs, commands, names and links, a command      *)
(* never changes what it reads, and what verifies was signed.              *)
(***************************************************************************)
EXTENDS Attestation, TLAPS

IInv == TypeOK /\ StoredSoFar /\ BundlesAreWhole

\* A bundle is no log, so what a run stores is a log while it has any left.
LEMMA ArtifactIs ==
  ASSUME TypeOK, NEW r \in Runs
  PROVE  /\ Len(Output[r]) \in Nat
         /\ Bundle(r) \in Bundles
         /\ Artifact(r) \in Objects
         /\ next[r] <= Len(Output[r]) => Artifact(r) = Output[r][next[r]] /\ Artifact(r) \in Logs
         /\ next[r] > Len(Output[r]) => Artifact(r) = Bundle(r)
<1>1. Output[r] \in Seq(Logs) BY ContentStoreAssumption
<1>2. Len(Output[r]) \in Nat /\ \A i \in 1..Len(Output[r]) : Output[r][i] \in Logs
  BY <1>1
<1>3. Bundle(r) \in Bundles BY DEF TypeOK, Bundle, Bundles
<1>4. next[r] \in 1..Len(Output[r]) + 1 BY DEF TypeOK
<1> QED BY <1>2, <1>3, <1>4 DEF Artifact, Objects

LEMMA AdvanceType ==
  ASSUME TypeOK, NEW r \in Runs, Advance(r)
  PROVE  /\ pc' \in [Runs -> {"open", "write", "compare", "done", "storage_error",
                              "different_bytes", "crashed"}]
         /\ next' \in [Runs -> Nat]
         /\ \A q \in Runs : next'[q] \in 1..Len(Output[q]) + 1
<1>1. Len(Output[r]) \in Nat BY ArtifactIs
<1>2. CASE next[r] > Len(Output[r]) BY <1>1, <1>2 DEF Advance, TypeOK
<1>3. CASE ~(next[r] > Len(Output[r]))
  <2>1. next' = [next EXCEPT ![r] = next[r] + 1] BY <1>3 DEF Advance
  <2>2. next[r] + 1 \in 1..Len(Output[r]) + 1 BY <1>1, <1>3 DEF TypeOK
  <2>3. next' \in [Runs -> Nat] BY <2>1 DEF TypeOK
  <2>4. \A q \in Runs : next'[q] \in 1..Len(Output[q]) + 1
    <3> TAKE q \in Runs
    <3>1. CASE q = r BY <2>1, <2>2, <3>1 DEF TypeOK
    <3>2. CASE q # r BY <2>1, <3>2 DEF TypeOK
    <3> QED BY <3>1, <3>2
  <2>5. pc' \in [Runs -> {"open", "write", "compare", "done", "storage_error",
                         "different_bytes", "crashed"}]
    BY <1>3 DEF Advance, TypeOK
  <2> QED BY <2>3, <2>4, <2>5
<1> QED BY <1>2, <1>3

\* Every step keeps the types; a run that is started again starts at its first log.
LEMMA NextType == ASSUME TypeOK, [Next]_vars PROVE TypeOK'
<1> SUFFICES ASSUME Next PROVE TypeOK'
  BY DEF vars, TypeOK
<1> PICK r \in Runs : Step(r) \/ WriteFails(r) \/ Crash(r) \/ Restart(r) BY DEF Next
<1>1. CASE Create(r) BY <1>1, ArtifactIs DEF Create, TypeOK
<1>2. CASE Exists(r) BY <1>2 DEF Exists, TypeOK
<1>3. CASE WriteAll(r) BY <1>3, ArtifactIs, AdvanceType DEF WriteAll, TypeOK
<1>4. CASE Compare(r)
  <2>1. CASE disk[Artifact(r)] = "full" BY <1>4, <2>1, AdvanceType DEF Compare, TypeOK
  <2>2. CASE disk[Artifact(r)] # "full" BY <1>4, <2>2 DEF Compare, TypeOK
  <2> QED BY <2>1, <2>2
<1>5. CASE WriteFails(r) BY <1>5 DEF WriteFails, TypeOK
<1>6. CASE Crash(r) BY <1>6 DEF Crash, TypeOK
<1>7. CASE Restart(r)
  <2>1. \A q \in Runs : Len(Output[q]) \in Nat BY ArtifactIs
  <2>2. attempt'[r] \in 1..Attempts BY <1>7, ContentStoreAssumption DEF Restart, TypeOK
  <2> QED BY <1>7, <2>1, <2>2 DEF Restart, TypeOK
<1> QED BY <1>1, <1>2, <1>3, <1>4, <1>5, <1>6, <1>7 DEF Step

LEMMA InitType == Init => TypeOK
<1> SUFFICES ASSUME Init PROVE TypeOK OBVIOUS
<1>1. \A q \in Runs : Len(Output[q]) \in Nat BY ContentStoreAssumption
<1> QED BY <1>1, ContentStoreAssumption DEF Init, TypeOK

\* No step takes a complete object away.
LEMMA OnlyGrows ==
  ASSUME TypeOK, [Next]_vars, NEW o \in Objects
  PROVE  disk[o] = "full" => disk'[o] = "full"
<1>1. CASE UNCHANGED vars BY <1>1 DEF vars
<1>2. CASE Next
  <2> PICK r \in Runs : Step(r) \/ WriteFails(r) \/ Crash(r) \/ Restart(r)
    BY <1>2 DEF Next
  <2>1. CASE Create(r) BY <2>1, ArtifactIs DEF Create, TypeOK
  <2>2. CASE WriteAll(r) BY <2>2, ArtifactIs DEF WriteAll, TypeOK
  <2>3. CASE Exists(r) \/ Compare(r) \/ WriteFails(r) \/ Crash(r) \/ Restart(r)
    BY <2>3 DEF Exists, Compare, WriteFails, Crash, Restart
  <2> QED BY <2>1, <2>2, <2>3 DEF Step
<1> QED BY <1>1, <1>2

\* A run that is at its bundle has all its logs behind it.
LEMMA PastIsStored ==
  ASSUME TypeOK, StoredSoFar, NEW r \in Runs, next[r] > Len(Output[r])
  PROVE  \A l \in LogsOf(r) : disk[l] = "full"
<1> TAKE l \in LogsOf(r)
<1>1. PICK i \in 1..Len(Output[r]) : l = Output[r][i] BY DEF LogsOf
<1>2. Len(Output[r]) \in Nat /\ next[r] \in Nat BY ArtifactIs DEF TypeOK
<1>3. i < next[r] BY <1>1, <1>2
<1> QED BY <1>1, <1>3 DEF StoredSoFar

\* Only a run that has all its logs behind it completes a bundle, its own.
LEMMA CompletedBy ==
  ASSUME TypeOK, StoredSoFar, [Next]_vars, NEW b \in Bundles,
         disk'[b] = "full", disk[b] # "full"
  PROVE  \E r \in Runs : b = Bundle(r) /\ \A l \in LogsOf(r) : disk[l] = "full"
<1>0. b \in Objects /\ b \notin Empty BY ContentStoreAssumption, LogsAreNotBundles DEF Objects
<1>1. Next BY DEF vars
<1> PICK r \in Runs : Step(r) \/ WriteFails(r) \/ Crash(r) \/ Restart(r)
  BY <1>1 DEF Next
<1>2. CASE WriteAll(r)
  <2>1. b = Artifact(r) BY <1>0, <1>2, ArtifactIs DEF WriteAll, TypeOK
  <2>2. next[r] > Len(Output[r])
    BY <2>1, ArtifactIs, LogsAreNotBundles DEF TypeOK
  <2>3. \A l \in LogsOf(r) : disk[l] = "full" BY <2>2, PastIsStored
  <2> QED BY <2>1, <2>2, <2>3, ArtifactIs
<1>3. CASE Create(r) BY <1>0, <1>3, ArtifactIs DEF Create, TypeOK
<1>4. CASE Exists(r) \/ Compare(r) \/ WriteFails(r) \/ Crash(r) \/ Restart(r)
  BY <1>4 DEF Exists, Compare, WriteFails, Crash, Restart
<1> QED BY <1>2, <1>3, <1>4 DEF Step

LEMMA BundleRefs ==
  ASSUME TypeOK, NEW r \in Runs PROVE Refs[Bundle(r)] = LogsOf(r)
BY ArtifactIs DEF Refs, Bundle, Objects

\* What a run has got past was complete when it got past it.
LEMMA NextStored == ASSUME TypeOK, StoredSoFar, [Next]_vars PROVE StoredSoFar'
<1> SUFFICES ASSUME NEW q \in Runs, NEW i \in 1..Len(Output[q]), i < next'[q]
             PROVE  disk'[Output[q][i]] = "full"
  BY DEF StoredSoFar
<1>0. Output[q][i] \in Objects /\ Len(Output[q]) \in Nat
  BY ContentStoreAssumption, ArtifactIs DEF Objects
<1>1. CASE i < next[q] BY <1>0, <1>1, OnlyGrows DEF StoredSoFar
<1>2. CASE ~(i < next[q])
  <2>1. Next BY <1>2 DEF vars
  <2> PICK r \in Runs : Step(r) \/ WriteFails(r) \/ Crash(r) \/ Restart(r)
    BY <2>1 DEF Next
  <2>2. CASE WriteAll(r) \/ (Compare(r) /\ disk[Artifact(r)] = "full")
    <3>0. next' = next \/ next' = [next EXCEPT ![r] = next[r] + 1]
      BY <2>2 DEF WriteAll, Compare, Advance
    <3>1. r = q /\ i = next[q]
      <4>1. next' # next BY <1>2
      <4>2. r = q BY <1>2, <3>0, <4>1 DEF TypeOK
      <4>3. next'[q] = next[q] + 1 BY <3>0, <4>1, <4>2 DEF TypeOK
      <4>4. next[q] \in Nat BY DEF TypeOK
      <4> QED BY <1>2, <4>2, <4>3, <4>4
    <3>2. Artifact(r) = Output[q][i] BY <3>1, ArtifactIs
    <3> QED BY <1>0, <2>2, <3>2 DEF WriteAll, Compare, TypeOK
  <2>4. CASE Compare(r) /\ disk[Artifact(r)] # "full"
    <3>1. next' = next BY <2>4 DEF Compare
    <3> QED BY <1>2, <3>1
  <2>5. CASE Create(r) \/ Exists(r) \/ WriteFails(r) \/ Crash(r)
    <3>1. next' = next BY <2>5 DEF Create, Exists, WriteFails, Crash
    <3> QED BY <1>2, <3>1
  <2>6. CASE Restart(r)
    <3>1. next'[q] = 1 \/ next'[q] = next[q] BY <2>6 DEF Restart, TypeOK
    <3> QED BY <1>0, <1>2, <3>1 DEF TypeOK
  <2> QED BY <2>2, <2>4, <2>5, <2>6 DEF Step, WriteAll, Compare
<1> QED BY <1>1, <1>2

LEMMA NextWhole ==
  ASSUME TypeOK, StoredSoFar, BundlesAreWhole, [Next]_vars PROVE BundlesAreWhole'
<1> SUFFICES ASSUME NEW b \in Bundles, disk'[b] = "full", NEW l \in Refs[b]
             PROVE  disk'[l] = "full"
  BY DEF BundlesAreWhole
<1>1. disk[l] = "full"
  <2>1. CASE disk[b] = "full" BY <2>1 DEF BundlesAreWhole
  <2>2. CASE disk[b] # "full" BY <2>2, CompletedBy, BundleRefs
  <2> QED BY <2>1, <2>2
<1>2. l \in Objects
  <2>1. b \in Objects /\ Refs[b] = LogsOf(b[1]) /\ b[1] \in Runs
    BY DEF Refs, Objects, Bundles
  <2> QED BY <2>1, ContentStoreAssumption DEF LogsOf, Objects
<1> QED BY <1>1, <1>2, OnlyGrows

\* Whatever is stored by whom, a complete bundle has complete logs, and a run
\* is right about what it has got past (write_content_addressed, and the order
\* in which execute_gate and run_gates call it).
THEOREM BundlesStayWhole == Spec => [](TypeOK /\ StoredSoFar /\ BundlesAreWhole)
<1>1. Init => IInv
  <2> SUFFICES ASSUME Init PROVE IInv OBVIOUS
  <2>1. TypeOK BY InitType
  <2>2. StoredSoFar
    <3>1. \A r \in Runs : Len(Output[r]) \in Nat BY ContentStoreAssumption
    <3> QED BY <3>1 DEF Init, StoredSoFar
  <2>3. BundlesAreWhole BY DEF Init, BundlesAreWhole, Objects
  <2> QED BY <2>1, <2>2, <2>3 DEF IInv
<1>2. IInv /\ [Next]_vars => IInv'
  BY NextType, NextStored, NextWhole DEF IInv
<1> QED BY <1>1, <1>2, PTL DEF Spec, IInv

\* The store implements ObjectStore: every step adds complete objects whose
\* references are already there, or changes nothing a reader sees.
THEOREM StoreImplementsObjectStore == Spec => ImplementsObjectStore
<1> DEFINE stored == {o \in Objects : disk[o] = "full"}
<1>1. Init => Promise!Init BY DEF Init, Promise!Init
<1>2. IInv /\ [Next]_vars => [Promise!Next]_stored
  <2> SUFFICES ASSUME IInv, [Next]_vars, stored' # stored PROVE Promise!Next
    OBVIOUS
  <2>1. Next BY DEF vars
  <2> PICK r \in Runs : Step(r) \/ WriteFails(r) \/ Crash(r) \/ Restart(r)
    BY <2>1 DEF Next
  <2>2. TypeOK /\ StoredSoFar BY DEF IInv
  <2>3. Create(r) \/ WriteAll(r)
    BY DEF Step, Exists, Compare, WriteFails, Crash, Restart
  <2>4. stored' = stored \union {Artifact(r)} /\ Artifact(r) \in Objects
    BY <2>2, <2>3, ArtifactIs DEF Create, WriteAll, TypeOK
  <2>5. Refs[Artifact(r)] \subseteq stored
    <3>1. CASE Artifact(r) \in Bundles
      <4>1. Artifact(r) = Bundle(r) /\ next[r] > Len(Output[r])
        BY <2>2, <3>1, ArtifactIs, LogsAreNotBundles DEF TypeOK
      <4>2. LogsOf(r) \subseteq Logs BY ContentStoreAssumption DEF LogsOf
      <4>3. \A l \in LogsOf(r) : disk[l] = "full"
        BY <2>2, <4>1, PastIsStored
      <4> QED BY <2>2, <4>1, <4>2, <4>3, BundleRefs DEF Objects
    <3>2. CASE Artifact(r) \notin Bundles BY <2>4, <3>2 DEF Refs
    <3> QED BY <3>1, <3>2
  <2> QED BY <2>4, <2>5 DEF Promise!Next, Promise!Store
<1>3. Spec => []IInv
  <2>1. (TypeOK /\ StoredSoFar /\ BundlesAreWhole) => IInv BY DEF IInv
  <2> QED BY <2>1, BundlesStayWhole, PTL
<1> QED BY <1>1, <1>2, <1>3, PTL DEF Spec, ImplementsObjectStore, Promise!Spec
-----------------------------------------------------------------------------

all == <<vars, attestation>>

Shape ==
  /\ DOMAIN data = {KeyFile, Signed} \union Outputs
  /\ entry \in [Outputs -> {Nowhere, Symlink, KeyFile, Signed} \union Outputs]
  /\ at # "idle" => command \in Commands

\* From the check of the names on, the output is no input; a name that leads
\* nowhere then is given a file of its own later.
KeepsOff ==
  /\ at \in {"read", "write"} => Destination = Nowhere \/ Destination \notin Inputs
  /\ at = "fill" => Destination \notin Inputs

\* Bytes that are a signature are one of S.
Among(bytes, S) ==
  IsSignature(bytes) => bytes = Attests(bytes.evidence, bytes.key) /\ bytes \in S

\* Every signature that is in a file, or about to be, was made.
SignaturesMade ==
  /\ \A file \in DOMAIN data : Among(data[file], made)
  /\ at \in {"write", "fill"} /\ command.kind = "sign" => Attests(got, Key) \in made

AInv == TypeOK /\ Shape /\ KeepsOff /\ SignaturesMade

LEMMA InputsAre == Inputs \subseteq {KeyFile, Signed}
BY DEF Inputs

LEMMA InitEstablishes == AttestationInit => AInv
<1> SUFFICES ASSUME AttestationInit PROVE AInv OBVIOUS
<1>1. TypeOK BY InitType DEF AttestationInit
<1>2. Shape BY DEF AttestationInit, Shape
<1>3. KeepsOff BY DEF AttestationInit, KeepsOff
<1>4. SignaturesMade
  <2>1. ASSUME NEW file \in DOMAIN data PROVE Among(data[file], made)
    <3>1. CASE file = KeyFile
      BY <3>1 DEF AttestationInit, Among, IsSignature, KeyText
    <3>2. CASE file = Signed
      <4>1. data[file] = AsStored BY <3>2 DEF AttestationInit
      <4>2. ~ IsSignature(AsStored) BY DEF IsSignature, AsStored
      <4> QED BY <4>1, <4>2 DEF Among
    <3>3. CASE file \in Outputs
      BY <3>3, AttestationAssumption DEF AttestationInit, Among
    <3> QED BY <2>1, <3>1, <3>2, <3>3 DEF AttestationInit
  <2> QED BY <2>1 DEF AttestationInit, SignaturesMade
<1> QED BY <1>1, <1>2, <1>3, <1>4 DEF AInv

\* Opening or filling the output changes one file, and that is no input.
LEMMA OutputOnly ==
  ASSUME AInv, OpenOutput \/ FillOutput
  PROVE  \E file : /\ file \notin Inputs
                   /\ entry'[command.output] = file
                   /\ data' = [data EXCEPT ![file] = data'[file]]
                   /\ file \in DOMAIN data => data'[file] \in {Torn, Result}
<1>1. command \in Commands /\ command.output \in Outputs
  BY AttestationAssumption DEF AInv, Shape, OpenOutput, FillOutput
<1>2. CASE OpenOutput
  <2> DEFINE file == entry'[command.output]
  <2>1. data' = [data EXCEPT ![file] = Torn] BY <1>2 DEF OpenOutput
  <2>2. file \notin Inputs
    <3>1. CASE Destination = Nowhere
                 /\ entry' = [entry EXCEPT ![command.output] = command.output]
      <4>1. file = command.output BY <1>1, <3>1 DEF AInv, Shape
      <4> QED BY <1>1, <4>1, InputsAre, AttestationAssumption
    <3>2. CASE Regular(Destination) /\ entry' = entry
      BY <1>2, <3>2 DEF OpenOutput, AInv, KeepsOff, Regular, Destination
    <3> QED BY <1>2, <3>1, <3>2 DEF OpenOutput
  <2>3. data' = [data EXCEPT ![file] = data'[file]] BY <2>1 DEF AInv, Shape
  <2>4. file \in DOMAIN data => data'[file] = Torn BY <2>1
  <2> QED BY <2>2, <2>3, <2>4
<1>3. CASE FillOutput
  <2>1. Destination \notin Inputs BY <1>3 DEF FillOutput, AInv, KeepsOff
  <2>2. entry'[command.output] = Destination BY <1>3 DEF FillOutput, Destination
  <2>3. data' = [data EXCEPT ![Destination] = Result] BY <1>3 DEF FillOutput
  <2> QED BY <2>1, <2>2, <2>3
<1> QED BY <1>2, <1>3

LEMMA StoreStepKeeps == AInv /\ Next /\ UNCHANGED attestation => AInv'
<1> SUFFICES ASSUME AInv, Next, UNCHANGED attestation PROVE AInv' OBVIOUS
<1>1. TypeOK' BY NextType DEF AInv
<1>2. /\ data' = data /\ entry' = entry /\ at' = at
      /\ command' = command /\ got' = got /\ made' = made
  BY DEF attestation
<1>3. Shape' BY <1>2 DEF AInv, Shape
<1>4. KeepsOff' BY <1>2 DEF AInv, KeepsOff, Destination, Inputs
<1>5. SignaturesMade' BY <1>2 DEF AInv, SignaturesMade, Among
<1> QED BY <1>1, <1>3, <1>4, <1>5 DEF AInv

\* A command ends in no step at which something is asked of it.
LEMMA EndsWell == Ends => KeepsOff' /\ (Shape /\ UNCHANGED <<entry, data>> => Shape')
BY DEF Ends, KeepsOff, Shape

LEMMA CommandKeeps == AInv /\ Command => AInv'
<1> SUFFICES ASSUME AInv, Command PROVE AInv' OBVIOUS
<1> USE DEF AInv
<1>1. UNCHANGED vars
  BY DEF Command, Call, RejectAlias, Read, NotWritten, OpenOutput, FillOutput, Killed
<1>2. TypeOK' BY <1>1, NextType
<1>3. ASSUME made \subseteq made', data' = data
      PROVE  \A file \in DOMAIN data' : Among(data'[file], made')
  BY <1>3 DEF SignaturesMade, Among
<1>4. ASSUME NEW c \in Commands, Call(c) PROVE AInv'
  <2>1. Shape' BY <1>4 DEF Call, Shape
  <2>2. KeepsOff' BY <1>4 DEF Call, KeepsOff
  <2>3. SignaturesMade' BY <1>3, <1>4 DEF Call, SignaturesMade
  <2> QED BY <1>2, <2>1, <2>2, <2>3
<1>5. CASE RejectAlias
  <2>1. Shape' BY <1>5 DEF RejectAlias, GoesTo, Ends, Shape
  <2>2. KeepsOff'
    BY <1>5 DEF RejectAlias, GoesTo, Ends, KeepsOff, Destination, Inputs, SameFile
  <2>3. SignaturesMade'
    BY <1>3, <1>5 DEF RejectAlias, GoesTo, Ends, SignaturesMade
  <2> QED BY <1>2, <2>1, <2>2, <2>3
<1>6. CASE Read
  <2>1. Shape' BY <1>6 DEF Read, Ends, Shape
  <2>2. KeepsOff' BY <1>6 DEF Read, Ends, KeepsOff, Destination, Inputs
  <2>3. SignaturesMade' BY <1>3, <1>6 DEF Read, Ends, SignaturesMade
  <2> QED BY <1>2, <2>1, <2>2, <2>3
<1>7. CASE NotWritten \/ Killed
  <2>1. Shape' /\ KeepsOff' BY <1>7, EndsWell DEF NotWritten, Killed
  <2>2. SignaturesMade' BY <1>3, <1>7 DEF NotWritten, Killed, Ends, SignaturesMade
  <2> QED BY <1>2, <2>1, <2>2
<1>8. CASE OpenOutput \/ FillOutput
  <2>1. PICK file : /\ file \notin Inputs
                    /\ entry'[command.output] = file
                    /\ data' = [data EXCEPT ![file] = data'[file]]
                    /\ file \in DOMAIN data => data'[file] \in {Torn, Result}
    BY <1>8, OutputOnly
  <2>2. command \in Commands /\ command.output \in Outputs
    BY <1>8, AttestationAssumption DEF Shape, OpenOutput, FillOutput
  <2>3. Shape'
    <3>1. DOMAIN data' = DOMAIN data BY <2>1
    <3>2. entry' \in [Outputs -> {Nowhere, Symlink, KeyFile, Signed} \union Outputs]
      BY <1>8, <2>2 DEF Shape, OpenOutput, FillOutput
    <3> QED BY <1>8, <2>2, <3>1, <3>2 DEF Shape, OpenOutput, FillOutput, GoesTo, Ends
  <2>4. KeepsOff'
    <3>1. CASE OpenOutput
      BY <2>1, <3>1 DEF OpenOutput, GoesTo, KeepsOff, Destination, Inputs
    <3>2. CASE FillOutput BY <3>2, EndsWell DEF FillOutput
    <3> QED BY <1>8, <3>1, <3>2
  <2>5. Among(Torn, made') BY DEF Among, IsSignature, Torn
  <2>6. ASSUME file \in DOMAIN data, command.kind = "sign" PROVE Attests(got, Key) \in made'
    BY <1>8, <2>6 DEF OpenOutput, FillOutput, SignaturesMade
  <2>7. ASSUME file \in DOMAIN data PROVE Among(Result, made')
    <3>1. CASE command.kind = "sign"
      BY <2>6, <2>7, <3>1 DEF Among, Result, Attests, IsSignature
    <3>2. CASE command.kind # "sign"
      BY <3>2 DEF Among, Result, PublicText, IsSignature
    <3> QED BY <3>1, <3>2
  <2>8. made' = made BY <1>8 DEF OpenOutput, FillOutput
  <2>9. ASSUME NEW other \in DOMAIN data' PROVE Among(data'[other], made')
    <3>1. CASE other = file BY <2>1, <2>5, <2>7, <2>9, <3>1
    <3>2. CASE other # file BY <2>1, <2>8, <2>9, <3>2 DEF SignaturesMade, Among
    <3> QED BY <3>1, <3>2
  <2>10. at' = "fill" /\ command'.kind = "sign" => Attests(got, Key)' \in made'
    BY <1>8, <2>8 DEF OpenOutput, FillOutput, GoesTo, Ends, SignaturesMade, Attests
  <2>11. at' # "write" BY <1>8 DEF OpenOutput, FillOutput, GoesTo, Ends
  <2>12. SignaturesMade' BY <2>9, <2>10, <2>11 DEF SignaturesMade
  <2> QED BY <1>2, <2>3, <2>4, <2>12
<1> QED BY <1>4, <1>5, <1>6, <1>7, <1>8 DEF Command

LEMMA RelinkKeeps ==
  ASSUME AInv, NEW n \in Outputs, NEW e \in Entries[n], Relink(n, e)
  PROVE  AInv'
<1> USE DEF AInv
<1>1. TypeOK' BY NextType DEF Relink
<1>2. Shape' BY AttestationAssumption DEF Relink, Shape
<1>3. KeepsOff' BY DEF Relink, KeepsOff
<1>4. SignaturesMade' BY DEF Relink, SignaturesMade, Among
<1> QED BY <1>1, <1>2, <1>3, <1>4

LEMMA StepKeeps == AInv /\ [AttestationNext]_all => AInv'
<1> SUFFICES ASSUME AInv, [AttestationNext]_all PROVE AInv' OBVIOUS
<1>1. CASE UNCHANGED all
  <2>1. UNCHANGED vars /\ UNCHANGED attestation BY <1>1 DEF all
  <2>2. TypeOK' BY <2>1, NextType DEF AInv
  <2> QED BY <2>1, <2>2
       DEF AInv, attestation, Shape, KeepsOff, Destination, Inputs, SignaturesMade, Among
<1>2. CASE AttestationNext
  BY <1>2, StoreStepKeeps, CommandKeeps, RelinkKeeps DEF AttestationNext
<1> QED BY <1>1, <1>2

LEMMA Invariant == AttestationSpec => []AInv
<1> QED BY InitEstablishes, StepKeeps, PTL DEF AttestationSpec, all

\* sign_and_write and derive_public_key lose neither the evidence they read nor
\* the private key, whatever names their outputs have and whatever leads where.
THEOREM InputsStay == AttestationSpec => InputsSurvive
<1>1. AInv /\ [AttestationNext]_all
        => [\A file \in Inputs : data'[file] = data[file]]_all
  <2> SUFFICES ASSUME AInv, AttestationNext, NEW file \in Inputs
               PROVE  data'[file] = data[file]
    BY DEF all
  <2>1. CASE OpenOutput \/ FillOutput
    BY <2>1, OutputOnly, InputsAre DEF AInv, Shape
  <2>2. CASE ~ (OpenOutput \/ FillOutput)
    BY <2>2 DEF AttestationNext, Command, attestation, Call, RejectAlias, Read,
                NotWritten, Killed, Relink
  <2> QED BY <2>1, <2>2
<1> QED BY <1>1, Invariant, PTL DEF AttestationSpec, InputsSurvive, all

\* What verify accepts under a public key has been signed with its private key,
\* byte for byte as the evidence is there, wherever commands and runs died.
THEOREM VerifiedWasSigned == AttestationSpec => []VerifiedMeansSigned
<1>1. AInv => VerifiedMeansSigned
  <2> SUFFICES ASSUME AInv, NEW n \in Outputs, NEW p \in Outputs,
                      Verifies(n, Bytes(entry[p]))
               PROVE  Attests(Bytes(Signed), Bytes(entry[p]).key) \in made
    BY DEF VerifiedMeansSigned
  <2> DEFINE file == entry[n]
  <2>1. file \in DOMAIN data
    BY DEF Verifies, Regular, AInv, Shape
  <2>2. IsSignature(Bytes(file)) /\ Bytes(file).key = Bytes(entry[p]).key
        /\ Bytes(file).evidence = Bytes(Signed)
    BY DEF Verifies, Matches
  <2>3. disk[Signed] \in {"absent", "partial", "full"}
    BY AttestationAssumption DEF AInv, TypeOK, Objects
  <2>4. Bytes(file) = data[file]
    BY <2>2, <2>3 DEF Bytes, IsSignature
  <2>5. Among(data[file], made) BY <2>1 DEF AInv, SignaturesMade
  <2> QED BY <2>2, <2>4, <2>5 DEF Among
<1> QED BY <1>1, Invariant, PTL
=============================================================================
