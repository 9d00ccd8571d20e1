---------------------------- MODULE Attestation ----------------------------
(***************************************************************************)
(* Detached signatures of chromifer-attestation, made and verified beside  *)
(* runs that may still be writing the bundle that is signed.  A command    *)
(* reads its inputs, opens its output, which empties it, and writes it; it *)
(* may be killed in between.                                               *)
(*                                                                         *)
(* Signatures and digests are taken to be perfect: a signature is what was *)
(* signed together with the key.  Names lead to files, and several names   *)
(* may lead to one file; they do not change while a command runs.          *)
(***************************************************************************)
EXTENDS ContentStore

CONSTANTS
  Signed,      \* the bundle that is signed
  Outputs,     \* the names that commands write to
  Entries,     \* Entries[n]: what n may lead to: Nowhere, Symlink or a file
  Found,       \* Found[n]: what the file n may hold before any command
  Commands,    \* [kind, output, force, check] of the calls that are made
  MaxCommands, \* bound on calls
  Key          \* the runner's private key

VARIABLES
  entry,     \* output name -> what it leads to
  data,      \* file -> contents; for Signed, AsStored or what replaced it
  command,   \* the command that runs, or NoCommand
  at,        \* the step it is at
  got,       \* the evidence it has read
  made,      \* the signatures that were ever made
  calls      \* how many commands were called

attestation == <<entry, data, command, at, got, made, calls>>

\* What names lead to; a file that a command makes has the name for its own.
Nowhere == <<"nowhere">>
Symlink == <<"symlink">>
KeyFile == <<"key">>

NoCommand == [kind |-> "none"]

\* Contents of files.
AsStored == [is |-> "as stored"]
Torn == [is |-> "torn"]
KeyText(k) == [is |-> "key", key |-> k]
PublicText(k) == [is |-> "public", key |-> k]
Attests(evidence, k) == [is |-> "attests", evidence |-> evidence, key |-> k]

IsSignature(bytes) == bytes.is = "attests"

ASSUME AttestationAssumption ==
  /\ Signed \in Bundles
  /\ Outputs \intersect {KeyFile, Signed} = {}
  /\ \A c \in Commands : c.output \in Outputs
  /\ \A n \in Outputs :
       /\ Entries[n] \subseteq {Nowhere, Symlink, KeyFile, Signed} \union Outputs
       /\ \A b \in Found[n] : IsSignature(b) => b = Attests(b.evidence, b.key)

\* What a reader of a file gets.
Bytes(file) == IF data[file] = AsStored THEN [is |-> disk[Signed]] ELSE data[file]

Regular(e) ==
  /\ e \notin {Nowhere, Symlink}
  /\ e = Signed => disk[Signed] # "absent"

AttestationInit ==
  /\ Init
  /\ entry = [n \in Outputs |-> Nowhere]
  /\ data \in [{KeyFile, Signed} \union Outputs ->
                 {KeyText(Key), AsStored} \union UNION {Found[n] : n \in Outputs}]
  /\ data[KeyFile] = KeyText(Key) /\ data[Signed] = AsStored
  /\ \A n \in Outputs : data[n] \in Found[n]
  /\ made = {b \in {data[n] : n \in Outputs} : IsSignature(b)}
  /\ command = NoCommand
  /\ at = "idle"
  /\ got = Torn
  /\ calls = 0

-----------------------------------------------------------------------------
\* sign_and_write and derive_public_key.

Call(c) ==
  /\ at = "idle" /\ calls < MaxCommands
  /\ command' = c
  /\ at' = "alias"
  /\ calls' = calls + 1
  /\ UNCHANGED <<entry, data, got, made, vars>>

\* The command returns, with an error or without.
Ends ==
  /\ at' = "idle"
  /\ command' = NoCommand
  /\ got' = Torn

GoesTo(step) == at' = step /\ UNCHANGED <<command, got>>

Inputs ==
  CASE command.kind = "sign"   -> {Signed, KeyFile}
    [] command.kind = "derive" -> {KeyFile}
    [] OTHER                   -> {}

Destination == entry[command.output]

\* Slip: only the names of files are compared.
SameFile_ByName(file) == command.output = file

SameFile(file) == Destination = file

\* reject_output_alias, for each input.
RejectAlias ==
  /\ at = "alias"
  /\ IF Destination # Nowhere /\ (\/ Destination = Symlink
                            \/ \E file \in Inputs : ~ Regular(file) \/ SameFile(file))
       THEN Ends ELSE GoesTo("read")
  /\ UNCHANGED <<entry, data, made, calls, vars>>

\* read_regular_file and load_private_key; the key file may be open to others.
Read ==
  /\ at = "read"
  /\ \/ Ends /\ UNCHANGED made
     \/ /\ \A file \in Inputs : Regular(file)
        /\ at' = "write"
        /\ got' = Bytes(Signed)
        /\ made' = made \union (IF command.kind = "sign" THEN {Attests(Bytes(Signed), Key)} ELSE {})
        /\ UNCHANGED command
  /\ UNCHANGED <<entry, data, calls, vars>>

\* What the command writes.
Result == IF command.kind = "sign" THEN Attests(got, Key) ELSE PublicText(Key)

\* write_or_check with check, and where it refuses a file that is there.
NotWritten ==
  /\ at = "write"
  /\ command.check \/ Destination = Symlink \/ (Destination # Nowhere /\ ~ command.force)
  /\ Ends
  /\ UNCHANGED <<entry, data, made, calls, vars>>

\* The output is made or emptied.
OpenOutput ==
  /\ at = "write" /\ ~ command.check
  /\ \/ Destination = Nowhere /\ entry' = [entry EXCEPT ![command.output] = command.output]
     \/ Regular(Destination) /\ command.force /\ UNCHANGED entry
  /\ data' = [data EXCEPT ![entry'[command.output]] = Torn]
  /\ GoesTo("fill")
  /\ UNCHANGED <<made, calls, vars>>

FillOutput ==
  /\ at = "fill"
  /\ data' = [data EXCEPT ![Destination] = Result]
  /\ Ends
  /\ UNCHANGED <<entry, made, calls, vars>>

Killed ==
  /\ at # "idle"
  /\ Ends
  /\ UNCHANGED <<entry, data, made, calls, vars>>

\* Somebody links, removes or puts back an output.
Relink(n, e) ==
  /\ at = "idle"
  /\ e \in {Nowhere, Symlink} \/ Regular(e)
  /\ entry' = [entry EXCEPT ![n] = e]
  /\ UNCHANGED <<data, command, at, got, made, calls, vars>>

-----------------------------------------------------------------------------
\* verify.

\* Slip: the signature is checked against the digest it brings with it.
Matches_Itself(bytes, trusted) == bytes.key = trusted.key

\* The attested key is the trusted one, the digest is that of the evidence; that
\* the signature is over both is what Attests stands for.
Matches(bytes, trusted) ==
  bytes.key = trusted.key /\ bytes.evidence = Bytes(Signed)

Verifies(n, trusted) ==
  /\ Regular(Signed) /\ Regular(entry[n])
  /\ IsSignature(Bytes(entry[n])) /\ trusted.is = "public"
  /\ Matches(Bytes(entry[n]), trusted)

-----------------------------------------------------------------------------
Command ==
  \/ \E c \in Commands : Call(c)
  \/ RejectAlias \/ Read \/ NotWritten \/ OpenOutput \/ FillOutput \/ Killed

AttestationNext ==
  \/ Next /\ UNCHANGED attestation
  \/ Command
  \/ \E n \in Outputs : \E e \in Entries[n] : Relink(n, e)

AttestationSpec == AttestationInit /\ [][AttestationNext]_<<vars, attestation>>

-----------------------------------------------------------------------------
\* Properties

\* A command never changes a file it reads, under whatever name its output is
\* given, with --force or not: neither the evidence that is signed nor the
\* private key is lost (reject_output_alias, write_or_check).
InputsSurvive == [][\A file \in Inputs : data'[file] = data[file]]_<<vars, attestation>>

\* What verifies under a key was signed with it, byte for byte as it is there
\* now: neither a signature of the bundle from before its writing was finished,
\* nor one that was itself cut off, nor one by another key passes for it
\* (sign_and_write, verify).
VerifiedMeansSigned ==
  \A n, p \in Outputs :
    Regular(entry[p]) /\ Bytes(entry[p]).is = "public" /\ Verifies(n, Bytes(entry[p]))
      => Attests(Bytes(Signed), Bytes(entry[p]).key) \in made
=============================================================================
