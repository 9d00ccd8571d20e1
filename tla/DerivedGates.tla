----------------------------- MODULE DerivedGates -----------------------------
(***************************************************************************)
(* From sources to a gate: generators write an output and its provenance,  *)
(* derive-gates pins what the provenance names in a gate of the derived    *)
(* manifest, and a run of that gate generates again with --check.  All of  *)
(* them read and write the same files of a repository that is edited.      *)
(*                                                                         *)
(* A digest is the content itself.  Edited files count versions and never  *)
(* return to an earlier one; the sources of a generator are one file, read *)
(* in one step with what it finds beside them: a file that nothing names,  *)
(* where it looks for files, is a version of what there is to find, and no *)
(* input.  What an executor does around the check is GateRun's matter; its *)
(* two passes over the inputs are one step each.                           *)
(***************************************************************************)
EXTENDS Naturals, Sequences, FiniteSets

CONSTANTS
  Kinds,        \* kinds of checks considered
  Writers,      \* processes that run a generator
  MaxVersion,   \* bound: versions of an edited file
  MaxEdits,     \* bound: edits altogether
  Output,       \* Output[<<c, s, f>>]: what is generated from config c and sources s
                \* when f is what there is to find
  Plain         \* Plain[s]: what of sources s a checkout lock has exact digests of

AllKinds == {"rust_gn", "c_abi", "mojo", "unsafe", "checkout", "coverage"}

\* Cargo reads the manifest first; the generator reads it again to hash it.
HashedLate == {"rust_gn", "unsafe"}

\* Kinds whose provenance has a digest for every source.
PinsSources == {"c_abi", "mojo", "unsafe", "coverage"}

\* The other reports are their own output.
TwoFiles == {"rust_gn", "c_abi", "mojo"}

\* Kinds whose sources are all the files of a directory, or that resolve the
\* paths they are given by what is on disk.
Finders == {"rust_gn", "c_abi", "unsafe", "coverage"}

Gate     == "gate"          \* the process that runs the derived gate
Versions == 1..MaxVersion
Edited   == {"config", "source", "found"}
Absent   == [is |-> "absent"]
Torn     == [is |-> "torn"]     \* truncated or not written to the end
Whole(x) == [is |-> "whole", made |-> x]
None     == {}
Some(x)  == {x}

ASSUME DerivedGatesAssumption ==
  /\ Kinds \subseteq AllKinds /\ Gate \notin Writers
  /\ MaxVersion \in Nat \ {0} /\ MaxEdits \in Nat
  /\ DOMAIN Output = Versions \X Versions \X Versions
  /\ Plain \in [Versions -> Versions]

VARIABLES
  kind,      \* the kind of the check
  disk,      \* the files
  proc,      \* the generator each writer, and the gate, is running
  deriver,   \* the running derive-gates: the input it reads next, its pins
  derived,   \* the gate of the derived manifest, or None
  run,       \* the gate being run and whether no writer wrote meanwhile
  last       \* the last run, when it has ended and the gate has passed

vars == <<kind, disk, proc, deriver, derived, run, last>>

Idle == [at |-> "idle"]

Init ==
  /\ kind \in Kinds
  /\ disk = [config |-> 1, source |-> 1, found |-> 1,
             output |-> Absent, provenance |-> Absent]
  /\ proc = [p \in Writers \union {Gate} |-> Idle]
  /\ deriver = None /\ derived = None /\ run = None /\ last = None

-----------------------------------------------------------------------------
\* Generators.

\* The generator p starts: the contract, the manifest, or what cargo metadata
\* reports.
ReadConfig(p) ==
  /\ proc' = [proc EXCEPT ![p] = [at |-> "sources", config |-> disk.config]]
  /\ UNCHANGED <<kind, disk, deriver, derived, run, last>>

Start(w) == proc[w] = Idle /\ ReadConfig(w)

\* What a generator finds: source_inventory and collect_rust_sources walk a
\* directory, and coverage_path follows links.
Found == IF kind \in Finders THEN disk.found ELSE 1

\* The sources: source files, the files of a checkout, an LLVM export.  Just
\* before them an audit hashes the manifest of Cargo, and the coverage report
\* parses the manifest it has hashed.
ReadSources(p) ==
  /\ proc[p].at = "sources"
  /\ proc' = [proc EXCEPT ![p] =
       [at |-> "render", config |-> proc[p].config, again |-> disk.config,
        source |-> disk.source, found |-> Found]]
  /\ UNCHANGED <<kind, disk, deriver, derived, run, last>>

\* What p has rendered, with the digests beside it, and a list of what it has
\* found.
Made(p, config, source) ==
  [output |-> Output[<<proc[p].config, proc[p].source, proc[p].found>>],
   config |-> config, source |-> source, found |-> proc[p].found]

\* Each generator's digests: of what it parsed, or of what it finds later; of
\* its sources, or of none.
GenerateBridge(p) == Made(p, disk.config, None)
GenerateCAbi(p)   == Made(p, proc[p].config, Some(proc[p].source))
GenerateMojo(p)   == Made(p, proc[p].config, Some(proc[p].source))
AuditWorkspace(p) == Made(p, proc[p].again, Some(proc[p].source))

\* A checkout lock has exact digests of some files and a semantic one of the
\* others, which is in its own output.
AuditCheckout(p) == Made(p, proc[p].config, Some(Plain[proc[p].source]))

SummarizeCoverage(p) ==
  [output |-> Output[<<proc[p].again, proc[p].source, proc[p].found>>],
   config |-> proc[p].config, source |-> Some(proc[p].source),
   found |-> proc[p].found]

Provenance(p) ==
  CASE kind = "rust_gn" -> GenerateBridge(p)
    [] kind = "c_abi"   -> GenerateCAbi(p)
    [] kind = "mojo"    -> GenerateMojo(p)
    [] kind = "unsafe"  -> AuditWorkspace(p)
    [] kind = "checkout" -> AuditCheckout(p)
    [] kind = "coverage" -> SummarizeCoverage(p)

\* The files written, in order, and compared in the same order by --check.
WriteOrder ==
  IF kind \in TwoFiles THEN <<"output", "provenance">> ELSE <<"provenance">>

Exists(f) == disk[f] # Absent

\* How writing starts.  A lock is written under another name, and with --force
\* the old one is removed before it is renamed.
FirstWrite(force) ==
  IF kind = "checkout" THEN (IF force THEN "find" ELSE "fill") ELSE "open"

\* Everything is rendered; without --force nothing may be there already.
Render(w, force) ==
  /\ proc[w].at = "render"
  /\ IF force \/ \A i \in DOMAIN WriteOrder : ~Exists(WriteOrder[i])
       THEN proc' = [proc EXCEPT ![w] = [at |-> FirstWrite(force),
                                         made |-> Provenance(w), next |-> 1]]
       ELSE proc' = [proc EXCEPT ![w] = Idle]
  /\ UNCHANGED <<kind, disk, deriver, derived, run, last>>

Disturbed == run' = {[r EXCEPT !.quiet = FALSE] : r \in run}

\* fs::write truncates the file ...
OpenFile(w) ==
  /\ proc[w].at = "open"
  /\ disk' = [disk EXCEPT ![WriteOrder[proc[w].next]] = Torn]
  /\ proc' = [proc EXCEPT ![w].at = "fill"]
  /\ Disturbed /\ UNCHANGED <<kind, deriver, derived, last>>

FindOldLock(w) ==
  /\ proc[w].at = "find"
  /\ proc' = [proc EXCEPT ![w].at = IF Exists("provenance") THEN "remove" ELSE "fill"]
  /\ UNCHANGED <<kind, disk, deriver, derived, run, last>>

\* Somebody else may have removed it: the writer ends with an error.
RemoveOldLock(w) ==
  /\ proc[w].at = "remove"
  /\ disk' = [disk EXCEPT !.provenance = Absent]
  /\ proc' = IF Exists("provenance") THEN [proc EXCEPT ![w].at = "fill"]
                                     ELSE [proc EXCEPT ![w] = Idle]
  /\ Disturbed /\ UNCHANGED <<kind, deriver, derived, last>>

Content(made, f) == Whole(IF f = "output" THEN made.output ELSE made)

\* ... and writes it; a lock is renamed into place.
FillFile(w) ==
  LET p == proc[w]
      f == WriteOrder[p.next]
  IN
  /\ p.at = "fill"
  /\ disk' = [disk EXCEPT ![f] = Content(p.made, f)]
  /\ proc' = [proc EXCEPT ![w] = IF p.next = Len(WriteOrder) THEN Idle
       ELSE [at |-> "open", made |-> p.made, next |-> p.next + 1]]
  /\ Disturbed /\ UNCHANGED <<kind, deriver, derived, last>>

\* The process dies, or a read or a write fails.
Stop(w) ==
  /\ proc[w] # Idle
  /\ proc' = [proc EXCEPT ![w] = Idle]
  /\ UNCHANGED <<kind, disk, deriver, derived, run, last>>

-----------------------------------------------------------------------------
\* derive-gates.

\* The kinds whose check names its contract beside its report.
NamedContract == {"checkout", "coverage"}

\* The order in which inputs are read: the provenance and what it names.  What
\* the generator would find today is not looked at.  The source manifest, the
\* gate contract and the sources a coverage report is about are inputs compared
\* with nothing and left out.
Inputs ==
  CASE kind \in TwoFiles      -> <<"provenance", "config", "output", "source">>
    [] kind = "unsafe"        -> <<"provenance", "config", "source">>
    [] kind \in NamedContract -> <<"config", "provenance", "source">>

BeginDerive ==
  /\ deriver = None
  /\ deriver' = Some([next |-> 1,
       pins |-> [provenance |-> Absent, output |-> Absent,
                 config |-> 0, source |-> 0]])
  /\ UNCHANGED <<kind, disk, proc, derived, run, last>>

\* The inputs for which the provenance of a kind has a digest; the others are
\* pinned as they are found.
DigestedRustGn == {"config", "output"}

\* Slip: the generated header is pinned as it is found.
DigestedCAbi_AnyHeader == {"config", "source"}

\* Slip: the sources are pinned as they are found.
DigestedCAbi_AnySource == {"config", "output"}

DigestedCAbi   == {"config", "output", "source"}
DigestedMojo   == {"config", "output", "source"}
DigestedUnsafe == {"config", "source"}

Digested ==
  CASE kind = "rust_gn" -> DigestedRustGn
    [] kind = "c_abi"   -> DigestedCAbi
    [] kind = "mojo"    -> DigestedMojo
    [] kind = "unsafe"  -> DigestedUnsafe
    [] kind \in NamedContract -> {"source"}

\* What the provenance says of sources s.
DigestOf(s) == IF kind = "checkout" THEN Plain[s] ELSE s

\* Input f is what provenance made has a digest of.
IsRecorded(made, f, content) ==
  CASE f = "config" -> content = made.config
    [] f = "output" -> content = Content(made, f)
    [] f = "source" -> made.source = Some(DigestOf(content))

\* Lock and coverage report have the digest of the contract they are named
\* with.
DeriveCheckout(made, pins) == made.config = pins.config

\* The sums of a coverage report, computed again from its own lines for manifest
\* config.
SumsAgree(made, config) ==
  \E s \in made.source : made.output = Output[<<config, s, made.found>>]

DeriveCoverage(made, pins) ==
  made.config = pins.config /\ SumsAgree(made, pins.config)

\* The provenance parses and is of the contract.
AcceptsProvenance(content, pins) ==
  /\ content.is = "whole"
  /\ kind = "checkout" => DeriveCheckout(content.made, pins)
  /\ kind = "coverage" => DeriveCoverage(content.made, pins)

\* The other files have the digests it names.
Accepts(f, content, pins) ==
  IF f = "provenance" THEN AcceptsProvenance(content, pins)
  ELSE f \in Digested => IsRecorded(pins.provenance.made, f, content)

\* InputSet::add
AddInput ==
  /\ \E d \in deriver :
       LET f == Inputs[d.next] IN
       /\ d.next <= Len(Inputs)
       /\ deriver' = IF Accepts(f, disk[f], d.pins)
            THEN Some([next |-> d.next + 1, pins |-> [d.pins EXCEPT ![f] = disk[f]]])
            ELSE None
  /\ UNCHANGED <<kind, disk, proc, derived, run, last>>

\* The derived manifest is written, over an old one with --force.
WriteDerived ==
  /\ \E d \in deriver : d.next > Len(Inputs) /\ derived' = Some(d.pins)
  /\ deriver' = None
  /\ UNCHANGED <<kind, disk, proc, run, last>>

-----------------------------------------------------------------------------
\* A run of the derived gate.

InputsMatch(gate) == \A i \in DOMAIN Inputs : disk[Inputs[i]] = gate[Inputs[i]]

Ended(r, passed) ==
  /\ last' = IF passed THEN Some(r) ELSE None
  /\ run' = None
  /\ proc' = [proc EXCEPT ![Gate] = Idle]

\* The inputs are as declared and the generator is started with --check.
BeginRun ==
  /\ run = None /\ last' = None
  /\ \E gate \in derived :
       /\ InputsMatch(gate)
       /\ run' = Some([gate |-> gate, quiet |-> TRUE])
  /\ proc' = [proc EXCEPT ![Gate] = [at |-> "sources", config |-> disk.config]]
  /\ UNCHANGED <<kind, disk, deriver, derived>>

RunReadsSources == ReadSources(Gate)

\* The generator ends with an error by what no input declares: a new source
\* that does not parse or exports something else, a file where an import is
\* mapped, a path that is gone, the commit and the status of the checkout.
RunRejects ==
  /\ proc[Gate].at = "sources"
  /\ \E r \in run : Ended(r, FALSE)
  /\ UNCHANGED <<kind, disk, deriver, derived>>

\* Everything is rendered again.
RunRenders ==
  /\ proc[Gate].at = "render"
  /\ proc' = [proc EXCEPT ![Gate] =
       [at |-> "compare", made |-> Provenance(Gate), next |-> 1]]
  /\ UNCHANGED <<kind, disk, deriver, derived, run, last>>

\* check_file, for one file after the other.
CompareFile ==
  LET p == proc[Gate]
      f == WriteOrder[p.next]
  IN
  /\ p.at = "compare" /\ p.next <= Len(WriteOrder)
  /\ IF disk[f] = Content(p.made, f)
       THEN /\ proc' = [proc EXCEPT ![Gate].next = @ + 1]
            /\ UNCHANGED <<run, last>>
       ELSE \E r \in run : Ended(r, FALSE)
  /\ UNCHANGED <<kind, disk, deriver, derived>>

\* Slip: the inputs are not read again.
StillMatch_Assumed(gate) == TRUE

StillMatch(gate) == InputsMatch(gate)

\* The check has succeeded; the inputs are read again.
EndRun ==
  /\ proc[Gate].at = "compare" /\ proc[Gate].next > Len(WriteOrder)
  /\ \E r \in run : Ended(r, StillMatch(r.gate))
  /\ UNCHANGED <<kind, disk, deriver, derived>>

-----------------------------------------------------------------------------
\* The developers.

Edit(f) ==
  /\ disk[f] < MaxVersion
  /\ disk.config + disk.source + disk.found < 3 + MaxEdits
  /\ disk' = [disk EXCEPT ![f] = @ + 1]
  /\ UNCHANGED <<kind, proc, deriver, derived, run, last>>

Next ==
  \/ \E w \in Writers :
       \/ Start(w) \/ ReadSources(w) \/ FindOldLock(w) \/ RemoveOldLock(w)
       \/ OpenFile(w) \/ FillFile(w) \/ Stop(w)
       \/ \E force \in BOOLEAN : Render(w, force)
  \/ BeginDerive \/ AddInput \/ WriteDerived
  \/ BeginRun \/ RunReadsSources \/ RunRejects \/ RunRenders \/ CompareFile \/ EndRun
  \/ \E f \in Edited : Edit(f)

Spec == Init /\ [][Next]_vars
-----------------------------------------------------------------------------
\* Properties

\* The output is what its provenance says it was made from: by itself, or inside
\* of a report.
OneGeneration(gate) ==
  LET output == Output[<<gate.config, gate.source, gate.provenance.made.found>>] IN
  /\ gate.provenance.made.output = output
  /\ kind \in TwoFiles => gate.output = Whole(output)

\* Generating now makes exactly the files that are there.
GeneratesTheSame ==
  LET output == Output[<<disk.config, disk.source, Found>>] IN
  /\ kind \in TwoFiles => disk.output = Whole(output)
  /\ disk.provenance = Whole([output |-> output, config |-> disk.config,
                              source |-> Some(disk.source), found |-> Found])

\* A derived gate never mixes an output with the provenance of another
\* generation, and for the kinds whose digests are of what was parsed, or whose
\* sums are computed again, all its pins are of one generation: whatever
\* generators overlapped or died between their two files and whatever was
\* edited while derive-gates read (generate_and_write, derive_c_abi,
\* derive_mojo, derive_coverage).
PinsOneGeneration ==
  \A gate \in derived :
    /\ kind \in TwoFiles => gate.output = Whole(gate.provenance.made.output)
    /\ kind \in PinsSources \ HashedLate => OneGeneration(gate)

\* For these kinds a gate that is derived does not have to be derived again
\* before it can pass: while the declared inputs are unchanged, generating again
\* makes exactly the files that are there.  That the generator finds what it
\* found is a condition of its own: no declared input says so, although
\* docs/structured-gates.md has gates "declare every file whose bytes define the
\* check".
UntouchedGatePasses ==
  kind \in PinsSources \ HashedLate =>
    \A gate \in derived :
      InputsMatch(gate) /\ Found = gate.provenance.made.found => GeneratesTheSame

\* A passing gate of any kind has been derived from one generation, even where
\* derive-gates cannot tell; for sources that were edited while it ran as
\* well, and unless somebody generated at the same time
\* (docs/structured-gates.md: "Inputs are checked again after process
\* completion").
PassedGateIsCurrent ==
  \A l \in last : l.quiet => OneGeneration(l.gate)
=============================================================================
