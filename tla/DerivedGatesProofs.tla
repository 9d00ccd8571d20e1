-------------------------- MODULE DerivedGatesProofs --------------------------
(***************************************************************************)
(* What derive-gates pins belongs to one generation, for any number of     *)
(* generators and any function they compute.                               *)
(*                                                                         *)
(* The invariant follows the provenance: what a generator has rendered is  *)
(* genuine, so is what it leaves on disk when it has written all of it, so *)
(* is what derive-gates has read, and every other pin was equal to what    *)
(* that provenance names when it was read.  A coverage report may not be   *)
(* genuine: derive-gates finds out when it computes the sums again.        *)
(***************************************************************************)
EXTENDS DerivedGates, TLAPS

\* The kinds for which the derivation can tell.
Single == PinsSources \ HashedLate

\* Provenance m names the sources its output was made from, and lists what was
\* found.
Genuine(m) ==
  /\ m = [output |-> m.output, config |-> m.config, source |-> m.source,
          found |-> m.found]
  /\ kind \in Single \ {"coverage"} => \A s \in Versions :
       m.source = Some(s) => m.output = Output[<<m.config, s, m.found>>]

\* What a generator makes of the pinned inputs and of what its provenance lists.
Listed(pins) == Output[<<pins.config, pins.source, pins.provenance.made.found>>]

GenuineFile(x) ==
  x.is = "whole" => x = Whole(x.made) /\ Genuine(x.made)

DiskInv ==
  /\ kind \in AllKinds
  /\ DOMAIN disk = {"config", "source", "found", "output", "provenance"}
  /\ disk.source \in Versions
  /\ GenuineFile(disk.provenance)

Writing == {"open", "find", "remove", "fill"}

ProcInv ==
  /\ DOMAIN proc = Writers \union {Gate}
  /\ \A w \in Writers : proc[w].at \in Writing =>
       proc[w].next \in DOMAIN WriteOrder /\ Genuine(proc[w].made)

\* The pins of the inputs before the n-th.
PinsInv(pins, n) ==
  /\ DOMAIN pins = {"config", "source", "output", "provenance"}
  /\ \A i \in DOMAIN Inputs : i < n /\ Inputs[i] = "provenance" =>
       GenuineFile(pins.provenance) /\ AcceptsProvenance(pins.provenance, pins)
  /\ \A i \in DOMAIN Inputs : i < n /\ Inputs[i] \in Digested =>
       IsRecorded(pins.provenance.made, Inputs[i], pins[Inputs[i]])
  /\ \A i \in DOMAIN Inputs : i < n /\ Inputs[i] = "source" =>
       pins.source \in Versions

DeriverInv ==
  \A d \in deriver : d.next \in Nat /\ d.next >= 1 /\ PinsInv(d.pins, d.next)

DerivedInv == \A gate \in derived : PinsInv(gate, Len(Inputs) + 1)

Inv == DiskInv /\ ProcInv /\ DeriverInv /\ DerivedInv

-----------------------------------------------------------------------------
\* The two sequences, spelled out.

LEMMA WriteOrderFacts ==
  \A i \in DOMAIN WriteOrder : WriteOrder[i] \in {"output", "provenance"}
  BY DEF WriteOrder

LEMMA InputsFacts ==
  ASSUME kind \in AllKinds
  PROVE
  /\ Len(Inputs) \in Nat /\ Len(Inputs) >= 3 /\ DOMAIN Inputs = 1..Len(Inputs)
  /\ \A i \in DOMAIN Inputs :
       /\ Inputs[i] \in {"provenance", "config", "output", "source"}
       /\ Inputs[i] \in Digested =>
            \E j \in DOMAIN Inputs : j < i /\ Inputs[j] = "provenance"
       /\ Inputs[i] = "config" => kind \notin NamedContract \/ i = 1
       /\ \A j \in DOMAIN Inputs : i # j => Inputs[i] # Inputs[j]
  /\ \E i \in DOMAIN Inputs : Inputs[i] = "provenance"
  /\ \E i \in DOMAIN Inputs : Inputs[i] = "source"
  /\ \E i \in DOMAIN Inputs : Inputs[i] = "config"
  /\ kind \in TwoFiles => Len(Inputs) = 4 /\ Inputs[3] = "output"
<1>1. CASE kind \in TwoFiles
  <2>1. Inputs = <<"provenance", "config", "output", "source">>
    BY <1>1 DEF Inputs, TwoFiles, NamedContract
  <2>2. "provenance" \notin Digested /\ kind \notin NamedContract
    BY <1>1 DEF Digested, DigestedRustGn, DigestedCAbi, DigestedMojo, TwoFiles,
                NamedContract
  <2> QED BY <2>1, <2>2
<1>2. CASE kind = "unsafe"
  <2>1. Inputs = <<"provenance", "config", "source">>
    BY <1>2 DEF Inputs, TwoFiles, NamedContract
  <2>2. "provenance" \notin Digested /\ kind \notin NamedContract /\ kind \notin TwoFiles
    BY <1>2 DEF Digested, DigestedUnsafe, TwoFiles, NamedContract
  <2> QED BY <2>1, <2>2
<1>3. CASE kind \in NamedContract
  <2>1. Inputs = <<"config", "provenance", "source">>
    BY <1>3 DEF Inputs, TwoFiles, NamedContract
  <2>2. Digested = {"source"} /\ kind \notin TwoFiles
    BY <1>3 DEF Digested, TwoFiles, NamedContract
  <2> QED BY <2>1, <2>2
<1> QED BY <1>1, <1>2, <1>3 DEF AllKinds, TwoFiles, NamedContract

\* What a generator renders is genuine.
LEMMA RenderGenuine ==
  ASSUME kind \in AllKinds, NEW p
  PROVE  Genuine(Provenance(p))
<1>1. CASE kind = "rust_gn"
  <2>1. Provenance(p) = Made(p, disk.config, None)
    BY <1>1 DEF Provenance, GenerateBridge
  <2> QED BY <1>1, <2>1 DEF Genuine, Made, Single, HashedLate
<1>2. CASE kind \in {"c_abi", "mojo"}
  <2>1. Provenance(p) = Made(p, proc[p].config, Some(proc[p].source))
    BY <1>2 DEF Provenance, GenerateCAbi, GenerateMojo
  <2> QED BY <2>1 DEF Genuine, Made, Some
<1>3. CASE kind = "unsafe"
  <2>1. Provenance(p) = Made(p, proc[p].again, Some(proc[p].source))
    BY <1>3 DEF Provenance, AuditWorkspace
  <2> QED BY <1>3, <2>1 DEF Genuine, Made, Single, HashedLate
<1>4. CASE kind = "checkout"
  <2>1. Provenance(p) = Made(p, proc[p].config, Some(Plain[proc[p].source]))
    BY <1>4 DEF Provenance, AuditCheckout
  <2> QED BY <1>4, <2>1 DEF Genuine, Made, Single, PinsSources
<1>5. CASE kind = "coverage"
  <2>1. Provenance(p) =
          [output |-> Output[<<proc[p].again, proc[p].source, proc[p].found>>],
           config |-> proc[p].config, source |-> Some(proc[p].source),
           found |-> proc[p].found]
    BY <1>5 DEF Provenance, SummarizeCoverage
  <2> QED BY <1>5, <2>1 DEF Genuine
<1> QED BY <1>1, <1>2, <1>3, <1>4, <1>5 DEF AllKinds

\* Pins taken from a complete provenance of a single generation.
LEMMA PinsAgree ==
  ASSUME kind \in AllKinds, NEW pins, PinsInv(pins, Len(Inputs) + 1)
  PROVE  /\ kind \in TwoFiles => pins.output = Whole(pins.provenance.made.output)
         /\ kind \in Single =>
              pins.provenance = Whole([output |-> Listed(pins),
                config |-> pins.config, source |-> Some(pins.source),
                found |-> pins.provenance.made.found])
<1> DEFINE made == pins.provenance.made
<1>1. /\ pins.provenance = Whole(made) /\ Genuine(made)
      /\ AcceptsProvenance(pins.provenance, pins)
  BY InputsFacts DEF PinsInv, GenuineFile, AcceptsProvenance
<1>2. \A i \in DOMAIN Inputs : Inputs[i] \in Digested =>
        IsRecorded(made, Inputs[i], pins[Inputs[i]])
  BY InputsFacts DEF PinsInv
<1>3. kind \in TwoFiles => "output" \in Digested
  BY DEF TwoFiles, Digested, DigestedRustGn, DigestedCAbi, DigestedMojo, NamedContract
<1>4. kind \in TwoFiles => pins.output = Whole(made.output)
  <2> SUFFICES ASSUME kind \in TwoFiles PROVE pins.output = Whole(made.output)
    OBVIOUS
  <2>1. 3 \in DOMAIN Inputs /\ Inputs[3] = "output"
    BY InputsFacts
  <2>2. IsRecorded(made, "output", pins["output"])
    BY <2>1, <1>2, <1>3
  <2> QED BY <2>2 DEF IsRecorded, Content
<1>5. ASSUME kind \in Single
      PROVE  made.config = pins.config /\ made.source = Some(pins.source)
             /\ made.output = Listed(pins)
  <2>1. kind \in {"c_abi", "mojo", "coverage"}
    BY <1>5 DEF Single, PinsSources, HashedLate
  <2>2. "source" \in Digested /\ kind # "checkout"
    BY <2>1 DEF Digested, DigestedCAbi, DigestedMojo, NamedContract
  <2>3. IsRecorded(made, "source", pins["source"])
    BY <2>2, <1>2, InputsFacts
  <2>4. made.source = Some(pins.source)
    BY <2>2, <2>3 DEF IsRecorded, DigestOf
  <2>5. pins.source \in Versions
    BY InputsFacts DEF PinsInv
  <2>6. CASE kind = "coverage"
    <3>1. DeriveCoverage(made, pins)
      BY <1>1, <2>6 DEF AcceptsProvenance
    <3> QED BY <3>1, <2>4 DEF DeriveCoverage, SumsAgree, Some, Listed
  <2>7. CASE kind # "coverage"
    <3>1. "config" \in Digested
      BY <2>1, <2>7 DEF Digested, DigestedCAbi, DigestedMojo, NamedContract
    <3>2. IsRecorded(made, "config", pins["config"])
      BY <3>1, <1>2, InputsFacts
    <3>3. made.config = pins.config
      BY <3>2 DEF IsRecorded
    <3> QED BY <1>1, <1>5, <2>4, <2>5, <2>7, <3>3 DEF Genuine, Listed
  <2> QED BY <2>6, <2>7
<1>6. made = [output |-> made.output, config |-> made.config, source |-> made.source,
              found |-> made.found]
  BY <1>1 DEF Genuine
<1> QED BY <1>1, <1>4, <1>5, <1>6

-----------------------------------------------------------------------------
\* The invariant.

LEMMA InitInv == Init => Inv
  BY DerivedGatesAssumption
  DEF Init, Inv, DiskInv, ProcInv, DeriverInv, DerivedInv, GenuineFile, Idle,
      Absent, None, Versions, Writing

\* A step that writes no file and renders nothing keeps DiskInv and ProcInv.
LEMMA KindKept ==
  ASSUME kind' = kind
  PROVE  /\ WriteOrder' = WriteOrder /\ Inputs' = Inputs /\ Digested' = Digested
         /\ \A m : Genuine(m)' <=> Genuine(m)
         /\ \A x : GenuineFile(x)' <=> GenuineFile(x)
         /\ \A pins, n : PinsInv(pins, n)' <=> PinsInv(pins, n)
  BY DEF WriteOrder, Inputs, Digested, Genuine, GenuineFile, PinsInv, Single,
         IsRecorded, DigestOf, AcceptsProvenance, DeriveCheckout, DeriveCoverage, SumsAgree

LEMMA StepInv == Inv /\ [Next]_vars => Inv'
<1> SUFFICES ASSUME Inv, [Next]_vars PROVE Inv'
  OBVIOUS
<1> USE DEF Inv
\* What leaves the disk alone and renders nothing keeps everything.
<1>a. ASSUME UNCHANGED <<kind, disk>>, NEW p, p \in Writers \union {Gate}, NEW r,
             proc' = [proc EXCEPT ![p] = r],
             p \in Writers => r.at \notin Writing
      PROVE  DiskInv' /\ ProcInv'
  BY <1>a, KindKept, DerivedGatesAssumption DEF DiskInv, ProcInv
<1>b. ASSUME UNCHANGED <<kind, deriver, derived>>
      PROVE  DeriverInv' /\ DerivedInv'
  BY <1>b, KindKept DEF DeriverInv, DerivedInv
<1>c. ASSUME UNCHANGED <<kind, disk, proc>>
      PROVE  DiskInv' /\ ProcInv'
  BY <1>c, KindKept DEF DiskInv, ProcInv
<1>1. ASSUME NEW w \in Writers, Start(w)
      PROVE  Inv'
  BY <1>1, <1>a, <1>b DEF Start, ReadConfig, Writing
<1>2. ASSUME NEW p \in Writers \union {Gate}, ReadSources(p)
      PROVE  Inv'
  BY <1>2, <1>a, <1>b DEF ReadSources, Writing
<1>3. ASSUME NEW w \in Writers, NEW force \in BOOLEAN, Render(w, force)
      PROVE  Inv'
  <2>1. CASE proc' = [proc EXCEPT ![w] = Idle]
    BY <2>1, <1>3, <1>a, <1>b DEF Render, Idle, Writing
  <2>2. CASE proc' = [proc EXCEPT ![w] = [at |-> FirstWrite(force),
                                          made |-> Provenance(w), next |-> 1]]
    <3>1. PICK m : m = Provenance(w)
      OBVIOUS
    <3>2. Genuine(m)
      BY <3>1, RenderGenuine DEF DiskInv
    <3>3. proc' = [proc EXCEPT ![w] = [at |-> FirstWrite(force), made |-> m,
                                       next |-> 1]]
      BY <2>2, <3>1
    <3>4. 1 \in DOMAIN WriteOrder
      BY DEF WriteOrder
    <3>5. UNCHANGED <<kind, disk, deriver, derived>>
      BY <1>3 DEF Render
    <3>6. ProcInv'
      BY <3>2, <3>3, <3>4, <3>5, KindKept, DerivedGatesAssumption DEF ProcInv
    <3>7. DiskInv'
      BY <3>5, KindKept DEF DiskInv
    <3> QED BY <3>5, <3>6, <3>7, <1>b
  <2> QED BY <1>3, <2>1, <2>2 DEF Render
<1>4. ASSUME NEW w \in Writers, OpenFile(w)
      PROVE  Inv'
  <2>1. /\ UNCHANGED <<kind, deriver, derived>>
        /\ proc[w].at = "open" /\ proc' = [proc EXCEPT ![w].at = "fill"]
        /\ disk' = [disk EXCEPT ![WriteOrder[proc[w].next]] = Torn]
    BY <1>4 DEF OpenFile
  <2>2. WriteOrder[proc[w].next] \in {"output", "provenance"}
    BY <2>1, WriteOrderFacts DEF ProcInv, Writing
  <2>3. Torn.is # "whole"
    BY DEF Torn
  <2>4. DiskInv'
    BY <2>1, <2>2, <2>3, KindKept DEF DiskInv, GenuineFile
  <2>5. ProcInv'
    BY <2>1, KindKept, DerivedGatesAssumption DEF ProcInv, Writing
  <2> QED BY <2>1, <2>4, <2>5, <1>b
<1>16. ASSUME NEW w \in Writers, FindOldLock(w)
       PROVE  Inv'
  <2>1. UNCHANGED <<kind, disk, deriver, derived>> /\ proc[w].at = "find"
    BY <1>16 DEF FindOldLock
  <2>2. PICK a : proc' = [proc EXCEPT ![w].at = a]
    BY <1>16 DEF FindOldLock
  <2>3. ProcInv'
    BY <2>1, <2>2, KindKept, DerivedGatesAssumption DEF ProcInv, Writing
  <2>4. DiskInv'
    BY <2>1, KindKept DEF DiskInv
  <2> QED BY <2>1, <2>3, <2>4, <1>b
<1>17. ASSUME NEW w \in Writers, RemoveOldLock(w)
       PROVE  Inv'
  <2>1. UNCHANGED <<kind, deriver, derived>> /\ proc[w].at = "remove"
    BY <1>17 DEF RemoveOldLock
  <2>c. disk' = [disk EXCEPT !.provenance = Absent] /\ Absent.is # "whole"
    BY <1>17 DEF RemoveOldLock, Absent
  <2>2. \/ proc' = [proc EXCEPT ![w].at = "fill"]
        \/ proc' = [proc EXCEPT ![w] = Idle]
    BY <1>17 DEF RemoveOldLock
  <2>a. ASSUME proc' = [proc EXCEPT ![w].at = "fill"] PROVE ProcInv'
    BY <2>1, <2>a, KindKept, DerivedGatesAssumption DEF ProcInv, Writing
  <2>b. ASSUME proc' = [proc EXCEPT ![w] = Idle] PROVE ProcInv'
    BY <2>1, <2>b, KindKept, DerivedGatesAssumption DEF ProcInv, Writing, Idle
  <2>3. ProcInv'
    BY <2>2, <2>a, <2>b
  <2>4. DiskInv'
    BY <2>1, <2>c, KindKept DEF DiskInv, GenuineFile
  <2> QED BY <2>1, <2>3, <2>4, <1>b
<1>5. ASSUME NEW w \in Writers, FillFile(w)
      PROVE  Inv'
  <2>1. PICK m, f, n : m = proc[w].made /\ f = WriteOrder[proc[w].next] /\ n = proc[w].next
    OBVIOUS
  <2>2. /\ UNCHANGED <<kind, deriver, derived>> /\ proc[w].at = "fill"
        /\ disk' = [disk EXCEPT ![f] = Content(m, f)]
        /\ proc' = [proc EXCEPT ![w] = IF n = Len(WriteOrder) THEN Idle
             ELSE [at |-> "open", made |-> m, next |-> n + 1]]
    BY <1>5, <2>1 DEF FillFile
  <2>3. f \in {"output", "provenance"} /\ Genuine(m) /\ n \in DOMAIN WriteOrder
    BY <2>1, <2>2, WriteOrderFacts DEF ProcInv, Writing
  <2>4. GenuineFile(Content(m, "provenance"))
    BY <2>3 DEF GenuineFile, Content, Whole
  <2>5. DiskInv'
    BY <2>2, <2>3, <2>4, KindKept DEF DiskInv
  <2>6. n # Len(WriteOrder) => n + 1 \in DOMAIN WriteOrder
    BY <2>3 DEF WriteOrder
  <2>7. ProcInv'
    BY <2>2, <2>3, <2>6, KindKept, DerivedGatesAssumption DEF ProcInv, Idle, Writing
  <2> QED BY <2>2, <2>5, <2>7, <1>b
<1>6. ASSUME NEW w \in Writers, Stop(w)
      PROVE  Inv'
  BY <1>6, <1>a, <1>b DEF Stop, Idle, Writing
<1>7. ASSUME BeginDerive
      PROVE  Inv'
  <2>1. UNCHANGED <<kind, disk, proc, derived>>
        /\ deriver' = Some([next |-> 1,
             pins |-> [provenance |-> Absent, output |-> Absent,
                       config |-> 0, source |-> 0]])
    BY <1>7 DEF BeginDerive
  <2>2. PinsInv([provenance |-> Absent, output |-> Absent,
                 config |-> 0, source |-> 0], 1)
    BY InputsFacts DEF PinsInv, DiskInv
  <2>3. DeriverInv'
    BY <2>1, <2>2, KindKept DEF DeriverInv, Some
  <2>4. DerivedInv'
    BY <2>1, KindKept DEF DerivedInv
  <2> QED BY <2>1, <2>3, <2>4, <1>c
<1>8. ASSUME AddInput
      PROVE  Inv'
  <2>1. PICK d \in deriver :
          /\ d.next <= Len(Inputs)
          /\ deriver' = IF Accepts(Inputs[d.next], disk[Inputs[d.next]], d.pins)
               THEN Some([next |-> d.next + 1,
                          pins |-> [d.pins EXCEPT ![Inputs[d.next]] = disk[Inputs[d.next]]]])
               ELSE None
    BY <1>8 DEF AddInput
  <2>2. UNCHANGED <<kind, disk, proc, derived>>
    BY <1>8 DEF AddInput
  <2>3. PICK f, x, n, q : /\ f = Inputs[d.next] /\ x = disk[f] /\ n = d.next
                          /\ q = [d.pins EXCEPT ![f] = x]
    OBVIOUS
  <2>4. CASE ~Accepts(f, x, d.pins)
    BY <2>1, <2>2, <2>3, <2>4, <1>c, KindKept DEF DeriverInv, DerivedInv, None
  <2>5. CASE Accepts(f, x, d.pins)
    <3>1. n \in DOMAIN Inputs /\ n \in Nat /\ f = Inputs[n] /\ PinsInv(d.pins, n)
      BY <2>1, <2>3, InputsFacts DEF DeriverInv, DiskInv
    <3>2. DOMAIN q = DOMAIN d.pins /\ q[f] = x /\ f \in DOMAIN d.pins
      BY <3>1, <2>3, InputsFacts DEF PinsInv, DiskInv
    <3>3. \A g \in DOMAIN d.pins : g # f => q[g] = d.pins[g]
      BY <2>3
    <3>4. PinsInv(q, n + 1)
      <4>1. \A i \in DOMAIN Inputs : i < n + 1 => i < n \/ i = n
        BY <3>1, InputsFacts DEF DiskInv
      <4>2. \A i \in DOMAIN Inputs : i < n =>
              Inputs[i] # f /\ q[Inputs[i]] = d.pins[Inputs[i]]
        BY <3>1, <3>3, InputsFacts DEF PinsInv, DiskInv
      <4>3. f = "provenance" =>
              GenuineFile(q.provenance) /\ AcceptsProvenance(q.provenance, q)
        <5> SUFFICES ASSUME f = "provenance"
                     PROVE  GenuineFile(q.provenance) /\ AcceptsProvenance(q.provenance, q)
          OBVIOUS
        <5>1. q.provenance = x /\ q.config = d.pins.config /\ x = disk.provenance
          BY <2>3, <3>2, <3>3 DEF PinsInv
        <5>2. AcceptsProvenance(x, d.pins)
          BY <2>5 DEF Accepts
        <5> QED BY <5>1, <5>2
            DEF DiskInv, AcceptsProvenance, DeriveCheckout, DeriveCoverage, SumsAgree
      <4>4. \A i \in DOMAIN Inputs : i < n /\ Inputs[i] = "provenance" =>
              GenuineFile(q.provenance) /\ AcceptsProvenance(q.provenance, q)
        <5> SUFFICES ASSUME NEW i \in DOMAIN Inputs, i < n, Inputs[i] = "provenance"
                     PROVE  GenuineFile(q.provenance) /\ AcceptsProvenance(q.provenance, q)
          OBVIOUS
        <5>1. q.provenance = d.pins.provenance
          BY <4>2
        <5>2. /\ GenuineFile(d.pins.provenance)
              /\ AcceptsProvenance(d.pins.provenance, d.pins)
          BY <3>1 DEF PinsInv
        <5>3. kind \in NamedContract => q.config = d.pins.config
          <6>1. f = "config" => kind \notin NamedContract \/ n = 1
            BY <3>1, InputsFacts DEF DiskInv
          <6>2. n # 1
            BY <3>1, InputsFacts DEF DiskInv
          <6> QED BY <6>1, <6>2, <3>3, <3>1 DEF PinsInv
        <5> QED BY <5>1, <5>2, <5>3
            DEF AcceptsProvenance, DeriveCheckout, DeriveCoverage, SumsAgree, NamedContract
      <4>5. \A i \in DOMAIN Inputs : i < n + 1 /\ Inputs[i] \in Digested =>
              IsRecorded(q.provenance.made, Inputs[i], q[Inputs[i]])
        <5> SUFFICES ASSUME NEW i \in DOMAIN Inputs, i < n + 1, Inputs[i] \in Digested
                     PROVE  IsRecorded(q.provenance.made, Inputs[i], q[Inputs[i]])
          OBVIOUS
        <5>1. PICK j \in DOMAIN Inputs : j < i /\ Inputs[j] = "provenance"
          BY InputsFacts DEF DiskInv
        <5>2. j < n
          BY <5>1, <4>1, <3>1, InputsFacts DEF DiskInv
        <5>3. q.provenance = d.pins.provenance /\ f # "provenance"
          BY <5>1, <5>2, <4>2
        <5>4. CASE i = n
          BY <5>3, <5>4, <2>5, <3>1, <3>2 DEF Accepts
        <5>5. CASE i < n
          BY <5>3, <5>5, <4>2, <3>1 DEF PinsInv
        <5> QED BY <5>4, <5>5, <4>1
      <4>6. \A i \in DOMAIN Inputs : i < n + 1 /\ Inputs[i] = "source" =>
              q.source \in Versions
        <5>1. f = "source" => q.source \in Versions
          BY <3>2, <2>3 DEF DiskInv
        <5>2. \A i \in DOMAIN Inputs : i < n /\ Inputs[i] = "source" =>
                q.source \in Versions
          BY <4>2, <3>1 DEF PinsInv
        <5> QED BY <5>1, <5>2, <4>1, <3>1
      <4> QED BY <4>1, <4>3, <4>4, <4>5, <4>6, <3>1, <3>2 DEF PinsInv
    <3>5. deriver' = Some([next |-> n + 1, pins |-> q])
      BY <2>1, <2>3, <2>5
    <3>6. DeriverInv'
      BY <3>1, <3>4, <3>5, <2>2, KindKept DEF DeriverInv, Some
    <3>7. DerivedInv'
      BY <2>2, KindKept DEF DerivedInv
    <3> QED BY <3>6, <3>7, <2>2, <1>c
  <2> QED BY <2>4, <2>5
<1>9. ASSUME WriteDerived
      PROVE  Inv'
  <2>1. PICK d \in deriver : d.next > Len(Inputs) /\ derived' = Some(d.pins)
    BY <1>9 DEF WriteDerived
  <2>2. UNCHANGED <<kind, disk, proc>> /\ deriver' = None
    BY <1>9 DEF WriteDerived
  <2>3. PICK pins : pins = d.pins
    OBVIOUS
  <2>4. PinsInv(pins, Len(Inputs) + 1)
    BY <2>1, <2>3, InputsFacts DEF DeriverInv, PinsInv, DiskInv
  <2>5. DerivedInv'
    BY <2>1, <2>2, <2>3, <2>4, KindKept DEF DerivedInv, Some
  <2>6. DeriverInv'
    BY <2>2 DEF DeriverInv, None
  <2> QED BY <2>2, <2>5, <2>6, <1>c
<1>10. ASSUME BeginRun
       PROVE  Inv'
  BY <1>10, <1>a, <1>b DEF BeginRun, Writing
<1>11. ASSUME RunRenders
       PROVE  Inv'
  BY <1>11, <1>a, <1>b, DerivedGatesAssumption DEF RunRenders
<1>12. ASSUME CompareFile
       PROVE  Inv'
  <2>1. UNCHANGED <<kind, disk, deriver, derived>>
    BY <1>12 DEF CompareFile
  <2>2. PICK r : proc' = [proc EXCEPT ![Gate] = r]
    BY <1>12 DEF CompareFile, Ended
  <2> QED BY <2>1, <2>2, <1>a, <1>b, DerivedGatesAssumption
<1>13. ASSUME EndRun
       PROVE  Inv'
  BY <1>13, <1>a, <1>b, DerivedGatesAssumption DEF EndRun, Ended
<1>18. ASSUME RunRejects
       PROVE  Inv'
  BY <1>18, <1>a, <1>b, DerivedGatesAssumption DEF RunRejects, Ended
<1>14. ASSUME NEW f \in Edited, Edit(f)
       PROVE  Inv'
  <2>1. UNCHANGED <<kind, proc, deriver, derived>> /\ disk[f] < MaxVersion
        /\ disk' = [disk EXCEPT ![f] = disk[f] + 1] /\ f \in {"config", "source", "found"}
    BY <1>14 DEF Edit, Edited
  <2>2. DiskInv'
    BY <2>1, KindKept, DerivedGatesAssumption DEF DiskInv, Versions
  <2>3. ProcInv'
    BY <2>1, KindKept DEF ProcInv
  <2> QED BY <2>1, <2>2, <2>3, <1>b
<1>15. CASE UNCHANGED vars
  BY <1>15, <1>b, <1>c DEF vars
<1> QED
  BY <1>1, <1>2, <1>3, <1>4, <1>5, <1>6, <1>7, <1>8, <1>9, <1>10, <1>11, <1>12,
     <1>13, <1>14, <1>15, <1>16, <1>17, <1>18 DEF Next, RunReadsSources

LEMMA Invariant == Spec => []Inv
  BY InitInv, StepInv, PTL DEF Spec

-----------------------------------------------------------------------------
\* The results.

\* However many generators write and die, a derived gate pins the output of the
\* generation its provenance is of, and for the kinds that hash what they
\* parsed everything of one generation (derive_gate_manifest).
THEOREM GenerationPinned == Spec => []PinsOneGeneration
<1>1. Inv => PinsOneGeneration
  <2> SUFFICES ASSUME Inv, NEW gate \in derived
               PROVE  /\ kind \in TwoFiles =>
                            gate.output = Whole(gate.provenance.made.output)
                      /\ kind \in Single => OneGeneration(gate)
    BY DEF PinsOneGeneration, Single
  <2>1. kind \in AllKinds /\ PinsInv(gate, Len(Inputs) + 1)
    BY DEF Inv, DiskInv, DerivedInv
  <2>3. kind \in TwoFiles => gate.output = Whole(gate.provenance.made.output)
    BY <2>1, PinsAgree
  <2>4. ASSUME kind \in Single PROVE OneGeneration(gate)
    <3>1. gate.provenance = Whole([output |-> Listed(gate),
            config |-> gate.config, source |-> Some(gate.source),
            found |-> gate.provenance.made.found])
      BY <2>1, <2>4, PinsAgree
    <3>2. gate.provenance.made.output = Listed(gate)
      BY <3>1 DEF Whole
    <3> QED BY <2>3, <3>2 DEF OneGeneration, Listed
  <2> QED BY <2>3, <2>4
<1> QED BY <1>1, Invariant, PTL

\* Such a gate can pass as it is: while its inputs are unchanged and the
\* generator finds what it has listed, it makes what is on disk
\* (generate_and_write with --check).
THEOREM UntouchedPasses == Spec => []UntouchedGatePasses
<1>1. Inv => UntouchedGatePasses
  <2> SUFFICES ASSUME Inv, kind \in Single, NEW gate \in derived, InputsMatch(gate),
                      Found = gate.provenance.made.found
               PROVE  GeneratesTheSame
    BY DEF UntouchedGatePasses, Single
  <2>1. kind \in AllKinds /\ PinsInv(gate, Len(Inputs) + 1)
    BY DEF Inv, DiskInv, DerivedInv
  <2>2. /\ gate.provenance = Whole([output |-> Listed(gate),
               config |-> gate.config, source |-> Some(gate.source),
               found |-> gate.provenance.made.found])
        /\ kind \in TwoFiles => gate.output = Whole(gate.provenance.made.output)
    BY <2>1, PinsAgree
  <2>3. kind \in TwoFiles => gate.output = Whole(Listed(gate))
    BY <2>2 DEF Whole
  <2>4. /\ disk.provenance = gate.provenance /\ disk.config = gate.config
        /\ disk.source = gate.source
    BY <2>1, InputsFacts DEF InputsMatch
  <2>5. kind \in TwoFiles => disk.output = gate.output
    <3> SUFFICES ASSUME kind \in TwoFiles PROVE disk.output = gate.output
      OBVIOUS
    <3>1. 3 \in DOMAIN Inputs /\ Inputs[3] = "output"
      BY <2>1, InputsFacts
    <3> QED BY <3>1 DEF InputsMatch
  <2>6. Listed(gate) = Output[<<disk.config, disk.source, Found>>]
    BY <2>4 DEF Listed
  <2> QED BY <2>2, <2>3, <2>4, <2>5, <2>6 DEF GeneratesTheSame
<1> QED BY <1>1, Invariant, PTL

-----------------------------------------------------------------------------
\* A gate that has passed.
\*
\* Edited files only ever grow, so what the check of a run reads lies between
\* the pins, which are what was there when the run began, and what is on disk.
\* The run passes only when the pins are on disk again at its end; then all it
\* has read are the pins.  What it compares is what the gate pins unless
\* somebody writes meanwhile, which the run's quiet records.

RunInv ==
  \A r \in run :
    /\ r = [gate |-> r.gate, quiet |-> r.quiet]
    /\ r.gate.config \in Nat /\ r.gate.source \in Nat
    /\ r.gate.config <= disk.config /\ r.gate.source <= disk.source
    /\ r.quiet => /\ disk.provenance = r.gate.provenance
                  /\ kind \in TwoFiles => disk.output = r.gate.output

\* What the check has read, and what it has found equal.
ReadInv ==
  \A r \in run :
    LET p == proc[Gate]
        configs == r.gate.config..disk.config
        sources == r.gate.source..disk.source
    IN
    /\ p.at = "sources" => p.config \in configs
    /\ p.at = "render"  => p.config \in configs /\ p.again \in configs /\ p.source \in sources
    /\ p.at = "compare" =>
         /\ p = [at |-> "compare", made |-> p.made, next |-> p.next]
         /\ \E c \in configs, s \in sources :
              p.made.output = Output[<<c, s, p.made.found>>]
         /\ p.next \in Nat
         /\ r.quiet => \A i \in DOMAIN WriteOrder : i < p.next =>
              r.gate[WriteOrder[i]] = Content(p.made, WriteOrder[i])

GrownInv == disk.config \in Nat /\ disk.source \in Nat

RInv == GrownInv /\ RunInv /\ ReadInv /\ PassedGateIsCurrent

LEMMA InitRun == Init => RInv
BY DEF Init, RInv, GrownInv, RunInv, ReadInv, PassedGateIsCurrent, None

\* What is rendered is made from something that has been read.
LEMMA RenderedOutput ==
  ASSUME kind \in AllKinds, NEW p
  PROVE  /\ Provenance(p).found = proc[p].found
         /\ \/ Provenance(p).output =
                 Output[<<proc[p].config, proc[p].source, proc[p].found>>]
            \/ Provenance(p).output =
                 Output[<<proc[p].again, proc[p].source, proc[p].found>>]
BY DEF AllKinds, Provenance, GenerateBridge, GenerateCAbi, GenerateMojo,
       AuditWorkspace, AuditCheckout, SummarizeCoverage, Made

\* What a run finds on disk when its inputs match.
LEMMA MatchMeans ==
  ASSUME kind \in AllKinds, NEW gate, InputsMatch(gate)
  PROVE  /\ disk.config = gate.config /\ disk.source = gate.source
         /\ disk.provenance = gate.provenance
         /\ kind \in TwoFiles => disk.output = gate.output
<1>1. \A i \in DOMAIN Inputs : disk[Inputs[i]] = gate[Inputs[i]]
  BY DEF InputsMatch
<1>2. ASSUME kind \in TwoFiles PROVE disk.output = gate.output
  <2>1. 3 \in DOMAIN Inputs /\ Inputs[3] = "output"
    BY <1>2, InputsFacts
  <2> QED BY <1>1, <2>1
<1> QED BY <1>1, <1>2, InputsFacts

\* The steps of others that write no file.
LEMMA OthersKeep ==
  ASSUME RInv, UNCHANGED <<kind, disk, run, last>>, proc'[Gate] = proc[Gate]
  PROVE  RInv'
BY KindKept DEF RInv, GrownInv, RunInv, ReadInv, PassedGateIsCurrent,
                OneGeneration, Content

\* A writer that touches a file leaves no quiet run.
LEMMA WritingKeeps ==
  ASSUME RInv, UNCHANGED <<kind, last>>, Disturbed, proc'[Gate] = proc[Gate],
         disk'.config = disk.config, disk'.source = disk.source
  PROVE  RInv'
<1>1. GrownInv' /\ PassedGateIsCurrent'
  BY DEF RInv, GrownInv, PassedGateIsCurrent, OneGeneration
<1>2. ASSUME NEW r \in run'
      PROVE  \E o \in run : r = [gate |-> o.gate, quiet |-> FALSE]
  BY DEF Disturbed, RInv, RunInv
<1>3. RunInv'
  BY <1>2 DEF RInv, RunInv
<1>4. ReadInv'
  BY <1>2 DEF RInv, ReadInv
<1> QED BY <1>1, <1>3, <1>4 DEF RInv

\* The steps of the run itself.
LEMMA RunKeeps ==
  ASSUME Inv, RInv,
         BeginRun \/ RunReadsSources \/ RunRejects \/ RunRenders
           \/ CompareFile \/ EndRun
  PROVE  RInv'
<1>0. kind \in AllKinds /\ Gate \in DOMAIN proc
  BY DEF Inv, DiskInv, ProcInv
<1> USE DEF RInv
<1>1. CASE BeginRun
  <2>1. PICK gate \in derived :
          InputsMatch(gate) /\ run' = Some([gate |-> gate, quiet |-> TRUE])
    BY <1>1 DEF BeginRun
  <2>2. /\ proc'[Gate] = [at |-> "sources", config |-> disk.config]
        /\ last' = None /\ UNCHANGED <<kind, disk>>
    BY <1>0, <1>1 DEF BeginRun
  <2>3. /\ disk.config = gate.config /\ disk.source = gate.source
        /\ disk.provenance = gate.provenance
        /\ kind \in TwoFiles => disk.output = gate.output
    BY <1>0, <2>1, MatchMeans
  <2>4. RunInv'
    BY <2>1, <2>2, <2>3 DEF RunInv, GrownInv, Some
  <2>5. ReadInv'
    BY <2>1, <2>2, <2>3 DEF ReadInv, GrownInv, Some
  <2> QED BY <2>2, <2>4, <2>5 DEF GrownInv, PassedGateIsCurrent, None
<1>2. CASE RunReadsSources
  <2>1. /\ proc[Gate].at = "sources" /\ UNCHANGED <<kind, disk, run, last>>
        /\ proc'[Gate] = [at |-> "render", config |-> proc[Gate].config,
                          again |-> disk.config, source |-> disk.source,
                          found |-> Found]
    BY <1>0, <1>2 DEF RunReadsSources, ReadSources
  <2>2. ReadInv'
    BY <2>1 DEF ReadInv, RunInv, GrownInv
  <2> QED BY <2>1, <2>2 DEF GrownInv, RunInv, PassedGateIsCurrent, OneGeneration
<1>3. CASE RunRenders
  <2>1. PICK m : m = Provenance(Gate)
    OBVIOUS
  <2>2. /\ proc[Gate].at = "render" /\ UNCHANGED <<kind, disk, run, last>>
        /\ proc'[Gate] = [at |-> "compare", made |-> m, next |-> 1]
    BY <1>0, <1>3, <2>1 DEF RunRenders
  <2>3. \/ m.output = Output[<<proc[Gate].config, proc[Gate].source, m.found>>]
        \/ m.output = Output[<<proc[Gate].again, proc[Gate].source, m.found>>]
    BY <1>0, <2>1, RenderedOutput
  <2>4. \A i \in DOMAIN WriteOrder : ~(i < 1)
    BY DEF WriteOrder
  <2>5. ReadInv'
    BY <2>2, <2>3, <2>4, KindKept DEF ReadInv
  <2> QED BY <2>2, <2>5 DEF GrownInv, RunInv, PassedGateIsCurrent, OneGeneration
<1>4. ASSUME NEW r, Ended(r, FALSE), UNCHANGED <<kind, disk>> PROVE RInv'
  BY <1>4 DEF Ended, GrownInv, RunInv, ReadInv, PassedGateIsCurrent, None
<1>5. CASE RunRejects
  BY <1>4, <1>5 DEF RunRejects
<1>6. CASE CompareFile
  <2>0. PICK p, f, m, n : /\ p = proc[Gate] /\ m = p.made /\ n = p.next
                          /\ f = WriteOrder[n]
    OBVIOUS
  <2>1. p.at = "compare" /\ n <= Len(WriteOrder) /\ UNCHANGED <<kind, disk>>
    BY <1>6, <2>0 DEF CompareFile
  <2>2. CASE disk[f] = Content(m, f)
    <3>1. /\ proc' = [proc EXCEPT ![Gate].next = @ + 1]
          /\ UNCHANGED <<run, last>>
      BY <1>6, <2>0, <2>2 DEF CompareFile
    <3>2. proc'[Gate] = [p EXCEPT !.next = n + 1]
      BY <1>0, <2>0, <3>1
    <3>3. ASSUME NEW r \in run
          PROVE  /\ proc'[Gate] = [at |-> "compare", made |-> m, next |-> n + 1]
                 /\ n \in Nat
      BY <2>0, <2>1, <3>2 DEF ReadInv
    <3>4. ASSUME NEW r \in run, r.quiet, n \in Nat, NEW i \in DOMAIN WriteOrder, i < n + 1
          PROVE  r.gate[WriteOrder[i]] = Content(m, WriteOrder[i])
      <4>1. i \in Nat
        BY DEF WriteOrder
      <4>2. CASE i < n
        BY <2>0, <2>1, <3>4, <4>2 DEF ReadInv
      <4>3. CASE i = n
        <5>1. f = "provenance" \/ (f = "output" /\ kind \in TwoFiles)
          BY <2>0, <4>3 DEF WriteOrder
        <5>2. r.gate[f] = disk[f]
          BY <3>4, <5>1 DEF RunInv
        <5> QED BY <2>0, <2>2, <4>3, <5>2
      <4> QED BY <3>4, <4>1, <4>2, <4>3
    <3>5. ReadInv'
      <4>1. WriteOrder' = WriteOrder /\ UNCHANGED <<disk, run>>
        BY <2>1, <3>1 DEF WriteOrder
      <4>2. ASSUME NEW r \in run
            PROVE  \E c \in r.gate.config..disk.config,
                     s \in r.gate.source..disk.source : m.output = Output[<<c, s, m.found>>]
        BY <2>0, <2>1 DEF ReadInv
      <4>3. ASSUME NEW r \in run, r.quiet, NEW i \in DOMAIN WriteOrder, i < n + 1
            PROVE  r.gate[WriteOrder[i]] = Content(m, WriteOrder[i])
        BY <3>3, <3>4, <4>3
      <4>4. ASSUME NEW r \in run
            PROVE  /\ proc'[Gate] = [at |-> "compare", made |-> m, next |-> n + 1]
                   /\ n + 1 \in Nat
        BY <3>3
      <4>5. PICK q : q = proc'[Gate]
        OBVIOUS
      <4>6. ASSUME NEW r \in run
            PROVE  /\ q.at = "compare" /\ q.made = m /\ q.next = n + 1 /\ n + 1 \in Nat
                   /\ q = [at |-> "compare", made |-> q.made, next |-> q.next]
        BY <4>4, <4>5
      <4>7. ASSUME NEW r \in run
            PROVE  \E c \in r.gate.config..disk.config,
                     s \in r.gate.source..disk.source :
                       q.made.output = Output[<<c, s, q.made.found>>]
        BY <4>2, <4>6
      <4> HIDE DEF RInv
      <4> QED BY <4>1, <4>3, <4>5, <4>6, <4>7 DEF ReadInv, Content
    <3> QED BY <2>1, <3>1, <3>5 DEF GrownInv, RunInv, PassedGateIsCurrent, OneGeneration
  <2>3. CASE disk[f] # Content(m, f)
    BY <1>4, <1>6, <2>0, <2>1, <2>3 DEF CompareFile
  <2> QED BY <2>2, <2>3
<1>7. CASE EndRun
  <2>1. /\ proc[Gate].at = "compare" /\ proc[Gate].next > Len(WriteOrder)
        /\ UNCHANGED <<kind, disk>>
    BY <1>7 DEF EndRun
  <2>2. PICK r \in run : Ended(r, StillMatch(r.gate))
    BY <1>7 DEF EndRun
  <2>3. ASSUME StillMatch(r.gate), r.quiet PROVE OneGeneration(r.gate)
    <3>1. PICK c \in r.gate.config..disk.config, s \in r.gate.source..disk.source :
            proc[Gate].made.output = Output[<<c, s, proc[Gate].made.found>>]
      BY <2>1 DEF ReadInv
    <3>2. disk.config = r.gate.config /\ disk.source = r.gate.source
      BY <1>0, <2>3, MatchMeans DEF StillMatch
    <3>3. proc[Gate].made.output =
            Output[<<r.gate.config, r.gate.source, proc[Gate].made.found>>]
      BY <3>1, <3>2 DEF RunInv, GrownInv
    <3>4. \A i \in DOMAIN WriteOrder :
            r.gate[WriteOrder[i]] = Content(proc[Gate].made, WriteOrder[i])
      <4>1. \A i \in DOMAIN WriteOrder : i <= Len(WriteOrder) /\ i \in Nat
        BY DEF WriteOrder
      <4>2. Len(WriteOrder) \in Nat
        BY DEF WriteOrder
      <4> QED BY <2>1, <2>3, <4>1, <4>2 DEF ReadInv
    <3>5. r.gate.provenance = Whole(proc[Gate].made)
      <4>1. \E i \in DOMAIN WriteOrder : WriteOrder[i] = "provenance"
        <5>1. CASE kind \in TwoFiles
          <6>1. 2 \in DOMAIN WriteOrder /\ WriteOrder[2] = "provenance"
            BY <5>1 DEF WriteOrder
          <6> QED BY <6>1
        <5>2. CASE kind \notin TwoFiles
          <6>1. 1 \in DOMAIN WriteOrder /\ WriteOrder[1] = "provenance"
            BY <5>2 DEF WriteOrder
          <6> QED BY <6>1
        <5> QED BY <5>1, <5>2
      <4> QED BY <3>4, <4>1 DEF Content
    <3>6. ASSUME kind \in TwoFiles PROVE r.gate.output = Whole(proc[Gate].made.output)
      <4>1. 1 \in DOMAIN WriteOrder /\ WriteOrder[1] = "output"
        BY <3>6 DEF WriteOrder
      <4> QED BY <3>4, <4>1 DEF Content
    <3> QED BY <3>3, <3>5, <3>6 DEF OneGeneration, Whole
  <2>4. run' = {} /\ \A l \in last' : l = r /\ StillMatch(r.gate)
    BY <2>2 DEF Ended, None, Some
  <2> QED BY <2>1, <2>3, <2>4
          DEF GrownInv, RunInv, ReadInv, PassedGateIsCurrent, OneGeneration
<1> QED BY <1>1, <1>2, <1>3, <1>5, <1>6, <1>7

LEMMA StepRun == Inv /\ RInv /\ [Next]_vars => RInv'
<1> SUFFICES ASSUME Inv, RInv, [Next]_vars PROVE RInv'
  OBVIOUS
<1>0. DOMAIN proc = Writers \union {Gate} /\ Gate \notin Writers
  BY DerivedGatesAssumption DEF Inv, ProcInv
<1>1. ASSUME NEW w \in Writers, NEW force \in BOOLEAN,
             \/ Start(w) \/ ReadSources(w) \/ FindOldLock(w) \/ Stop(w)
             \/ Render(w, force)
      PROVE  RInv'
  <2>1. UNCHANGED <<kind, disk, run, last>>
    BY <1>1 DEF Start, ReadConfig, ReadSources, FindOldLock, Stop, Render
  <2>2. PICK r : proc' = [proc EXCEPT ![w] = r]
    BY <1>1 DEF Start, ReadConfig, ReadSources, FindOldLock, Stop, Render
  <2>3. proc'[Gate] = proc[Gate]
    BY <1>0, <2>2
  <2> QED BY <2>1, <2>3, OthersKeep
<1>2. ASSUME NEW w \in Writers, RemoveOldLock(w) \/ OpenFile(w) \/ FillFile(w)
      PROVE  RInv'
  <2>1. UNCHANGED <<kind, last>> /\ Disturbed
    BY <1>2 DEF RemoveOldLock, OpenFile, FillFile
  <2>2. PICK r : proc' = [proc EXCEPT ![w] = r]
    BY <1>2 DEF RemoveOldLock, OpenFile, FillFile
  <2>3. disk'.config = disk.config /\ disk'.source = disk.source
    <3>1. CASE RemoveOldLock(w)
      BY <3>1 DEF RemoveOldLock, Inv, DiskInv
    <3>2. CASE OpenFile(w) \/ FillFile(w)
      <4>1. proc[w].next \in DOMAIN WriteOrder
        BY <3>2 DEF OpenFile, FillFile, Inv, ProcInv, Writing
      <4>2. PICK x : disk' = [disk EXCEPT ![WriteOrder[proc[w].next]] = x]
        BY <3>2 DEF OpenFile, FillFile
      <4> QED BY <4>1, <4>2, WriteOrderFacts DEF Inv, DiskInv
    <3> QED BY <1>2, <3>1, <3>2
  <2> QED BY <1>0, <2>1, <2>2, <2>3, WritingKeeps
<1>3. CASE BeginDerive \/ AddInput \/ WriteDerived
  BY <1>3, OthersKeep DEF BeginDerive, AddInput, WriteDerived
<1>4. ASSUME NEW f \in Edited, Edit(f) PROVE RInv'
  <2>1. /\ UNCHANGED <<kind, proc, run, last>>
        /\ disk' = [disk EXCEPT ![f] = disk[f] + 1] /\ f \in {"config", "source", "found"}
    BY <1>4 DEF Edit, Edited
  <2>2. /\ disk'.config \in Nat /\ disk.config <= disk'.config
        /\ disk'.source \in Nat /\ disk.source <= disk'.source
        /\ disk'.output = disk.output /\ disk'.provenance = disk.provenance
    BY <2>1 DEF RInv, GrownInv, Inv, DiskInv
  <2>3. GrownInv' /\ RunInv'
    BY <2>1, <2>2 DEF RInv, GrownInv, RunInv
  <2>4. ReadInv'
    <3>1. ASSUME NEW r \in run
          PROVE  /\ r.gate.config..disk.config \subseteq r.gate.config..disk'.config
                 /\ r.gate.source..disk.source \subseteq r.gate.source..disk'.source
      BY <2>2 DEF RInv, GrownInv, RunInv
    <3>2. WriteOrder' = WriteOrder
      BY <2>1, KindKept
    <3> HIDE DEF RInv
    <3> QED BY <2>1, <3>1, <3>2 DEF RInv, ReadInv, Content
  <2>5. PassedGateIsCurrent'
    BY <2>1 DEF RInv, PassedGateIsCurrent, OneGeneration
  <2> QED BY <2>3, <2>4, <2>5 DEF RInv
<1>5. CASE UNCHANGED vars
  BY <1>5, OthersKeep DEF vars
<1> QED BY <1>1, <1>2, <1>3, <1>4, <1>5, RunKeeps DEF Next

\* A gate that passes while nobody generates was derived from one generation,
\* for every kind and however the sources are edited meanwhile (run_gates reads
\* the inputs again after the process of the gate).
THEOREM PassedGatesCurrent == Spec => []PassedGateIsCurrent
<1>1. Init => Inv /\ RInv
  BY InitInv, InitRun
<1>2. (Inv /\ RInv) /\ [Next]_vars => (Inv /\ RInv)'
  BY StepInv, StepRun
<1>3. RInv => PassedGateIsCurrent
  BY DEF RInv
<1> QED BY <1>1, <1>2, <1>3, PTL DEF Spec
=============================================================================
