# Chromifer in TLA+

Chromifer plans and supervises the migration of Chromium components from C++ to
Rust. It is a set of Rust crates behind one command line; there is no daemon.
The commands read and write files that people edit in between, that other
commands use at the same time, and that an interrupted command leaves behind.
Those are the behaviours modelled here: long sequences of legal commands and
edits, reads that are stale when they are used, machines that change under a
running command, and commands that die half way.

## Components

| crate | state it keeps | operations | what makes it correct |
|---|---|---|---|
| `chromifer-manifest` | the migration manifest: modules with a state, dependency edges with a boundary label and reviews, gates, targets | `load`, `validate`, `MigrationState::next` | no reference dangles, no state past `legacy_cpp` without a gate |
| `chromifer-planner` | none | `assess_transition`, `migration_frontier` | no unaudited edge between Rust and foreign code, whatever the order of promotions |
| `chromifer-gn` | none | `import_gn_project` | the imported graph is the closure of the roots; inferred states come with a gate |
| `chromifer-source` | none between scans; at most 8 worker threads during one, which share a counter | `scan_manifest` | no module is scanned twice or lost, whoever fails; decisions of maintainers survive a rescan |
| `chromifer-owners` | during a scan, the OWNERS files parsed so far | `scan_ownership` | owners are what the files mean, however they include each other |
| `chromifer-components` | none | `analyze_components` | one component has one set of owners; a ready one has no blocker outside of it |
| `chromifer-coverage` | none | `generate`, `verify_report_manifest` | the sums are those of the manifest named |
| `chromifer-evidence` | an evidence directory: logs and bundles under their digests | `run_gates`, `verify_evidence` | a verified bundle says what happened; nothing passes that was not run on its declared inputs |
| `chromifer-attestation` | key, public key and signature files | `sign_and_write`, `verify` | a verified signature binds the exact evidence bytes |
| `chromifer-gates` | a derived manifest | `derive_and_write` | what a gate pins is of one generation, and a gate that passes is current |
| `chromifer-integration` | an overlay in a GN source tree | `run_integration` | the source tree is left as it was |
| `chromifer-build`, `chromifer-cabi`, `chromifer-mojo`, `chromifer-checkout`, `chromifer-safety` | generated files and locks | `generate`, `check` | outputs and the provenance that describes them agree |
| `chromifer-migration` | a pilot's record: parity, performance, exposure | `validate`, `measure_exposure` | no pilot is complete with an open gate |
| `chromifer` (CLI) | none | one subcommand per operation | an answer is about the files as they were |

The components meet through files. `import-gn` writes a manifest; `scan-boundaries`
and `scan-owners` annotate it; `rank-components` proposes from it what to migrate
next; maintainers edit it; `check-transition` reads it and, optionally, a
bundle that `run-gates` wrote for exactly these manifest bytes; `derive-gates`
turns provenance files of the generators into gates of a manifest; `run-gates`
runs commands, among them Chromifer's own `--check` commands and
`run-gn-integration`, as child processes. Nothing locks any of these files.

## What is hard here

* The planner judges a manifest that has changed by the time a maintainer acts
  on the answer; each answer skips edges to neighbours that are already Rust.
* The executor reads inputs, executables and the checkout before and after a
  child process it does not control; the child, its descendants and anybody
  else change them at any time.
* Artifacts are stored without a temporary name, in a directory that several
  processes may share and that a dead process leaves as it is.
* `run-gates` and `check-transition` read the manifest twice, its bytes first and
  what they work with afterwards; nothing keeps an editor from saving in between.
* A pilot's record is filled in over months, field by field, and moved from one
  upstream revision to another; the validator only ever sees one version of it.
* A generator writes an output and a provenance that describes it, one file after
  the other, in place; others read both, and generate at the same time.
* Scan workers share a counter and are joined in turn; one may fail while others
  have not started.
* OWNERS files include each other, in circles too, and are read once in the course
  of a scan that takes long enough for them to be edited.
* A bundle is signed while a run may still be writing it, to a name that may lead
  to the bundle or to the key, by a command that may die.
* The overlay is built out of existence checks and creations in a tree that
  others use, and is removed by a guard that a kill skips.

The hazards are listed, each at its line, in `PROJECT.json`.

## Modules

### `Ownership`, `Lifecycle` (planner, manifest, import, scan)

`Ownership` states the planner's promise and nothing else: components become
Rust-owned one at a time, and only when every edge that then crosses the
language border is audited.

`Lifecycle` is the manifest. `state`, `boundary`, `reviews` and `gates` are its
fields, `approved` the answers of `check-transition` that nobody has acted on
yet. `Init` is the GN import (`infer_state`, `infer_boundary`). `Assess` is the
command; its guard `Allowed` is the absence of blockers in `assess_transition`.
`Scan` is `scan_manifest` with `merge_reviews`: it may meet any evidence and any
findings. `Promote`, `Classify`, `Resolve` and `SetGates` are the edits the
documents ask of maintainers: an approval is written down as it was given,
however old it is; an edge is classified once, and relabelled `rust` only between
Rust components. That maintainers keep to this is an assumption: a hand edit that
turns an audited edge back into an unaudited one is outside of what the program
can prevent, and the model leaves it out.

### `SourceScan` (source)

`scan-boundaries` from the first thread to the merged manifest. `Begin`, `Take`,
`ScanModule` and `Join` are the pool of `scan_modules`: a worker takes the next
number, scans that module or ends with an error, and is joined in its turn.
`Relate` finds what the collected modules say of each other (`Evidence`, `Seen`),
`Merge` writes labels and findings. In between scans, `Edit` and `Resolve` are
developers and maintainers. A line is the record of what the scanner finds in it;
which lines are inside of an `extern "C"` block is computed as the code does it,
by counting braces (`CAbi`), and so is which dependency an include is of
(`Matching`). The sources are taken not to change while a scan runs, and findings
to be resolved between scans only; the output of a scan becomes the manifest of
the next one. `ImplementsLifecycle` shows that each merge is one of the scans
`Lifecycle` allows for.

### `OwnersScan`, `Components`, `Candidates` (owners, components)

`OwnersScan` is `scan_ownership`: `NextSource`, `Look` and `Open` walk up from a
source, `Directive`, `ReadIncluded` and `Return` are `resolve_directives` with its
include stack, `Leave` ends a directory. A file is read when it is met first and
kept (`parsed`), while others edit, add and remove files. A line is what
`parse_owners` makes of it; patterns are matched character by character
(`GlobMatches`), because what `*`, `?` and `...` match is what decides. `Spell`
gives the characters of a name and leaves most of them out.

`Components` is `analyze_components` without its report: groups by owners and place,
identifiers, contracted edges, concerns, risk. `Words` is what `sanitize_id` makes
of a name. The hash that tells apart identifiers that are taken is taken to be
injective.

`Candidates` composes them: `Rank` reads a manifest that the scan has annotated and
a coverage report, and `Planner` is `Lifecycle` instantiated on the same manifest,
so that what ranking calls ready can be held against what the planner refuses.

### `GnImport` (GN import)

`import_gn_project` as two worklists and a search. `ResolveLabel` is what `build_aliases` and
`resolve_label` make of a name: a target's own label, else the one target of the
default toolchain it is short for. `Select` is one turn of `select_root_closure`,
`Visit` one call of `collect_effective_dependencies`; in between, `BeginModules`
resolves everything selected again and asks for a gate. The import ends with
`manifest.validate`, of which the search for a circle of modules is modelled
(`Enter`, `Leave`: `find_cycle` with its stack and the modules it is through): a
circle of targets is contracted, one of modules fails the import. The rest of
`validate` is about what the importer itself writes down, a project name, paths, a
gate per target, and is left out. The code takes labels in
the order of its vectors and of its recursion, the model in any. Sources are
reduced to what they say of a target, module ids and the summary are left out,
and the states and boundaries of modules are `Lifecycle`'s `Init`.

### `EvidenceVerify`, `GateRun` (evidence)

`EvidenceVerify` holds what `verify_evidence` asks of a bundle by itself;
`GateRun` produces the bundles. The executor is a program counter through
`run_gates` and `execute_gate`: first snapshot, and for every gate the first
input check, resolution of the program, spawn, the `try_wait`/deadline/kill loop,
the second input check, the second identification of the executable, and at the
end the second snapshot and the verdict. Between any two of these steps the world
may edit a file, move HEAD or replace a program (`EditFile`, `MoveHead`,
`ReplaceProgram`), a child may exit, the deadline may pass. A digest is the
version it was taken of; a git snapshot is the revision with the set of files git
status lists; a program version may be one whose entry is gone, or an empty file.
Of a message the model keeps whether there is one and whether it ends in a space:
`run_git`'s does when git fails without a word (`GitErrors`), and the verifier takes
no such message.

What the runner writes down and its own verifier refuses is `Unverifiable`: a gate
stopped at its inputs, the padded message, a program that was an empty file before or
after the gate, one that is named with a space at an end (`Padded`), and a submodule
status that its lines do not give back (`Garbled`, names that are not UTF-8).
`OwnBundlesVerify` says that the verifier refuses those bundles and no others. The
checks of absolute paths, of the shape of digests, revisions and branch names, and of the
status count are left out: the runner writes what `canonicalize`, SHA-256 and git give
it. A kill reaches the child only; what a killed gate of either kind has
started may go on (`orphans`). What a gate that exited by itself leaves behind counts as
somebody else (`disturbed`).

### `ObjectStore`, `ContentStore` (evidence directory)

`ObjectStore` is what a reader of an evidence directory relies on: complete
objects only ever appear, a bundle after all its logs. `ContentStore` is
`write_content_addressed` as several runs execute it: create, write, or compare
with what is there; a write may fail, a run may die anywhere and be repeated.
A crash of the machine, which may lose bytes that were written and never synced,
is not modelled.

### `Attestation` (attestation)

`Attestation` extends `ContentStore`: runs store bundles while `sign` and `derive`
commands read one, check their output against their inputs (`RejectAlias`), empty
the output and fill it. A name leads to a file, to nothing or is a symbolic link;
names are moved between commands only (`Relink`), since what happens to them in
the middle of one cannot be seen by it. A signature is the evidence and the key it
was made with, which is perfect cryptography. `made` is a history of what was ever
signed.

### `Overlay` (integration)

`Overlay` is `run_integration` in a tree of paths: the existence checks,
`track_missing_parents`, the copies, the host adapter, the output directory, and
the two ways out, `cleanup` and `Drop`, one path at a time. A run may fail at any
step, be killed, and be given again. `owner` remembers who created what.

### `TransitionCheck` (check-transition with evidence)

One manifest that maintainers edit, `run-gates` leaving bundles for it, and
`check-transition`, which loads it, verifies a bundle and answers. Both commands
are two steps, one per read of the manifest (`RunReadsBytes`, `RunLoadsAndRuns`;
`CheckReadsBytes`, `CheckAnswers`), and edits fall in between. What a run does
while it runs is `GateRun`'s matter: here it takes effect at once. Both extend
`EvidenceVerify`, so the verdict of a bundle is the same operator in both. Somebody
may edit a bundle, which keeps its name (`EditBundle`: a pass written over a gate's
result, with any verdict), rename it for the digest of what it holds now (`Refile`),
or remove a log (`LoseLog`). A log is what a gate wrote; it has no status in it. A
bundle that was edited and renamed is one `verify_evidence` takes for what it says:
the code protects against accidents, docs/gate-evidence.md leaves the rest to signatures, and those are
`Attestation`'s. `AllowedGatesRan` therefore excepts the contents somebody has renamed a file
for (`refiled`). `runs` is a history of what was executed and passed; no part of the
program has it. Attestation fields of a bundle are `GateRun`'s and left out here.

### `PilotRecord` (migration)

`rec` is `pilot.toml` with its parity, performance and exposure records. A commit
is any edit whose result `MigrationEvidence::validate` accepts: `Valid` and its
parts translate the validator, and every action is one kind of edit guarded by
it. Results carry the revision at which they were obtained as a ghost, which is
what the properties are about and what the files have no place for. Maintainers
are taken to be honest: they record what ran, at the revision pinned then.

### `DerivedGates` (build, C ABI, Mojo, safety, checkout, coverage, gates)

Two generators, `derive-gates` and a run of the derived gate, all on the same
files. `kind` is the kind of check; the six kinds differ in when the
configuration is hashed (`HashedLate`), whether sources have a digest
(`PinsSources`), whether there is an output beside the provenance (`TwoFiles`),
in what order inputs are read (`Inputs`) and which are compared with a recorded
digest (`Digested`, `AcceptsProvenance`), each from the crate's own code. A
generator reads its configuration, then its sources, renders, and truncates and
fills one file after the other; it may die at every step.

What a generator finds is a file of its own, `found`: the Rust files below a
directory, and the paths a coverage report resolves (`Finders`). It is read with the sources, what was found is
listed in the provenance, and it is an input of no gate: a new source changes
`found` and no declared input, and the check of a gate fails after it.
`UntouchedGatePasses` has that as a condition. Whatever else no input declares,
the `is_file` probes of Mojo imports among it, may fail a check too (`RunRejects`), for any kind.

Two kinds are unlike the others:

* a checkout lock is written under another name and renamed, after `--force` has
  removed the old one (`FindOldLock`, `RemoveOldLock`). It has exact digests of
  some files and a semantic one of the rest: `Plain[s]` is what of the sources
  `s` the first kind covers, the second is part of its output. The commit and the
  status of the checkout are inputs of no gate; they make the check fail by
  `RunRejects`.
* a coverage report hashes the manifest it reads first and parses the one it reads
  next (`again`). `derive-gates` finds the difference by computing the sums again
  (`SumsAgree`).

`AddInput` is one `InputSet::add`. The gate reads its inputs, generates again with
`--check`, compares and reads its inputs again. The sources of a generator are one
file, read in one step together with what there is to find; the writing of the derived manifest is one step; and the
source manifest and the gate contract, which are inputs of every gate and compared
with nothing, are left out.

## Runs

| run | instance | what it shows |
|---|---|---|
| `lifecycle` | a chain of a C++, a bridged and a Rust-owned component, two findings, two gates | the crossings stay audited, stale approvals are safe, the order of promotions is free, decisions survive scans, the planner implements `Ownership` |
| `gate_run` | a shell gate and a direct gate, or a direct gate named with a space; one input, four program versions (one a vanished entry, one an empty file), two revisions (one with odd submodules), a git that may fail with or without a word, four attestation policies, with and without fail-fast | what a bundle claims happened; which of its own bundles the verifier refuses; the run ends |
| `gate_run_stopped` | the same, without empty files, odd names and failing gits | a gate stopped at its inputs makes the bundle unverifiable (a finding) |
| `content_store` | two runs with a common log, one with an empty log too, two attempts each; two signing commands among four, to a name that may lead to the bundle or the key | complete bundles have complete logs, in every interleaving and after every death; what verifies was signed; no command changes what it reads |
| `overlay` | two runs under one directory, one with the adapter, a developer's file | the tree is left as it was |
| `gn_import` | five targets with aliases, a name that may be ambiguous and one that nothing has, circles, 40960 projects and options | what is selected, how contracted targets are replaced, that an import fails exactly for a bad root, a dangling name, a missing gate or a circle of modules; that it ends |
| `transition_check` | two versions of a manifest with two gates: one declares only the first, the other both, and defines the first differently; gates write one of two logs | what an answer with evidence rests on, whatever is edited in between; that good evidence is not refused |
| `pilot_record` | two revisions, one of which misses a budget; one platform, case and suite; both values of `rust_value` | what a record that the validator let through says |
| `pilot_record_revision` | the same | parity evidence of an earlier revision completes a pilot (a finding) |
| `source_scan` | three modules, two workers, two scans and one edit between them | the pool loses nothing and ends, C symbols are those of nested blocks, a second scan of the same sources changes nothing, a scan is one the lifecycle allows |
| `candidates` | three OWNERS files with up to five contents each, three manifests: one scanned while a file is edited, one with a path that leads out, one ranked with 258 variants of what maintainers wrote and three coverage reports | owners are what the files mean; a scan ends, and fails only for a reason; ranking keeps owners apart, and agrees with the planner outside of a component |
| `derived_gates` | all six kinds, two generators, three versions per file, two edits | a derived gate pins one generation, can pass, and says what is current when it does |

The bounds. Three components in a chain give the planner a module with both
incoming and outgoing edges to neighbours in every combination of states. Two
gates are enough for one that stops another and for records of both kinds. Two
contents per file and two revisions distinguish changed from unchanged; four
program versions distinguish changed, gone and empty. In `gate_run` versions only grow
(`Restores = FALSE`); a change that is undone between two reads is invisible to
the executor, which the hazards list says. Two runs are the least that interfere
in a store or a tree; two attempts are the least that meet leftovers of their
own. One bundle file at a time (`MaxBundles`) is what an answer is about; a run is
independent of the bundles that are there. Two revisions are one move, after
which everything that was obtained before is of another revision. The rows of a
matrix are independent of each other, so one of each kind is enough. Two
edits (`MaxEdits`) fall before and after any one read, on one file or on two, of
the configuration, the sources and what there is to find;
three versions keep an edited file apart from both earlier ones, and the third
version of the sources renders to the same output as the first, so that equal
outputs do not mean equal sources. To a checkout lock (`Plain`) the third differs
from the second only in files of which it has a semantic digest. Files never return
to an earlier version.

`derived_gates` has a state constraint, `OneCommand`. `derive-gates` and the gate
write nothing the other reads, so every interleaving of both has the same outcome
as one of them after the other; a run that has ended changes nothing but `last`,
so what follows it follows the state without it. The generators are symmetric.

The projects of `gn_import` have one path through two contracted targets, which
may be circular, a diamond behind the application, and a library that is
depended on by its short name; that is the least in which a search can go round,
stop short or run on.

In `source_scan` three modules are more than the two workers, so that one takes
a second module, and enough for a worker to fail before, while and after the
other scans; two scans are the least that show what a rescan changes. In
`candidates` a file may be edited, added or removed once at any step of a scan,
before or after it is read, in two directories; five contents of a file hold
includes by both kinds of path, twice, in circles over two files and three, to
another repository and to a file that is missing. Only the manifest
that is scanned undisturbed is ranked in all its 258 variants, times what owners
were found. In `content_store` two commands
(`MaxCommands`) are the least that meet what a dead one left.

Fairness. `RunEnds`, `ImportEnds`, `PoolEnds` and `ScanEnds` need some. In
`gate_run` the executor is a sequential program, so it is weakly fair; time
passes, so `Expire` is. Nothing is assumed of the children: one that never exits
is killed at its deadline. A kill that is refused by the system ends the run
with an error, which `RunEnds` counts as an end. The importer of `gn_import` is
one sequential function, so its steps are weakly fair. So is the scan of
`candidates`, whatever is edited beside it, and so are the
threads of `source_scan` taken together: some thread that can run does; edits, resolutions and the start of a scan are not.

Four runs do not check deadlock, because they may stop: an import has ended or
failed (`gn_import`), the manifest is ranked or the scan refused (`candidates`),
the bounds on scans and edits are reached and nothing is left to resolve
(`source_scan`), every run has ended and every command was called
(`content_store`).

Four more places where documents and code disagree were met. An unclassified
edge to a component that is Rust-owned already does not block a transition
(docs/architecture.md:26 against `assess_transition`); `CrossingsAudited` is
about edges between Rust and foreign code, which this one is not. A partial log
under a content address, left by a run that died or still in the making, ends
every run that prints the same bytes with an error (docs/gate-evidence.md:51
against `write_content_addressed`); `BundlesAreWhole` is what that refusal buys.
With `--path-depth 1` Blink's modules are grouped under `third_party` and are
not recognised as a deferred runtime component (docs/component-ranking.md
against `migration_scope`); `candidates` uses the default depth of two. And the inputs
of a derived gate are the files its provenance lists, while generators walk
directories (chromifer-cabi/src/lib.rs:299): docs/structured-gates.md:3 has the
gates "declare every file whose bytes define the check", and a new file below
`src/` is one they do not declare.

Next to many definitions stands a variant marked "Slip": the same definition with
a mistake a programmer could make. They are not part of any specification;
`PROJECT.json` names, for each property, one that the property rules out.

## Proofs

`LifecycleProofs` proves for every module graph, finding, gate and import:
`TypeCorrect`, `CrossingsSafe`, `ApprovalsStaySafe`, and that `Lifecycle`
implements `Ownership`. The invariant is `IInv`: `CrossingsAudited` is not
inductive, because a promotion acts on an approval given earlier; what makes it
so is `ApprovalsSafe`, that an approval's boundaries stay safe until it is used.
That needs two facts: a neighbour's promotion only removes crossings, and no edit
or scan takes an audited label away. `PromotionOrderIsFree` and
`PromotionsStayIndependent` follow from what a promotion asks of its neighbours:
where boundaries are justified, reviews resolved and gates there, each unfinished
component has a next step (`PromotionOrderIsFree` also needs `NativeEdges`: `rust` labels
are found only between Rust-owned components), and no promotion takes away another
one's permission. `DecisionsAreKept` says that no scan undoes what a maintainer has
decided.

Of `GnImport`, for any project, any options and any order of work, it proves that
the selection is the least set closed under eligible dependencies
(`SelectionExact`), that a module's dependencies are its nearest modules over
contracted targets (`EdgesExact`), and that whether an import fails is decided
by the project alone (`FailureDetermined`), its circles of modules included. The references are least sets,
stated without recursion. The invariant has the usual two halves for a worklist:
what was met lies in every closed set, and what was met is closed up to what is
still pending. The search for a circle has two more: the modules it is in lead
to each other in the order of the stack, so one that is met again closes a circle;
and the modules it is through are no part of one, because they lead only to others it was through
before.

`SourceScanProofs` proves for any manifest, any number of workers and any sources
that the pool reads each module once (`PoolReadsEachModuleOnce`), that a rescan
of unchanged sources changes nothing (`RescansChangeNothing`), and that a scan is
one step of `Lifecycle` (`ScanIsOneStep`, and with the initial states
`ScanRefinesLifecycle`: what is proved of manifests holds of scanned ones). The
invariant of the pool is that every module before the shared counter is with
exactly one worker (`Taken`, `Separate`), what a worker holds is what its modules'
files hold (`ReadSoFar`), and what was joined is the union of what the joined
workers hold (`JoinedSoFar`); counting is then adding the cardinalities of
disjoint sets. For the rescan, `Settled` follows the merge: while no source has
changed since the last scan, the manifest is what merging would make of it.

That a dependency counts as C ABI exactly when its ends share a symbol
(`CAbiEvidenceExact`) compares two counters of braces, which are kept at zero, with
blocks, which are sums of braces since a line that opened one. `CounterNests` is the
argument: a counter that is positive is the sum since some opening line, no sum
since another one that is still open exceeds it, and where the counter was kept at zero
every earlier block is closed. The symbols then follow line by line
(`LineAdds`, `ScanFindsSymbols`). That `FoldLeft` makes one step per line is
`ScanUnfolds`.

`EvidenceProofs` has two parts: the executor that writes bundles, and the check
that reads them. They share no variable, and no proof of one uses an assumption of
the other.

* Of `GateRun`, for any gates, programs, files, versions and policies: the verifier
  refuses exactly the bundles that are `Unverifiable` (`BundlesVerify`), and after a run
  that passed on a machine only its gates have touched the checkout is still the one
  on record (`PassedCheckoutsStand`). When no version comes back
  (`~Restores`), gates that passed were started on their declared inputs and ran the
  program on record (`PassedGatesRanAsRecorded`), and a run that passed from a clean
  checkout saw no edit between its snapshots (`CleanPassSawNoEdit`). With `Restores` the last two are false, and of the
  code too: it compares what it reads before and after a gate. The invariant
  is `Inv`. Every selected gate is to do, skipped or
  recorded (`Partition`); the evidence in the making and every record bear out
  their own verdict (`CurrentSound`, `RecordsSound`); a child is there exactly
  while the executor waits for one (`ChildAwaited`); and descendants that were left
  behind come with a gate that timed out (`OrphansTimedOut`). Where versions only
  grow, `Grown` adds what lies between what was read first and what is there now. The
  executor takes the least gate that is left, which there is because the order of
  the naturals is well founded.
* Of `TransitionCheck`, for any manifests, gates and bundles: a promotion evidence
  allows rests on gates that ran and passed, as the manifest of the answer defines
  them, unless the bundle was edited and renamed (`TransitionsBacked`); and a bundle
  whose run and whose check had read and loaded the same versions, with every declared
  gate passed and its logs in place, is never refused for what other gates did
  (`EvidenceCounts`). The invariant
  says that every bundle that has the name of its content is one a run has
  produced or one somebody has renamed: a bundle that was only edited has lost its
  name, because a name holds the whole content.

`AttestationProofs` begins with the store: for any runs, logs and attempts complete
bundles have complete logs (`BundlesStayWhole`), and `ContentStore` implements
`ObjectStore`. The strengthening is `StoredSoFar`: what a run has got past is
complete. It rests on `OnlyGrows`: `create_new` never touches a file that is there.
For any runs, commands and names, a command keeps its inputs (`InputsStay`) and
what verifies was signed (`VerifiedWasSigned`). The first rests on `KeepsOff`: from
the check of names to the end of a command its output is either no input or nowhere,
and then gets a file of its own. The second follows signatures: each one in a file
was made, and so was the one in the command's hands.

`MigrationProofs` is about a migration in the checkout and on record; the two parts
share nothing. Of `Overlay` it proves for any tree and any runs that nothing present before is
removed (`SourceTreeSafe`). The invariant is `GuardsAvoidPresent`, with what each
run has seen missing between its check and its creation; it rests on the tree's
closure: below a path that was missing nothing was present. Two more theorems
need more of the runs, and `MCOverlay` meets both hypotheses:

* a run that ended and was not killed leaves only its Ninja output
  (`OverlayRemoved`), for runs that are `Apart`: none of them may remove a directory
  that another one's destination lies in, and `build` is there. Without it TLC finds a
  directory that stays: one run makes and
  tracks it, another finds it there, the first removes it, and the second's
  `create_dir_all` makes it again, tracked by nobody. The proof also uses that the
  directories above a path are a chain.
* a build sees only the package and the adapter of its own run (`OwnBuilds`), when
  nobody else writes where it builds from (`OwnDestinations`): the checks that a path
  is missing and its creation are steps of their own.

Of `PilotRecord` it proves for any revisions and any edits the validator accepts
that a claimed rollback was built (`RollbackBuilt`) and that a complete pilot
meets its budgets at the pinned revision (`CompleteMeetsBudgets`). A valid
record is not enough: `Honest` adds that results are of the revision their
record is for, and that a build without Rust dependencies is one of the fallback
value.

`DerivedGatesProofs` proves for any kinds, writers and outputs that a derived
gate pins the output its provenance describes, and for kinds that hash what they
parsed or whose sums are computed again one generation (`GenerationPinned`), and
that generating again makes what is there as long as the gate's inputs are unchanged and the
generator finds what it has listed (`UntouchedPasses`). The invariant follows a provenance through the system: what
a generator is about to write is genuine (`ProcInv`), so is what is on disk and
not torn (`DiskInv`), and what `derive-gates` has pinned so far agrees with the
provenance it read before (`DeriverInv`). That the two files on disk may be of
different generations is why the agreement has to be established while reading,
and why each `InputSet::add` compares. A gate that passed says what is current
(`PassedGatesCurrent`), unless somebody generated at the same time: sources never
return to an earlier version, so what a check has read lies between what the gate
pins and what is on disk, and when those are equal there was no other.

`CandidatesProofs` proves of the ranking of components, for any modules, OWNERS files
and edits of them, manifests and coverage reports:

* two modules have the same identifier exactly when they have the same owners and
  place (`ComponentsAreGroups`), however names are reduced to words: an entry without
  a hash is new when it is made, and one with a hash is of a group that occurs once.
* a component pays nothing for coverage only when it is covered
  (`NoPenaltyWithoutCoverage`). The sums over its sources are compared part by part: a
  ratio rounded down to all is one of all, and a penalty rounded up to nothing is one
  of nothing.
* the planner has no blocker on the border, at the gates or in the reviews of a ready
  component (`ReadyComponentsUnblocked`). The theorem has two hypotheses, which
  `MCCandidates` meets and which the counts of `summarize_component` need. Some target
  is required: otherwise a component with a gate counts as covered, and a module
  of it that has none is one the planner blocks. And the label `rust` joins
  Rust-owned modules only (`NativeManifests`): ranking does not count such an edge as
  unaudited, whoever owns its ends.

The invariant is `Written`: what is ranked is a manifest over the modules
that were scanned, with numbers that are counts. Sums, maxima and identifiers are
folds.

Of the scan of OWNERS files it proves, for any files, patterns, includes, sources and
number of edits, as long as no file appears or disappears on the way:

* the owners found are those that the files mean as they were read
  (`OwnersAreAsMeant`);
* a scan fails exactly for a reason (`ScanRefusesForAReason`).

Code and reference share little here. The scan matches a pattern a row at a time, walks
up one directory after the other and follows includes with a stack; the reference cuts
a text into one piece per token, looks at all directories at once, and takes
the files that are reached by includes. Four things bridge them:

* `GlobMeans`: a cell of the row that `glob_matches` keeps is true exactly when there is
  a cut of the text so far into pieces for the tokens so far.
* `ReachLeast`: what `Reach` computes in as many rounds as there are files is the least set
  that is closed under includes. Each round that adds a readable file leaves one
  fewer to add, so after that many rounds nothing is added.
* `ReachStays`: reading one more file, or editing one that was read, changes nothing of
  what was reached through files that were read. `ReadsMore` is why the cache of
  parsed files makes that so: `Keeps`, what was read is never read again.
* `Climb`: each file on the stack is reached from every file below it. A file that is
  included while it is on the stack therefore reaches itself (`StackCircle`), and that is
  the only way a circle is reported.

The invariant is `ScanInv`. Every finished source has the owners that its directories
mean (`Results`, by `Finished`), and the one in hand those of the directories
it has left (`Walked`). On the stack each frame has carried out what is due in
its file and no longer to do (`UnderWay`); to have carried out an include is to have
collected all that is reached by it (`Complete`), or to have the included file next on
the stack. `LayerSays` is the other half, that the layer has no owner of a file that is not
reached. When the last frame is empty the two halves meet: the layer is what the
reference says of the directory. `FinishedIsMeant` then goes from the directories of a
source to its owners.

`Folding` has the lemmas about the community modules' folds that the last module and
`SourceScanProofs` share. A fold is a function chosen over all subsets of a finite
set, so each proof about one has a lemma that such a function exists (`SumExists`,
`MaxIn`; `NamesExist` and `ScansExist` beside their folds), by counting up to the
size of the set; `Induct` is the counting, stated of a set of numbers because a
predicate cannot be a parameter. `SumAdds` says that a sum does not depend on what is
taken first. For a fold over a sequence, `FoldExists` has the function, `FoldSteps`
follows it position by position and `FoldStays` keeps it in a set that every step
stays in; `Recursion` is the same of any function given by its first value and the step
to the next. `FlattenIs` is what `FlattenSeq` of a list of lists holds.

The type invariants of `Lifecycle`, `ContentStore`, `Overlay`,
`TransitionCheck`, `PilotRecord` and `GnImport` are proved, not run: no instance
says more than the proof. Those of `GateRun` and `SourceScan` are the conjuncts
`Types` of the invariants above.

The assumptions are those named in the component modules: edges join distinct
modules, an import past `legacy_cpp` has a gate, paths have their parents and the
parents of a path are a chain, the manifest names a module once, there is a
worker, braces on a line are counted, a gate has at most one program, and, for ranking, modules, required targets
and sources are finitely many, reports cover no more lines than they count and
labels are those the manifest allows; for the scan of owners (`OwnersAssumption`),
files are finitely many, and manifests, lines, patterns and paths are lists, of names
that have a spelling unless they are `.` or `..`. The two theorems about `Overlay`, the two about
`GateRun` and the one about ready components that have hypotheses of their own state
them.

Only model-checked:

* liveness: `RunEnds`, `ImportEnds`, `PoolEnds`, `ScanEnds`. It needs fairness and
  ENABLED, which the prover does not have.

Every invariant and every action property that a run checks is a theorem as well;
the two runs that find a disagreement with the documents stay TLC's.

Four definitions were changed for a proof that did not go through. `Rank` now writes
out the fields of the manifest it makes, which were merged by an operator the prover
does not know. `AfterJoin` and
`NormalizeJoin` were CASE expressions whose guards overlapped. CASE has no first
arm that counts: TLC takes one that holds and the prover knows of none. They are
nested conditions now. `NormalSource` filtered names with `SelectSeq`, which the prover
cannot unfold; it says step by step what is kept. In `Open` and in the properties of the scan
the text and the source are bound by quantifiers over sets of one element rather than
by LET: that is the same formula, and TLC evaluates them once.

## Plan

1. Done: the manifest's life, the executor, the store and the signatures of what is in
   it, the overlay, the check with evidence, the pilot's record, the GN import, the way
   from generators to derived gates, the source scan with its workers, OWNERS
   resolution and the ranking of components; the theorems above.
2. An audit of a checkout whose commit, metadata and GN files move between its reads,
   with validation by a live GN.
3. The aggregation of coverage reports beside a reference definition.
4. The integration check of `derive-gates`, which has no report of its own, and
   integration evidence.

## Not modelled

Text processing (C ABI, Mojom, GN and Rust generation, the recognition of what
is in a line by `chromifer-source`, `chromifer-owners` and `chromifer-safety`),
the wording of messages, JSON and TOML, the counts and summaries of reports, the
module ids and the summary of an import, cryptography and collisions of hashes,
path normalisation other than that of OWNERS includes, and the Python and shell
harness of the pilots under `migrations/`, which is I/O around external tools.

Some errors are one with others that have the same effect. A source root that is not a directory
(`InvalidSourceRoot`) ends the scan of owners before it begins, and has no state. A source
path that cannot be put in the form of the repository (`InvalidSourcePath`) fails a scan of
sources as one that cannot be read does (`Locked`). The strings of a pilot's
implementation are there or not. `PresentStays` is about paths that were there
before the runs; a file that somebody puts into a directory that was missing when a
run looked is removed with that directory, and no property says otherwise.
