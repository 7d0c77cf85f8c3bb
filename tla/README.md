# TLA+ models of AegisGraph

AegisGraph is a Python toolchain that collects evidence about secure-messaging
applications: static analysis, differential parsing, harnesses and
reproductions produce *evidence records*; reviewers promote them through claim
states; a hash-chained ledger and a daily job steer coordinated disclosure;
exports leave the repository after a sanitize check. Almost everything is files
in one git checkout, written by short-lived commands that take no locks. What
can go wrong is therefore in what happens *between* commands, and between the
read and the write of one command.

Paths below are relative to `src/`; `l.` is a line number.

## 1. Inventory

### Disclosure ledger: `aegisgraph/disclosure/ledger.py`, `aegisgraph/hashchain.py`
- State: one JSONL file; each line an event with `previous_hash`, `record_hash`.
- Operations: `append` (reads the tail, closes the file, opens it again to
  write), `read_all`, `iter_events`, `verify_chain`.
- Interacts with: the PI who appends, the timer, the gates and the workbench
  scan, which read it, and the tick job, which verifies it first.
- Hard: two writers without a lock; a crash inside the write; a hand edit or a
  merge of branches.
- Correct when: the chain verifies after legal appends; a change to an old line
  is reported for ever; nothing ever links forward.

### Embargo timer: `aegisgraph/disclosure/pipeline/embargo_timer.py`
- State: none; a function of the ledger and the date.
- Operations: `compute_status`: start of the window, next action, days left,
  milestones crossed, per finding.
- Hard: events entered late, backdated, in any order; extensions; one bad
  timestamp; many findings in one file.
- Correct when: file order is irrelevant, findings are independent, a milestone
  is not withdrawn silently, an extension resets the window.

### Embargo tick: `.github/workflows/embargo-tick.yml`, `aegisgraph/cli.py` (`disclose`)
- State: a run's position in its loop, its snapshot `tick.json`; GitHub's issues.
- Operations: verify the chain, compute statuses, per milestone list and create.
- Hard: overlapping runs (no concurrency group), a `gh` command that fails or
  that succeeds and reports failure, a stale snapshot, operators who close issues.
- Correct when: every crossed milestone surfaces, in order, never early, with
  few duplicates.

### Claims, gates, workbench: `aegisgraph/claims.py`, `disclosure/claim_states/`, `workbench/`
- State: evidence records, promotion files `promotions/<date>/<id>+<STATE>.json`.
- Operations: `transition_allowed`; the two gates `enter`; `workbench promote`,
  `show`, `list`, `packet`.
- Hard: promote reads records and writes its file later, while others promote,
  midnight passes or it is killed; ids promoted twice, on one date or on two;
  two ways (gate and promote) into the disclosure states.
- Correct when: a public record has its ledger events; promotions are additive;
  each is linked to the record its id names.

### Public export: `aegisgraph/export.py`, `validation.py`, `safety.py`, `validator/sanitize_check.py`
- State: the tree `exports/public-sanitized`, the private manifest, the
  validation report.
- Operations: `validate`, `export --private`, `export --public-sanitized`
  (sanitized report, hashes, the gate of ADR-0011, manifest, page of exclusions).
- Hard: the gate looks at the tree before two of its files are written; a death
  leaves files of two exports; the page of exclusions names what is forbidden.
- Correct when: a manifest that authorizes describes a tree that passes the
  check as it lies on disk, and exporting again does not lose that.

### Reviewer packet: `aegisgraph/workbench/packet_export.py`
- State: the directory `<out>/<date>/`, never cleaned.
- Operations: `workbench packet`: two files per finding, bundle, manifest,
  checksums, the sanitize check, the final manifest, its checksum.
- Hard: a second packet of the day over the first; records that change between
  the listing and the pages; death between manifest and checksum.
- Correct when: what verifies and says "pass" is clean, the command's end leaves
  a directory that verifies, and the manifest agrees with the records beside it.

### Reproduction chain: `aegisgraph/reprochain.py`, `reprochain/build.sh`
- State: two fuzzers, the build manifest, the run's summary, the mapping.
- Operations: `build` (a script that removes and makes the fuzzers one after the
  other, then the manifest), `run`, `map`, each a command of its own.
- Hard: a build that fails after one that succeeded, one that is killed or stopped
  inside its script, with the script or a compiler going on; fuzzers that hang,
  graphs that are extracted meanwhile, files of different runs read together.
- Correct when: a record is `reviewed` only on a run that showed the difference,
  and a build that reports failure withdraws what earlier ones allowed.

### Differential parsing: `aegisgraph/polydiff/`, `polydiff/`
- State: per run, the vectors so far and the records so far; the fuzzer's queue,
  kept inputs and axes seen.
- Operations: `run_regression` of six families; detector, triage; the fuzzer.
- Hard: decoders that are missing, hang, exit badly or print no JSON; stubs; a
  deadline at any moment.
- Correct when: what failed makes no finding, one more decoder never lowers a
  class, every axis reported has its input.

### Producers over files
| Part | Files | Hard | Correct when |
|---|---|---|---|
| Baseline delta, `baseline_delta/` | outputs of three tools, report, checksums | what a failed tool left in an earlier run | no finding of another run is reported, each coordinate is added or shared |
| Harness generation, `harnessgen/` | harness source, build file, manifest | deaths between them, newer templates, names of categories searched in set order | the manifest describes its files, one crash has one record as long as its text names one category |
| Seeding, `harnessgen/corpus/` | a corpus of hash names | a file read twice, a short file under a full hash | no entry ever changes |
| Invariant runners, `invariants/runner/` | a SARIF file per engine | a file of an earlier commit, never removed nor looked for | a run that wrote its file is the one whose results become records |
| SMABench, `smabench.py`, `smabench/` | results per date, `latest` | death while `latest` is exchanged, a generator that fails in one iteration | `latest` shows one run, "byte identical" is true of the disk |
| Traceability, `validator/traceability_matrix.py` | the matrix | files that come and go while it looks, claims without an id | no claim is backed by what never was there |

### Left out
Vendor routing and CERT/CC drafts (a lookup in a fixed table, then rendering),
cross-SMA candidates and extraction adapters (text matching and parsing into
graphs, in one call), scoring (a weighted sum), the docker runner (starts a
container and reports), the clusterer, schema validation and templates. None has
state that outlives the call. `PROJECT.json` lists them with this reason.

## 2. Modules

| Module | Models | Checked by | Proved in |
|---|---|---|---|
| `ChainedLog` | what ADR-0014 promises: an atomic log | | |
| `DisclosureLedger` | `ledger.py` over a file, in two steps | `MCDisclosureLedger` | `DisclosureLedgerProofs` |
| `EmbargoTimer` | `embargo_timer.py` over a growing ledger | `MCEmbargoTimer` | `EmbargoProofs` |
| `EmbargoTick` | the workflow; extends `EmbargoTimer` | `MCEmbargoTick` | `EmbargoProofs` |
| `Claims` | claim states and `transition_allowed`, pure | through `Workbench` | |
| `DisclosureGates` | the two gates; extends `Claims` | through `Workbench` | `WorkbenchProofs` |
| `Workbench` | promote and scan; extends `DisclosureGates` | `MCWorkbench` | `WorkbenchProofs` |
| `Sanitizer` | the sanitize check and the safety flags, pure | through `Release`, `ReviewerPacket` | |
| `Release` | validate and both exports; extends `Sanitizer` | `MCRelease` | `ReleaseProofs` |
| `ReviewerPacket` | the packet of one date; extends `Sanitizer` | `MCRelease` | `ReleaseProofs` |
| `ReproChain` | build, run, map | `MCEvidence` | `EvidenceProofs` |
| `PolyFamilies` | five families: dispatch, comparison, triage, records | `MCEvidence` | `PolydiffProofs` |
| `UrlParsers` | the URL wrappers, normaliser, detector, classifier, pure | through the next two | `PolydiffProofs` |
| `UrlRegression` | the URL family's regression; extends `UrlParsers` | `MCEvidence` | `PolydiffProofs` |
| `UrlFuzzer` | the fuzzing loop | `MCEvidence` | `ProducerProofs` |
| `BaselineDelta` | the tools, their files and the delta report | `MCEvidence` | `ProducerProofs` |
| `HarnessGen` | harness generation and crash records | `MCEvidence` | `ProducerProofs` |
| `SeedCorpus` | the seeding of a libFuzzer corpus | `MCEvidence` | `ProducerProofs` |
| `InvariantRunners` | both runners and the consolidation | `MCEvidence` | `ProducerProofs` |
| `SMABench` | a run, its files, the pointer to the latest | `MCEvidence` | `EvidenceProofs` |
| `Traceability` | the matrix over files that change | `MCEvidence` | `EvidenceProofs` |
| `Absent` | the constant `None` they share, and a dictionary completed with defaults | | |
| `DataLemmas` | lemmas on least and greatest elements, finite sets and lists | | itself |

`PROJECT.json` maps each definition to its lines. Definitions under a
"Seeded fault" comment are plausible wrong versions of the definition they
precede. No specification uses them; they are there to show, by putting one in
the place of the right version, that the properties can fail.

### Correspondence

**Ledger.** `lines` is the file line by line, a line being a parsed event or
`Unparsable`; `terminated` says whether the file ends in a newline, for text
appended to an unfinished line runs on in that line. `append` is `ReadTail`
(l. 81-84) and then `WriteLine` (l. 85-88), the finalized event waiting in
`draft`. `DieBeforeWrite` and `DieInsideWrite` are its crashes. `history` is a
ghost variable: what was handed to the write calls. `EditPayload` is the one
action outside the code, the tampering that `verify_chain` exists for.

**Timer.** `events` is what `read_all` returns, `today` the date. Each value
`compute_status` computes is an operator of its own. A date is a number of days;
`Malformed` is a timestamp that does not parse.

**Tick.** A run is `idle`, about to `list`, or about to `create`; `todo` is what
is left of `tick.json`. `StartRun` is one step because verification, statuses and
loop all work on one checkout. `CommandFails` ends a run (`check=True`, or the
timeout of the job); `CreateLandsButFails` is the create whose effect took place.
`BreakLedger` is the ledger becoming damaged, after which runs fail at their first
step; `DisclosureLedger` is where that is explained.

**Gates.** `ledger` is a sequence of pairs (finding, event type) or torn lines;
`LedgerHasEvent` keeps the laziness of the code, which does not reach a torn line
behind a match. `Enter` puts the new state in the place of the old: no code of the
repository persists what `enter` returns, and this is what its docstring asks of
the caller.

**Workbench.** An id `AG-EV-1+LIMITED+RETIRED` is the sequence of its parts.
`Promote` is the read half of the command, with its checks; `WritePromotion` and
the two crashes are the write half. `FindRecord` is the scan: sorted paths, so for
promotions of one id the earliest date wins, and a file that does not parse is
passed over. The engines' files come before the promotions.

**Sanitizer.** What a regular expression matches is data: a record carries the
set of the rules its values and keys match (`texts`, `keys`), a document those its
path, body and quoted raw inputs match. Which rules apply to which record or
document, and in which context, is the code's control and is modelled. A file cut
short does not parse, and what its text matched may be lost with the missing part.

**Exports.** A step is one write (or one read that later steps use): `job.at` and
`command.at` say which is next. `Die` may come between any two, `DieInsideWrite`
and `PacketDiesInsideWrite` inside one: files are opened with `"w"`, so the old
content is gone. `NewReport` is the regression that makes the report anew;
`RecordWritten` and `RecordUnreadable` are what a later scan of the packet
command may find changed. A packet command lists a set of findings and takes the
`First` of those left at each step; `Before` is the sort key of the listing.

**Reproduction chain.** A fuzzer is how it behaves on the seeds, or `Unfinished`
while it is linked. `StartBuild` to `WriteBuildManifest` are `reprochain.build` with
its script: per label `RemoveBuilddir` (`build.sh` l. 100-104), `LinkFuzzer` and
`MakeFuzzer`; `ScriptEnds` at any of these, with the exit the script has there, and
only then the manifest. `compiling` has the labels on which a script or a compiler
works that nobody waits for: the command was killed (`CommandDies`), or it stopped
the script after 900 s and the compiler went on; `LateFuzzer` is their work, at any
time, under other commands as well. `Run` executes what is on disk fuzzer by fuzzer
(`RunOneBinary`: a stopped one has an empty log, an unfinished one raises), and
writes summary and status in two steps. `map` reads manifest and summary once and
then writes target by target. Every write may be cut short.

**Families.** The operators of the five families take the family as their first
argument; a run has one in `family`. A fact vector is a function on the family's axes; a decoder's answer
says on which axes it differs from the usual one. `Dispatch` and its variants turn
each way of failing into the vector of that family. `RunWrapper` is one decoder,
`EmitRecord` one case.

**URL.** An axis that is null in the code is not in a vector's domain. A reading is
what a parser made of the URL; both wrappers derive their axes from it.

**Harnesses.** The category of a crash report is a sequence of words: what it says,
then the place that some tools put behind it. `NormalizedCrashClasses` is the set of
the classes that `normalize_crash_class` may return: any known category that is found
as a part of a word, for the loop walks a set whose order changes from process to
process, and otherwise the text up to its first separator, without a line number.

**Runners.** A tool's exit and whether it wrote its file are independent choices in
`RunCodeqlOrSemgrep`: the code neither removes the old SARIF nor looks for a new one,
and takes the exit's word. `wrote` remembers the choice.

**Traceability.** `SkipClaim` passes over a claim without an id (l. 240-241), whose
artifacts are in `ClaimArtifacts` all the same (l. 290-295).

**Packets.** A record has the fields that the projection reaches (`fields`, and
`nested` below an object or an object in a list), those it does not reach (`buried`,
in a list that is an item of a list), and what its texts match.

**Fuzzer.** The queue, the axes seen and the kept inputs; `mutate` may reach any
input; whether a base is taken up again is a choice, as in the code (one in five).

**Baseline, runners, harnesses, seeding, SMABench, traceability.** Each file is a
variable that keeps what was last written; a tool run is one step that may write,
write nothing or be stopped; the status it returns is what readers go by. History
components (`silent`, `of`, `touched`, `always`, `never`, the reports in
`crashRecords` and `violations`) serve the properties only.

**Composition.** `Release` and `ReviewerPacket` share the check and are run one
beside the other in `MCRelease`. The producers share no variable with each other;
`MCEvidence` picks one (`active`) and lets it run while the others stand still.
That is the sum of their state spaces in place of the product and loses no
behaviour of any of them.

## 3. Runs

| Run | Property | What it shows |
|---|---|---|
| `ledger_single` | `ChainIntact`, `ImplementsChainedLog` | one writer that may die before its write: every file verifies, and the two-step append is the atomic `Add` of the ADR |
| `ledger_faults` | `TypeOK`, `EditsFlagged`, `LinksPointBack`, `AppendNeverRepairs` | two writers, all crash points, edits: changed lines are named, links never point forward, damage stays visible |
| `ledger_two_writers` | `ChainIntact` violated | two appends link to the same line |
| `embargo_timer` | `OrderIrrelevant`, `OnlyExtensionWithdraws`, `ClocksIndependent` | two findings, every order and dating of three events |
| `embargo_extension` | `ExtensionResetsWindow` violated | contact, extension, acknowledgement: the extension is gone |
| `embargo_tick` | `TypeOK`, `DuplicatesBounded`, `LadderInOrder`, `NeverEarly`, `MilestoneSurfaces` | two overlapping runs with failures, closed issues, a ledger that may break |
| `workbench` | `PublicHasEvents`, `SupersedesLinked`, `PromotionsAdditive` | two reviewers over two dates with crashes, together with the gates |
| `promote_bypass` | `PublicHasEvents` violated | `promote --to disclosed_public` with an empty ledger |
| `promote_twice` | `PromotionsAdditive` violated | a promotion repeated on one date replaces the file |
| `release` | `AuthorizationBacked`, `AuthorizationKept`, `PassedIsClean`, `EndsVerified`, `ManifestMatchesRecords` | exports and packets with deaths everywhere, reports and records that change, a second command over the first |
| `evidence` | 14 invariants and 3 action properties, one to three per producer | ten producers with failing tools, deaths, reruns and changing inputs |
| `absent_parser` | `HighMeansRejected` violated | protobuf: one decoder that works and one that is not installed give class HIGH |

The properties of `evidence`, by producer: reproduction chain
`ReviewedWitnessed`, `MappingChained`, `FailedBuildWithdraws`; families
`AbsenceIsNoise`, `NeverLowered`; URL `RediscoveryWitnessed`; fuzzer `AxesKept`;
SMABench `LatestOfOneRun`, `DeltaReplays`, `IdenticalMeansWhole`; baseline
`NoStaleFindings`, `CoordinatesAccounted`; harnesses `HarnessDescribed`,
`CrashStable`; seeding `SeedsStable`; runners `ViolationsWitnessed`; traceability
`EvidenceAccounted`. Each is stated in words before its definition.

The five violated properties are what a document or a comment of the repository
says; `findings` in `PROJECT.json` quotes each. ADR-0014 (l. 30) has the CLI take
a file lock that the code does not take; the comment at `embargo_timer.py:92-94`
has extensions reset the window; `claim_states/__init__.py` has both disclosure
states guarded by ledger events; `workbench/cli.py:12-18` has promotions
additive; `polydiff/core/triage.py:697-699` has HIGH mean that one implementation
decoded cleanly while another crashed or rejected the input.

### Bounds, and why they are enough

- Ledger: at most five lines with one writer, four with two. A fork needs two
  writers and two lines; that an edit or a fork stays visible behind later appends
  needs two more. Two events tell a changed payload from the original.
- Timer: three events, three dates, a term of 1 or none (the default, scaled down to 2). The start of the
  window depends on the earliest contact and the latest event; the third event
  (extension, tie, backdated contact, other finding) is the one that interferes.
  Milestones 1 and 2 stand for 7 to 90 days; the second equals the default term,
  as 90 does.
- Tick: two runs, one finding, two milestones, three days, two events. Duplicates
  need two runs; the order of the ladder two milestones; a run cut short and
  finished by another one more start. One finding is enough here because the loop
  treats the titles of all findings in one sequence, and the theorems cover any
  number.
- Workbench: two reviewers, two dates, ids of at most three parts, two ledger
  lines. Shadowing by id needs two dates, a link between promotions three parts,
  the gates one event each; a second finding id on the ledger shows that events
  of others do not count. Symmetry is used for reviewers only (and for writers and
  events of the ledger), in runs without liveness.
- Exports: reports and hand-placed files that do and do not match a rule; any
  number of exports, for the states repeat. Two packet commands of one day and one
  change of a record: the second command writes over what the first left, at every
  point of either.
- Reproduction: two targets (a chain needs two), one of them blocked or extracted at
  any moment, two builds, one run and one mapping: a build that fails or dies at any
  step after one that succeeded, before and after each of the other commands, and
  scripts and compilers that go on under them. `UnderTheirReaders` in `MCEvidence` lets
  the extraction and those compilers act only while the command that reads their work
  is under way: there is one `run` and one `map`, so that an earlier step can be put off
  until then and a later one is seen by nobody. The theorems know no such limit. The
  fuzzers made crash, or crash and then hang; one that hangs without a crash, or is
  clean, is counted like the latter.
- Families: per family every decoder class (always there, may be missing, stub),
  one axis per triage class, every status a pair of which decides; image with two
  cases, for the chain of records.
- URL: every historical case alone, and one with a baseline case after it; three
  readings that differ on every axis compared, and each way to fail.
- Fuzzer: three inputs and the axes two of them share, four mutations.
- SMABench: one generator, one target, two dates, two runs and a change: linking
  after copying and the reverse, each killed anywhere.
- Baseline: one target, two runs; a location that two tools report and one with two
  categories.
- Harnesses: four paths (native, native static, and two of the JVM), two
  versions; crash reports: a known name, one that is a part of another, two in one
  text, none, and each kind of place behind it; seeding: three files with two contents, three steps of the
  environment; runners: two engines, two targets at two commits;
  traceability: claims with two, one and no artifact and one without an id, three
  changes or runs.

`MaxLines`, `MaxEvents`, `MaxDay`, `MaxLedger`, `MaxLineage`, `MaxCommands`,
`MaxChanges` and the constants named `...Budget` are guards of the environment's
actions and of the start of commands; no theorem depends on their values. Deadlock
is not checked where the bounds end all activity.

### Fairness

Only `embargo_tick` has liveness. `WF(StartRun)` is the cron schedule: a run that
can start will. Strong fairness of the success of list and create, per title,
says that a command which fails now and then succeeds if it is tried for ever;
failures themselves are not fair and may be as frequent as they like otherwise.
Operators, the PI and the clock have no fairness.

### Assumptions of the environment

- SHA-256 has no collisions; a digest stands for its payload.
- A search of GitHub's issues sees every issue whose create command has returned.
- The write of one line is not mixed with that of another (a single `write` call
  in append mode).
- The result of a gate is persisted in place of the record it was called with.
- For `workbench`, `PromotionsStay` and `LineageLinked`: nobody makes one promotion
  twice on one date (`RepeatsAllowed = FALSE`). `promote_twice` shows what happens
  otherwise.
- For `workbench` and `PublicIsBacked`: reviewers do not name `disclosed_public` as
  a target (`LeftToGates`). `promote_bypass` shows what happens otherwise.
- Two commands of one kind on one directory do not overlap (one export, one packet,
  one run of a producer at a time): they are started by hand or by make.
- The files put into the public tree by hand are there before the first export and
  none is called `manifest.json` (`ReleaseAssumption`).
- The fuzzer and the runners are given what they ask for: finite sets of axes
  (`FuzzAssumption`), at least one target (`DeltaAssumption`, `ChainAssumption`).
- A scan of the workbench finds finitely many records, each with a state
  (`PacketAssumption`).
- A corpus is a list, and its family one of the five (`FamilyAssumption`); the cases
  of a URL corpus have distinct ids, and those marked historical are the ones
  `build_corpus.py` marks (`UrlAssumption`).
- No generator of the benchmark is listed twice (`BenchAssumption`); a claim has a
  list of artifacts, and an id or none (`TraceAssumption`); a crash report's text is a
  sequence of words (`HarnessAssumption`).
- Two commands of the reproduction chain do not run at once; the scripts and compilers
  that outlive a command may run beside any other.

## 4. Proofs

All theorems hold for every value of the constants under the named assumptions
of the modules.

**Ledger.** `LedgerTypes`, `LedgerLinksPointBack`, `LedgerEditsFlagged` and
`LedgerNeverRepaired` assume nothing about the number of writers, crashes or
edits. `LedgerNeverRepaired` follows from the type invariant and the fact that a
non-empty file is all that can lack its newline. The other two are not inductive
alone. The invariant behind them says that as long as the file is readable, it has exactly one line per entry of
`history`, each line's stored digest is that of its *original* payload, and each
draft's link is the stored digest of a line already on the file: an edit changes a
payload and leaves the digest behind, which is why it is found.
`OneWriterKeepsChain` assumes one writer and no edit, and allows every crash;
`OneWriterImplementsADR` assumes also that no write is cut short. Their invariant
adds that the draft is linked to what is *now* the tail.
With two writers that conjunct fails, and that is the violation of
`ledger_two_writers`.

**Timer.** The properties are action properties, proved step by step from the type
invariant and from the existence of least and greatest elements of finite sets of
numbers (`DataLemmas`): after an append that is no extension, the earliest
contact can only move back and the latest event is no extension unless it was one.

**Tick.** `TickLeavesLedger` shows that the job implements the timer's
specification, so the timer's theorems hold of the composition. `TickNeverEarly`
rests on the invariant that every title in a run's `todo` was crossed by an event
that stays on the ledger; `TickLadder` on the invariant that a lower milestone of
a title in `todo` is in `todo` too or was opened; `TickDuplicates` counts, per
title, open issues plus runs about to create it.

**Workbench.** `Shape` gives ids their structure and has no file dated after
today. `PromotionsStay` follows: a new file of an id has the latest date so far,
and the scan takes the earliest. `LineageLinked` strengthens `SupersedesLinked`
to the files hidden by another of the same id and to the commands under way.
`PublicIsBacked` needs the invariant that an embargoed record has its contact
event already, for the second gate does not look for it.

**Order of the ledger.** `TimerOrderIrrelevant` holds because what the timer
computes is a function of the *set* of the lines' contents per finding: a
permutation keeps that set (`LinesPermuted`), and the earliest contact, the latest
event and its term depend on nothing else. Ties on a timestamp are excluded by the
property, as the code breaks them by position.

**Exports.** `AuthorizationBackedHolds` needs to know what an export's own files add
to the check: the manifest matches no rule and the page of exclusions is exempt, so
the tree that was checked and the tree that is published pass together. Its invariant
says so of the finished tree and of the export under way, with the exception of a
report written after the last manifest. `PassedIsCleanHolds` says of a command under
way what is already on disk, step by step: that between the first manifest and the
last checksum nothing verifies that is not also clean. `ManifestMatchesRecordsHolds`
needs the invariant `RecordsInv`: a command writes, for each finding it listed and
has done, the record as it was when listed (`WrittenInv`), so that each is in the
state the manifest will name; and any files that match checksums which are whole
have records and a manifest that match (`MatchedInv`), whatever was written over the
directory since.

**Reproduction chain.** `ReviewedWitnessedHolds` carries the run named in a record from
the two executions through the summary and the command that reads it (`ChainInv`);
that fuzzers are removed, replaced or finished meanwhile disturbs nothing, because a
record speaks of the run and not of the files that are there now.
`FailedBuildWithdrawsHolds` needs that the manifest on disk, and the one a mapping
under way has read, says "ready" only if the last build that reported did.

**Crashes and runners.** `CrashStableHolds` shows for any words, reports and order of
the set that a text with one name at most has one class (`ClassOfWhatIsSaid`), and
that a place behind it is taken off (`PlaceIsStripped`). `ViolationsWitnessedHolds`
follows `wrote` from the tool to the record: the file a run has written is the file
it is consolidated from (`SarifInv`), whatever is read of runs that wrote none.

**Other producers.** The other theorems of `ProducerProofs` are invariants over the files and the command under way;
`NoStaleFindingsHolds` is the long one, as a tool may fail at each of its writes.

**Benchmark.** A run is known by its number. `LatestOfOneRunHolds` rests on two facts:
a whole file in the directory of a date is of a run that had the date (`DatedInv`), and
the whole files under `latest` are of runs that had one date, which is the date of the
run at hand while it fills a `latest` it has cleared (`LatestInv`).
`IdenticalMeansWholeHolds` follows the two iterations (`IterationInv`): once both are
done, each corpus is as the second iteration reports it. `DeltaReplaysHolds` is the
arithmetic of added and removed items over the baseline that the run read.

**Traceability.** `MatrixInv` keeps for a run under way what was on disk all the time
(`always`) and never (`never`): what was looked up, the rows and the orphans are sound
against both, and what always was is in a row, an orphan, or still to do.
`EvidenceAccountedHolds` is that at the end of the list; a claim without an id is passed
over and keeps it (`SkipClaimKeeps`).

**Differential parsing.** `FamilyInv` says that each vector is what a wrapper made of a
reply that the history holds, and each record was triaged from the vectors of its case;
then decoders that are all absent agree on every axis (`AbsentAlike`), and no
difference is noise. `NeverLoweredHolds` is about triage itself: one more vector takes
no axis and no value from the disagreement (`DiffGrows`), and per family each rule that
fired before fires still or gives way to one as severe, whether it asks for a pair of
statuses from the table, an axis, or both. `RediscoveryWitnessedHolds` uses that
parsers which fail or reject yield vectors on `SilentAxes` alone, that each historical
case expects an axis beyond those, and that two values on an axis are of two profiles,
as each is asked once per case.

**Model-checked only.** Of the properties that hold, `MilestoneSurfaces` alone:
liveness under fairness is beyond the prover. Also everything the violation runs show,
which are counterexamples.

## 5. What is not covered of the modelled parts

- Truncation of the ledger from its end: `verify_chain` cannot see it.
- The tick searches open issues only, so that an issue closed by an operator is
  opened again by the next run; the model does so too, and no property forbids it.
- A retired lineage can be promoted again from its original record, whose state
  does not change; promote consults one record, not its descendants.
- The second gate accepts any earlier `embargo_expired` of the finding, also
  before a later extension.
- Rendering, and the evidence references of `workbench show`; `show` scans twice, so
  what it displays may be of two moments.
- A fixed fuzzer that hangs counts as one that does not crash: the contract of the
  chain is `fix_crash_count == 0`.
- A build killed inside its script reports nothing. The manifest of the build before
  it stays, and with a "ready" there `map` goes on making `reviewed` records of the
  earlier summary, although the fuzzers may be gone or others. `FailedBuildWithdraws`
  speaks of builds that came to report.
- A text that names two known categories, or one in its path, has whichever class the
  order of the set gives: the comment "exact match first" (`harnessgen.py:94`) is not
  what the loop does. `CrashStable` leaves such texts out.
- An accepted exit without a file has the SARIF of an earlier run read as its own,
  under the new commit; `ViolationsWitnessed` leaves those runs out.
- An artifact that only claims without an id name has no row, although it counts as
  claimed; and where the docstring (`traceability_matrix.py:29-31`) asks for one artifact on disk
  and a requirement, "ok" in the code needs all artifacts and no requirement.
- A list that lies directly inside a list is copied into the packet as it is
  (`packet_export.py:217-219`, `232`), with blocked fields below it, although
  the comment at l. 39 has them "NEVER copied". What fields remain in a record is therefore not
  claimed; that a packet which passes matches no rule of the check is.
- An entry of a seed corpus that was cut short is taken as seen for ever.
- A run of SMABench that uses the date of an earlier one writes over it;
  `LatestOfOneRun` excludes that.
- The manifest of a dry export is not written; it differs from that of a real run in
  `dry_run` and in the hash of the sanitized report, where the docstring
  (`export.py:121-122`) calls them identical.

## 6. Running

    tlc -config ledger_faults.cfg MCDisclosureLedger
    tlapm WorkbenchProofs.tla

With two workers `evidence` (1.1 million states) and `release` take about a minute and a
half, the others less than one; the proofs a few minutes.

## 7. Plan

What would add most next:

1. The gates over `DisclosureLedger` itself in place of the abstract sequence, by
   refinement, so that the gate's theorem speaks of the file.
2. `GateSpec` as an abstract specification that `Workbench` implements.
3. Cross-SMA candidates, for the supersession of a candidate by a validated cell.
4. An overlap of two packet commands of one day.
