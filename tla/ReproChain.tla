------------------------------ MODULE ReproChain ------------------------------
(***************************************************************************)
(* `aegisgraph reprochain build|run|map`, aegisgraph/reprochain.py.  Build *)
(* makes a vulnerable and a fixed fuzzer, run counts the crashes each has  *)
(* on the private seeds, map turns the result and the extracted graphs     *)
(* into one evidence record per target.  They are commands of their own    *)
(* that leave files for each other: any of them may be run again, fail, or *)
(* die at any step, and what it and the ones before it left stays.         *)
(***************************************************************************)
EXTENDS Absent, Naturals, Sequences, FiniteSets

CONSTANTS
  Targets,          \* the targets, as a sequence of keys
  Behaviours,       \* what the fuzzers built may do, see Behaviour
  ChainBudget       \* bound of the model: how often each of Kinds may happen

Labels == {"vuln", "fix"}
Kinds == {"build", "run", "map", "extraction"}

(* A graph that has only anchors claims what one by codeql claims.         *)
Phases == {"blocked_pending_extraction", "codeql"}

(* How a built fuzzer behaves on the seeds.  One that hangs, before or     *)
(* after it reported a crash, is stopped after five minutes.  One that was *)
(* not linked to its end cannot be executed.                               *)
Behaviour == {"clean", "crashes", "crashes and hangs", "hangs"}
Unfinished == "unfinished"

ASSUME ChainAssumption ==
  /\ Behaviours \subseteq Behaviour
  /\ Len(Targets) > 0
  /\ ChainBudget \in [Kinds -> Nat]
  /\ None \notin {"ready", Unfinished}

VARIABLES
  binaries,         \* by label, None or the behaviour of the fuzzer on disk
  compiling,        \* labels that a script or compiler is at work on which nobody waits for
  seeds,            \* whether there are seed inputs
  phase,            \* by target, what its extraction graph says
  buildStatus,      \* status in build_manifest.json, or None
  summary,          \* asan_report_summary.json, or None
  runStatus,        \* run_status.json, or None
  perTarget,        \* mapping/<target>.json by target, or None
  mapping,          \* mapping.json: the records, or <<>>
  command,          \* the command under way, or None
  lastBuild,        \* what the last build that reported at all said, or None: history
  left              \* what is left of ChainBudget

chainVars == <<binaries, compiling, seeds, phase, buildStatus, summary, runStatus, perTarget,
               mapping, command, lastBuild, left>>

(* What the commands leave for each other, and for the reviewers.          *)
chainFiles == <<buildStatus, lastBuild, summary, runStatus, perTarget, mapping>>

Spend(kind) == left[kind] > 0 /\ left' = [left EXCEPT ![kind] = @ - 1]

TargetSet == {Targets[i] : i \in DOMAIN Targets}

-----------------------------------------------------------------------------

(* What the fuzzers of a run were when it executed them, by label; without *)
(* seeds, or without the file, it does not.                                *)
Executed(ran, label) == ran[label] # None /\ seeds

(* _run_one_binary and _summarize_asan: the crashes in the log.  What a    *)
(* process had printed is not kept when it is stopped.                     *)
CrashCount(ran, label) == IF ran[label] = "crashes" THEN 1 ELSE 0

\* Seeded fault: the fixed fuzzer need not have run.
IsolatesWithoutFix(ran) == Executed(ran, "vuln") /\ CrashCount(ran, "vuln") > 0

(* The differential: both ran, the vulnerable one crashed and the fixed    *)
(* one did not.  An empty differential isolates nothing.                   *)
Isolates(ran) ==
  /\ Executed(ran, "vuln") /\ Executed(ran, "fix")
  /\ CrashCount(ran, "vuln") > 0 /\ CrashCount(ran, "fix") = 0

OverallStatus(ran) == IF None \in {ran[l] : l \in Labels} THEN "not_run" ELSE "ready"

RecordHash(r) == <<"sha256", r>>

(* The claim of _mapping_record, from what is on disk at this moment, and  *)
(* the run its evidence_refs name.                                         *)
MappingRecord(t, status, diff, previous) ==
  LET ready == status = "ready"
      isolates == diff # None /\ diff.isolates
      reviewed == phase[t] # "blocked_pending_extraction" /\ ready /\ isolates
  IN [ target        |-> t,
       claim_state   |-> IF reviewed THEN "reviewed" ELSE "validation_tasked",
       validation    |-> IF reviewed THEN "passing"
                         ELSE IF phase[t] # "blocked_pending_extraction" /\ ready THEN "ready"
                         ELSE "blocked",
       run           |-> diff,
       previous_hash |-> previous ]

-----------------------------------------------------------------------------

ChainInit ==
  /\ binaries = [l \in Labels |-> None] /\ compiling = {}
  /\ seeds \in BOOLEAN
  /\ phase \in [TargetSet -> Phases]
  /\ buildStatus = None /\ summary = None /\ runStatus = None
  /\ perTarget = [t \in TargetSet |-> None]
  /\ mapping = <<>>
  /\ command = None /\ lastBuild = None
  /\ left = ChainBudget

InStep(steps) == command # None /\ command.at \in steps

(* build runs the script, which makes one fuzzer after the other ...       *)
StartBuild ==
  /\ command = None /\ Spend("build")
  /\ command' = [at |-> "remove", label |-> "vuln"]
  /\ UNCHANGED <<binaries, compiling, seeds, phase, chainFiles>>

(* ... and removes what there was of it first.                             *)
RemoveBuilddir ==
  /\ InStep({"remove"})
  /\ binaries' = [binaries EXCEPT ![command.label] = None]
  /\ command' = [command EXCEPT !.at = "make"]
  /\ UNCHANGED <<compiling, seeds, phase, chainFiles, left>>

(* The linker has opened the file, or has written it.                      *)
LinkFuzzer ==
  /\ InStep({"make"})
  /\ binaries' = [binaries EXCEPT ![command.label] = Unfinished]
  /\ UNCHANGED <<compiling, seeds, phase, chainFiles, command, left>>

MakeFuzzer(does) ==
  /\ InStep({"make"})
  /\ binaries' = [binaries EXCEPT ![command.label] = does]
  /\ command' = IF command.label = "vuln" THEN [at |-> "remove", label |-> "fix"]
                 ELSE [command EXCEPT !.at = "made"]
  /\ UNCHANGED <<compiling, seeds, phase, chainFiles, left>>

InScript == {"remove", "make", "made"}

(* The script ends: with a fuzzer that fails its smoke checks as well, and *)
(* stopped after 900 s, when the compiler it had started may go on; a tool *)
(* or a commit that is missing it notices before it removes anything.      *)
ScriptEnds(outcome) ==
  /\ InStep(InScript)
  /\ outcome = "ready" => command.at = "made"
  /\ outcome = "blocked_pending_toolchain" => command.at = "remove" /\ command.label = "vuln"
  /\ command' = [at |-> "manifest", status |-> outcome]
  /\ \/ UNCHANGED compiling
     \/ /\ InStep({"make"}) /\ outcome = "blocked_build_failed"
        /\ compiling' = compiling \cup {command.label}
  /\ UNCHANGED <<binaries, seeds, phase, chainFiles, left>>

\* Seeded fault: a manifest is written only when the build succeeds.
BuildStatusKept(outcome) == IF outcome = "ready" THEN outcome ELSE buildStatus

(* What the manifest says of the script's end: its exit code and sentinel. *)
BuildStatusOf(outcome) == outcome

WriteBuildManifest ==
  /\ InStep({"manifest"})
  /\ buildStatus' = BuildStatusOf(command.status)
  /\ lastBuild' = command.status
  /\ command' = None
  /\ UNCHANGED <<binaries, compiling, seeds, phase, summary, runStatus, perTarget, mapping, left>>

(* One of those goes on, or comes to its end.                              *)
LateFuzzer(does) ==
  /\ \E l \in compiling :
       /\ binaries' = [binaries EXCEPT ![l] = does]
       /\ compiling' = IF does \in {None, Unfinished} THEN compiling ELSE compiling \ {l}
  /\ UNCHANGED <<seeds, phase, chainFiles, command, left>>

(* run executes the two fuzzers one after the other ...                    *)
Run ==
  /\ command = None /\ Spend("run")
  /\ command' = [at |-> "vuln", ran |-> [l \in Labels |-> None]]
  /\ UNCHANGED <<binaries, compiling, seeds, phase, chainFiles>>

(* ... with an error that nothing catches when one cannot be executed ...  *)
RunOneBinary ==
  /\ InStep(Labels)
  /\ command' = IF seeds /\ binaries[command.at] = Unfinished THEN None
                 ELSE [command EXCEPT !.ran[command.at] = binaries[command.at],
                                      !.at = IF command.at = "vuln" THEN "fix" ELSE "summary"]
  /\ UNCHANGED <<binaries, compiling, seeds, phase, chainFiles, left>>

(* ... and writes the summary before the status.                           *)
WriteSummary ==
  /\ InStep({"summary"})
  /\ summary' = [isolates |-> Isolates(command.ran), ran |-> command.ran]
  /\ command' = [command EXCEPT !.at = "status"]
  /\ UNCHANGED <<binaries, compiling, seeds, phase, buildStatus, runStatus, perTarget, mapping, lastBuild, left>>

WriteRunStatus ==
  /\ InStep({"status"})
  /\ runStatus' = [status |-> OverallStatus(command.ran), isolates |-> Isolates(command.ran)]
  /\ command' = None
  /\ UNCHANGED <<binaries, compiling, seeds, phase, buildStatus, summary, perTarget, mapping, lastBuild, left>>

(* map_targets reads the manifest and the summary once ...                 *)
MapTargets ==
  /\ command = None /\ Spend("map")
  /\ command' = [at |-> "map", status |-> buildStatus, diff |-> summary, records |-> <<>>]
  /\ UNCHANGED <<binaries, compiling, seeds, phase, chainFiles>>

\* Seeded fault: every record starts a chain of its own.
Unlinked(records) == None

PreviousHash(records) == IF records = <<>> THEN None ELSE RecordHash(records[Len(records)])

(* ... and writes one target after the other, each linked to the last.     *)
MapTarget ==
  /\ InStep({"map"}) /\ Len(command.records) < Len(Targets)
  /\ LET t == Targets[Len(command.records) + 1]
         r == MappingRecord(t, command.status, command.diff, PreviousHash(command.records))
     IN /\ perTarget' = [perTarget EXCEPT ![t] = r]
        /\ command' = [command EXCEPT !.records = Append(@, r)]
  /\ UNCHANGED <<binaries, compiling, seeds, phase, buildStatus, summary, runStatus, mapping, lastBuild, left>>

WriteMapping ==
  /\ InStep({"map"}) /\ Len(command.records) = Len(Targets)
  /\ mapping' = command.records
  /\ command' = None
  /\ UNCHANGED <<binaries, compiling, seeds, phase, buildStatus, summary, runStatus, perTarget, lastBuild, left>>

(* The command dies between two steps, and its script with it or not.      *)
CommandDies ==
  /\ command # None
  /\ command' = None
  /\ \/ UNCHANGED compiling
     \/ /\ InStep({"remove", "make"})
        /\ compiling' = compiling \cup (IF command.label = "vuln" THEN Labels ELSE {"fix"})
  /\ UNCHANGED <<binaries, seeds, phase, chainFiles, left>>

(* It dies inside a write: a file that does not parse counts as missing.   *)
CommandDiesInsideWrite ==
  /\ InStep({"manifest", "summary", "status", "map"})
  /\ command' = None
  /\ buildStatus' = IF command.at = "manifest" THEN None ELSE buildStatus
  /\ summary' = IF command.at = "summary" THEN None ELSE summary
  /\ runStatus' = IF command.at = "status" THEN None ELSE runStatus
  /\ IF command.at # "map" THEN UNCHANGED <<perTarget, mapping>>
     ELSE IF Len(command.records) = Len(Targets) THEN mapping' = <<>> /\ UNCHANGED perTarget
     ELSE perTarget' = [perTarget EXCEPT ![Targets[Len(command.records) + 1]] = None] /\ UNCHANGED mapping
  /\ UNCHANGED <<binaries, compiling, seeds, phase, lastBuild, left>>

(* The extraction goes on meanwhile.                                       *)
Extracted ==
  /\ Spend("extraction")
  /\ \E t \in TargetSet, p \in Phases : p # phase[t] /\ phase' = [phase EXCEPT ![t] = p]
  /\ UNCHANGED <<binaries, compiling, seeds, chainFiles, command>>

ChainNext ==
  \/ StartBuild
  \/ RemoveBuilddir
  \/ LinkFuzzer
  \/ \E does \in Behaviours : MakeFuzzer(does)
  \/ \E outcome \in {"ready", "blocked_pending_toolchain", "blocked_build_failed"} : ScriptEnds(outcome)
  \/ WriteBuildManifest
  \/ \E does \in Behaviours \cup {None, Unfinished} : LateFuzzer(does)
  \/ Run
  \/ RunOneBinary
  \/ WriteSummary
  \/ WriteRunStatus
  \/ MapTargets
  \/ MapTarget
  \/ WriteMapping
  \/ CommandDies
  \/ CommandDiesInsideWrite
  \/ Extracted

ChainSpec == ChainInit /\ [][ChainNext]_chainVars

-----------------------------------------------------------------------------

OnDisk == {mapping[i] : i \in DOMAIN mapping} \cup ({perTarget[t] : t \in TargetSet} \ {None})

(* A record that is reviewed names a run in which the vulnerable fuzzer    *)
(* was seen to crash and the fixed one was executed and was not seen to:   *)
(* however the builds, runs and mappings before it ended, wherever they    *)
(* were killed, and whatever fuzzers and files they left.                  *)
(* A fuzzer that is stopped after five minutes was not seen to crash: the  *)
(* vulnerable one then shows nothing, the fixed one counts as clean.       *)
ReviewedWitnessed ==
  \A r \in OnDisk : r.claim_state = "reviewed" =>
    /\ r.run.ran["vuln"] = "crashes"
    /\ r.run.ran["fix"] \notin {"crashes", Unfinished, None}

(* The records of mapping.json are one chain over the targets in order,    *)
(* with graphs that changed between two of them.                           *)
MappingChained ==
  \A i \in DOMAIN mapping :
    /\ mapping[i].target = Targets[i]
    /\ mapping[i].previous_hash = IF i = 1 THEN None ELSE RecordHash(mapping[i - 1])

(* Once a build has come to its end and reported anything but success, no  *)
(* target becomes reviewed until one reports success: whatever fuzzers     *)
(* that build, builds killed inside their scripts and compilers that       *)
(* outlived them leave, and whatever the runs on these show.  (A build     *)
(* killed before its manifest reports nothing, and withdraws nothing.)     *)
FailedBuildWithdraws ==
  [][\A t \in TargetSet :
       perTarget'[t] \notin {perTarget[t], None} /\ perTarget'[t].claim_state = "reviewed"
         => lastBuild = "ready"]_chainVars

=============================================================================
