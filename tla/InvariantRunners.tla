--------------------------- MODULE InvariantRunners ----------------------------
(***************************************************************************)
(* aegisgraph/invariants/runner: run_codeql and run_semgrep leave a SARIF  *)
(* file of one commit of a target, and consolidate_sarif makes AG-IV-*     *)
(* records of it.  The file stays where it is, whatever comes of the next  *)
(* run, and only the status of that run says whether it may be read.       *)
(***************************************************************************)
EXTENDS Absent, Naturals, Sequences, FiniteSets

CONSTANTS
  Engines,          \* the engines used: "codeql", "semgrep"
  Scanned,          \* the targets at their commits: [target, commit]
  Results,          \* what a tool may report: [rule, place, level]
  EngineBudget      \* bound of the model: runs and changes of the machine

VARIABLES
  installed,        \* the engines on PATH
  inputsMissing,    \* engines whose database, query, rules or source is not there
  sarif,            \* by engine, the results in the file at its output path; none when it
                    \* is not there or cannot be read
  engineRun,        \* by engine, the last RunResult with what it was asked to scan and, as
                    \* history, whether the tool wrote a file
  reported,         \* <<engine, scanned, result>> of the runs a tool ended in success: history
  violations,       \* <<scanned, the result, whether it wrote, record>>: history but for the record
  engineLeft

engineVars == <<installed, inputsMissing, sarif, engineRun, reported, violations, engineLeft>>

RuleToInvariant == [ r1 |-> "INV-01", r2 |-> "INV-02" ]
Reports == {R \in SUBSET Results : Cardinality(R) <= 1}

RunnersInit ==
  /\ installed \in SUBSET Engines /\ inputsMissing = {}
  /\ sarif = [e \in Engines |-> {}]
  /\ engineRun = [e \in Engines |-> None]
  /\ reported = {} /\ violations = {} /\ engineLeft = EngineBudget

SpendEngine == engineLeft > 0 /\ engineLeft' = engineLeft - 1

MachineChanges ==
  /\ SpendEngine
  /\ \/ installed' \in SUBSET Engines /\ UNCHANGED inputsMissing
     \/ inputsMissing' \in SUBSET Engines /\ UNCHANGED installed
  /\ UNCHANGED <<sarif, engineRun, reported, violations>>

RunResult(e, scanned, status, wrote) ==
  engineRun' = [engineRun EXCEPT ![e] = [of |-> scanned, status |-> status, wrote |-> wrote]]

SkippedPendingToolchain(e, scanned) ==
  /\ SpendEngine /\ e \notin installed
  /\ RunResult(e, scanned, "skipped_pending_toolchain", FALSE)
  /\ UNCHANGED <<installed, inputsMissing, sarif, reported, violations>>

InputNotFound(e, scanned) ==
  /\ SpendEngine /\ e \in installed /\ e \in inputsMissing
  /\ RunResult(e, scanned, "failed", FALSE)
  /\ UNCHANGED <<installed, inputsMissing, sarif, reported, violations>>

\* Seeded fault: what semgrep accepts is accepted from codeql as well.
AcceptsFindings(e, exit) == exit \in {0, 1}

(* semgrep exits with 1 for findings; codeql exits with 0 or has failed.   *)
AcceptedExit(e, exit) == exit \in (IF e = "semgrep" THEN {0, 1} ELSE {0})

(* What the tool itself means by success.                                  *)
Succeeds(e, exit) == exit = 0 \/ (e = "semgrep" /\ exit = 1)

(* The tool exits, and has written the file or left what was there before: *)
(* the file is neither removed before the run nor looked at after it.      *)
RunCodeqlOrSemgrep(e, scanned) ==
  /\ SpendEngine /\ e \in installed \ inputsMissing
  /\ \E exit \in 0..2, wrote \in BOOLEAN, R \in Reports :
       /\ RunResult(e, scanned, IF AcceptedExit(e, exit) THEN "ran" ELSE "failed", wrote)
       /\ sarif' = IF wrote THEN [sarif EXCEPT ![e] = R] ELSE sarif
       /\ reported' = IF wrote /\ Succeeds(e, exit) THEN reported \cup {<<e, scanned, r>> : r \in R}
                      ELSE reported
  /\ UNCHANGED <<installed, inputsMissing, violations>>

(* timeout_seconds is over: the tool is killed, before, inside or after    *)
(* its write.                                                              *)
EngineTimesOut(e, scanned) ==
  /\ SpendEngine /\ e \in installed \ inputsMissing
  /\ \E wrote \in BOOLEAN :
       /\ RunResult(e, scanned, "failed", wrote)
       /\ IF wrote THEN \E R \in Reports : sarif' = [sarif EXCEPT ![e] = R] ELSE UNCHANGED sarif
  /\ UNCHANGED <<installed, inputsMissing, reported, violations>>

-----------------------------------------------------------------------------

ViolationId(target, result) == <<target, RuleToInvariant[result.rule], result.rule, result.place>>

(* Rules of other packs and results without a file or a line are left out. *)
OurResults(results) == {r \in results : r.rule \in DOMAIN RuleToInvariant /\ r.place # None}

SeverityOf(result) == IF result.level \in {"error", "warning", "note", "none"} THEN result.level ELSE "warning"

ConsolidateSarif(results, e) ==
  LET run == engineRun[e]
  IN { <<run.of, r, run.wrote,
         [ violation_id |-> ViolationId(run.of.target, r),
           rule_id |-> r.rule, rule_engine |-> e, severity |-> SeverityOf(r),
           location |-> <<run.of.commit, r.place>> ]>> : r \in OurResults(results) }

(* The records are made for the target that was asked for, of the file at  *)
(* sarif_path; without one, "the consolidator just gets an empty record    *)
(* list" (codeql_runner.py:21).                                            *)
Consolidate(e) ==
  /\ engineRun[e] # None
  /\ violations' = violations \cup
       (IF engineRun[e].status = "ran" THEN ConsolidateSarif(sarif[e], e) ELSE {})
  /\ engineRun' = [engineRun EXCEPT ![e] = None]
  /\ UNCHANGED <<installed, inputsMissing, sarif, reported, engineLeft>>

RunnersNext ==
  \/ MachineChanges
  \/ \E e \in Engines, scanned \in Scanned :
       \/ SkippedPendingToolchain(e, scanned)
       \/ InputNotFound(e, scanned)
       \/ RunCodeqlOrSemgrep(e, scanned)
       \/ EngineTimesOut(e, scanned)
  \/ \E e \in Engines : Consolidate(e)

RunnersSpec == RunnersInit /\ [][RunnersNext]_engineVars

-----------------------------------------------------------------------------

(* Every record is of a result that its engine reported, in a run that the *)
(* tool ended in success, of just that target at just that commit, however *)
(* many runs failed, were skipped or were killed, and whatever files they  *)
(* left: unless the run it was made of had written none at all, when the   *)
(* file of an earlier one is read as its own.                              *)
ViolationsWitnessed ==
  \A v \in violations :
    LET scanned == v[1]  result == v[2]  wrote == v[3]  record == v[4]
    IN wrote => <<record.rule_engine, scanned, result>> \in reported

=============================================================================
