----------------------------- MODULE BaselineDelta -----------------------------
(***************************************************************************)
(* `python -m aegisgraph.baseline_delta`: runs CodeQL, Semgrep and MobSF   *)
(* on each target, takes what AegisGraph found there, and reports what     *)
(* only AegisGraph found.  Nothing in the output directory is ever removed *)
(* so what a tool wrote in an earlier run is there when it fails in a      *)
(* later one.                                                              *)
(*                                                                         *)
(* A finding is a record of its category and its location.                 *)
(***************************************************************************)
EXTENDS Absent, Naturals, Sequences, FiniteSets

CONSTANTS
  DeltaTargets,     \* build_target_specs, a sequence of target keys
  ToolFindings,     \* by tool, the sets of findings it may come to
  DeltaBudget       \* bound of the model: how many runs are started

ToolOrder == <<"codeql", "semgrep", "mobsf", "aegisgraph">>
Tools == {ToolOrder[i] : i \in DOMAIN ToolOrder}
DeltaTarget == {DeltaTargets[i] : i \in DOMAIN DeltaTargets}

ASSUME DeltaAssumption == Len(DeltaTargets) \in Nat \ {0}

VARIABLES
  raw,              \* by target and tool, the tool's own output, or None
  findingsFile,     \* by target and tool, <tool>-findings.json, or None
  coverageFile,     \* by target and tool, the categories of <tool>-coverage.json, or None
  limited,          \* by target, the reason in MOBSF-LIMITED.md, or None
  deltaReport,      \* delta-report.json, or None; silent is history
  delta,            \* the run under way, or None
  deltaRuns         \* how many runs were started

deltaVars == <<raw, findingsFile, coverageFile, limited, deltaReport, delta, deltaRuns>>

PerTool(x) == [t \in DeltaTarget |-> [tool \in Tools |-> x]]

DeltaInit ==
  /\ raw = PerTool(None) /\ findingsFile = PerTool(None) /\ coverageFile = PerTool(None)
  /\ limited = [t \in DeltaTarget |-> None]
  /\ deltaReport = None /\ delta = None
  /\ deltaRuns = 0

NoEnvelope == [status |-> None, findings_path |-> FALSE]

StartDelta ==
  /\ delta = None /\ deltaRuns < DeltaBudget
  /\ deltaRuns' = deltaRuns + 1
  /\ delta' = [target |-> 1, tool |-> 1, at |-> "tool", envelopes |-> PerTool(NoEnvelope), silent |-> {}, findings |-> {}]
  /\ UNCHANGED <<raw, findingsFile, coverageFile, limited, deltaReport>>

Target == DeltaTargets[delta.target]
Tool == ToolOrder[delta.tool]

(* What the run returns for a tool: where its findings are, only if it ran.*)
Envelope(status, path) == [status |-> status, findings_path |-> path]

\* Seeded fault: the findings are looked for where the tool leaves them.
EnvelopeOfPlace(status) == Envelope(status, TRUE)

EmptyEnvelopeOf(status) == Envelope(status, FALSE)

NextTool(d) ==
  IF d.tool < Len(ToolOrder) THEN [d EXCEPT !.tool = @ + 1, !.at = "tool"]
  ELSE IF d.target < Len(DeltaTargets) THEN [d EXCEPT !.target = @ + 1, !.tool = 1, !.at = "tool"]
  ELSE [d EXCEPT !.at = "gather"]

(* The tool, its database, the sources or the APK are missing, and it is   *)
(* not run.  MobSF leaves a note when it is docker or the APK.             *)
ToolMissing(status) ==
  /\ delta # None /\ delta.at = "tool" /\ Tool # "aegisgraph"
  /\ status = "failed" => Tool # "mobsf"
  /\ status = "apk_missing" => Tool = "mobsf"
  /\ limited' = IF Tool = "mobsf" THEN [limited EXCEPT ![Target] = status] ELSE limited
  /\ delta' = NextTool([delta EXCEPT !.envelopes[Target][Tool] = EmptyEnvelopeOf(status)])
  /\ UNCHANGED <<raw, findingsFile, coverageFile, deltaReport, deltaRuns>>

(* What each runner takes for success, after an exit code and with the     *)
(* output that is then in the place it named; 1 is Semgrep's for findings. *)
(* An exception, or an hour, is no success and is counted with 2.          *)
CodeqlAccepts(exit) == exit = 0
SemgrepAccepts(exit) == exit \in {0, 1}
MobsfAccepts(exit, output) == exit = 0 /\ output # None

Accepts(exit, output) ==
  CASE Tool = "codeql" -> CodeqlAccepts(exit)
    [] Tool = "semgrep" -> SemgrepAccepts(exit)
    [] Tool = "mobsf" -> MobsfAccepts(exit, output)

(* The tool runs; its findings are read back from the file it was told to  *)
(* write.  One that wrote nothing leaves the file of an earlier run, or    *)
(* none, and that is no findings.  A tool that fails may have written too. *)
ToolRuns(exit, found, silent) ==
  LET output == IF silent THEN raw[Target][Tool] ELSE [run |-> deltaRuns, found |-> found]
  IN /\ delta # None /\ delta.at = "tool" /\ Tool # "aegisgraph"
     /\ raw' = [raw EXCEPT ![Target][Tool] = output]
     /\ IF Accepts(exit, output)
        THEN /\ findingsFile' = [findingsFile EXCEPT ![Target][Tool] =
                                   IF output = None THEN [run |-> deltaRuns, found |-> {}] ELSE output]
             /\ delta' = [delta EXCEPT !.at = "coverage", !.envelopes[Target][Tool] = Envelope("ran", TRUE),
                                       !.silent = IF silent THEN @ \cup {<<Target, Tool>>} ELSE @]
        ELSE /\ delta' = NextTool([delta EXCEPT !.envelopes[Target][Tool] = EmptyEnvelopeOf("failed")])
             /\ UNCHANGED findingsFile
     /\ UNCHANGED <<coverageFile, limited, deltaReport, deltaRuns>>

(* run_aegisgraph_alone: the consolidated violations, or none so far.      *)
AegisgraphRuns(found) ==
  /\ delta # None /\ delta.at = "tool" /\ Tool = "aegisgraph"
  /\ findingsFile' = [findingsFile EXCEPT ![Target][Tool] =
       [run |-> deltaRuns, found |-> IF found = None THEN {} ELSE found]]
  /\ delta' = [delta EXCEPT !.at = "coverage", !.envelopes[Target][Tool] =
       Envelope(IF found = None THEN "scaffold_pending" ELSE "ran", TRUE)]
  /\ UNCHANGED <<raw, coverageFile, limited, deltaReport, deltaRuns>>

WriteCoverage ==
  /\ delta # None /\ delta.at = "coverage"
  /\ coverageFile' = [coverageFile EXCEPT ![Target][Tool] = {f.category : f \in findingsFile[Target][Tool].found}]
  /\ delta' = NextTool(delta)
  /\ UNCHANGED <<raw, findingsFile, limited, deltaReport, deltaRuns>>

-----------------------------------------------------------------------------
(* renderer.py, on a set of findings with their target and tool.           *)

Coordinate(f) == <<f.target, f.category, f.location>>

\* Seeded fault: the category does not count, only the location.
ToolsNear(findings, c) == {f.tool : f \in {g \in findings : <<g.target, g.location>> = <<c[1], c[3]>>}}

(* Which tools report at a coordinate.                                     *)
ToolsAt(findings, c) == {f.tool : f \in {g \in findings : Coordinate(g) = c}}

SharedLocations(findings) ==
  {c \in {Coordinate(f) : f \in findings} : Cardinality(ToolsAt(findings, c)) >= 2}

AddedByAegisgraph(findings) ==
  {c \in {Coordinate(f) : f \in findings} : ToolsAt(findings, c) = {"aegisgraph"}}

(* build_delta_report_payload: the table of the tools, the matrix, and the *)
(* headline, what AegisGraph adds.                                         *)
DeltaReportOf(envelopes, findings) ==
  [ run        |-> deltaRuns,
    silent     |-> delta.silent,
    status     |-> [t \in DeltaTarget |-> [tool \in Tools |-> envelopes[t][tool].status]],
    findings   |-> findings,
    shared     |-> SharedLocations(findings),
    added      |-> AddedByAegisgraph(findings) ]

-----------------------------------------------------------------------------

(* _gather_findings_from_envelopes.                                        *)
Gather ==
  /\ delta # None /\ delta.at = "gather"
  /\ LET named == {n \in DeltaTarget \X Tools :
                     delta.envelopes[n[1]][n[2]].findings_path /\ findingsFile[n[1]][n[2]] # None}
     IN delta' = [delta EXCEPT !.at = "report", !.findings =
          UNION {{[target |-> n[1], tool |-> n[2], category |-> f.category, location |-> f.location,
                   run |-> findingsFile[n[1]][n[2]].run] : f \in findingsFile[n[1]][n[2]].found} : n \in named}]
  /\ UNCHANGED <<raw, findingsFile, coverageFile, limited, deltaReport, deltaRuns>>

WriteDeltaReport ==
  /\ delta # None /\ delta.at = "report"
  /\ deltaReport' = DeltaReportOf(delta.envelopes, delta.findings)
  /\ delta' = [delta EXCEPT !.at = "checksums"]
  /\ UNCHANGED <<raw, findingsFile, coverageFile, limited, deltaRuns>>

(* regenerate_checksums lists every file there is, of this run or not;     *)
(* nothing reads that list.                                                *)
RegenerateChecksums ==
  /\ delta # None /\ delta.at = "checksums"
  /\ delta' = None
  /\ UNCHANGED <<raw, findingsFile, coverageFile, limited, deltaReport, deltaRuns>>

DeltaDies ==
  /\ delta # None
  /\ delta' = None
  /\ UNCHANGED <<raw, findingsFile, coverageFile, limited, deltaReport, deltaRuns>>

DeltaNext ==
  \/ StartDelta
  \/ \E status \in {"binary_missing", "apk_missing", "failed"} : ToolMissing(status)
  \/ \E exit \in 0 .. 2, found \in UNION {ToolFindings[tool] : tool \in Tools}, silent \in BOOLEAN :
       /\ delta # None => found \in ToolFindings[Tool]
       /\ ToolRuns(exit, found, silent)
  \/ \E found \in ToolFindings["aegisgraph"] \cup {None} : AegisgraphRuns(found)
  \/ WriteCoverage
  \/ Gather
  \/ WriteDeltaReport
  \/ RegenerateChecksums
  \/ DeltaDies

DeltaSpec == DeltaInit /\ [][DeltaNext]_deltaVars

-----------------------------------------------------------------------------

(* What a tool found in an earlier run is not in the report of a run in    *)
(* which it is missing, fails or is stopped, although its findings file,   *)
(* its coverage and its raw output are all still there, so it hides        *)
(* nothing that AegisGraph adds; save when a tool claims success and has   *)
(* not written the output it was told to.                                  *)
NoStaleFindings ==
  deltaReport # None =>
    \A f \in deltaReport.findings :
      /\ f.run = deltaReport.run \/ <<f.target, f.tool>> \in deltaReport.silent
      /\ deltaReport.status[f.target][f.tool] = "ran"

(* Every coordinate AegisGraph reports is either one it adds or one that   *)
(* another tool shares at the same category and location, never both.      *)
CoordinatesAccounted ==
  deltaReport # None =>
    LET ours == {Coordinate(f) : f \in {g \in deltaReport.findings : g.tool = "aegisgraph"}}
        others == {Coordinate(f) : f \in {g \in deltaReport.findings : g.tool # "aegisgraph"}}
    IN /\ deltaReport.added = ours \ others
       /\ ours \cap others = ours \cap deltaReport.shared

=============================================================================
