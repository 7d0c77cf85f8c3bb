--------------------------- MODULE EvidenceProofs ---------------------------
(***************************************************************************)
(* Three producers of evidence that people cite: theorems of the           *)
(* reproduction chain (ReproChain), of the traceability matrix             *)
(* (Traceability) and of the benchmark (SMABench).                         *)
(***************************************************************************)
EXTENDS ReproChain, Traceability, SMABench, DataLemmas, TLAPS

-----------------------------------------------------------------------------
(* The reproduction chain, for any number of targets and any behaviour of  *)
(* the fuzzers.                                                            *)

(* A run saw the vulnerable fuzzer crash, and the fixed one not.           *)
Witnessed(run) == run.ran["vuln"] = "crashes" /\ run.ran["fix"] \notin {"crashes", Unfinished, None}

(* A differential that isolates was taken of fuzzers that do.              *)
SummarySound(s) == s # None /\ s.isolates => Witnessed(s)

(* A reviewed record names such a run.                                     *)
RecordSound(r) == r.claim_state = "reviewed" => Witnessed(r.run)

(* Records as map_targets makes them, in order and linked.                 *)
RecordsLinked(s) ==
  /\ s \in Seq({s[i] : i \in 1..Len(s)})
  /\ \A i \in 1..Len(s) :
       /\ s[i].target = Targets[i]
       /\ s[i].previous_hash = IF i = 1 THEN None ELSE RecordHash(s[i - 1])
       /\ RecordSound(s[i])

(* A build is inside its script, or about to write its manifest.           *)
BuildShape(c) ==
  \/ c.at \in InScript /\ c = [at |-> c.at, label |-> c.label]
  \/ c = [at |-> "manifest", status |-> c.status]

(* A run knows what the fuzzers it has executed were.                      *)
RunSound(c) ==
  /\ c.at \in Labels \cup {"summary", "status"}
  /\ c = [at |-> c.at, ran |-> [l \in Labels |-> c.ran[l]]]
  /\ \A l \in Labels : seeds => c.ran[l] # Unfinished

(* A mapping under way works on what it read when it began.                *)
MapSound(c) ==
  /\ c = [at |-> "map", status |-> c.status, diff |-> c.diff, records |-> c.records]
  /\ c.status = buildStatus
  /\ SummarySound(c.diff)
  /\ RecordsLinked(c.records)

CommandInv == command # None => BuildShape(command) \/ RunSound(command) \/ MapSound(command)

(* What the commands before it left.                                       *)
FilesInv ==
  /\ buildStatus \in {lastBuild, None}
  /\ SummarySound(summary)
  /\ perTarget = [t \in TargetSet |-> perTarget[t]]
  /\ \A t \in TargetSet : perTarget[t] # None => RecordSound(perTarget[t])
  /\ RecordsLinked(mapping)

ChainInv == CommandInv /\ FilesInv

(* The empty list is a chain.                                              *)
LEMMA NoRecords == RecordsLinked(<<>>)
BY DEF RecordsLinked

(* There is nothing on disk at first.                                      *)
LEMMA ChainInitially == ChainInit => ChainInv
<1>. SUFFICES ASSUME ChainInit PROVE ChainInv
  OBVIOUS
<1>1. CommandInv
  BY DEF ChainInit, CommandInv
<1>2. FilesInv
  BY NoRecords DEF ChainInit, FilesInv, SummarySound
<1>. QED  BY <1>1, <1>2 DEF ChainInv

(* A command that maps is a mapping.                                       *)
LEMMA MapsWhatItRead == CommandInv /\ InStep({"map"}) => MapSound(command)
BY DEF CommandInv, InStep, BuildShape, RunSound, InScript, Labels

(* The record of the next target.                                          *)
LEMMA NextRecord ==
  ASSUME ChainInv, InStep({"map"}),
         NEW r, r = MappingRecord(Targets[Len(command.records) + 1], command.status, command.diff,
                                  PreviousHash(command.records))
  PROVE  /\ RecordSound(r)
         /\ r.claim_state = "reviewed" => lastBuild = "ready"
         /\ RecordsLinked(Append(command.records, r))
<1>. DEFINE s == command.records
            more == Append(s, r)
<1>1. SummarySound(command.diff) /\ RecordsLinked(s) /\ command.status \in {lastBuild, None}
  BY MapsWhatItRead DEF ChainInv, MapSound, FilesInv
<1>2. /\ r.run = command.diff /\ r.target = Targets[Len(s) + 1] /\ r.previous_hash = PreviousHash(s)
      /\ r.claim_state = "reviewed" => command.status = "ready" /\ command.diff # None /\ command.diff.isolates
  BY DEF MappingRecord
<1>3. RecordSound(r)
  BY <1>1, <1>2 DEF RecordSound, SummarySound
<1>. HIDE DEF s
<1>4. s \in Seq({s[i] : i \in 1..Len(s)} \cup {r})
  BY <1>1 DEF RecordsLinked
<1>5. /\ more \in Seq({s[i] : i \in 1..Len(s)} \cup {r}) /\ Len(more) = Len(s) + 1 /\ Len(s) \in Nat
      /\ \A i \in 1..Len(s) : more[i] = s[i]
      /\ more[Len(s) + 1] = r
  BY <1>4, AppendProperties, LenProperties
<1>. HIDE DEF more
<1>6. more \in Seq({more[i] : i \in 1..Len(more)})
  BY <1>5
<1>7. ASSUME NEW i \in 1..Len(more)
      PROVE  /\ more[i].target = Targets[i]
             /\ more[i].previous_hash = IF i = 1 THEN None ELSE RecordHash(more[i - 1])
             /\ RecordSound(more[i])
  <2>1. CASE i \in 1..Len(s)
    <3>1. i = 1 \/ i - 1 \in 1..Len(s)
      BY <1>5, <2>1
    <3>. QED  BY <1>1, <1>5, <2>1, <3>1 DEF RecordsLinked
  <2>2. CASE i = Len(s) + 1
    <3>1. s = <<>> <=> Len(s) = 0
      BY <1>4, EmptySeq
    <3>2. PreviousHash(s) = IF i = 1 THEN None ELSE RecordHash(more[i - 1])
      BY <1>5, <2>2, <3>1 DEF PreviousHash
    <3>. QED  BY <1>2, <1>3, <1>5, <2>2, <3>2
  <2>. QED  BY <1>5, <2>1, <2>2
<1>8. RecordsLinked(more)
  BY <1>6, <1>7 DEF RecordsLinked
<1>. QED  BY <1>1, <1>2, <1>3, <1>8, ChainAssumption DEF more, s

(* The script of a build, and compilers that outlive one, leave fuzzers    *)
(* and nothing else.                                                       *)
LEMMA ScriptStep ==
  ASSUME ChainInv, UNCHANGED <<seeds, chainFiles>>,
         command' = command \/ command' = None \/ BuildShape(command)' \/ RunSound(command)'
  PROVE  ChainInv'
<1>1. FilesInv'
  BY DEF ChainInv, FilesInv, chainFiles, SummarySound
<1>2. CommandInv'
  BY DEF ChainInv, CommandInv, BuildShape, RunSound, MapSound, chainFiles
<1>. QED  BY <1>1, <1>2 DEF ChainInv

(* Executing a fuzzer.                                                     *)
LEMMA BinaryRun ==
  ASSUME ChainInv, RunOneBinary
  PROVE  ChainInv'
<1>1. CASE seeds /\ binaries[command.at] = Unfinished
  BY <1>1, ScriptStep DEF RunOneBinary
<1>2. CASE ~(seeds /\ binaries[command.at] = Unfinished)
  <2>1. RunSound(command) /\ command.at \in Labels
    BY DEF RunOneBinary, InStep, ChainInv, CommandInv, BuildShape, MapSound, InScript, Labels
  <2>. DEFINE l == command.at
              ran == [command.ran EXCEPT ![l] = binaries[l]]
              next == IF l = "vuln" THEN "fix" ELSE "summary"
  <2>2. command' = [at |-> next, ran |-> ran] /\ UNCHANGED seeds
    BY <1>2, <2>1 DEF RunOneBinary, RunSound
  <2>3. /\ ran = [k \in Labels |-> ran[k]]
        /\ \A k \in Labels : seeds => ran[k] # Unfinished
    BY <1>2, <2>1 DEF RunSound
  <2>4. next \in Labels \cup {"summary", "status"}
    BY DEF Labels
  <2>. HIDE DEF ran, next
  <2>5. RunSound(command)'
    BY <2>2, <2>3, <2>4 DEF RunSound
  <2>. QED  BY <2>5, ScriptStep DEF RunOneBinary
<1>. QED  BY <1>1, <1>2

(* A command that wrote a file is at its end, or goes on to the next one.  *)
LEMMA SummaryWritten ==
  ASSUME ChainInv, WriteSummary
  PROVE  ChainInv'
<1>1. RunSound(command) /\ command.at = "summary"
  BY DEF WriteSummary, InStep, ChainInv, CommandInv, BuildShape, MapSound, InScript, Labels
<1>2. Isolates(command.ran) =>
        command.ran["vuln"] = "crashes" /\ command.ran["fix"] \notin {"crashes", Unfinished, None}
  BY <1>1 DEF Isolates, Executed, CrashCount, RunSound, Labels
<1>3. SummarySound(summary')
  BY <1>2 DEF WriteSummary, SummarySound, Witnessed
<1>4. command' = [at |-> "status", ran |-> command.ran] /\ UNCHANGED seeds
  BY <1>1 DEF WriteSummary, RunSound
<1>5. RunSound(command)'
  BY <1>1, <1>4 DEF RunSound
<1>6. FilesInv'
  BY <1>3 DEF WriteSummary, ChainInv, FilesInv
<1>. QED  BY <1>5, <1>6 DEF ChainInv, CommandInv

(* A write that is cut short leaves nothing that is read.                  *)
LEMMA CutShortIsSound ==
  ASSUME ChainInv, CommandDiesInsideWrite
  PROVE  ChainInv'
<1>1. /\ command' = None /\ UNCHANGED lastBuild
      /\ buildStatus' \in {buildStatus, None}
      /\ summary' \in {summary, None}
      /\ mapping' \in {mapping, <<>>}
  BY DEF CommandDiesInsideWrite
<1>2. perTarget' = perTarget \/ \E u : perTarget' = [perTarget EXCEPT ![u] = None]
  BY DEF CommandDiesInsideWrite
<1>3. /\ perTarget' = [t \in TargetSet |-> perTarget'[t]]
      /\ \A t \in TargetSet : perTarget'[t] # None => RecordSound(perTarget'[t])
  BY <1>2 DEF ChainInv, FilesInv
<1>4. FilesInv'
  BY <1>1, <1>3, NoRecords DEF ChainInv, FilesInv, SummarySound
<1>. QED  BY <1>1, <1>4 DEF ChainInv, CommandInv

(* Every command, complete or not, keeps the records sound.                *)
LEMMA ChainStep == ChainInv /\ [ChainNext]_chainVars => ChainInv'
<1>. SUFFICES ASSUME ChainInv, [ChainNext]_chainVars
              PROVE  ChainInv'
  OBVIOUS
<1>. USE DEF Labels, InScript
<1>1. CASE StartBuild
  BY <1>1, ScriptStep DEF StartBuild, BuildShape
<1>2. ASSUME RemoveBuilddir \/ LinkFuzzer \/ \E does \in Behaviours : MakeFuzzer(does)
      PROVE  ChainInv'
  <2>1. command.at \in {"remove", "make"} /\ command # None
    BY <1>2 DEF RemoveBuilddir, LinkFuzzer, MakeFuzzer, InStep
  <2>2. command = [at |-> command.at, label |-> command.label]
    BY <2>1 DEF ChainInv, CommandInv, BuildShape, RunSound, MapSound
  <2>3. command' = command \/ BuildShape(command)'
    BY <1>2, <2>2 DEF RemoveBuilddir, LinkFuzzer, MakeFuzzer, BuildShape
  <2>. QED  BY <1>2, <2>3, ScriptStep DEF RemoveBuilddir, LinkFuzzer, MakeFuzzer
<1>3. ASSUME NEW outcome, ScriptEnds(outcome)
      PROVE  ChainInv'
  BY <1>3, ScriptStep DEF ScriptEnds, BuildShape
<1>4. CASE WriteBuildManifest
  BY <1>4 DEF WriteBuildManifest, BuildStatusOf, ChainInv, CommandInv, FilesInv, SummarySound
<1>5. ASSUME NEW does, LateFuzzer(does)
      PROVE  ChainInv'
  BY <1>5, ScriptStep DEF LateFuzzer
<1>6. CASE Run
  <2>. DEFINE none == [l \in Labels |-> None]
  <2>1. command' = [at |-> "vuln", ran |-> none] /\ UNCHANGED seeds
    BY <1>6 DEF Run
  <2>2. none = [l \in Labels |-> none[l]] /\ \A l \in Labels : none[l] # Unfinished
    BY ChainAssumption DEF Unfinished
  <2>. HIDE DEF none
  <2>3. RunSound(command)'
    BY <2>1, <2>2 DEF RunSound
  <2>. QED  BY <1>6, <2>3, ScriptStep DEF Run
<1>7. CASE RunOneBinary
  BY <1>7, BinaryRun
<1>8. CASE WriteSummary
  BY <1>8, SummaryWritten
<1>9. CASE WriteRunStatus
  BY <1>9 DEF WriteRunStatus, ChainInv, CommandInv, FilesInv, SummarySound
<1>10. CASE MapTargets
  <2>1. FilesInv'
    BY <1>10 DEF MapTargets, ChainInv, FilesInv, chainFiles, SummarySound
  <2>2. MapSound(command)'
    BY <1>10, NoRecords DEF MapTargets, ChainInv, FilesInv, MapSound, chainFiles, SummarySound
  <2>. QED  BY <2>1, <2>2 DEF ChainInv, CommandInv
<1>11. CASE MapTarget
  <2>. DEFINE r == MappingRecord(Targets[Len(command.records) + 1], command.status, command.diff,
                                 PreviousHash(command.records))
              t == Targets[Len(command.records) + 1]
  <2>1. /\ InStep({"map"})
        /\ perTarget' = [perTarget EXCEPT ![t] = r]
        /\ command' = [command EXCEPT !.records = Append(@, r)]
        /\ UNCHANGED <<buildStatus, summary, mapping, lastBuild>>
    BY <1>11 DEF MapTarget
  <2>2. MapSound(command)
    BY <2>1, MapsWhatItRead DEF ChainInv
  <2>. HIDE DEF r, t
  <2>3. RecordSound(r) /\ RecordsLinked(Append(command.records, r))
    BY <2>1, NextRecord DEF r
  <2>4. FilesInv'
    BY <2>1, <2>3 DEF ChainInv, FilesInv
  <2>5. command' = [at |-> "map", status |-> command.status, diff |-> command.diff,
                    records |-> Append(command.records, r)]
    BY <2>1, <2>2 DEF MapSound
  <2>6. MapSound(command)'
    BY <2>1, <2>2, <2>3, <2>5 DEF MapSound
  <2>. QED  BY <2>4, <2>6 DEF ChainInv, CommandInv
<1>12. CASE WriteMapping
  <2>1. RecordsLinked(command.records)
    BY <1>12, MapsWhatItRead DEF WriteMapping, ChainInv, MapSound
  <2>. QED  BY <1>12, <2>1 DEF WriteMapping, ChainInv, CommandInv, FilesInv, SummarySound
<1>13. CASE CommandDies
  BY <1>13, ScriptStep DEF CommandDies
<1>14. CASE CommandDiesInsideWrite
  BY <1>14, CutShortIsSound
<1>15. CASE Extracted
  BY <1>15, ScriptStep DEF Extracted
<1>16. CASE UNCHANGED chainVars
  BY <1>16, ScriptStep DEF chainVars, chainFiles
<1>. QED  BY <1>1, <1>2, <1>3, <1>4, <1>5, <1>6, <1>7, <1>8, <1>9, <1>10, <1>11, <1>12, <1>13, <1>14,
             <1>15, <1>16 DEF ChainNext

(* The invariant of the commands and of their files.                       *)
LEMMA ChainAlways == ChainSpec => []ChainInv
BY ChainInitially, ChainStep, PTL DEF ChainSpec

(* A target is reviewed only with a run that isolates the fix, however     *)
(* builds, runs and mappings follow, fail or are killed, inside the build  *)
(* script and inside their writes as well: reprochain.py and build.sh, for *)
(* any targets and fuzzers.                                                *)
THEOREM ReviewedWitnessedHolds == ChainSpec => []ReviewedWitnessed
<1>1. ChainInv => ReviewedWitnessed
  <2>. SUFFICES ASSUME ChainInv, NEW r \in OnDisk, r.claim_state = "reviewed"
                PROVE  Witnessed(r.run)
    BY DEF ReviewedWitnessed, Witnessed
  <2>1. CASE r \in {mapping[i] : i \in DOMAIN mapping}
    <3>1. DOMAIN mapping = 1..Len(mapping)
      BY DEF ChainInv, FilesInv, RecordsLinked
    <3>. QED  BY <2>1, <3>1 DEF ChainInv, FilesInv, RecordsLinked, RecordSound
  <2>2. CASE r \in {perTarget[t] : t \in TargetSet} \ {None}
    BY <2>2 DEF ChainInv, FilesInv, RecordSound
  <2>. QED  BY <2>1, <2>2 DEF OnDisk
<1>. QED  BY <1>1, ChainAlways, PTL

(* mapping.json is one hash chain over the targets in their order.         *)
THEOREM MappingChainedHolds == ChainSpec => []MappingChained
<1>1. ChainInv => MappingChained
  BY DEF ChainInv, FilesInv, RecordsLinked, MappingChained
<1>. QED  BY <1>1, ChainAlways, PTL

(* After a build that came to its end without success no target becomes    *)
(* reviewed, whatever fuzzers it and builds that were killed leave:        *)
(* map_targets asks the manifest, and that of the last build that reported *)
(* is the only one there.                                                  *)
THEOREM FailedBuildWithdrawsHolds == ChainSpec => FailedBuildWithdraws
<1>. DEFINE Withdraws == \A t \in TargetSet :
              perTarget'[t] \notin {perTarget[t], None} /\ perTarget'[t].claim_state = "reviewed"
                => lastBuild = "ready"
<1>1. ChainInv /\ [ChainNext]_chainVars => [Withdraws]_chainVars
  <2>. SUFFICES ASSUME ChainInv, ChainNext, NEW t \in TargetSet,
                       perTarget'[t] \notin {perTarget[t], None}, perTarget'[t].claim_state = "reviewed"
                PROVE  lastBuild = "ready"
    OBVIOUS
  <2>1. ~CommandDiesInsideWrite
    <3>. SUFFICES ASSUME CommandDiesInsideWrite PROVE FALSE
      OBVIOUS
    <3>1. perTarget' = perTarget \/ \E u : perTarget' = [perTarget EXCEPT ![u] = None]
      BY DEF CommandDiesInsideWrite
    <3>. QED  BY <3>1 DEF ChainInv, FilesInv
  <2>2. MapTarget
    BY <2>1 DEF ChainNext, chainFiles, StartBuild, RemoveBuilddir, LinkFuzzer, MakeFuzzer, ScriptEnds,
                WriteBuildManifest, LateFuzzer, Run, RunOneBinary, WriteSummary, WriteRunStatus, MapTargets,
                WriteMapping, CommandDies, Extracted
  <2>. DEFINE r == MappingRecord(Targets[Len(command.records) + 1], command.status, command.diff,
                                 PreviousHash(command.records))
  <2>3. InStep({"map"}) /\ perTarget' = [perTarget EXCEPT ![Targets[Len(command.records) + 1]] = r]
    BY <2>2 DEF MapTarget
  <2>. HIDE DEF r
  <2>4. perTarget'[t] = r
    BY <2>3 DEF ChainInv, FilesInv
  <2>. QED  BY <2>3, <2>4, NextRecord DEF r
<1>. QED  BY <1>1, ChainAlways, PTL DEF ChainSpec, FailedBuildWithdraws

-----------------------------------------------------------------------------
(* The traceability matrix, for any claims and artifacts, however files    *)
(* come and go while it is made.                                           *)

(* What has been looked up of the claim at hand, and what was found: of a  *)
(* claim without an id, nothing.                                           *)
LookedSound(run) ==
  LET claim == Head(run.claims)
  IN run.claims # <<>> =>
       /\ run.looked \in 0..Len(claim.artifacts)
       /\ run.missing \subseteq 1..run.looked
       /\ claim.id = None => run.looked = 0
       /\ \A i \in 1..run.looked :
            IF i \in run.missing THEN claim.artifacts[i] \notin run.always
                                 ELSE claim.artifacts[i] \notin run.never

(* No row says more than the files showed.                                 *)
RowsSound(rows, always, never) ==
  \A row \in rows :
    /\ row.status \in {"ok", "evidence_without_claim"} => row.artifact \notin never
    /\ row.missing => row.artifact \notin always

(* A row with a claim that names the artifact, or one that shows it as     *)
(* evidence no claim names.                                                *)
HasRow(rows, a, claimed) ==
  \E row \in rows : row.artifact = a /\ (IF claimed THEN row.claim # None ELSE row.status = "evidence_without_claim")

(* Each artifact of a claim with an id, and each that no claim names, has  *)
(* its row or is still to be looked up.                                    *)
RowsOrToDo(run) ==
  /\ \A a \in ArtifactsOfIds :
       \/ HasRow(run.rows, a, TRUE)
       \/ \E c \in Range(run.claims) : c.id # None /\ a \in Range(c.artifacts)
  /\ \A a \in run.always \ ClaimArtifacts : HasRow(run.rows, a, FALSE) \/ a \in Range(run.orphans)

(* The fields a run has, and what is left to look up.                      *)
IsMatrixRun(run) ==
  /\ run = [at |-> run.at, claims |-> run.claims, looked |-> run.looked, missing |-> run.missing,
            rows |-> run.rows, orphans |-> run.orphans, always |-> run.always, never |-> run.never]
  /\ run.claims \in Seq(Claims) /\ run.orphans \in Seq(Artifacts)

(* The run under way is sound, and so was the one that wrote the matrix.   *)
MatrixInv ==
  /\ artifactsOnDisk \subseteq Artifacts
  /\ matrixRun # None =>
       /\ IsMatrixRun(matrixRun)
       /\ matrixRun.always \subseteq artifactsOnDisk /\ matrixRun.never \cap artifactsOnDisk = {}
       /\ LookedSound(matrixRun)
       /\ RowsSound(matrixRun.rows, matrixRun.always, matrixRun.never)
       /\ RowsOrToDo(matrixRun)
  /\ EvidenceAccounted

(* The head of a list and the rest hold what the list holds.               *)
LEMMA HeadOrTail ==
  ASSUME NEW S, NEW s \in Seq(S), s # <<>>
  PROVE  /\ Head(s) \in S /\ Tail(s) \in Seq(S)
         /\ Range(s) = {Head(s)} \cup Range(Tail(s))
<1>1. /\ Head(s) \in S /\ Tail(s) \in Seq(S) /\ Len(Tail(s)) = Len(s) - 1 /\ Len(s) \in Nat \ {0}
      /\ \A i \in 1..Len(Tail(s)) : Tail(s)[i] = s[i + 1]
      /\ Head(s) = s[1]
  BY HeadTailProperties
<1>2. Range(s) = {s[i] : i \in 1..Len(s)} /\ Range(Tail(s)) = {Tail(s)[i] : i \in 1..Len(Tail(s))}
  BY <1>1, RangeEquality
<1>3. ASSUME NEW i \in 1..Len(s) PROVE s[i] \in {Head(s)} \cup Range(Tail(s))
  <2>1. CASE i = 1
    BY <2>1, <1>1
  <2>2. CASE i # 1
    <3>1. i - 1 \in 1..Len(Tail(s)) /\ Tail(s)[i - 1] = s[i]
      BY <2>2, <1>1
    <3>. QED  BY <3>1, <1>2
  <2>. QED  BY <2>1, <2>2
<1>4. ASSUME NEW i \in 1..Len(Tail(s)) PROVE Tail(s)[i] \in Range(s)
  <2>1. i + 1 \in 1..Len(s) /\ Tail(s)[i] = s[i + 1]
    BY <1>1
  <2>. QED  BY <2>1, <1>2
<1>5. Head(s) \in Range(s)
  BY <1>1, <1>2
<1>. QED  BY <1>1, <1>2, <1>3, <1>4, <1>5

(* A claim has a list of artifacts.                                        *)
LEMMA ClaimShape ==
  ASSUME NEW c \in Claims
  PROVE  c.artifacts \in Seq(Artifacts)
BY TraceAssumption

(* The artifacts that the claims with an id name.                          *)
LEMMA ArtifactsOfIdsAre == \A a \in ArtifactsOfIds : \E c \in Claims : c.id # None /\ a \in Range(c.artifacts)
BY DEF ArtifactsOfIds, Range

(* What a row says of an artifact, and of no other row.                    *)
LEMMA RowFields ==
  ASSUME NEW a, NEW c, NEW r, NEW status, NEW m
  PROVE  /\ Row(a, c, r, status, m).artifact = a /\ Row(a, c, r, status, m).claim = c
         /\ Row(a, c, r, status, m).status = status /\ Row(a, c, r, status, m).missing = m
BY DEF Row

(* The files are there or not before the first run.                        *)
LEMMA MatrixInitially == TraceInit => MatrixInv
BY DEF TraceInit, MatrixInv, EvidenceAccounted

(* A run begins with every artifact still to be looked up.                 *)
LEMMA MatrixStarts ==
  ASSUME MatrixInv, StartMatrix
  PROVE  MatrixInv'
<1>. DEFINE run == [at |-> "claims", claims |-> ProposalClaims, looked |-> 0, missing |-> {}, rows |-> {},
                    orphans |-> SectionArtifacts,
                    always |-> artifactsOnDisk, never |-> Artifacts \ artifactsOnDisk]
<1>1. matrixRun' = run /\ artifactsOnDisk' = artifactsOnDisk /\ matrixJson' = matrixJson
  BY DEF StartMatrix
<1>2. artifactsOnDisk \subseteq Artifacts /\ EvidenceAccounted
  BY DEF MatrixInv
<1>3. Range(ProposalClaims) = Claims /\ Range(SectionArtifacts) = {SectionArtifacts[i] : i \in DOMAIN SectionArtifacts}
  BY DEF Range, Claims
<1>4. IsMatrixRun(run)
  BY TraceAssumption DEF IsMatrixRun
<1>5. LookedSound(run)
  <2>1. ASSUME ProposalClaims # <<>> PROVE Len(Head(ProposalClaims).artifacts) \in Nat
    BY <2>1, TraceAssumption, HeadOrTail, ClaimShape
  <2>. QED  BY <2>1 DEF LookedSound
<1>6. RowsSound(run.rows, run.always, run.never)
  BY DEF RowsSound
<1>7. RowsOrToDo(run)
  <2>1. \A a \in ArtifactsOfIds : \E c \in Range(run.claims) : c.id # None /\ a \in Range(c.artifacts)
    BY <1>3, ArtifactsOfIdsAre
  <2>2. \A a \in run.always \ ClaimArtifacts : a \in Range(run.orphans)
    BY <1>2, <1>3 DEF Artifacts
  <2>. QED  BY <2>1, <2>2 DEF RowsOrToDo
<1>8. run.always \subseteq artifactsOnDisk /\ run.never \cap artifactsOnDisk = {}
  OBVIOUS
<1>9. EvidenceAccounted'
  BY <1>1, <1>2 DEF EvidenceAccounted
<1>. HIDE DEF run
<1>. QED  BY <1>1, <1>2, <1>4, <1>5, <1>6, <1>7, <1>8, <1>9 DEF MatrixInv

(* A file that changes is neither always nor never there.                  *)
LEMMA ArtifactsMayChange ==
  ASSUME MatrixInv, ArtifactChanges
  PROVE  MatrixInv'
<1>1. PICK a \in Artifacts :
        /\ artifactsOnDisk' = (artifactsOnDisk \ {a}) \cup ({a} \ artifactsOnDisk)
        /\ matrixRun' = IF matrixRun = None THEN None
                        ELSE [matrixRun EXCEPT !.always = @ \ {a}, !.never = @ \ {a}]
  BY DEF ArtifactChanges
<1>2. matrixJson' = matrixJson
  BY DEF ArtifactChanges
<1>3. artifactsOnDisk' \subseteq Artifacts
  BY <1>1 DEF MatrixInv
<1>4. EvidenceAccounted'
  BY <1>2 DEF EvidenceAccounted, MatrixInv
<1>5. CASE matrixRun = None
  BY <1>1, <1>3, <1>4, <1>5 DEF MatrixInv
<1>6. CASE matrixRun # None
  <2>1. IsMatrixRun(matrixRun) /\ LookedSound(matrixRun) /\ RowsOrToDo(matrixRun)
        /\ RowsSound(matrixRun.rows, matrixRun.always, matrixRun.never)
        /\ matrixRun.always \subseteq artifactsOnDisk /\ matrixRun.never \cap artifactsOnDisk = {}
    BY <1>6 DEF MatrixInv
  <2>2. matrixRun' = [matrixRun EXCEPT !.always = @ \ {a}, !.never = @ \ {a}]
    BY <1>1, <1>6
  <2>3. /\ matrixRun'.at = matrixRun.at /\ matrixRun'.claims = matrixRun.claims
        /\ matrixRun'.looked = matrixRun.looked /\ matrixRun'.missing = matrixRun.missing
        /\ matrixRun'.rows = matrixRun.rows /\ matrixRun'.orphans = matrixRun.orphans
        /\ matrixRun'.always = matrixRun.always \ {a} /\ matrixRun'.never = matrixRun.never \ {a}
        /\ IsMatrixRun(matrixRun')
    BY <2>1, <2>2 DEF IsMatrixRun
  <2>4. LookedSound(matrixRun')
    BY <2>1, <2>3 DEF LookedSound
  <2>5. RowsSound(matrixRun'.rows, matrixRun'.always, matrixRun'.never)
    BY <2>1, <2>3 DEF RowsSound
  <2>6. RowsOrToDo(matrixRun')
    BY <2>1, <2>3 DEF RowsOrToDo
  <2>7. matrixRun'.always \subseteq artifactsOnDisk' /\ matrixRun'.never \cap artifactsOnDisk' = {}
    BY <1>1, <2>1, <2>3
  <2>. QED  BY <1>3, <1>4, <2>3, <2>4, <2>5, <2>6, <2>7 DEF MatrixInv
<1>. QED  BY <1>5, <1>6

(* An artifact that is found was not "never there", one that is not found  *)
(* was not "always there".                                                 *)
LEMMA LookUpIsSound ==
  ASSUME MatrixInv, LookUpArtifact
  PROVE  MatrixInv'
<1>. DEFINE claim == Head(matrixRun.claims)
            next == matrixRun.looked + 1
<1>1. /\ matrixRun # None /\ matrixRun.claims # <<>> /\ claim.id # None /\ next <= Len(claim.artifacts)
      /\ matrixRun' = [matrixRun EXCEPT !.looked = next,
                          !.missing = IF Exists(claim.artifacts[next]) THEN @ ELSE @ \cup {next}]
      /\ artifactsOnDisk' = artifactsOnDisk /\ matrixJson' = matrixJson
  BY DEF LookUpArtifact
<1>2. IsMatrixRun(matrixRun) /\ LookedSound(matrixRun) /\ RowsOrToDo(matrixRun)
      /\ RowsSound(matrixRun.rows, matrixRun.always, matrixRun.never)
      /\ matrixRun.always \subseteq artifactsOnDisk /\ matrixRun.never \cap artifactsOnDisk = {}
      /\ artifactsOnDisk \subseteq Artifacts /\ EvidenceAccounted
  BY <1>1 DEF MatrixInv
<1>3. /\ matrixRun'.at = matrixRun.at /\ matrixRun'.claims = matrixRun.claims
      /\ matrixRun'.looked = next
      /\ matrixRun'.missing = IF Exists(claim.artifacts[next]) THEN matrixRun.missing ELSE matrixRun.missing \cup {next}
      /\ matrixRun'.rows = matrixRun.rows /\ matrixRun'.orphans = matrixRun.orphans
      /\ matrixRun'.always = matrixRun.always /\ matrixRun'.never = matrixRun.never
      /\ IsMatrixRun(matrixRun')
  BY <1>1, <1>2 DEF IsMatrixRun
<1>4. LookedSound(matrixRun')
  <2>1. claim \in Claims
    BY <1>1, <1>2, HeadOrTail DEF IsMatrixRun
  <2>2. Len(claim.artifacts) \in Nat
    BY <2>1, ClaimShape
  <2>3. matrixRun.looked \in 0..Len(claim.artifacts) /\ matrixRun.missing \subseteq 1..matrixRun.looked
        /\ \A i \in 1..matrixRun.looked : IF i \in matrixRun.missing THEN claim.artifacts[i] \notin matrixRun.always
                                           ELSE claim.artifacts[i] \notin matrixRun.never
    BY <1>1, <1>2 DEF LookedSound
  <2>4. next \in 0..Len(claim.artifacts) /\ 1..next = (1..matrixRun.looked) \cup {next} /\ next \notin 1..matrixRun.looked
    BY <1>1, <2>2, <2>3
  <2>5. Exists(claim.artifacts[next]) => claim.artifacts[next] \notin matrixRun.never
    BY <1>2 DEF Exists
  <2>6. ~Exists(claim.artifacts[next]) => claim.artifacts[next] \notin matrixRun.always
    BY <1>2 DEF Exists
  <2>. HIDE DEF next, claim
  <2>7. \A i \in 1..next : IF i \in matrixRun'.missing THEN claim.artifacts[i] \notin matrixRun.always
                                                      ELSE claim.artifacts[i] \notin matrixRun.never
    BY <1>3, <2>3, <2>4, <2>5, <2>6
  <2>8. matrixRun'.missing \subseteq 1..next
    BY <1>3, <2>3, <2>4
  <2>. QED  BY <1>1, <1>3, <2>4, <2>7, <2>8 DEF LookedSound, claim
<1>5. RowsOrToDo(matrixRun')
  BY <1>2, <1>3 DEF RowsOrToDo
<1>6. EvidenceAccounted'
  BY <1>1, <1>2 DEF EvidenceAccounted
<1>. QED  BY <1>1, <1>2, <1>3, <1>4, <1>5, <1>6 DEF MatrixInv

(* The rows of a claim say what was looked up.                             *)
LEMMA ClaimRowsAreSound ==
  ASSUME NEW run, IsMatrixRun(run), LookedSound(run), run.claims # <<>>, Head(run.claims).id # None,
         run.looked = Len(Head(run.claims).artifacts)
  PROVE  /\ RowsSound(RowsOfClaim(Head(run.claims), run.missing), run.always, run.never)
         /\ \A a \in Range(Head(run.claims).artifacts) :
              HasRow(RowsOfClaim(Head(run.claims), run.missing), a, TRUE)
<1>. DEFINE claim == Head(run.claims)
            status == RowStatusForClaim(claim, run.missing)
            R(i) == Row(claim.artifacts[i], claim.id, claim.requirement, status, i \in run.missing)
<1>1. claim \in Claims /\ claim.id # None /\ claim.artifacts \in Seq(Artifacts)
  BY HeadOrTail, ClaimShape DEF IsMatrixRun
<1>2. DOMAIN claim.artifacts = 1..Len(claim.artifacts) /\ Len(claim.artifacts) \in Nat
  BY <1>1, LenProperties
<1>3. CASE claim.artifacts = <<>>
  <2>1. status \in {"planned", "claim_without_evidence"}
    BY <1>3 DEF RowStatusForClaim
  <2>2. RowsOfClaim(claim, run.missing) = {Row(None, claim.id, claim.requirement, status, FALSE)}
    BY <1>3 DEF RowsOfClaim
  <2>3. Range(claim.artifacts) = {}
    BY <1>3, <1>2 DEF Range
  <2>. HIDE DEF status, claim
  <2>4. RowsSound(RowsOfClaim(claim, run.missing), run.always, run.never)
    BY <2>1, <2>2 DEF RowsSound, Row
  <2>. QED  BY <2>3, <2>4 DEF claim
<1>4. CASE claim.artifacts # <<>>
  <2>1. RowsOfClaim(claim, run.missing) = {R(i) : i \in DOMAIN claim.artifacts}
    BY <1>4 DEF RowsOfClaim
  <2>2. status = IF run.missing # {} THEN "claim_without_evidence" ELSE "ok"
    BY <1>4 DEF RowStatusForClaim
  <2>3. \A i \in 1..Len(claim.artifacts) :
          IF i \in run.missing THEN claim.artifacts[i] \notin run.always ELSE claim.artifacts[i] \notin run.never
    BY DEF LookedSound
  <2>4. \A i : /\ R(i).artifact = claim.artifacts[i] /\ R(i).claim = claim.id /\ R(i).status = status
               /\ R(i).missing = (i \in run.missing)
    BY RowFields
  <2>. HIDE DEF R, status, claim
  <2>5. RowsSound(RowsOfClaim(claim, run.missing), run.always, run.never)
    <3>. SUFFICES ASSUME NEW i \in DOMAIN claim.artifacts
                  PROVE  /\ R(i).status \in {"ok", "evidence_without_claim"} => R(i).artifact \notin run.never
                         /\ R(i).missing => R(i).artifact \notin run.always
      BY <2>1 DEF RowsSound
    <3>. QED  BY <1>2, <2>2, <2>3, <2>4
  <2>6. \A a \in Range(claim.artifacts) : HasRow(RowsOfClaim(claim, run.missing), a, TRUE)
    <3>. SUFFICES ASSUME NEW i \in DOMAIN claim.artifacts
                  PROVE  HasRow(RowsOfClaim(claim, run.missing), claim.artifacts[i], TRUE)
      BY DEF Range
    <3>. QED  BY <1>1, <2>1, <2>4 DEF HasRow
  <2>. QED  BY <2>5, <2>6 DEF claim
<1>. QED  BY <1>3, <1>4

(* A claim leaves the list with a row for each of its artifacts.           *)
LEMMA ClaimRowsKeep ==
  ASSUME MatrixInv, ClaimRows
  PROVE  MatrixInv'
<1>. DEFINE claim == Head(matrixRun.claims)
            more == RowsOfClaim(claim, matrixRun.missing)
<1>1. /\ matrixRun # None /\ matrixRun.claims # <<>>
      /\ claim.id # None /\ matrixRun.looked = Len(claim.artifacts)
      /\ matrixRun' = [matrixRun EXCEPT !.claims = Tail(@), !.looked = 0, !.missing = {}, !.rows = @ \cup more]
      /\ artifactsOnDisk' = artifactsOnDisk /\ matrixJson' = matrixJson
  BY DEF ClaimRows
<1>2. IsMatrixRun(matrixRun) /\ LookedSound(matrixRun) /\ RowsOrToDo(matrixRun)
      /\ RowsSound(matrixRun.rows, matrixRun.always, matrixRun.never)
      /\ matrixRun.always \subseteq artifactsOnDisk /\ matrixRun.never \cap artifactsOnDisk = {}
      /\ artifactsOnDisk \subseteq Artifacts /\ EvidenceAccounted
  BY <1>1 DEF MatrixInv
<1>3. /\ RowsSound(more, matrixRun.always, matrixRun.never)
      /\ \A a \in Range(claim.artifacts) : HasRow(more, a, TRUE)
  BY <1>1, <1>2, ClaimRowsAreSound
<1>4. /\ claim \in Claims /\ Tail(matrixRun.claims) \in Seq(Claims)
      /\ Range(matrixRun.claims) = {claim} \cup Range(Tail(matrixRun.claims))
  BY <1>1, <1>2, HeadOrTail DEF IsMatrixRun
<1>. HIDE DEF more, claim
<1>5. /\ matrixRun'.claims = Tail(matrixRun.claims) /\ matrixRun'.looked = 0 /\ matrixRun'.missing = {}
      /\ matrixRun'.rows = matrixRun.rows \cup more /\ matrixRun'.orphans = matrixRun.orphans
      /\ matrixRun'.always = matrixRun.always /\ matrixRun'.never = matrixRun.never
      /\ IsMatrixRun(matrixRun')
  BY <1>1, <1>2, <1>4 DEF IsMatrixRun
<1>6. LookedSound(matrixRun')
  <2>1. ASSUME matrixRun'.claims # <<>> PROVE Len(Head(matrixRun'.claims).artifacts) \in Nat
    <3>1. Head(matrixRun'.claims) \in Claims
      BY <2>1, <1>5, <1>4, HeadOrTail
    <3>. QED  BY <3>1, ClaimShape
  <2>. QED  BY <2>1, <1>5 DEF LookedSound
<1>7. RowsSound(matrixRun'.rows, matrixRun'.always, matrixRun'.never)
  BY <1>2, <1>3, <1>5 DEF RowsSound
<1>8. RowsOrToDo(matrixRun')
  <2>1. \A a, claimed : HasRow(matrixRun.rows, a, claimed) \/ HasRow(more, a, claimed)
                          => HasRow(matrixRun'.rows, a, claimed)
    BY <1>5 DEF HasRow
  <2>. QED  BY <1>2, <1>3, <1>4, <1>5, <2>1 DEF RowsOrToDo
<1>9. EvidenceAccounted'
  BY <1>1, <1>2 DEF EvidenceAccounted
<1>. QED  BY <1>1, <1>2, <1>5, <1>6, <1>7, <1>8, <1>9 DEF MatrixInv

(* A claim without an id leaves it with none, and with nothing looked up.  *)
LEMMA SkipClaimKeeps ==
  ASSUME MatrixInv, SkipClaim
  PROVE  MatrixInv'
<1>. DEFINE claim == Head(matrixRun.claims)
<1>1. /\ matrixRun # None /\ matrixRun.claims # <<>> /\ claim.id = None
      /\ matrixRun' = [matrixRun EXCEPT !.claims = Tail(@)]
      /\ artifactsOnDisk' = artifactsOnDisk /\ matrixJson' = matrixJson
  BY DEF SkipClaim
<1>2. IsMatrixRun(matrixRun) /\ LookedSound(matrixRun) /\ RowsOrToDo(matrixRun)
      /\ RowsSound(matrixRun.rows, matrixRun.always, matrixRun.never)
      /\ matrixRun.always \subseteq artifactsOnDisk /\ matrixRun.never \cap artifactsOnDisk = {}
      /\ artifactsOnDisk \subseteq Artifacts /\ EvidenceAccounted
  BY <1>1 DEF MatrixInv
<1>3. /\ claim \in Claims /\ Tail(matrixRun.claims) \in Seq(Claims)
      /\ Range(matrixRun.claims) = {claim} \cup Range(Tail(matrixRun.claims))
  BY <1>1, <1>2, HeadOrTail DEF IsMatrixRun
<1>4. matrixRun.looked = 0 /\ matrixRun.missing = {}
  <2>1. matrixRun.looked = 0 /\ matrixRun.missing \subseteq 1..matrixRun.looked
    BY <1>1, <1>2 DEF LookedSound
  <2>. QED  BY <2>1
<1>. HIDE DEF claim
<1>5. /\ matrixRun'.claims = Tail(matrixRun.claims) /\ matrixRun'.looked = 0 /\ matrixRun'.missing = {}
      /\ matrixRun'.rows = matrixRun.rows /\ matrixRun'.orphans = matrixRun.orphans
      /\ matrixRun'.always = matrixRun.always /\ matrixRun'.never = matrixRun.never
      /\ IsMatrixRun(matrixRun')
  BY <1>1, <1>2, <1>3, <1>4 DEF IsMatrixRun
<1>6. LookedSound(matrixRun')
  <2>1. ASSUME matrixRun'.claims # <<>> PROVE Len(Head(matrixRun'.claims).artifacts) \in Nat
    <3>1. Head(matrixRun'.claims) \in Claims
      BY <2>1, <1>5, <1>3, HeadOrTail
    <3>. QED  BY <3>1, ClaimShape
  <2>. QED  BY <2>1, <1>5 DEF LookedSound
<1>7. RowsOrToDo(matrixRun')
  BY <1>1, <1>2, <1>3, <1>5 DEF RowsOrToDo
<1>8. EvidenceAccounted'
  BY <1>1, <1>2 DEF EvidenceAccounted
<1>. QED  BY <1>1, <1>2, <1>5, <1>6, <1>7, <1>8 DEF MatrixInv

(* An artifact of a section leaves with a row if it is there and no claim  *)
(* names it.                                                               *)
LEMMA OrphanRowKeeps ==
  ASSUME MatrixInv, OrphanRow
  PROVE  MatrixInv'
<1>. DEFINE a == Head(matrixRun.orphans)
            orphan == Row(a, None, None, "evidence_without_claim", FALSE)
            more == IF Exists(a) /\ a \notin ClaimArtifacts THEN {orphan} ELSE {}
<1>1. /\ matrixRun # None /\ matrixRun.claims = <<>> /\ matrixRun.orphans # <<>>
      /\ matrixRun' = [matrixRun EXCEPT !.orphans = Tail(@), !.rows = @ \cup more]
      /\ artifactsOnDisk' = artifactsOnDisk /\ matrixJson' = matrixJson
  BY DEF OrphanRow
<1>2. IsMatrixRun(matrixRun) /\ RowsOrToDo(matrixRun)
      /\ RowsSound(matrixRun.rows, matrixRun.always, matrixRun.never)
      /\ matrixRun.always \subseteq artifactsOnDisk /\ matrixRun.never \cap artifactsOnDisk = {}
      /\ artifactsOnDisk \subseteq Artifacts /\ EvidenceAccounted
  BY <1>1 DEF MatrixInv
<1>3. orphan.artifact = a /\ orphan.claim = None /\ orphan.status = "evidence_without_claim" /\ orphan.missing = FALSE
  BY DEF Row
<1>4. /\ Tail(matrixRun.orphans) \in Seq(Artifacts)
      /\ Range(matrixRun.orphans) = {a} \cup Range(Tail(matrixRun.orphans))
  BY <1>1, <1>2, HeadOrTail DEF IsMatrixRun
<1>5. RowsSound(more, matrixRun.always, matrixRun.never)
  BY <1>2, <1>3 DEF RowsSound, Exists
<1>6. a \in matrixRun.always \ ClaimArtifacts => HasRow(more, a, FALSE)
  BY <1>2, <1>3 DEF HasRow, Exists
<1>. HIDE DEF more, a, orphan
<1>7. /\ matrixRun'.claims = matrixRun.claims /\ matrixRun'.rows = matrixRun.rows \cup more
      /\ matrixRun'.orphans = Tail(matrixRun.orphans)
      /\ matrixRun'.always = matrixRun.always /\ matrixRun'.never = matrixRun.never
      /\ IsMatrixRun(matrixRun')
  BY <1>1, <1>2, <1>4 DEF IsMatrixRun
<1>8. LookedSound(matrixRun')
  BY <1>1, <1>7 DEF LookedSound
<1>9. RowsSound(matrixRun'.rows, matrixRun'.always, matrixRun'.never)
  BY <1>2, <1>5, <1>7 DEF RowsSound
<1>10. RowsOrToDo(matrixRun')
  <2>1. \A b, claimed : HasRow(matrixRun.rows, b, claimed) \/ HasRow(more, b, claimed)
                          => HasRow(matrixRun'.rows, b, claimed)
    BY <1>7 DEF HasRow
  <2>. QED  BY <1>2, <1>4, <1>6, <1>7, <2>1 DEF RowsOrToDo
<1>11. EvidenceAccounted'
  BY <1>1, <1>2 DEF EvidenceAccounted
<1>. QED  BY <1>1, <1>2, <1>7, <1>8, <1>9, <1>10, <1>11 DEF MatrixInv

(* When nothing is left to look up, the rows account for everything.       *)
LEMMA JsonAccounts ==
  ASSUME MatrixInv, WriteMatrixJson
  PROVE  MatrixInv'
<1>. DEFINE more == {Row(None, None, r, "claim_without_evidence", FALSE) : r \in UnclaimedRequirements}
<1>1. /\ matrixRun # None /\ matrixRun.claims = <<>> /\ matrixRun.orphans = <<>>
      /\ matrixRun' = [matrixRun EXCEPT !.at = "markdown", !.rows = @ \cup more]
      /\ matrixJson' = [rows |-> matrixRun'.rows, always |-> matrixRun.always, never |-> matrixRun.never]
      /\ artifactsOnDisk' = artifactsOnDisk
  BY DEF WriteMatrixJson
<1>2. IsMatrixRun(matrixRun) /\ RowsOrToDo(matrixRun)
      /\ RowsSound(matrixRun.rows, matrixRun.always, matrixRun.never)
      /\ matrixRun.always \subseteq artifactsOnDisk /\ matrixRun.never \cap artifactsOnDisk = {}
      /\ artifactsOnDisk \subseteq Artifacts
  BY <1>1 DEF MatrixInv
<1>3. RowsSound(more, matrixRun.always, matrixRun.never)
  BY DEF RowsSound, Row
<1>. HIDE DEF more
<1>4. /\ matrixRun'.claims = matrixRun.claims /\ matrixRun'.rows = matrixRun.rows \cup more
      /\ matrixRun'.orphans = matrixRun.orphans
      /\ matrixRun'.always = matrixRun.always /\ matrixRun'.never = matrixRun.never
      /\ IsMatrixRun(matrixRun')
  BY <1>1, <1>2 DEF IsMatrixRun
<1>5. LookedSound(matrixRun')
  BY <1>1, <1>4 DEF LookedSound
<1>6. RowsSound(matrixRun'.rows, matrixRun'.always, matrixRun'.never)
  BY <1>2, <1>3, <1>4 DEF RowsSound
<1>7. RowsOrToDo(matrixRun')
  <2>1. \A b, claimed : HasRow(matrixRun.rows, b, claimed) => HasRow(matrixRun'.rows, b, claimed)
    BY <1>4 DEF HasRow
  <2>. QED  BY <1>2, <1>4, <2>1 DEF RowsOrToDo
<1>8. Range(matrixRun.claims) = {} /\ Range(matrixRun.orphans) = {}
  BY <1>1 DEF Range
<1>9. EvidenceAccounted'
  <2>1. /\ \A a \in ArtifactsOfIds : HasRow(matrixRun'.rows, a, TRUE)
        /\ \A a \in matrixRun.always \ ClaimArtifacts : HasRow(matrixRun'.rows, a, FALSE)
    BY <1>4, <1>7, <1>8 DEF RowsOrToDo
  <2>2. /\ \A a \in ArtifactsOfIds : \E row \in matrixRun'.rows : row.artifact = a /\ row.claim # None
        /\ \A a \in matrixRun.always \ ClaimArtifacts :
             \E row \in matrixRun'.rows : row.artifact = a /\ row.status = "evidence_without_claim"
    BY <2>1 DEF HasRow
  <2>3. matrixJson'.rows = matrixRun'.rows /\ matrixJson'.always = matrixRun.always /\ matrixJson'.never = matrixRun.never
    BY <1>1
  <2>. QED  BY <1>4, <1>6, <2>2, <2>3 DEF EvidenceAccounted, RowsSound
<1>. QED  BY <1>1, <1>2, <1>4, <1>5, <1>6, <1>7, <1>9 DEF MatrixInv

(* The invariant is inductive.                                             *)
LEMMA MatrixStep == MatrixInv /\ [TraceNext]_matrixVars => MatrixInv'
<1>. SUFFICES ASSUME MatrixInv, [TraceNext]_matrixVars PROVE MatrixInv'
  OBVIOUS
<1>1. CASE WriteMatrixMarkdown \/ MatrixDies
  BY <1>1 DEF WriteMatrixMarkdown, MatrixDies, MatrixInv, EvidenceAccounted
<1>2. CASE UNCHANGED matrixVars
  BY <1>2 DEF matrixVars, MatrixInv, EvidenceAccounted, IsMatrixRun, LookedSound, RowsSound, RowsOrToDo
<1>. QED  BY <1>1, <1>2, MatrixStarts, ArtifactsMayChange, SkipClaimKeeps, LookUpIsSound, ClaimRowsKeep,
             OrphanRowKeeps, JsonAccounts DEF TraceNext

(* However files come and go while the matrix is made, whichever claims    *)
(* have an id: it backs no claim with a file that never was there, and of  *)
(* those that always were it shows each with a claim that names it, or as  *)
(* evidence no claim names.  traceability_matrix.py looks each file up     *)
(* once, and what only claims without an id name not at all.               *)
THEOREM EvidenceAccountedHolds == TraceSpec => []EvidenceAccounted
<1>1. MatrixInv => EvidenceAccounted
  BY DEF MatrixInv
<1>. QED  BY <1>1, MatrixInitially, MatrixStep, PTL DEF TraceSpec

-----------------------------------------------------------------------------
(* The benchmark, for any generators and contents, whatever dates are      *)
(* given to its runs and wherever they are killed.                         *)

(* The fields a run of the benchmark has.                                  *)
IsBench(b) ==
  b = [at |-> b.at, date |-> b.date, previous |-> b.previous, iterations |-> b.iterations,
       generated |-> b.generated, run |-> b.run, next |-> b.next]

(* Runs are numbered in the order they start.                              *)
RunsInv ==
  /\ finished \in Seq(Range(finished)) /\ usedDates \in Seq(Dates)
  /\ Len(usedDates) = Len(finished)
  /\ bench # None =>
       /\ IsBench(bench)
       /\ bench.run \in 1..Len(usedDates) /\ usedDates[bench.run] = bench.date
       /\ bench.next \in Nat \ {0}

(* A file that is whole is of a run that had the date.                     *)
OfDate(files, date) ==
  \A f \in BenchFile : files[f] \in Nat \ {0} => files[f] \in DOMAIN usedDates /\ usedDates[files[f]] = date

(* What the steps of a run leave of the run.                               *)
Goes ==
  /\ bench # None
  /\ bench'.run = bench.run /\ bench'.date = bench.date /\ IsBench(bench')
  /\ bench'.next \in {bench.next, bench.next + 1, 1}

(* A step starts a run, computes one, or leaves the history of runs alone. *)
LEMMA BenchGoesOn ==
  ASSUME RunsInv, [BenchNext]_benchVars
  PROVE  \/ \E date \in Dates : StartBench(date)
         \/ UNCHANGED <<finished, usedDates>> /\ (UNCHANGED bench \/ bench' = None \/ Goes)
         \/ ComputeBench /\ Goes
<1>. USE DEF RunsInv, IsBench, Goes
<1>1. CASE \E outcome \in {"passing", "raises", "collides"} : Generate(outcome)
  <2>1. PICK outcome \in {"passing", "raises", "collides"} : Generate(outcome)
    BY <1>1
  <2>2. /\ bench # None /\ UNCHANGED <<finished, usedDates>>
        /\ \E x : bench' = [bench EXCEPT !.generated = x]
    BY <2>1 DEF Generate
  <2>. QED  BY <2>2
<1>2. CASE EndIteration
  <2>1. /\ bench # None /\ UNCHANGED <<finished, usedDates>>
        /\ \E x, y : bench' = [bench EXCEPT !.iterations = x, !.generated = <<>>, !.at = y]
    BY <1>2 DEF EndIteration
  <2>. QED  BY <2>1
<1>3. CASE ComputeBench
  <2>1. bench # None /\ bench' = [bench EXCEPT !.at = "write", !.iterations = <<>>, !.previous = None]
    BY <1>3 DEF ComputeBench
  <2>. QED  BY <1>3, <2>1
<1>4. CASE WriteBenchFile
  <2>1. /\ bench # None /\ UNCHANGED <<finished, usedDates>>
        /\ \E y : bench' = [bench EXCEPT !.next = @ + 1, !.at = y]
    BY <1>4 DEF WriteBenchFile
  <2>. QED  BY <2>1
<1>5. CASE Unlink \/ (\E f \in BenchFile : RemoveLatestFile(f)) \/ InputsChange
  BY <1>5 DEF Unlink, RemoveLatestFile, InputsChange
<1>6. CASE RemoveLatest
  <2>1. /\ bench # None /\ UNCHANGED <<finished, usedDates>>
        /\ bench' = [bench EXCEPT !.at = "point", !.next = 1]
    BY <1>6 DEF RemoveLatest
  <2>. QED  BY <2>1
<1>7. CASE PointLatest \/ BenchDies
  BY <1>7 DEF PointLatest, BenchDies
<1>8. CASE CopyLatestFile
  <2>1. /\ bench # None /\ UNCHANGED <<finished, usedDates>>
        /\ bench' = None \/ bench' = [bench EXCEPT !.next = @ + 1]
    BY <1>8 DEF CopyLatestFile
  <2>. QED  BY <2>1
<1>9. CASE UNCHANGED benchVars
  BY <1>9 DEF benchVars
<1>. HIDE DEF RunsInv, IsBench, Goes
<1>. QED  BY <1>1, <1>2, <1>3, <1>4, <1>5, <1>6, <1>7, <1>8, <1>9 DEF BenchNext

(* A run starts after the others, with a date and nothing computed.        *)
LEMMA BenchStarts ==
  ASSUME RunsInv, NEW date \in Dates, StartBench(date)
  PROVE  /\ finished' = Append(finished, None) /\ usedDates' = Append(usedDates, date)
         /\ bench = None
         /\ bench' = [at |-> "generate", date |-> date, previous |-> PreviousResults,
                      iterations |-> <<>>, generated |-> <<>>, run |-> Len(finished) + 1, next |-> 1]
         /\ UNCHANGED <<content, graphs, corpora, dated, latest>>
BY DEF StartBench

(* The record of a run is written once.                                    *)
LEMMA RunIsComputed ==
  ASSUME RunsInv, ComputeBench
  PROVE  /\ finished' \in Seq(Range(finished')) /\ Len(finished') = Len(finished)
         /\ \A n \in 1..Len(finished) : n # bench.run => finished'[n] = finished[n]
         /\ finished'[bench.run] =
              [ ring1 |-> bench.iterations[1].ring1, ring2 |-> bench.iterations[1].ring2,
                ring1_status |-> bench.iterations[1].ring1_status,
                byte_identical |-> ByteIdentical(bench.iterations),
                delta |-> ComputeDelta(bench.previous, bench.iterations[1]),
                recommendations |-> ComputeRecommendations(bench.iterations[1]) ]
         /\ UNCHANGED usedDates
<1>1. bench # None /\ bench.run \in 1..Len(finished) /\ finished \in Seq(Range(finished))
  BY DEF ComputeBench, RunsInv
<1>. DEFINE x == [ ring1 |-> bench.iterations[1].ring1, ring2 |-> bench.iterations[1].ring2,
                ring1_status |-> bench.iterations[1].ring1_status,
                byte_identical |-> ByteIdentical(bench.iterations),
                delta |-> ComputeDelta(bench.previous, bench.iterations[1]),
                recommendations |-> ComputeRecommendations(bench.iterations[1]) ]
<1>2. finished' = [finished EXCEPT ![bench.run] = x] /\ UNCHANGED usedDates
  BY DEF ComputeBench
<1>. HIDE DEF x
<1>3. finished' \in Seq(Range(finished')) /\ Len(finished') = Len(finished)
      /\ finished'[bench.run] = x /\ \A n \in 1..Len(finished) : n # bench.run => finished'[n] = finished[n]
  <2>1. finished' \in Seq(Range(finished'))
    BY <1>1, <1>2, Replaced
  <2>2. Len(finished') = Len(finished)
    BY <1>1, <1>2, Replaced
  <2>3. finished'[bench.run] = x
    BY <1>1, <1>2, Replaced
  <2>4. \A n \in 1..Len(finished) : n # bench.run => finished'[n] = finished[n]
    BY <1>1, <1>2, Replaced
  <2>. QED  BY <2>1, <2>2, <2>3, <2>4
<1>. QED  BY <1>1, <1>2, <1>3 DEF x

(* The numbering is kept.                                                  *)
LEMMA RunsStep == RunsInv /\ [BenchNext]_benchVars => RunsInv'
<1>. SUFFICES ASSUME RunsInv, [BenchNext]_benchVars PROVE RunsInv'
  OBVIOUS
<1>1. ASSUME NEW date \in Dates, StartBench(date) PROVE RunsInv'
  <2>1. /\ finished' = Append(finished, None) /\ usedDates' = Append(usedDates, date)
        /\ bench' = [at |-> "generate", date |-> date, previous |-> PreviousResults,
                     iterations |-> <<>>, generated |-> <<>>, run |-> Len(finished) + 1, next |-> 1]
    BY <1>1, BenchStarts
  <2>2. finished' \in Seq(Range(finished')) /\ Len(finished') = Len(finished) + 1
    BY <2>1, Appended DEF RunsInv
  <2>3. /\ usedDates' \in Seq(Dates) /\ Len(usedDates') = Len(usedDates) + 1
        /\ usedDates'[Len(usedDates) + 1] = date /\ Len(usedDates) \in Nat /\ Len(usedDates) = Len(finished)
    BY <2>1, AppendProperties, LenProperties DEF RunsInv
  <2>. QED  BY <2>1, <2>2, <2>3 DEF RunsInv, IsBench
<1>2. CASE UNCHANGED <<finished, usedDates>> /\ (UNCHANGED bench \/ bench' = None \/ Goes)
  BY <1>2 DEF RunsInv, Goes, IsBench
<1>3. CASE ComputeBench /\ Goes
  BY <1>3, RunIsComputed DEF RunsInv, Goes
<1>. QED  BY <1>1, <1>2, <1>3, BenchGoesOn

(* A delta leads from its baseline to the run.                             *)
LEMMA DeltaLeads ==
  ASSUME NEW previous, NEW current, previous # None,
         NEW c \in Corpus \ (ComputeDelta(previous, current).added \cup ComputeDelta(previous, current).removed
                               \cup ComputeDelta(previous, current).changed)
  PROVE  current.ring1[c] = previous.ring1[c]
<1>1. /\ c \notin Listed(current) \ Listed(previous) /\ c \notin Listed(previous) \ Listed(current)
      /\ ~(c \in Listed(current) \cap Listed(previous) /\ current.ring1[c] # previous.ring1[c])
  BY DEF ComputeDelta
<1>. QED  BY <1>1 DEF Listed

(* The delta of a run is computed with its record, and never again.        *)
LEMMA BenchDeltaStep == RunsInv /\ DeltaReplays /\ [BenchNext]_benchVars => DeltaReplays'
<1>. SUFFICES ASSUME RunsInv, DeltaReplays, [BenchNext]_benchVars PROVE DeltaReplays'
  OBVIOUS
<1>1. ASSUME NEW date \in Dates, StartBench(date) PROVE DeltaReplays'
  <2>1. finished' = Append(finished, None)
    BY <1>1, BenchStarts
  <2>2. /\ Len(finished') = Len(finished) + 1 /\ finished'[Len(finished) + 1] = None
        /\ \A n \in 1..Len(finished) : finished'[n] = finished[n]
        /\ DOMAIN finished' = 1..Len(finished') /\ DOMAIN finished = 1..Len(finished) /\ Len(finished) \in Nat
    BY <2>1, Appended, LenProperties DEF RunsInv
  <2>3. \A n \in DOMAIN finished' : (n \in DOMAIN finished /\ finished'[n] = finished[n]) \/ finished'[n] = None
    BY <2>2
  <2>. QED  BY <2>3 DEF DeltaReplays
<1>2. CASE UNCHANGED finished
  BY <1>2 DEF DeltaReplays
<1>3. CASE ComputeBench
  <2>1. DOMAIN finished' = 1..Len(finished') /\ DOMAIN finished = 1..Len(finished) /\ Len(finished') = Len(finished)
    BY <1>3, RunIsComputed, LenProperties DEF RunsInv
  <2>. DEFINE first == bench.iterations[1]
              delta == ComputeDelta(bench.previous, first)
  <2>2. finished'[bench.run].delta = delta /\ finished'[bench.run].ring1 = first.ring1
    BY <1>3, RunIsComputed
  <2>3. bench.previous = None => delta.baseline = None
    BY DEF ComputeDelta
  <2>4. bench.previous # None => delta.baseline = bench.previous
    BY DEF ComputeDelta
  <2>5. bench.previous # None =>
          \A c \in Corpus \ (delta.added \cup delta.removed \cup delta.changed) : first.ring1[c] = bench.previous.ring1[c]
    BY DeltaLeads
  <2>. HIDE DEF delta, first
  <2>. SUFFICES ASSUME NEW n \in DOMAIN finished', finished'[n] # None, finished'[n].delta.baseline # None,
                       NEW c \in Corpus \ (finished'[n].delta.added \cup finished'[n].delta.removed
                                             \cup finished'[n].delta.changed)
                PROVE  finished'[n].ring1[c] = finished'[n].delta.baseline.ring1[c]
    BY DEF DeltaReplays
  <2>6. CASE n = bench.run
    BY <2>2, <2>3, <2>4, <2>5, <2>6
  <2>7. CASE n # bench.run
    <3>1. n \in DOMAIN finished /\ finished'[n] = finished[n]
      BY <1>3, <2>1, <2>7, RunIsComputed
    <3>. QED  BY <3>1 DEF DeltaReplays
  <2>. QED  BY <2>6, <2>7
<1>. QED  BY <1>1, <1>2, <1>3, BenchGoesOn

(* There is no run at first.                                               *)
LEMMA BenchInitially == BenchInit => RunsInv /\ DeltaReplays
<1>1. <<>> \in Seq(Range(<<>>)) /\ <<>> \in Seq(Dates) /\ Len(<<>>) = 0 /\ DOMAIN <<>> = {}
  BY EmptySeq
<1>. QED  BY <1>1 DEF BenchInit, RunsInv, DeltaReplays

(* The delta a run writes leads from the corpora of its baseline to its    *)
(* own, whatever generators failed in either, and whatever `latest` showed *)
(* when the run began: _compute_delta in smabench.py, for any generators,  *)
(* contents and dates.                                                     *)
THEOREM DeltaReplaysHolds == BenchSpec => []DeltaReplays
<1>. QED  BY BenchInitially, RunsStep, BenchDeltaStep, PTL DEF BenchSpec

(* The files of before are of the runs of before.                          *)
LEMMA OfDateKept ==
  ASSUME RunsInv, [BenchNext]_benchVars, NEW files, NEW date, OfDate(files, date)
  PROVE  \A f \in BenchFile : files[f] \in Nat \ {0} => files[f] \in DOMAIN usedDates' /\ usedDates'[files[f]] = date
<1>1. usedDates' = usedDates \/ \E d \in Dates : usedDates' = Append(usedDates, d)
  BY BenchGoesOn, BenchStarts, RunIsComputed
<1>2. CASE usedDates' = usedDates
  BY <1>2 DEF OfDate
<1>3. ASSUME NEW d \in Dates, usedDates' = Append(usedDates, d) PROVE \A n \in DOMAIN usedDates : n \in DOMAIN usedDates' /\ usedDates'[n] = usedDates[n]
  <2>1. /\ usedDates' \in Seq(Dates) /\ Len(usedDates') = Len(usedDates) + 1 /\ Len(usedDates) \in Nat
        /\ \A n \in 1..Len(usedDates) : usedDates'[n] = usedDates[n]
    BY <1>3, AppendProperties, LenProperties DEF RunsInv
  <2>. QED  BY <2>1, LenProperties DEF RunsInv
<1>. QED  BY <1>1, <1>2, <1>3 DEF OfDate

(* Where no file is, none is of another date.                              *)
LEMMA NoFilesOfDate == NoFiles \in [BenchFile -> Int] /\ \A d : OfDate(NoFiles, d)
BY DEF NoFiles, OfDate

(* What becomes of the directory of a date.                                *)
DatedInv ==
  /\ dated \in [Dates -> [BenchFile -> Int]]
  /\ \A d \in Dates : OfDate(dated[d], d)

(* A run writes into the directory of its date only.                       *)
LEMMA DatedStep == RunsInv /\ DatedInv /\ [BenchNext]_benchVars => DatedInv'
<1>. SUFFICES ASSUME RunsInv, DatedInv, [BenchNext]_benchVars PROVE DatedInv'
  OBVIOUS
<1>1. ASSUME NEW d \in Dates
      PROVE  \A f \in BenchFile : dated[d][f] \in Nat \ {0} => dated[d][f] \in DOMAIN usedDates' /\ usedDates'[dated[d][f]] = d
  BY OfDateKept DEF DatedInv
<1>2. CASE UNCHANGED dated
  BY <1>1, <1>2 DEF DatedInv, OfDate
<1>3. ASSUME bench # None, NEW f, NEW n \in Int, dated' = [dated EXCEPT ![bench.date][f] = n], UNCHANGED usedDates,
             n = bench.run \/ n = Torn
      PROVE  DatedInv'
  <2>1. n \in Nat \ {0} => n \in DOMAIN usedDates' /\ usedDates'[n] = bench.date
    BY <1>3, LenProperties DEF RunsInv, Torn
  <2>2. dated' \in [Dates -> [BenchFile -> Int]]
    BY <1>3 DEF DatedInv
  <2>3. ASSUME NEW d \in Dates, NEW g \in BenchFile, dated'[d][g] \in Nat \ {0}
        PROVE  dated'[d][g] \in DOMAIN usedDates' /\ usedDates'[dated'[d][g]] = d
    <3>1. dated'[d][g] = IF d = bench.date /\ g = f THEN n ELSE dated[d][g]
      BY <1>3 DEF DatedInv
    <3>. QED  BY <1>1, <2>1, <2>3, <3>1
  <2>. QED  BY <2>2, <2>3 DEF DatedInv, OfDate
<1>4. CASE WriteBenchFile
  <2>1. bench # None /\ bench.run \in Int /\ UNCHANGED usedDates
        /\ dated' = [dated EXCEPT ![bench.date][BenchFiles[bench.next]] = bench.run]
    BY <1>4, LenProperties DEF WriteBenchFile, RunsInv
  <2>. QED  BY <1>3, <2>1
<1>5. CASE BenchDies
  <2>1. bench # None /\ UNCHANGED usedDates /\ Torn \in Int
        /\ (UNCHANGED dated \/ dated' = [dated EXCEPT ![bench.date][BenchFiles[bench.next]] = Torn])
    BY <1>5 DEF BenchDies, Torn
  <2>. QED  BY <1>2, <1>3, <2>1
<1>6. UNCHANGED dated \/ WriteBenchFile \/ BenchDies
  BY DEF BenchNext, benchVars, StartBench, Generate, EndIteration, ComputeBench, Unlink, RemoveLatestFile,
         RemoveLatest, PointLatest, CopyLatestFile, InputsChange
<1>. QED  BY <1>2, <1>4, <1>5, <1>6

(* What `latest` shows.                                                    *)
LatestInv ==
  /\ latest \in [kind : {"absent", "link", "directory"}, date : Dates \cup {None}, files : [BenchFile -> Int]]
  /\ latest.kind = "link" => latest.date \in Dates
  /\ \E d \in Dates \cup {None} : OfDate(latest.files, d)
  /\ latest.kind # "directory" => latest.files = NoFiles
  /\ bench # None /\ bench.at = "point" =>
       /\ latest.kind # "link" /\ OfDate(latest.files, bench.date)

(* The steps that leave `latest` as it is.                                 *)
LEMMA LatestLeft ==
  ASSUME RunsInv, DatedInv, LatestInv, [BenchNext]_benchVars, latest' = latest,
         bench' = None \/ bench'.at # "point" \/ bench' = bench
  PROVE  LatestInv'
<1>1. \A d, f : OfDate(latest.files, d) /\ f \in BenchFile /\ latest.files[f] \in Nat \ {0}
                => latest.files[f] \in DOMAIN usedDates' /\ usedDates'[latest.files[f]] = d
  BY OfDateKept
<1>2. \A d : OfDate(latest.files, d) => OfDate(latest.files, d)'
  BY <1>1 DEF OfDate
<1>. QED  BY <1>2 DEF LatestInv

(* A step that changes `latest` starts no run.                             *)
LEMMA LatestChanged ==
  ASSUME RunsInv, latest' \in [kind : {"absent", "link", "directory"}, date : Dates \cup {None}, files : [BenchFile -> Int]],
         usedDates' = usedDates, NEW d \in Dates \cup {None}, OfDate(latest'.files, d),
         latest'.kind = "link" => latest'.date \in Dates,
         latest'.kind # "directory" => latest'.files = NoFiles,
         bench' # None /\ bench'.at = "point" => latest'.kind # "link" /\ bench'.date = d
  PROVE  LatestInv'
BY DEF LatestInv, OfDate

(* The steps of _set_latest_pointer: files of two dates never meet in the  *)
(* copy, because all of the older ones are removed before the first of the *)
(* newer is there.                                                         *)
LEMMA LatestStep == RunsInv /\ DatedInv /\ LatestInv /\ [BenchNext]_benchVars => LatestInv'
<1>. SUFFICES ASSUME RunsInv, DatedInv, LatestInv, [BenchNext]_benchVars PROVE LatestInv'
  OBVIOUS
<1>1. CASE \/ \E date \in Dates : StartBench(date)
           \/ \E outcome \in {"passing", "raises", "collides"} : Generate(outcome)
           \/ EndIteration \/ ComputeBench \/ WriteBenchFile \/ BenchDies \/ InputsChange \/ UNCHANGED benchVars
  <2>1. latest' = latest /\ (bench' = None \/ bench'.at # "point" \/ bench' = bench)
    <3>1. ASSUME NEW date \in Dates, StartBench(date) PROVE latest' = latest /\ bench'.at # "point"
      BY <3>1 DEF StartBench
    <3>2. ASSUME NEW outcome, Generate(outcome) PROVE latest' = latest /\ bench'.at # "point"
      BY <3>2 DEF Generate, RunsInv, IsBench
    <3>3. ASSUME EndIteration PROVE latest' = latest /\ bench'.at # "point"
      <4>1. bench # None /\ \E x : bench' = [bench EXCEPT !.iterations = x, !.generated = <<>>,
                                      !.at = IF Len(bench.iterations) = 1 THEN "compute" ELSE "generate"]
        BY <3>3 DEF EndIteration
      <4>. QED  BY <3>3, <4>1 DEF EndIteration, RunsInv, IsBench
    <3>4. ASSUME ComputeBench PROVE latest' = latest /\ bench'.at # "point"
      BY <3>4 DEF ComputeBench, RunsInv, IsBench
    <3>5. ASSUME WriteBenchFile PROVE latest' = latest /\ bench'.at # "point"
      BY <3>5 DEF WriteBenchFile, RunsInv, IsBench
    <3>. QED  BY <1>1, <3>1, <3>2, <3>3, <3>4, <3>5 DEF BenchDies, InputsChange, benchVars
  <2>. QED  BY <2>1, LatestLeft
<1>2. CASE Unlink
  <2>1. latest.files = NoFiles /\ bench.at = "clear" /\ bench' = bench /\ usedDates' = usedDates
        /\ latest' = [latest EXCEPT !.kind = "absent", !.date = None]
    BY <1>2 DEF Unlink, LatestInv
  <2>2. latest'.files = NoFiles /\ latest'.kind = "absent"
        /\ latest' \in [kind : {"absent", "link", "directory"}, date : Dates \cup {None}, files : [BenchFile -> Int]]
    BY <2>1, NoFilesOfDate DEF LatestInv
  <2>. QED  BY <2>1, <2>2, NoFilesOfDate, LatestChanged
<1>3. ASSUME NEW f \in BenchFile, RemoveLatestFile(f) PROVE LatestInv'
  <2>1. latest.kind = "directory" /\ bench.at = "clear" /\ bench' = bench /\ usedDates' = usedDates
        /\ latest' = [latest EXCEPT !.files[f] = 0]
    BY <1>3 DEF RemoveLatestFile
  <2>2. PICK d \in Dates \cup {None} : OfDate(latest.files, d)
    BY DEF LatestInv
  <2>3. latest'.kind = "directory" /\ latest'.files = [latest.files EXCEPT ![f] = 0]
        /\ latest' \in [kind : {"absent", "link", "directory"}, date : Dates \cup {None}, files : [BenchFile -> Int]]
    BY <2>1 DEF LatestInv
  <2>4. OfDate(latest'.files, d)
    BY <2>2, <2>3 DEF LatestInv, OfDate
  <2>. QED  BY <2>1, <2>3, <2>4, LatestChanged
<1>4. CASE RemoveLatest
  <2>1. bench # None /\ latest.kind # "link" /\ usedDates' = usedDates
        /\ bench' = [bench EXCEPT !.at = "point", !.next = 1]
        /\ latest' = IF latest.files = NoFiles THEN [latest EXCEPT !.kind = "absent"] ELSE latest
    BY <1>4 DEF RemoveLatest
  <2>2. latest.files = NoFiles
    <3>1. \A f \in BenchFile : latest.files[f] = 0
      BY <1>4 DEF RemoveLatest, RemovedFiles
    <3>2. latest.files \in [BenchFile -> Int]
      BY DEF LatestInv
    <3>. QED  BY <3>1, <3>2 DEF NoFiles
  <2>3. latest'.kind = "absent" /\ latest'.files = NoFiles
        /\ latest' \in [kind : {"absent", "link", "directory"}, date : Dates \cup {None}, files : [BenchFile -> Int]]
    BY <2>1, <2>2 DEF LatestInv
  <2>4. bench'.date \in Dates
    <3>1. bench'.date = bench.date
      BY <2>1 DEF RunsInv, IsBench
    <3>. QED  BY <2>1, <3>1, ElementOfSeq DEF RunsInv
  <2>. QED  BY <2>1, <2>3, <2>4, NoFilesOfDate, LatestChanged
<1>5. CASE PointLatest
  <2>1. bench # None /\ bench' = None /\ usedDates' = usedDates
        /\ latest' = [kind |-> "link", date |-> bench.date, files |-> NoFiles]
    BY <1>5 DEF PointLatest
  <2>2. bench.date \in Dates
    BY <2>1, ElementOfSeq DEF RunsInv
  <2>. QED  BY <2>1, <2>2, NoFilesOfDate, LatestChanged
<1>6. CASE CopyLatestFile
  <2>1. bench # None /\ bench.at = "point" /\ usedDates' = usedDates
    BY <1>6 DEF CopyLatestFile
  <2>2. CASE bench.next <= Len(BenchFiles)
    <3>. DEFINE f == BenchFiles[bench.next]
    <3>1. latest' = [latest EXCEPT !.kind = "directory", !.files[f] = dated[bench.date][f]]
          /\ bench' = [bench EXCEPT !.next = @ + 1]
      BY <1>6, <2>2 DEF CopyLatestFile
    <3>2. bench.date \in Dates /\ bench'.date = bench.date /\ OfDate(latest.files, bench.date)
      BY <2>1, <3>1, ElementOfSeq DEF RunsInv, IsBench, LatestInv
    <3>3. f \in BenchFile
      BY <2>1, <2>2 DEF BenchFile, RunsInv, BenchFiles
    <3>. HIDE DEF f
    <3>4. latest'.kind = "directory" /\ latest'.files = [latest.files EXCEPT ![f] = dated[bench.date][f]]
          /\ latest' \in [kind : {"absent", "link", "directory"}, date : Dates \cup {None}, files : [BenchFile -> Int]]
      BY <3>1, <3>2, <3>3 DEF LatestInv, DatedInv
    <3>5. OfDate(latest'.files, bench.date)
      BY <3>2, <3>3, <3>4 DEF LatestInv, OfDate, DatedInv
    <3>. QED  BY <2>1, <3>2, <3>4, <3>5, LatestChanged
  <2>3. CASE ~(bench.next <= Len(BenchFiles))
    BY <1>6, <2>3, LatestLeft DEF CopyLatestFile
  <2>. QED  BY <2>2, <2>3
<1>. QED  BY <1>1, <1>2, <1>3, <1>4, <1>5, <1>6 DEF BenchNext

(* Files of one date are of one run, if the date was used once.            *)
LEMMA OneRunShown == RunsInv /\ DatedInv /\ LatestInv => LatestOfOneRun
<1>. SUFFICES ASSUME RunsInv, DatedInv, LatestInv,
                     \A i, j \in DOMAIN usedDates : usedDates[i] = usedDates[j] => i = j,
                     NEW f \in BenchFile, NEW g \in BenchFile,
                     LatestFile(f) \in Nat \ {0}, LatestFile(g) \in Nat \ {0}
              PROVE  LatestFile(f) = LatestFile(g)
  BY DEF LatestOfOneRun
<1>1. \A files, d : OfDate(files, d) /\ files[f] \in Nat \ {0} /\ files[g] \in Nat \ {0} => files[f] = files[g]
  BY DEF OfDate
<1>2. CASE latest.kind = "link"
  BY <1>1, <1>2 DEF LatestFile, LatestInv, DatedInv
<1>3. CASE latest.kind = "directory"
  BY <1>1, <1>3 DEF LatestFile, LatestInv
<1>4. CASE latest.kind = "absent"
  BY <1>4 DEF LatestFile
<1>. QED  BY <1>2, <1>3, <1>4 DEF LatestInv

(* Nothing was written before the first run.                               *)
LEMMA FilesInitially == BenchInit => DatedInv /\ LatestInv
<1>. SUFFICES ASSUME BenchInit PROVE DatedInv /\ LatestInv
  OBVIOUS
<1>1. DatedInv
  BY NoFilesOfDate DEF BenchInit, DatedInv
<1>2. LatestInv
  BY NoFilesOfDate DEF BenchInit, LatestInv
<1>. QED  BY <1>1, <1>2

(* Whoever reads `latest` sees the files of one run, link or copy, wherever *)
(* runs were killed, as long as no date was used twice:                    *)
(* _set_latest_pointer in smabench.py, for any dates and generators.       *)
THEOREM LatestOfOneRunHolds == BenchSpec => []LatestOfOneRun
<1>. QED  BY BenchInitially, FilesInitially, RunsStep, DatedStep, LatestStep, OneRunShown, PTL DEF BenchSpec

(* What an iteration made is in the corpora, unless it failed: a run that  *)
(* compares two iterations has left what the second one made.              *)
Made(c, made) == made # None => corpora[c] = [items |-> made, metadata |-> made]

(* A corpus is its items and its metadata.                                 *)
CorporaShape ==
  /\ corpora = [c \in Corpus |-> corpora[c]]
  /\ \A c \in Corpus : corpora[c] = [items |-> corpora[c].items, metadata |-> corpora[c].metadata]

(* The second of two iterations made what is in the corpora.               *)
IterationInv ==
  bench # None =>
    /\ bench.at \in {"generate", "compute", "write", "clear", "point"}
    /\ bench.iterations \in Seq(Range(bench.iterations))
    /\ bench.generated \in Seq(Range(bench.generated))
    /\ Len(bench.generated) <= Len(Generators)
    /\ \A i \in 1..Len(bench.generated) : Made(Generators[i], bench.generated[i])
    /\ bench.at = "generate" => Len(bench.iterations) \in {0, 1}
    /\ bench.at = "compute" =>
         /\ Len(bench.iterations) = 2
         /\ \A c \in Corpus : Made(c, bench.iterations[2].ring1[c])

CorporaInv == CorporaShape /\ IterationInv /\ IdenticalMeansWhole

(* A corpus that is spoiled or made anew is that of the next generator.    *)
LEMMA CorpusChanges ==
  ASSUME CorporaShape, NEW k, NEW v, corpora' = [corpora EXCEPT ![k] = v], v = [items |-> v.items, metadata |-> v.metadata]
  PROVE  CorporaShape' /\ (\A c \in Corpus : c # k => corpora'[c] = corpora[c]) /\ (k \in Corpus => corpora'[k] = v)
BY DEF CorporaShape

(* A run starts with the first iteration.                                  *)
LEMMA IterationStarts ==
  ASSUME RunsInv, CorporaInv, NEW date \in Dates, StartBench(date)
  PROVE  CorporaInv'
<1>1. bench'.at = "generate" /\ bench'.iterations = <<>> /\ bench'.generated = <<>> /\ corpora' = corpora
  BY DEF StartBench
<1>2. <<>> \in Seq(Range(<<>>)) /\ Len(<<>>) = 0 /\ Len(Generators) \in Nat
  BY EmptySeq, LenProperties, BenchAssumption
<1>. QED  BY <1>1, <1>2 DEF CorporaInv, CorporaShape, IterationInv, IdenticalMeansWhole

(* A generator that fails spoils its own corpus and no other, because the  *)
(* names of the generators differ; its result is None.                     *)
LEMMA GeneratorRuns ==
  ASSUME RunsInv, CorporaInv, NEW outcome \in {"passing", "raises", "collides"}, Generate(outcome)
  PROVE  CorporaInv'
<1>. DEFINE n == Len(bench.generated)
            c == Generators[n + 1]
            made == IF outcome = "passing" THEN content[c] ELSE None
<1>1. /\ bench # None /\ bench.at = "generate" /\ n < Len(Generators)
      /\ corpora' = CASE outcome = "passing" -> [corpora EXCEPT ![c] = [items |-> content[c], metadata |-> content[c]]]
                      [] outcome = "collides" -> [corpora EXCEPT ![c].items = "some"]
                      [] OTHER -> corpora
      /\ bench' = [bench EXCEPT !.generated = Append(@, made)]
  BY DEF Generate
<1>2. CorporaShape /\ n \in Nat /\ Len(Generators) \in Nat /\ Generators \in Seq(Corpus)
      /\ bench.generated \in Seq(Range(bench.generated))
  BY <1>1, BenchAssumption, LenProperties DEF CorporaInv, IterationInv
<1>3. n + 1 \in 1..Len(Generators) /\ c \in Corpus /\ DOMAIN Generators = 1..Len(Generators)
  BY <1>1, <1>2, ElementOfSeq, LenProperties
<1>. HIDE DEF c
<1>4. CorporaShape' /\ (\A d \in Corpus : d # c => corpora'[d] = corpora[d])
      /\ (made # None => corpora'[c] = [items |-> made, metadata |-> made])
  <2>1. CASE outcome = "passing"
    <3>1. corpora' = [corpora EXCEPT ![c] = [items |-> content[c], metadata |-> content[c]]] /\ made = content[c]
      BY <1>1, <2>1
    <3>. QED  BY <1>2, <1>3, <3>1, CorpusChanges
  <2>2. CASE outcome = "collides"
    <3>. DEFINE v == [items |-> "some", metadata |-> corpora[c].metadata]
    <3>1. corpora' = [corpora EXCEPT ![c].items = "some"] /\ made = None
      BY <1>1, <2>2
    <3>2. [corpora[c] EXCEPT !.items = "some"] = v
      BY <1>2, <1>3 DEF CorporaShape
    <3>3. corpora' = [corpora EXCEPT ![c] = v]
      BY <3>1, <3>2
    <3>4. v = [items |-> v.items, metadata |-> v.metadata]
      OBVIOUS
    <3>. HIDE DEF v, made
    <3>5. CorporaShape'
      BY <1>2, <3>3, <3>4, CorpusChanges
    <3>6. \A d \in Corpus : d # c => corpora'[d] = corpora[d]
      BY <1>2, <3>3, <3>4, CorpusChanges
    <3>. QED  BY <3>1, <3>5, <3>6
  <2>3. CASE outcome = "raises"
    BY <1>1, <1>2, <2>3 DEF CorporaShape
  <2>. QED  BY <2>1, <2>2, <2>3
<1>5. /\ bench'.generated = Append(bench.generated, made) /\ bench'.at = "generate" /\ bench'.iterations = bench.iterations
  BY <1>1 DEF RunsInv, IsBench
<1>. HIDE DEF made
<1>6. /\ bench'.generated \in Seq(Range(bench'.generated)) /\ Len(bench'.generated) = n + 1
      /\ bench'.generated[n + 1] = made /\ \A i \in 1..n : bench'.generated[i] = bench.generated[i]
  BY <1>2, <1>5, Appended
<1>7. ASSUME NEW i \in 1..Len(bench'.generated) PROVE Made(Generators[i], bench.generated[i])'
  <2>1. CASE i = n + 1
    BY <1>4, <1>6, <2>1 DEF Made, c
  <2>2. CASE i # n + 1
    <3>1. i \in 1..n /\ i \in DOMAIN Generators /\ n + 1 \in DOMAIN Generators
      BY <1>2, <1>3, <1>6, <2>2
    <3>2. Generators[i] # c /\ Generators[i] \in Corpus
      BY <1>2, <2>2, <3>1, BenchAssumption, ElementOfSeq DEF c
    <3>3. Made(Generators[i], bench.generated[i])
      BY <1>1, <3>1 DEF CorporaInv, IterationInv
    <3>. QED  BY <1>4, <1>6, <3>1, <3>2, <3>3 DEF Made
  <2>. QED  BY <2>1, <2>2
<1>8. IterationInv'
  BY <1>1, <1>2, <1>5, <1>6, <1>7 DEF CorporaInv, IterationInv
<1>9. IdenticalMeansWhole'
  BY <1>5 DEF IdenticalMeansWhole
<1>. QED  BY <1>4, <1>8, <1>9 DEF CorporaInv

(* The results of an iteration list what its generators made.              *)
LEMMA IterationEnds ==
  ASSUME RunsInv, CorporaInv, EndIteration
  PROVE  CorporaInv'
<1>1. /\ bench # None /\ bench.at = "generate" /\ Len(bench.generated) = Len(Generators) /\ corpora' = corpora
      /\ bench' = [bench EXCEPT
           !.iterations = Append(@, BuildResults), !.generated = <<>>,
           !.at = IF Len(bench.iterations) = 1 THEN "compute" ELSE "generate"]
  BY DEF EndIteration
<1>2. /\ bench'.iterations = Append(bench.iterations, BuildResults) /\ bench'.generated = <<>>
      /\ bench'.at = IF Len(bench.iterations) = 1 THEN "compute" ELSE "generate"
  BY <1>1 DEF RunsInv, IsBench
<1>3. ASSUME NEW c \in Corpus PROVE Made(c, BuildResults.ring1[c])
  <2>. DEFINE i == CHOOSE i \in DOMAIN Generators : Generators[i] = c
  <2>1. i \in DOMAIN Generators /\ Generators[i] = c
    BY DEF Corpus
  <2>2. BuildResults.ring1[c] = bench.generated[i]
    BY DEF BuildResults
  <2>3. i \in 1..Len(bench.generated)
    BY <1>1, <2>1, BenchAssumption, LenProperties
  <2>. HIDE DEF i
  <2>4. Made(Generators[i], bench.generated[i])
    BY <1>1, <2>3 DEF CorporaInv, IterationInv
  <2>. QED  BY <2>1, <2>2, <2>4
<1>4. /\ bench'.iterations \in Seq(Range(bench'.iterations)) /\ Len(bench'.iterations) = Len(bench.iterations) + 1
      /\ bench'.iterations[Len(bench.iterations) + 1] = BuildResults
  BY <1>1, <1>2, Appended DEF CorporaInv, IterationInv
<1>5. Len(bench.iterations) \in {0, 1} /\ Len(Generators) \in Nat
  BY <1>1, BenchAssumption, LenProperties DEF CorporaInv, IterationInv
<1>6. <<>> \in Seq(Range(<<>>)) /\ Len(<<>>) = 0
  BY EmptySeq
<1>7. IterationInv'
  BY <1>1, <1>2, <1>3, <1>4, <1>5, <1>6 DEF IterationInv, Made
<1>8. IdenticalMeansWhole' /\ CorporaShape'
  BY <1>1, <1>2 DEF IdenticalMeansWhole, CorporaShape, CorporaInv
<1>. QED  BY <1>7, <1>8 DEF CorporaInv

(* Equal iterations list the same corpora, and the second one left them.   *)
LEMMA IdenticalIsWhole ==
  ASSUME RunsInv, CorporaInv, ComputeBench
  PROVE  CorporaInv'
<1>1. /\ bench # None /\ bench.at = "compute" /\ corpora' = corpora
      /\ bench' = [bench EXCEPT !.at = "write", !.iterations = <<>>, !.previous = None]
  BY DEF ComputeBench
<1>2. /\ bench'.iterations = <<>> /\ bench'.generated = bench.generated /\ bench'.at = "write" /\ bench'.run = bench.run
  BY <1>1 DEF RunsInv, IsBench
<1>3. <<>> \in Seq(Range(<<>>)) /\ Len(<<>>) = 0
  BY EmptySeq
<1>4. IterationInv' /\ CorporaShape'
  BY <1>1, <1>2, <1>3 DEF CorporaInv, CorporaShape, IterationInv, Made
<1>5. /\ finished'[bench.run].ring1 = bench.iterations[1].ring1
      /\ finished'[bench.run].byte_identical = (bench.iterations[1] = bench.iterations[2])
  BY RunIsComputed DEF ByteIdentical
<1>6. ASSUME finished'[bench.run].byte_identical, NEW c \in Listed(finished'[bench.run])
      PROVE  corpora[c] = [items |-> finished'[bench.run].ring1[c], metadata |-> finished'[bench.run].ring1[c]]
  <2>1. c \in Corpus /\ finished'[bench.run].ring1[c] # None
    BY DEF Listed
  <2>2. finished'[bench.run].ring1[c] = bench.iterations[2].ring1[c]
    BY <1>5, <1>6
  <2>3. Made(c, bench.iterations[2].ring1[c])
    BY <1>1, <2>1 DEF CorporaInv, IterationInv
  <2>. QED  BY <2>1, <2>2, <2>3 DEF Made
<1>7. IdenticalMeansWhole'
  BY <1>1, <1>2, <1>6 DEF IdenticalMeansWhole, Listed
<1>. QED  BY <1>4, <1>7 DEF CorporaInv

(* No other step of a run touches the corpora.                             *)
LEMMA CorporaStep == RunsInv /\ CorporaInv /\ [BenchNext]_benchVars => CorporaInv'
<1>. SUFFICES ASSUME RunsInv, CorporaInv, [BenchNext]_benchVars PROVE CorporaInv'
  OBVIOUS
<1>1. ASSUME bench' = None, CorporaShape' PROVE CorporaInv'
  BY <1>1 DEF CorporaInv, IterationInv, IdenticalMeansWhole
<1>2. ASSUME UNCHANGED <<corpora, finished>>, bench # None, bench.at # "compute", bench.at # "generate", bench'.run = bench.run,
             bench'.iterations = bench.iterations, bench'.generated = bench.generated,
             bench.at \in {"write", "clear", "point"}, bench'.at \in {"write", "clear", "point"}
      PROVE  CorporaInv'
  BY <1>2 DEF CorporaInv, CorporaShape, IterationInv, IdenticalMeansWhole, Made, Listed
<1>3. ASSUME UNCHANGED <<corpora, finished, bench>> PROVE CorporaInv'
  BY <1>3 DEF CorporaInv, CorporaShape, IterationInv, IdenticalMeansWhole, Made, Listed
<1>4. CASE WriteBenchFile
  <2>1. bench # None /\ bench.at = "write" /\ UNCHANGED <<corpora, finished>>
        /\ bench' = [bench EXCEPT !.next = @ + 1, !.at = IF bench.next = Len(BenchFiles) THEN "clear" ELSE @]
    BY <1>4 DEF WriteBenchFile
  <2>2. /\ bench'.run = bench.run /\ bench'.iterations = bench.iterations /\ bench'.generated = bench.generated
        /\ bench'.at \in {"write", "clear"}
    BY <2>1 DEF RunsInv, IsBench
  <2>. QED  BY <1>2, <2>1, <2>2
<1>5. CASE RemoveLatest
  <2>1. bench # None /\ bench.at = "clear" /\ UNCHANGED <<corpora, finished>>
        /\ bench' = [bench EXCEPT !.at = "point", !.next = 1]
    BY <1>5 DEF RemoveLatest
  <2>2. /\ bench'.run = bench.run /\ bench'.iterations = bench.iterations /\ bench'.generated = bench.generated
        /\ bench'.at = "point"
    BY <2>1 DEF RunsInv, IsBench
  <2>. QED  BY <1>2, <2>1, <2>2
<1>6. CASE CopyLatestFile
  <2>1. bench # None /\ bench.at = "point" /\ UNCHANGED <<corpora, finished>>
        /\ (bench' = None \/ bench' = [bench EXCEPT !.next = @ + 1])
    BY <1>6 DEF CopyLatestFile
  <2>2. CASE bench' = None
    BY <1>1, <2>1, <2>2 DEF CorporaInv, CorporaShape
  <2>3. CASE bench' = [bench EXCEPT !.next = @ + 1]
    <3>1. /\ bench'.run = bench.run /\ bench'.iterations = bench.iterations /\ bench'.generated = bench.generated
          /\ bench'.at = "point"
      BY <2>1, <2>3 DEF RunsInv, IsBench
    <3>. QED  BY <1>2, <2>1, <3>1
  <2>. QED  BY <2>1, <2>2, <2>3
<1>7. CASE PointLatest
  BY <1>1, <1>7 DEF PointLatest, CorporaInv, CorporaShape
<1>8. CASE BenchDies
  <2>1. bench' = None
    BY <1>8 DEF BenchDies
  <2>2. CASE corpora' = corpora
    BY <1>1, <2>1, <2>2 DEF CorporaInv, CorporaShape
  <2>3. ASSUME NEW k, corpora' = [corpora EXCEPT ![k].items = "some"] PROVE CorporaShape'
    BY <2>3 DEF CorporaInv, CorporaShape
  <2>. QED  BY <1>1, <1>8, <2>1, <2>2, <2>3 DEF BenchDies
<1>9. CASE Unlink \/ (\E f \in BenchFile : RemoveLatestFile(f)) \/ InputsChange \/ UNCHANGED benchVars
  BY <1>3, <1>9 DEF Unlink, RemoveLatestFile, InputsChange, benchVars
<1>. QED  BY <1>4, <1>5, <1>6, <1>7, <1>8, <1>9, IterationStarts, GeneratorRuns, IterationEnds, IdenticalIsWhole
       DEF BenchNext

(* There is nothing in the corpora at first.                               *)
LEMMA CorporaInitially == BenchInit => CorporaInv
BY DEF BenchInit, CorporaInv, CorporaShape, IterationInv, IdenticalMeansWhole

(* A run that reports byte_identical has left the corpora it lists, as it  *)
(* lists them, with their metadata, whichever generators failed in which   *)
(* iteration: _stable_hash in smabench.py and write_corpus, for any        *)
(* generators.                                                             *)
THEOREM IdenticalMeansWholeHolds == BenchSpec => []IdenticalMeansWhole
<1>1. CorporaInv => IdenticalMeansWhole
  BY DEF CorporaInv
<1>. QED  BY <1>1, BenchInitially, CorporaInitially, RunsStep, CorporaStep, PTL DEF BenchSpec

=============================================================================
