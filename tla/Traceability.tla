----------------------------- MODULE Traceability ------------------------------
(***************************************************************************)
(* `make traceability`: validator/traceability_matrix.py joins the claims  *)
(* index with the files on disk.  The files are looked up one at a time,   *)
(* first for the claims, then for the artifacts no claim names, while      *)
(* other targets write and remove them.                                    *)
(***************************************************************************)
EXTENDS Absent, Naturals, Sequences, FiniteSets

CONSTANTS
  ProposalClaims,   \* claims_index: a sequence of [id, section, artifacts, planned, requirement]
  SectionArtifacts, \* _SECTION_TO_ARTIFACTS, as a sequence of artifacts
  Requirements,     \* the requirements of dsip_index
  ArtifactBudget    \* bound of the model: changes on disk and matrix runs together

VARIABLES
  artifactsOnDisk,
  matrixRun,        \* the run under way, or None; always and never are history: what
                    \* was there, or was not there, at every moment of it
  matrixJson,       \* the last files written: the rows, with the history of their run
  matrixMarkdown,
  matrixLeft

matrixVars == <<artifactsOnDisk, matrixRun, matrixJson, matrixMarkdown, matrixLeft>>

Claims == {ProposalClaims[i] : i \in DOMAIN ProposalClaims}
ClaimArtifacts == UNION {{c.artifacts[i] : i \in DOMAIN c.artifacts} : c \in Claims}
Artifacts == ClaimArtifacts \cup {SectionArtifacts[i] : i \in DOMAIN SectionArtifacts}

(* The index and the table of sections are lists; a claim may have no id,  *)
(* and the list of its artifacts may be empty.                             *)
ASSUME TraceAssumption ==
  /\ ProposalClaims \in Seq(Claims) /\ SectionArtifacts \in Seq(Artifacts)
  /\ \A c \in Claims : c.artifacts \in Seq(Artifacts)

TraceInit ==
  /\ artifactsOnDisk \in SUBSET Artifacts
  /\ matrixRun = None /\ matrixJson = None /\ matrixMarkdown = None
  /\ matrixLeft = ArtifactBudget

(* Another target writes or removes a file.                                *)
ArtifactChanges ==
  /\ matrixLeft > 0 /\ matrixLeft' = matrixLeft - 1
  /\ \E a \in Artifacts :
       /\ artifactsOnDisk' = (artifactsOnDisk \ {a}) \cup ({a} \ artifactsOnDisk)
       /\ matrixRun' = IF matrixRun = None THEN None
                       ELSE [matrixRun EXCEPT !.always = @ \ {a}, !.never = @ \ {a}]
  /\ UNCHANGED <<matrixJson, matrixMarkdown>>

StartMatrix ==
  /\ matrixRun = None /\ matrixLeft > 0 /\ matrixLeft' = matrixLeft - 1
  /\ matrixRun' = [at |-> "claims", claims |-> ProposalClaims, looked |-> 0, missing |-> {}, rows |-> {},
                   orphans |-> SectionArtifacts,
                   always |-> artifactsOnDisk, never |-> Artifacts \ artifactsOnDisk]
  /\ UNCHANGED <<artifactsOnDisk, matrixJson, matrixMarkdown>>

Exists(artifact) == artifact \in artifactsOnDisk

(* A claim without an id has no rows, and nothing of it is looked up.      *)
SkipClaim ==
  /\ matrixRun # None /\ matrixRun.at = "claims" /\ matrixRun.claims # <<>>
  /\ Head(matrixRun.claims).id = None
  /\ matrixRun' = [matrixRun EXCEPT !.claims = Tail(@)]
  /\ UNCHANGED <<artifactsOnDisk, matrixJson, matrixMarkdown, matrixLeft>>

(* _missing: the next artifact of the claim.                               *)
LookUpArtifact ==
  /\ matrixRun # None /\ matrixRun.at = "claims" /\ matrixRun.claims # <<>>
  /\ LET claim == Head(matrixRun.claims)
         next == matrixRun.looked + 1
     IN /\ claim.id # None /\ next <= Len(claim.artifacts)
        /\ matrixRun' = [matrixRun EXCEPT !.looked = next,
                           !.missing = IF Exists(claim.artifacts[next]) THEN @ ELSE @ \cup {next}]
  /\ UNCHANGED <<artifactsOnDisk, matrixJson, matrixMarkdown, matrixLeft>>

\* Seeded fault: a claim is backed as soon as one of its artifacts is there.
StatusWhenAnyIsThere(claim, missing) ==
  IF claim.artifacts = <<>> THEN (IF claim.planned THEN "planned" ELSE "claim_without_evidence")
  ELSE IF missing = DOMAIN claim.artifacts THEN "claim_without_evidence" ELSE "ok"

RowStatusForClaim(claim, missing) ==
  IF claim.artifacts = <<>> THEN (IF claim.planned THEN "planned" ELSE "claim_without_evidence")
  ELSE IF missing # {} THEN "claim_without_evidence" ELSE "ok"

Row(artifact, claim, requirement, status, missing) ==
  [artifact |-> artifact, claim |-> claim, requirement |-> requirement, status |-> status, missing |-> missing]

RowsOfClaim(claim, missing) ==
  LET status == RowStatusForClaim(claim, missing)
  IN IF claim.artifacts = <<>> THEN {Row(None, claim.id, claim.requirement, status, FALSE)}
     ELSE {Row(claim.artifacts[i], claim.id, claim.requirement, status, i \in missing) : i \in DOMAIN claim.artifacts}

ClaimRows ==
  /\ matrixRun # None /\ matrixRun.at = "claims" /\ matrixRun.claims # <<>>
  /\ LET claim == Head(matrixRun.claims)
     IN /\ claim.id # None /\ matrixRun.looked = Len(claim.artifacts)
        /\ matrixRun' = [matrixRun EXCEPT !.claims = Tail(@), !.looked = 0, !.missing = {},
                           !.rows = @ \cup RowsOfClaim(claim, matrixRun.missing)]
  /\ UNCHANGED <<artifactsOnDisk, matrixJson, matrixMarkdown, matrixLeft>>

(* The artifacts of the spec's sections, and at their end the requirements *)
(* no claim names.  The claims without an id count among those that name.  *)
OrphanRow ==
  /\ matrixRun # None /\ matrixRun.at = "claims" /\ matrixRun.claims = <<>> /\ matrixRun.orphans # <<>>
  /\ LET a == Head(matrixRun.orphans)
     IN matrixRun' = [matrixRun EXCEPT !.orphans = Tail(@),
          !.rows = IF Exists(a) /\ a \notin ClaimArtifacts
                   THEN @ \cup {Row(a, None, None, "evidence_without_claim", FALSE)} ELSE @]
  /\ UNCHANGED <<artifactsOnDisk, matrixJson, matrixMarkdown, matrixLeft>>

UnclaimedRequirements ==
  Requirements \ {ProposalClaims[i].requirement : i \in DOMAIN ProposalClaims}

WriteMatrixJson ==
  /\ matrixRun # None /\ matrixRun.at = "claims" /\ matrixRun.claims = <<>> /\ matrixRun.orphans = <<>>
  /\ matrixRun' = [matrixRun EXCEPT !.at = "markdown",
       !.rows = @ \cup {Row(None, None, r, "claim_without_evidence", FALSE) : r \in UnclaimedRequirements}]
  /\ matrixJson' = [rows |-> matrixRun'.rows, always |-> matrixRun.always, never |-> matrixRun.never]
  /\ UNCHANGED <<artifactsOnDisk, matrixMarkdown, matrixLeft>>

WriteMatrixMarkdown ==
  /\ matrixRun # None /\ matrixRun.at = "markdown"
  /\ matrixMarkdown' = matrixRun.rows
  /\ matrixRun' = None
  /\ UNCHANGED <<artifactsOnDisk, matrixJson, matrixLeft>>

(* Killed, or a load that raises: main returns 1 and leaves what there is. *)
MatrixDies ==
  /\ matrixRun # None
  /\ matrixRun' = None
  /\ UNCHANGED <<artifactsOnDisk, matrixJson, matrixMarkdown, matrixLeft>>

TraceNext ==
  \/ ArtifactChanges
  \/ StartMatrix
  \/ SkipClaim
  \/ LookUpArtifact
  \/ ClaimRows
  \/ OrphanRow
  \/ WriteMatrixJson
  \/ WriteMatrixMarkdown
  \/ MatrixDies

TraceSpec == TraceInit /\ [][TraceNext]_matrixVars

-----------------------------------------------------------------------------

(* The artifacts that have a claim to be shown with.                       *)
ArtifactsOfIds == UNION {{c.artifacts[i] : i \in DOMAIN c.artifacts} : c \in {d \in Claims : d.id # None}}

(* However the files change during a run: the matrix backs no claim with   *)
(* an artifact that was there at no moment of it, says "missing" only of   *)
(* one that once was not, and of those that were there all the time it     *)
(* shows each with a claim that names it, or as evidence without a claim   *)
(* when none does.  Only what nothing but claims without an id name, it    *)
(* does not show at all.                                                   *)
EvidenceAccounted ==
  matrixJson # None =>
    /\ \A row \in matrixJson.rows :
         /\ row.status \in {"ok", "evidence_without_claim"} => row.artifact \notin matrixJson.never
         /\ row.missing => row.artifact \notin matrixJson.always
    /\ \A a \in matrixJson.always :
         /\ a \in ArtifactsOfIds => \E row \in matrixJson.rows : row.artifact = a /\ row.claim # None
         /\ a \notin ClaimArtifacts =>
              \E row \in matrixJson.rows : row.artifact = a /\ row.status = "evidence_without_claim"

=============================================================================
