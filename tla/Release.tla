------------------------------- MODULE Release -------------------------------
(***************************************************************************)
(* `aegisgraph validate` and `aegisgraph export`, aegisgraph/validation.py *)
(* and aegisgraph/export.py: the public candidate tree                     *)
(* exports/public-sanitized, its manifest, and the release_authorized flag *)
(* of ADR-0011.  The command writes three files, one after the other, and  *)
(* may die between two of them or inside a write; the report it exports    *)
(* may be made anew at any moment by `make polydiff-regression`.           *)
(***************************************************************************)
EXTENDS Sanitizer

CONSTANTS
  Reports,          \* contents polydiff/regression/report.json may have
  HandPlaced        \* files a person may have put into the public tree before

(* A manifest is written by the export only.                               *)
ASSUME ReleaseAssumption == \A f \in HandPlaced : f.name # "manifest.json"

VARIABLES
  report,           \* polydiff/regression/report.json, or None
  public,           \* exports/public-sanitized, by file name
  private,          \* the manifest of exports/private-submission, or None
  validation,       \* status in validation-report.json, or None
  job               \* the export under way, or None

releaseVars == <<report, public, private, validation, job>>

REPORT == "polydiff_regression_report.sanitized.json"
MANIFEST == "manifest.json"
EXCLUSIONS == "EXCLUSIONS.md"

-----------------------------------------------------------------------------

(* SHA-256 is taken to be free of collisions.                              *)
Sha256(content) == <<"sha256", content>>

(* Validation looks only at records and evidence_records, and at a         *)
(* document that is itself an evidence record.                             *)
EvidenceRecords(f) == {r \in f.self : r.kind = "evidence"} \cup f.records

(* validate_repo over the public tree and the evidence of the report: the  *)
(* documents parse, and no record is flagged.                              *)
ValidateRepo ==
  LET documents == {public[p] : p \in {q \in DOMAIN public : public[q].ext = ".json"}}
                   \cup ({report} \ {None})
  IN IF \A f \in documents :
          f.parses /\ \A r \in EvidenceRecords(f) : ScanRecord(r) = {}
     THEN "pass" ELSE "fail"

(* _sanitize_polydiff_report: a copy with another posture, and without the *)
(* raw inputs of its fact vectors.                                         *)
Sanitized(f) ==
  [f EXCEPT !.name = REPORT, !.posture = "sanitized_candidate", !.raw = {}]

(* _existing_artifacts: the inputs that exist, and their hashes.           *)
Artifacts ==
  {<<"validation-report.json", Sha256(validation)>>}
  \cup (IF report = None THEN {} ELSE {<<"report.json", Sha256(report)>>})

(* The page that says what is left out names the trees that are.           *)
ExclusionsMd == Document(EXCLUSIONS, ".md", None, {"private_submission", "corpora_private"})

ManifestOf(j) ==
  [Document(MANIFEST, ".json", "sanitized_candidate", {}) EXCEPT
     !.body = [authorized |-> j.authorized, status |-> j.status, artifacts |-> j.artifacts]]

-----------------------------------------------------------------------------

ReleaseInit ==
  /\ report = None
  /\ public \in {[p \in {} |-> None]} \cup {[p \in {f.name} |-> f] : f \in HandPlaced}
  /\ private = None
  /\ validation = None
  /\ job = None

(* make polydiff-regression                                                *)
NewReport ==
  /\ \E f \in Reports : report' = f
  /\ UNCHANGED <<public, private, validation, job>>

(* aegisgraph validate, and the first step of both exports.                *)
Validate ==
  /\ job = None
  /\ validation' = ValidateRepo
  /\ UNCHANGED <<report, public, private, job>>

ExportPublic(dry, env) ==
  /\ job = None
  /\ validation' = ValidateRepo
  /\ job' = [ kind |-> "public", at |-> "report", dry |-> dry, env |-> env,
              status |-> ValidateRepo, artifacts |-> {}, authorized |-> FALSE ]
  /\ UNCHANGED <<report, public, private>>

ExportPrivate ==
  /\ job = None
  /\ validation' = ValidateRepo
  /\ job' = [ kind |-> "private", at |-> "manifest", dry |-> FALSE, env |-> FALSE,
              status |-> ValidateRepo, artifacts |-> {}, authorized |-> FALSE ]
  /\ UNCHANGED <<report, public, private>>

WritePrivateManifest ==
  /\ job # None /\ job.kind = "private"
  /\ private' = [status |-> job.status, artifacts |-> Artifacts]
  /\ job' = None
  /\ UNCHANGED <<report, public, validation>>

At(step) == job # None /\ job.kind = "public" /\ job.at = step

Put(name, f) == [p \in DOMAIN public \cup {name} |-> IF p = name THEN f ELSE public[p]]

(* Without a report the copy of an earlier export stays where it is.       *)
WriteReport ==
  /\ At("report")
  /\ public' = IF report = None \/ job.dry THEN public ELSE Put(REPORT, Sanitized(report))
  /\ job' = [job EXCEPT !.at = "hash"]
  /\ UNCHANGED <<report, private, validation>>

HashArtifacts ==
  /\ At("hash")
  /\ job' = [job EXCEPT
       !.at = "authorize",
       !.artifacts = Artifacts \cup
         IF job.dry \/ REPORT \notin DOMAIN public THEN {}
         ELSE {<<REPORT, Sha256(public[REPORT])>>}]
  /\ UNCHANGED <<report, public, private, validation>>

\* Seeded fault: the variable of the environment is enough.
EnvAuthorizes(env) == env

(* The gate of ADR-0011, over the tree as it is before the manifest and    *)
(* the page of exclusions are written.                                     *)
ReleaseAuthorized(env) == env /\ IsExportSafe(public)

Authorize ==
  /\ At("authorize")
  /\ job' = IF job.dry THEN None
            ELSE [job EXCEPT !.at = "manifest", !.authorized = ReleaseAuthorized(job.env)]
  /\ UNCHANGED <<report, public, private, validation>>

WriteManifest ==
  /\ At("manifest")
  /\ public' = Put(MANIFEST, ManifestOf(job))
  /\ job' = [job EXCEPT !.at = "exclusions"]
  /\ UNCHANGED <<report, private, validation>>

WriteExclusions ==
  /\ At("exclusions")
  /\ public' = Put(EXCLUSIONS, ExclusionsMd)
  /\ job' = None
  /\ UNCHANGED <<report, private, validation>>

Die ==
  /\ job # None
  /\ job' = None
  /\ UNCHANGED <<report, public, private, validation>>

(* Files are opened with "w": what was there is gone at once.              *)
DieInsideWrite ==
  /\ \/ /\ At("report") /\ report # None /\ ~job.dry
        /\ public' = Put(REPORT, CutShort(Sanitized(report)))
     \/ /\ At("manifest")
        /\ public' = Put(MANIFEST, CutShort(ManifestOf(job)))
     \/ /\ At("exclusions")
        /\ public' = Put(EXCLUSIONS, CutShort(ExclusionsMd))
  /\ job' = None
  /\ UNCHANGED <<report, private, validation>>

ReleaseNext ==
  \/ NewReport
  \/ Validate
  \/ \E dry, env \in BOOLEAN : ExportPublic(dry, env)
  \/ ExportPrivate
  \/ WritePrivateManifest
  \/ WriteReport
  \/ HashArtifacts
  \/ Authorize
  \/ WriteManifest
  \/ WriteExclusions
  \/ Die
  \/ DieInsideWrite

ReleaseSpec == ReleaseInit /\ [][ReleaseNext]_releaseVars

-----------------------------------------------------------------------------

Authorized(tree) ==
  MANIFEST \in DOMAIN tree /\ tree[MANIFEST].parses /\ tree[MANIFEST].body.authorized

ListedHash(tree) == {a[2] : a \in {b \in tree[MANIFEST].body.artifacts : b[1] = REPORT}}

(* ADR-0011: a manifest that says release_authorized describes a tree that *)
(* passes the sanitize check, the manifest and the page of exclusions, which *)
(* are written after the check, included.  A crash may leave an older      *)
(* manifest beside a newer report; the report then differs from the hash   *)
(* the manifest lists.  The files put there by hand are in the tree before *)
(* the first export.                                                       *)
AuthorizationBacked ==
  Authorized(public) =>
    \/ IsExportSafe(public)
    \/ REPORT \in DOMAIN public /\ Sha256(public[REPORT]) \notin ListedHash(public)

(* The files an export leaves behind never turn a later check red: as long *)
(* as the operator keeps the variable set and the copy of the report is the *)
(* same, an authorization is not lost by exporting again.                  *)
AuthorizationKept ==
  [][(/\ Authorized(public)
      /\ At("manifest") /\ job.env /\ public'[MANIFEST].parses
      /\ ListedHash(public') = ListedHash(public))
     => Authorized(public')]_releaseVars

=============================================================================
