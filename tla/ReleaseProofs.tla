--------------------------- MODULE ReleaseProofs ---------------------------
(***************************************************************************)
(* The public export and the reviewer packet, for any reports, records and *)
(* files placed by hand, with a crash at every point: theorems of Release  *)
(* and ReviewerPacket.                                                     *)
(***************************************************************************)
EXTENDS Release, ReviewerPacket, DataLemmas

(* What the check says of one file.                                        *)
Clean(f) == f.link \/ PathAndContentFailures(f) \cup ScanSchemaDocument(f) = {}

(* The check passes when there is a file and each of them is clean.        *)
LEMMA SafeIsClean ==
  ASSUME NEW tree
  PROVE  IsExportSafe(tree) <=>
           (\E p \in DOMAIN tree : ~tree[p].link) /\ \A p \in DOMAIN tree : Clean(tree[p])
<1>1. IterFiles(tree) = {} <=> \A p \in DOMAIN tree : tree[p].link
  BY DEF IterFiles
<1>2. CASE IterFiles(tree) = {}
  BY <1>1, <1>2 DEF IsExportSafe, ScanExportTree
<1>3. CASE IterFiles(tree) # {}
  <2>1. IsExportSafe(tree) <=>
          UNION {PathAndContentFailures(f) \cup ScanSchemaDocument(f) : f \in IterFiles(tree)} = {}
    BY <1>3 DEF IsExportSafe, ScanExportTree
  <2>2. IsExportSafe(tree) <=>
          \A f \in IterFiles(tree) : PathAndContentFailures(f) \cup ScanSchemaDocument(f) = {}
    BY <2>1
  <2>. QED  BY <1>1, <1>3, <2>2 DEF IterFiles, Clean
<1>. QED  BY <1>2, <1>3

(* The manifest and the page of exclusions break no rule, the manifest     *)
(* unless it was cut short.                                                *)
LEMMA ManifestClean ==
  ASSUME NEW j
  PROVE  /\ Clean(ManifestOf(j)) /\ ~ManifestOf(j).link /\ ManifestOf(j).parses
         /\ ManifestOf(j).body.authorized = j.authorized /\ ManifestOf(j).body.artifacts = j.artifacts
<1>. DEFINE f == ManifestOf(j)
<1>1. /\ f.path = {} /\ f.text = {} /\ f.raw = {} /\ ~f.link /\ f.parses /\ f.ext = ".json"
      /\ f.posture = "sanitized_candidate" /\ f.self = {} /\ f.records = {} /\ f.others = {}
      /\ f.body = [authorized |-> j.authorized, status |-> j.status, artifacts |-> j.artifacts]
  BY DEF ManifestOf, Document
<1>. HIDE DEF f
<1>2. PathAndContentFailures(f) = {}
  BY <1>1 DEF PathAndContentFailures
<1>3. RecordsFromDocument(f) = {}
  BY <1>1 DEF RecordsFromDocument
<1>4. ScanSchemaDocument(f) = {}
  BY <1>1, <1>3 DEF ScanSchemaDocument, CheckToolOutput
<1>. QED  BY <1>1, <1>2, <1>4 DEF Clean, f

(* The page that names the excluded trees is exempt, whole or cut short.   *)
LEMMA ExclusionsClean == Clean(ExclusionsMd) /\ Clean(CutShort(ExclusionsMd))
<1>1. ASSUME NEW f, f.name = "EXCLUSIONS.md", f.ext = ".md"
      PROVE  Clean(f)
  BY <1>1 DEF Clean, PathAndContentFailures, Allowlisted, ScanSchemaDocument
<1>2. /\ ExclusionsMd.name = "EXCLUSIONS.md" /\ ExclusionsMd.ext = ".md"
      /\ CutShort(ExclusionsMd).name = "EXCLUSIONS.md" /\ CutShort(ExclusionsMd).ext = ".md"
  BY DEF ExclusionsMd, Document, CutShort, EXCLUSIONS
<1>. QED  BY <1>1, <1>2

-----------------------------------------------------------------------------

(* The hashes a list of artifacts has for the exported report.             *)
ReportHashes(artifacts) == {a[2] : a \in {b \in artifacts : b[1] = REPORT}}

(* An authorization that is in the tree: what it does not list by its hash *)
(* is clean, and so is the report it lists.                                *)
TreeInv ==
  Authorized(public) =>
    /\ \A p \in DOMAIN public \ {REPORT} : Clean(public[p])
    /\ ~public[MANIFEST].link
    /\ \A f : Sha256(f) \in ListedHash(public) => Clean(f)

(* The job has looked at the tree as it still is.                          *)
JobInv ==
  job # None /\ job.kind = "public" =>
    /\ job = [kind |-> job.kind, at |-> job.at, dry |-> job.dry, env |-> job.env, status |-> job.status,
              artifacts |-> job.artifacts, authorized |-> job.authorized]
    /\ job.at \in {"authorize", "manifest"} /\ ~job.dry =>
         ReportHashes(job.artifacts) = IF REPORT \in DOMAIN public THEN {Sha256(public[REPORT])} ELSE {}
    /\ job.at = "manifest" => ~job.dry /\ job.authorized = (job.env /\ IsExportSafe(public))

(* The inductive invariant of the export.                                  *)
ReleaseInv == TreeInv /\ JobInv

(* The three files of an export have names of their own.                   *)
LEMMA Names == REPORT # MANIFEST /\ REPORT # EXCLUSIONS /\ MANIFEST # EXCLUSIONS
BY DEF REPORT, MANIFEST, EXCLUSIONS

(* No manifest is there before the first export.                           *)
LEMMA ReleaseInitially == ReleaseInit => ReleaseInv
<1>. SUFFICES ASSUME ReleaseInit PROVE ReleaseInv
  OBVIOUS
<1>1. MANIFEST \notin DOMAIN public
  <2>1. CASE public = [p \in {} |-> None]
    BY <2>1
  <2>2. CASE \E f \in HandPlaced : public = [p \in {f.name} |-> f]
    BY <2>2, ReleaseAssumption DEF MANIFEST
  <2>. QED  BY <2>1, <2>2 DEF ReleaseInit
<1>. QED  BY <1>1 DEF ReleaseInit, ReleaseInv, TreeInv, JobInv, Authorized

(* One file of the tree is written.                                        *)
LEMMA PublicPut ==
  ASSUME NEW name, NEW f, public' = Put(name, f)
  PROVE  /\ DOMAIN public' = DOMAIN public \cup {name}
         /\ public'[name] = f
         /\ \A p \in DOMAIN public : p # name => public'[p] = public[p]
BY DEF Put

(* What the list of artifacts says of the report.                          *)
LEMMA HashesReport ==
  /\ ReportHashes(Artifacts) = {}
  /\ \A f : ReportHashes(Artifacts \cup {<<REPORT, Sha256(f)>>}) = {Sha256(f)}
<1>1. \A a \in Artifacts : a[1] # REPORT
  BY DEF Artifacts, REPORT
<1>2. ReportHashes(Artifacts) = {}
  BY <1>1 DEF ReportHashes
<1>3. ASSUME NEW f
      PROVE  ReportHashes(Artifacts \cup {<<REPORT, Sha256(f)>>}) = {Sha256(f)}
  <2>. DEFINE h == Sha256(f)
              listed == <<REPORT, h>>
  <2>1. listed[1] = REPORT /\ listed[2] = h
    OBVIOUS
  <2>. HIDE DEF listed, h
  <2>2. {b \in Artifacts \cup {listed} : b[1] = REPORT} = {listed}
    BY <1>1, <2>1
  <2>3. {a[2] : a \in {listed}} = {h}
    BY <2>1
  <2>4. ReportHashes(Artifacts \cup {listed}) = {h}
    BY <2>2, <2>3 DEF ReportHashes
  <2>. QED  BY <2>4 DEF listed, h
<1>. QED  BY <1>2, <1>3

(* The steps that leave the tree alone.                                    *)
LEMMA TreeKept ==
  ASSUME TreeInv, public' = public
  PROVE  TreeInv'
BY DEF TreeInv, Authorized, ListedHash

(* Every step of an export, and every crash, keeps the invariant.          *)
LEMMA ReleaseStep == ReleaseInv /\ [ReleaseNext]_releaseVars => ReleaseInv'
<1>. SUFFICES ASSUME ReleaseInv, [ReleaseNext]_releaseVars
              PROVE  ReleaseInv'
  OBVIOUS
<1>1. ASSUME public' = public, job' = job \/ job' = None
      PROVE  ReleaseInv'
  BY <1>1, TreeKept DEF ReleaseInv, JobInv
<1>2. CASE NewReport \/ Validate
  BY <1>1, <1>2 DEF NewReport, Validate
<1>3. ASSUME NEW dry, NEW env, ExportPublic(dry, env)
      PROVE  ReleaseInv'
  BY <1>3, TreeKept DEF ExportPublic, ReleaseInv, JobInv
<1>4. CASE ExportPrivate
  BY <1>4, TreeKept DEF ExportPrivate, ReleaseInv, JobInv
<1>5. CASE WritePrivateManifest \/ Die
  BY <1>1, <1>5 DEF WritePrivateManifest, Die
(* A report that is written over the one an authorization lists, and is    *)
(* the same, is clean; the authorization says nothing of any other.        *)
<1>6. ASSUME NEW f, public' = Put(REPORT, f) PROVE TreeInv'
  <2>1. CASE ~Authorized(public')
    BY <2>1 DEF TreeInv
  <2>2. CASE Authorized(public')
    <3>1. MANIFEST \in DOMAIN public /\ public'[MANIFEST] = public[MANIFEST]
      <4>1. MANIFEST \in DOMAIN public'
        BY <2>2 DEF Authorized
      <4>2. /\ DOMAIN public' = DOMAIN public \cup {REPORT}
            /\ \A p \in DOMAIN public : p # REPORT => public'[p] = public[p]
        BY <1>6, PublicPut
      <4>3. MANIFEST \in DOMAIN public
        BY <4>1, <4>2, Names
      <4>. QED  BY <4>2, <4>3, Names
    <3>2. Authorized(public) /\ ListedHash(public') = ListedHash(public)
      BY <2>2, <3>1 DEF Authorized, ListedHash
    <3>3. /\ \A p \in DOMAIN public \ {REPORT} : Clean(public[p])
          /\ ~public[MANIFEST].link
          /\ \A g : Sha256(g) \in ListedHash(public) => Clean(g)
      BY <3>2 DEF ReleaseInv, TreeInv
    <3>4. \A p \in DOMAIN public' \ {REPORT} : Clean(public'[p])
      BY <1>6, <3>3, PublicPut
    <3>5. ~public'[MANIFEST].link
      BY <3>1, <3>3
    <3>6. \A g : Sha256(g) \in ListedHash(public') => Clean(g)
      BY <3>2, <3>3
    <3>. QED  BY <3>4, <3>5, <3>6 DEF TreeInv
  <2>. QED  BY <2>1, <2>2
<1>7. CASE WriteReport
  <2>1. public' = public \/ \E f : public' = Put(REPORT, f)
    BY <1>7 DEF WriteReport
  <2>2. TreeInv'
    BY <1>6, <2>1, TreeKept DEF ReleaseInv
  <2>3. job' = [job EXCEPT !.at = "hash"] /\ job # None /\ job.kind = "public"
    BY <1>7 DEF WriteReport, At
  <2>4. JobInv'
    BY <2>3 DEF ReleaseInv, JobInv
  <2>. QED  BY <2>2, <2>4 DEF ReleaseInv
<1>8. CASE HashArtifacts
  <2>. DEFINE listed == Artifacts \cup IF job.dry \/ REPORT \notin DOMAIN public THEN {}
                                       ELSE {<<REPORT, Sha256(public[REPORT])>>}
  <2>1. /\ job # None /\ job.kind = "public" /\ public' = public
        /\ job' = [job EXCEPT !.at = "authorize", !.artifacts = listed]
    BY <1>8 DEF HashArtifacts, At
  <2>2. ~job.dry => ReportHashes(listed) = IF REPORT \in DOMAIN public THEN {Sha256(public[REPORT])} ELSE {}
    BY HashesReport
  <2>. HIDE DEF listed
  <2>3. JobInv'
    BY <2>1, <2>2 DEF ReleaseInv, JobInv
  <2>. QED  BY <2>1, <2>3, TreeKept DEF ReleaseInv
<1>9. CASE Authorize
  <2>1. /\ job # None /\ job.kind = "public" /\ job.at = "authorize" /\ public' = public
        /\ job' = IF job.dry THEN None
                  ELSE [job EXCEPT !.at = "manifest", !.authorized = ReleaseAuthorized(job.env)]
    BY <1>9 DEF Authorize, At
  <2>2. JobInv'
    BY <2>1 DEF ReleaseInv, JobInv, ReleaseAuthorized
  <2>. QED  BY <2>1, <2>2, TreeKept DEF ReleaseInv
<1>10. CASE WriteManifest
  <2>1. /\ job # None /\ job.kind = "public" /\ job.at = "manifest"
        /\ public' = Put(MANIFEST, ManifestOf(job)) /\ job' = [job EXCEPT !.at = "exclusions"]
    BY <1>10 DEF WriteManifest, At
  <2>2. JobInv'
    BY <2>1 DEF ReleaseInv, JobInv
  <2>3. /\ ~job.dry /\ job.authorized = (job.env /\ IsExportSafe(public))
        /\ ReportHashes(job.artifacts) = IF REPORT \in DOMAIN public THEN {Sha256(public[REPORT])} ELSE {}
    BY <2>1 DEF ReleaseInv, JobInv
  <2>4. public'[MANIFEST] = ManifestOf(job)
    BY <2>1, PublicPut
  <2>5. ListedHash(public') = ReportHashes(job.artifacts)
    <3>1. public'[MANIFEST].body.artifacts = job.artifacts
      BY <2>4, ManifestClean
    <3>. QED  BY <3>1 DEF ListedHash, ReportHashes
  <2>6. ASSUME Authorized(public')
        PROVE  \A p \in DOMAIN public : Clean(public[p])
    <3>1. job.authorized
      <4>1. public'[MANIFEST].body.authorized = job.authorized
        BY <2>4, ManifestClean
      <4>2. public'[MANIFEST].body.authorized
        BY <2>6 DEF Authorized
      <4>. QED  BY <4>1, <4>2
    <3>. QED  BY <2>3, <3>1, SafeIsClean
  <2>7. ASSUME Authorized(public'), NEW f, Sha256(f) \in ListedHash(public')
        PROVE  Clean(f)
    <3>1. REPORT \in DOMAIN public /\ Sha256(f) = Sha256(public[REPORT])
      BY <2>3, <2>5, <2>7
    <3>2. f = public[REPORT]
      BY <3>1 DEF Sha256
    <3>. QED  BY <2>6, <2>7, <3>1, <3>2
  <2>8. TreeInv'
    <3>1. ~public'[MANIFEST].link /\ Clean(public'[MANIFEST])
      BY <2>4, ManifestClean
    <3>2. /\ DOMAIN public' = DOMAIN public \cup {MANIFEST}
          /\ \A p \in DOMAIN public : p # MANIFEST => public'[p] = public[p]
      BY <2>1, PublicPut
    <3>3. Authorized(public') => \A p \in DOMAIN public' : Clean(public'[p])
      BY <2>6, <3>1, <3>2
    <3>. QED  BY <2>7, <3>1, <3>3 DEF TreeInv
  <2>. QED  BY <2>2, <2>8 DEF ReleaseInv
<1>11. ASSUME NEW f, public' = Put(EXCLUSIONS, f), Clean(f) PROVE TreeInv'
  <2>1. CASE ~Authorized(public')
    BY <2>1 DEF TreeInv
  <2>2. CASE Authorized(public')
    <3>1. MANIFEST \in DOMAIN public /\ public'[MANIFEST] = public[MANIFEST]
      <4>1. MANIFEST \in DOMAIN public'
        BY <2>2 DEF Authorized
      <4>2. /\ DOMAIN public' = DOMAIN public \cup {EXCLUSIONS}
            /\ \A p \in DOMAIN public : p # EXCLUSIONS => public'[p] = public[p]
        BY <1>11, PublicPut
      <4>3. MANIFEST \in DOMAIN public
        BY <4>1, <4>2, Names
      <4>. QED  BY <4>2, <4>3, Names
    <3>2. Authorized(public) /\ ListedHash(public') = ListedHash(public)
      BY <2>2, <3>1 DEF Authorized, ListedHash
    <3>3. /\ \A p \in DOMAIN public \ {REPORT} : Clean(public[p])
          /\ ~public[MANIFEST].link
          /\ \A g : Sha256(g) \in ListedHash(public) => Clean(g)
      BY <3>2 DEF ReleaseInv, TreeInv
    <3>4. \A p \in DOMAIN public' \ {REPORT} : Clean(public'[p])
      BY <1>11, <3>3, PublicPut
    <3>5. ~public'[MANIFEST].link
      BY <3>1, <3>3
    <3>6. \A g : Sha256(g) \in ListedHash(public') => Clean(g)
      BY <3>2, <3>3
    <3>. QED  BY <3>4, <3>5, <3>6 DEF TreeInv
  <2>. QED  BY <2>1, <2>2
<1>12. CASE WriteExclusions
  <2>1. public' = Put(EXCLUSIONS, ExclusionsMd) /\ job' = None
    BY <1>12 DEF WriteExclusions
  <2>. QED  BY <1>11, <2>1, ExclusionsClean DEF ReleaseInv, JobInv
<1>13. CASE DieInsideWrite
  <2>1. JobInv'
    BY <1>13 DEF DieInsideWrite, JobInv
  <2>2. CASE public' = Put(REPORT, CutShort(Sanitized(report)))
    BY <1>6, <2>1, <2>2 DEF ReleaseInv
  <2>3. CASE public' = Put(MANIFEST, CutShort(ManifestOf(job)))
    <3>1. ~CutShort(ManifestOf(job)).parses
      BY DEF CutShort, ManifestOf, Document
    <3>2. ~Authorized(public')
      BY <2>3, <3>1, PublicPut DEF Authorized
    <3>. QED  BY <2>1, <3>2 DEF ReleaseInv, TreeInv
  <2>4. CASE public' = Put(EXCLUSIONS, CutShort(ExclusionsMd))
    BY <1>11, <2>1, <2>4, ExclusionsClean DEF ReleaseInv
  <2>. QED  BY <1>13, <2>2, <2>3, <2>4 DEF DieInsideWrite
<1>14. CASE UNCHANGED releaseVars
  BY <1>1, <1>14 DEF releaseVars
<1>. QED  BY <1>2, <1>3, <1>4, <1>5, <1>7, <1>8, <1>9, <1>10, <1>12, <1>13, <1>14 DEF ReleaseNext

(* The invariant of the export.                                            *)
LEMMA ReleaseAlways == ReleaseSpec => []ReleaseInv
BY ReleaseInitially, ReleaseStep, PTL DEF ReleaseSpec

(* An authorization whose listed report is the one there is: the tree is   *)
(* safe.                                                                   *)
LEMMA AuthorizedIsSafe ==
  ASSUME TreeInv, Authorized(public),
         REPORT \in DOMAIN public => Sha256(public[REPORT]) \in ListedHash(public)
  PROVE  IsExportSafe(public)
<1>1. MANIFEST \in DOMAIN public /\ ~public[MANIFEST].link
  BY DEF TreeInv, Authorized
<1>2. \A p \in DOMAIN public : Clean(public[p])
  BY DEF TreeInv
<1>. QED  BY <1>1, <1>2, SafeIsClean

(* ADR-0011: an authorization in the tree is backed by a tree that passes  *)
(* the sanitize check, or lists another report; for any reports, any files *)
(* placed by hand, and wherever exports die (export.py).                   *)
THEOREM AuthorizationBackedHolds == ReleaseSpec => []AuthorizationBacked
<1>1. ReleaseInv => AuthorizationBacked
  BY AuthorizedIsSafe DEF ReleaseInv, AuthorizationBacked
<1>. QED  BY <1>1, ReleaseAlways, PTL

(* The manifest and the page of exclusions an export leaves behind never   *)
(* make the next export lose the authorization.                            *)
THEOREM AuthorizationKeptHolds == ReleaseSpec => AuthorizationKept
<1>. DEFINE Kept == (/\ Authorized(public)
                     /\ At("manifest") /\ job.env /\ public'[MANIFEST].parses
                     /\ ListedHash(public') = ListedHash(public))
                    => Authorized(public')
<1>1. ReleaseInv /\ [ReleaseNext]_releaseVars => [Kept]_releaseVars
  <2>. SUFFICES ASSUME ReleaseInv, ReleaseNext, Authorized(public), At("manifest"), job.env,
                       public'[MANIFEST].parses, ListedHash(public') = ListedHash(public)
                PROVE  Authorized(public')
    OBVIOUS
  <2>1. CASE public' = public
    BY <2>1 DEF Authorized
  <2>2. CASE WriteManifest
    <3>1. public' = Put(MANIFEST, ManifestOf(job))
      BY <2>2 DEF WriteManifest
    <3>2. public'[MANIFEST] = ManifestOf(job) /\ MANIFEST \in DOMAIN public'
      BY <3>1, PublicPut
    <3>3. /\ job.authorized = (job.env /\ IsExportSafe(public)) /\ ~job.dry
          /\ ReportHashes(job.artifacts) = IF REPORT \in DOMAIN public THEN {Sha256(public[REPORT])} ELSE {}
      BY DEF ReleaseInv, JobInv, At
    <3>4. ListedHash(public') = ReportHashes(job.artifacts)
      <4>1. public'[MANIFEST].body.artifacts = job.artifacts
        BY <3>2, ManifestClean
      <4>. QED  BY <4>1 DEF ListedHash, ReportHashes
    <3>5. IsExportSafe(public)
      BY <3>3, <3>4, AuthorizedIsSafe DEF ReleaseInv
    <3>6. public'[MANIFEST].body.authorized = job.authorized /\ public'[MANIFEST].parses
      BY <3>2, ManifestClean
    <3>7. public'[MANIFEST].body.authorized
      BY <3>3, <3>5, <3>6
    <3>. QED  BY <3>2, <3>6, <3>7 DEF Authorized
  <2>3. CASE DieInsideWrite
    <3>1. public' = Put(MANIFEST, CutShort(ManifestOf(job)))
      BY <2>3 DEF DieInsideWrite, At
    <3>2. ~CutShort(ManifestOf(job)).parses
      BY DEF CutShort, ManifestOf, Document
    <3>. QED  BY <3>1, <3>2, PublicPut
  <2>4. public' = public \/ WriteManifest \/ DieInsideWrite
    BY DEF ReleaseNext, NewReport, Validate, ExportPublic, ExportPrivate, WritePrivateManifest,
           WriteReport, HashArtifacts, Authorize, WriteExclusions, Die, At
  <2>. QED  BY <2>1, <2>2, <2>3, <2>4
<1>. QED  BY <1>1, ReleaseAlways, PTL DEF ReleaseSpec, AuthorizationKept

-----------------------------------------------------------------------------
(* The reviewer packet.                                                    *)

(* What sha256sum makes of the files of a packet.                          *)
SumsOf(files) == {<<p, Sha256Of(files[p])>> : p \in DOMAIN files \ {CHECKSUMS}}

(* The part of a packet the check is about.                                *)
Findings(files) == Restricted(files, {p \in DOMAIN files : p[1] = "findings"})

(* The paths a packet has are different ones.                              *)
LEMMA Paths ==
  /\ CHECKSUMS[1] # "findings" /\ MANIFEST_JSON[1] # "findings" /\ MANIFEST_JSON # CHECKSUMS /\ BUNDLE # CHECKSUMS
  /\ \A id : Json(id) # CHECKSUMS /\ Evidence(id) # CHECKSUMS
<1>1. CHECKSUMS[1] = "checksums.sha256" /\ MANIFEST_JSON[1] = "manifest.json" /\ BUNDLE[1] = "bundle.md"
  BY DEF CHECKSUMS, MANIFEST_JSON, BUNDLE
<1>2. ASSUME NEW id PROVE Json(id)[1] = "findings" /\ Evidence(id)[1] = "findings"
  BY DEF Json, Evidence
<1>. QED  BY <1>1, <1>2

(* The checksums determine the files.                                      *)
LEMMA SumsDetermine ==
  ASSUME NEW f, NEW g, SumsOf(f) = SumsOf(g)
  PROVE  /\ \A p \in DOMAIN f \ {CHECKSUMS} : p \in DOMAIN g /\ f[p] = g[p]
         /\ Findings(f) = Findings(g)
<1>1. ASSUME NEW x, NEW y, SumsOf(x) = SumsOf(y), NEW p \in DOMAIN x \ {CHECKSUMS}
      PROVE  p \in DOMAIN y /\ x[p] = y[p]
  <2>1. <<p, Sha256Of(x[p])>> \in SumsOf(y)
    BY <1>1 DEF SumsOf
  <2>2. PICK q \in DOMAIN y \ {CHECKSUMS} : <<p, Sha256Of(x[p])>> = <<q, Sha256Of(y[q])>>
    BY <2>1 DEF SumsOf
  <2>. QED  BY <2>2 DEF Sha256Of
<1>2. \A p \in DOMAIN f \ {CHECKSUMS} : p \in DOMAIN g /\ f[p] = g[p]
  BY <1>1
<1>3. \A p \in DOMAIN g \ {CHECKSUMS} : p \in DOMAIN f /\ f[p] = g[p]
  BY <1>1
<1>4. {p \in DOMAIN f : p[1] = "findings"} = {p \in DOMAIN g : p[1] = "findings"}
  BY <1>2, <1>3, Paths
<1>5. \A p \in {q \in DOMAIN f : q[1] = "findings"} : f[p] = g[p]
  BY <1>2, Paths
<1>. QED  BY <1>2, <1>4, <1>5 DEF Findings, Restricted

-----------------------------------------------------------------------------

(* The manifest says that the check passed.                                *)
Passed(files) == files[MANIFEST_JSON].body.sanitize = "pass"

(* What verifies against these checksums has passed the check if its       *)
(* manifest says so.                                                       *)
SumsSound(sums) ==
  /\ \E s \in sums : s[1] = MANIFEST_JSON
  /\ \A files : SumsOf(files) = sums /\ Passed(files) => ScanExportTree(Findings(files)) = {}

(* Checksums that are whole are sound.                                     *)
ChecksumsInv == CHECKSUMS \in DOMAIN packet /\ packet[CHECKSUMS].parses => SumsSound(packet[CHECKSUMS].body)

(* The checksums of all files but the manifest.                            *)
Others(sums) == {s \in sums : s[1] # MANIFEST_JSON}

(* What the command has come to, by the step it is at.                     *)
CommandInv ==
  command # None =>
    /\ command = [at |-> command.at, todo |-> command.todo, snapshot |-> command.snapshot, listed |-> command.listed]
    /\ command.at \in {"findings", "evidence", "placeholder", "checksums", "manifest", "patch"}
    /\ command.at = "checksums" => MANIFEST_JSON \in DOMAIN packet /\ ~Passed(packet)
    /\ command.at = "manifest" => CHECKSUMS \in DOMAIN packet /\ packet[CHECKSUMS].body = SumsOf(packet)
    /\ command.at = "patch" =>
         /\ MANIFEST_JSON \in DOMAIN packet /\ CHECKSUMS \in DOMAIN packet
         /\ Others(packet[CHECKSUMS].body) = Others(SumsOf(packet))
         /\ Passed(packet) => ScanExportTree(Findings(packet)) = {}

(* The inductive invariant of the packet.                                  *)
PacketInv == ChecksumsInv /\ CommandInv

(* The packet is empty at first.                                           *)
LEMMA PacketInitially == PacketInit => PacketInv
BY DEF PacketInit, PacketInv, ChecksumsInv, CommandInv

(* One file is written; any but the checksums leaves them as they are.     *)
LEMMA FilePut ==
  ASSUME NEW path, NEW f, packet' = PutFile(path, f)
  PROVE  /\ DOMAIN packet' = DOMAIN packet \cup {path}
         /\ packet'[path] = f
         /\ \A p \in DOMAIN packet : p # path => packet'[p] = packet[p]
BY DEF PutFile

LEMMA OtherFilePut ==
  ASSUME PacketInv, NEW path, NEW f, packet' = PutFile(path, f), path # CHECKSUMS
  PROVE  /\ ChecksumsInv'
         /\ CHECKSUMS \in DOMAIN packet => CHECKSUMS \in DOMAIN packet' /\ packet'[CHECKSUMS] = packet[CHECKSUMS]
<1>1. /\ DOMAIN packet' = DOMAIN packet \cup {path}
      /\ \A p \in DOMAIN packet : p # path => packet'[p] = packet[p]
  BY FilePut
<1>2. CHECKSUMS \in DOMAIN packet' => CHECKSUMS \in DOMAIN packet /\ packet'[CHECKSUMS] = packet[CHECKSUMS]
  BY <1>1
<1>. QED  BY <1>1, <1>2 DEF PacketInv, ChecksumsInv

(* The final manifest changes one checksum.                                *)
LEMMA ManifestPut ==
  ASSUME NEW f, packet' = PutFile(MANIFEST_JSON, f)
  PROVE  Others(SumsOf(packet')) = Others(SumsOf(packet)) /\ Findings(packet') = Findings(packet)
<1>1. /\ DOMAIN packet' = DOMAIN packet \cup {MANIFEST_JSON}
      /\ \A p \in DOMAIN packet : p # MANIFEST_JSON => packet'[p] = packet[p]
  BY FilePut
<1>2. ASSUME NEW s PROVE s \in Others(SumsOf(packet')) <=> s \in Others(SumsOf(packet))
  <2>1. s \in Others(SumsOf(packet)) <=>
          s[1] # MANIFEST_JSON /\ \E p \in DOMAIN packet \ {CHECKSUMS} : s = <<p, Sha256Of(packet[p])>>
    BY DEF Others, SumsOf
  <2>2. s \in Others(SumsOf(packet')) <=>
          s[1] # MANIFEST_JSON /\ \E p \in DOMAIN packet' \ {CHECKSUMS} : s = <<p, Sha256Of(packet'[p])>>
    BY DEF Others, SumsOf
  <2>. QED  BY <1>1, <2>1, <2>2
<1>3. {p \in DOMAIN packet' : p[1] = "findings"} = {p \in DOMAIN packet : p[1] = "findings"}
  BY <1>1, Paths
<1>4. \A p \in {q \in DOMAIN packet : q[1] = "findings"} : packet'[p] = packet[p]
  BY <1>1, Paths
<1>. QED  BY <1>2, <1>3, <1>4 DEF Findings, Restricted, Others

(* The checksums describe the other files however they are written.        *)
LEMMA ChecksumsPut ==
  ASSUME NEW f, packet' = PutFile(CHECKSUMS, f)
  PROVE  SumsOf(packet') = SumsOf(packet) /\ CHECKSUMS \in DOMAIN packet' /\ packet'[CHECKSUMS] = f
<1>1. /\ DOMAIN packet' = DOMAIN packet \cup {CHECKSUMS} /\ packet'[CHECKSUMS] = f
      /\ \A p \in DOMAIN packet : p # CHECKSUMS => packet'[p] = packet[p]
  BY FilePut
<1>2. DOMAIN packet' \ {CHECKSUMS} = DOMAIN packet \ {CHECKSUMS}
  BY <1>1
<1>. QED  BY <1>1, <1>2 DEF SumsOf

(* A checksums file is whole unless its write was cut short.               *)
LEMMA ChecksumsFile ==
  ASSUME NEW sums
  PROVE  /\ Checksums(sums).parses /\ Checksums(sums).body = sums /\ ~CutShort(Checksums(sums)).parses
BY DEF Checksums, Document, CutShort

(* The checksums of the files there are, with the line of the manifest.    *)
LEMMA PatchedIsSums ==
  ASSUME PacketInv, command # None, command.at = "patch"
  PROVE  PatchedSums = SumsOf(packet)
<1>1. /\ MANIFEST_JSON \in DOMAIN packet \ {CHECKSUMS}
      /\ Others(packet[CHECKSUMS].body) = Others(SumsOf(packet))
  BY Paths DEF PacketInv, CommandInv
<1>. DEFINE line == <<MANIFEST_JSON, Sha256Of(packet[MANIFEST_JSON])>>
<1>2. PatchedSums = Others(SumsOf(packet)) \cup {line}
  BY <1>1 DEF PatchedSums, Sums, Others
<1>3. ASSUME NEW s \in SumsOf(packet), s[1] = MANIFEST_JSON
      PROVE  s = line
  <2>1. PICK p \in DOMAIN packet \ {CHECKSUMS} : s = <<p, Sha256Of(packet[p])>>
    BY <1>3 DEF SumsOf
  <2>2. p = MANIFEST_JSON
    BY <1>3, <2>1
  <2>. QED  BY <2>1, <2>2
<1>4. line \in SumsOf(packet)
  BY <1>1 DEF SumsOf
<1>. HIDE DEF line
<1>. QED  BY <1>2, <1>3, <1>4 DEF Others

(* Every write, whole or cut short, keeps the checksums sound.             *)
LEMMA PacketStep == PacketInv /\ [PacketNext]_packetVars => PacketInv'
<1>. SUFFICES ASSUME PacketInv, [PacketNext]_packetVars
              PROVE  PacketInv'
  OBVIOUS
<1>1. ASSUME packet' = packet, command' = command \/ command' = None
      PROVE  PacketInv'
  <2>1. ChecksumsInv'
    BY <1>1 DEF PacketInv, ChecksumsInv
  <2>2. CommandInv'
    BY <1>1 DEF PacketInv, CommandInv, SumsOf, Findings, Passed, Restricted
  <2>. QED  BY <2>1, <2>2 DEF PacketInv
<1>2. CASE RecordWritten \/ RecordUnreadable
  BY <1>1, <1>2 DEF RecordWritten, RecordUnreadable
<1>3. ASSUME NEW top, NEW pairs, ExportPacket(top, pairs)
      PROVE  PacketInv'
  <2>1. ChecksumsInv'
    BY <1>3 DEF ExportPacket, PacketInv, ChecksumsInv
  <2>2. CommandInv'
    BY <1>3 DEF ExportPacket, CommandInv
  <2>. QED  BY <2>1, <2>2 DEF PacketInv
<1>4. CASE WriteRecord \/ WriteEvidence \/ WriteBundle
  <2>1. /\ \E f : packet' = PutFile(NextPath, f)
        /\ NextPath # CHECKSUMS
    BY <1>4, Paths DEF WriteRecord, WriteEvidence, WriteBundle, WriteNext, AtStep, NextPath
  <2>2. /\ command # None
        /\ \/ command' = GoTo("evidence")
           \/ command' = [GoTo("findings") EXCEPT !.todo = @ \ {First(@)}]
           \/ command' = GoTo("placeholder")
    BY <1>4 DEF WriteRecord, WriteEvidence, WriteBundle, WriteNext, AtStep
  <2>3. ChecksumsInv'
    BY <2>1, OtherFilePut
  <2>4. CommandInv'
    BY <2>2 DEF GoTo, PacketInv, CommandInv
  <2>. QED  BY <2>3, <2>4 DEF PacketInv
<1>5. CASE WritePlaceholder
  <2>1. /\ command # None /\ command.at = "placeholder" /\ command' = GoTo("checksums")
        /\ packet' = PutFile(MANIFEST_JSON, Manifest("deferred", command.listed))
    BY <1>5 DEF WritePlaceholder, WriteNext, AtStep, NextPath, NextContent
  <2>2. ChecksumsInv'
    BY <2>1, Paths, OtherFilePut
  <2>3. Manifest("deferred", command.listed).body.sanitize = "deferred"
    BY DEF Manifest, Document
  <2>4. MANIFEST_JSON \in DOMAIN packet' /\ ~Passed(packet')
    BY <2>1, <2>3, FilePut DEF Passed
  <2>5. CommandInv'
    BY <2>1, <2>4 DEF GoTo, PacketInv, CommandInv
  <2>. QED  BY <2>2, <2>5 DEF PacketInv
<1>6. CASE WriteChecksums
  <2>1. /\ command # None /\ command.at = "checksums" /\ command' = GoTo("manifest")
        /\ packet' = PutFile(CHECKSUMS, Checksums(SumsOf(packet)))
    BY <1>6 DEF WriteChecksums, WriteNext, AtStep, NextPath, NextContent, Sums, SumsOf
  <2>2. /\ CHECKSUMS \in DOMAIN packet' /\ packet'[CHECKSUMS].body = SumsOf(packet)
        /\ SumsOf(packet') = SumsOf(packet)
    BY <2>1, ChecksumsPut, ChecksumsFile
  <2>3. MANIFEST_JSON \in DOMAIN packet \ {CHECKSUMS} /\ ~Passed(packet)
    BY <2>1, Paths DEF PacketInv, CommandInv
  <2>4. ASSUME NEW files, SumsOf(files) = SumsOf(packet)
        PROVE  ~Passed(files)
    BY <2>3, <2>4, SumsDetermine DEF Passed
  <2>5. <<MANIFEST_JSON, Sha256Of(packet[MANIFEST_JSON])>> \in SumsOf(packet)
    BY <2>3 DEF SumsOf
  <2>6. SumsSound(SumsOf(packet))
    BY <2>4, <2>5 DEF SumsSound
  <2>7. CommandInv'
    BY <2>1, <2>2 DEF GoTo, PacketInv, CommandInv
  <2>. QED  BY <2>2, <2>6, <2>7 DEF PacketInv, ChecksumsInv
<1>7. CASE WriteFinalManifest
  <2>1. /\ command # None /\ command.at = "manifest" /\ command' = GoTo("patch")
        /\ packet' = PutFile(MANIFEST_JSON, Manifest(RunSanitizeCheck, command.listed))
    BY <1>7 DEF WriteFinalManifest, WriteNext, AtStep, NextPath, NextContent
  <2>2. ChecksumsInv' /\ CHECKSUMS \in DOMAIN packet' /\ packet'[CHECKSUMS] = packet[CHECKSUMS]
    BY <2>1, Paths, OtherFilePut DEF PacketInv, CommandInv
  <2>3. MANIFEST_JSON \in DOMAIN packet' /\ packet'[MANIFEST_JSON] = Manifest(RunSanitizeCheck, command.listed)
    BY <2>1, FilePut
  <2>4. Others(SumsOf(packet')) = Others(SumsOf(packet)) /\ Findings(packet') = Findings(packet)
    BY <2>1, ManifestPut
  <2>5. packet[CHECKSUMS].body = SumsOf(packet)
    BY <2>1 DEF PacketInv, CommandInv
  <2>6. Manifest(RunSanitizeCheck, command.listed).body.sanitize = RunSanitizeCheck
    BY DEF Manifest, Document
  <2>7. Passed(packet') => ScanExportTree(Findings(packet)) = {}
    BY <2>3, <2>6 DEF Passed, RunSanitizeCheck, FindingsTree, Findings
  <2>8. CommandInv'
    BY <2>1, <2>2, <2>3, <2>4, <2>5, <2>7 DEF GoTo, PacketInv, CommandInv
  <2>. QED  BY <2>2, <2>8 DEF PacketInv
<1>8. CASE PatchChecksums
  <2>1. /\ command # None /\ command.at = "patch" /\ command' = None
        /\ packet' = PutFile(CHECKSUMS, Checksums(PatchedSums))
    BY <1>8 DEF PatchChecksums, WriteNext, AtStep, NextPath, NextContent
  <2>2. packet'[CHECKSUMS].body = SumsOf(packet)
    BY <2>1, PatchedIsSums, ChecksumsPut, ChecksumsFile
  <2>3. /\ MANIFEST_JSON \in DOMAIN packet \ {CHECKSUMS}
        /\ Passed(packet) => ScanExportTree(Findings(packet)) = {}
    BY <2>1, Paths DEF PacketInv, CommandInv
  <2>4. ASSUME NEW files, SumsOf(files) = SumsOf(packet), Passed(files)
        PROVE  ScanExportTree(Findings(files)) = {}
    <3>1. files[MANIFEST_JSON] = packet[MANIFEST_JSON] /\ Findings(files) = Findings(packet)
      BY <2>3, <2>4, SumsDetermine
    <3>. QED  BY <2>3, <2>4, <3>1 DEF Passed
  <2>5. <<MANIFEST_JSON, Sha256Of(packet[MANIFEST_JSON])>> \in SumsOf(packet)
    BY <2>3 DEF SumsOf
  <2>6. SumsSound(SumsOf(packet))
    BY <2>4, <2>5 DEF SumsSound
  <2>. QED  BY <2>1, <2>2, <2>6 DEF PacketInv, ChecksumsInv, CommandInv
<1>9. CASE PacketDies
  BY <1>1, <1>9 DEF PacketDies
<1>10. CASE PacketDiesInsideWrite
  <2>1. /\ command # None /\ command' = None /\ packet' = PutFile(NextPath, CutShort(NextContent))
    BY <1>10 DEF PacketDiesInsideWrite
  <2>2. CASE NextPath # CHECKSUMS
    BY <2>1, <2>2, OtherFilePut DEF PacketInv, CommandInv
  <2>3. CASE NextPath = CHECKSUMS
    <3>1. command.at \in {"checksums", "patch"}
      BY <2>1, <2>3, Paths DEF NextPath, PacketInv, CommandInv
    <3>2. PICK sums : NextContent = Checksums(sums)
      BY <3>1 DEF NextContent
    <3>3. ~packet'[CHECKSUMS].parses
      <4>1. packet' = PutFile(CHECKSUMS, CutShort(Checksums(sums)))
        BY <2>1, <2>3, <3>2
      <4>2. packet'[CHECKSUMS] = CutShort(Checksums(sums))
        BY <4>1, FilePut
      <4>. QED  BY <4>2, ChecksumsFile
    <3>. QED  BY <2>1, <3>3 DEF PacketInv, ChecksumsInv, CommandInv
  <2>. QED  BY <2>2, <2>3
<1>11. CASE UNCHANGED packetVars
  BY <1>1, <1>11 DEF packetVars
<1>. QED  BY <1>2, <1>3, <1>4, <1>5, <1>6, <1>7, <1>8, <1>9, <1>10, <1>11 DEF PacketNext

(* The invariant of the packet.                                            *)
LEMMA PacketAlways == PacketSpec => []PacketInv
BY PacketInitially, PacketStep, PTL DEF PacketSpec

(* A packet that verifies and says it passed has findings that pass the    *)
(* check, for any records, however many commands of the day wrote and died *)
(* in its directory: packet_export.py.                                     *)
THEOREM PassedIsCleanHolds == PacketSpec => []PassedIsClean
<1>1. ASSUME PacketInv PROVE PassedIsClean
  <2>. SUFFICES ASSUME Verifies(packet), packet[MANIFEST_JSON].body.sanitize = "pass"
                PROVE  ScanExportTree(FindingsTree) = {}
    BY DEF PassedIsClean
  <2>1. SumsSound(packet[CHECKSUMS].body) /\ packet[CHECKSUMS].body = SumsOf(packet)
    BY <1>1 DEF PacketInv, ChecksumsInv, Verifies, SumsOf
  <2>. QED  BY <2>1 DEF SumsSound, Passed, FindingsTree, Findings
<1>. QED  BY <1>1, PacketAlways, PTL

(* A command that comes to its end leaves checksums of exactly the files   *)
(* there are, the manifest rewritten after them included.                  *)
THEOREM EndsVerifiedHolds == PacketSpec => EndsVerified
<1>1. PacketInv /\ [PacketNext]_packetVars => [PatchChecksums => Verifies(packet')]_packetVars
  <2>. SUFFICES ASSUME PacketInv, PatchChecksums
                PROVE  Verifies(packet')
    OBVIOUS
  <2>1. /\ command # None /\ command.at = "patch"
        /\ packet' = PutFile(CHECKSUMS, Checksums(PatchedSums))
    BY DEF PatchChecksums, WriteNext, AtStep, NextPath, NextContent
  <2>2. /\ CHECKSUMS \in DOMAIN packet' /\ packet'[CHECKSUMS].parses
        /\ packet'[CHECKSUMS].body = SumsOf(packet) /\ SumsOf(packet') = SumsOf(packet)
    BY <2>1, PatchedIsSums, ChecksumsPut, ChecksumsFile
  <2>. QED  BY <2>2 DEF Verifies, SumsOf
<1>. QED  BY <1>1, PacketAlways, PTL DEF PacketSpec, EndsVerified

-----------------------------------------------------------------------------
(* The records of the packet, and what the manifest lists.                 *)

(* One of the findings is the first of them.                               *)
LEMMA FirstIsOne ==
  ASSUME NEW ids, ids \subseteq Ids, ids # {}
  PROVE  First(ids) \in ids
<1>1. IsFiniteSet(ids) /\ ids \subseteq Nat /\ Score \in [Ids -> Nat]
  BY PacketAssumption, FS_Subset
<1>. DEFINE scores == {Score[i] : i \in ids}
<1>2. IsFiniteSet(scores) /\ scores \subseteq Nat /\ scores # {}
  <2>. DEFINE f == [i \in ids |-> Score[i]]
  <2>1. f \in Surjection(ids, scores)
    BY DEF Surjection
  <2>2. IsFiniteSet(scores)
    BY <1>1, <2>1, FS_Surjection
  <2>. QED  BY <1>1, <2>2
<1>. HIDE DEF scores
<1>3. PICK best \in scores : \A s \in scores : s <= best
  BY <1>2, GreatestOfFinite
<1>. DEFINE leading == {i \in ids : Score[i] = best}
<1>4. leading # {} /\ leading \subseteq Nat
  BY <1>1, <1>3 DEF scores
<1>. HIDE DEF leading
<1>5. PICK i \in leading : \A j \in leading : i <= j
  BY <1>4, Least
<1>6. i \in ids /\ Score[i] = best
  BY <1>5 DEF leading
<1>7. ASSUME NEW j \in ids \ {i} PROVE Before(i, j)
  <2>1. Score[j] \in Nat /\ Score[i] \in Nat /\ i \in Nat /\ j \in Nat /\ Score[j] <= Score[i]
    BY <1>1, <1>3, <1>6 DEF scores
  <2>2. CASE Score[j] = best
    BY <1>5, <1>6, <2>1, <2>2 DEF Before, leading
  <2>3. CASE Score[j] # best
    BY <1>6, <2>1, <2>3 DEF Before
  <2>. QED  BY <2>2, <2>3
<1>. QED  BY <1>6, <1>7 DEF First

(* The file of a finding holds its record, with what it claims.            *)
LEMMA RecordIsProjected ==
  ASSUME NEW r \in Candidates
  PROVE  RecordJson(r).self = {PublicProjection(r)} /\ PublicProjection(r).claim_state = r.claim_state
<1>1. "claim_state" \in DOMAIN r
  BY PacketAssumption
<1>2. PublicProjection(r).claim_state = r.claim_state
  BY <1>1 DEF PublicProjection
<1>3. RecordJson(r).self = {PublicProjection(r)}
  BY DEF RecordJson, Document
<1>. QED  BY <1>2, <1>3

(* A scan finds records; a command works on the ones it listed.            *)
RowsInv == DOMAIN rows \subseteq Ids /\ \A i \in DOMAIN rows : rows[i] \in Candidates

ListingInv ==
  command # None =>
    LET snapshot == command.snapshot
    IN /\ DOMAIN snapshot \subseteq Ids /\ \A i \in DOMAIN snapshot : snapshot[i] \in Candidates
       /\ command.todo \subseteq DOMAIN snapshot
       /\ command.listed = {<<i, snapshot[i].claim_state>> : i \in DOMAIN snapshot}
       /\ command.at = "evidence" => command.todo # {}
       /\ command.at \notin {"findings", "evidence"} => command.todo = {}

(* The file of a record is the projection of the record.                   *)
Holds(files, i, r) == Json(i) \in DOMAIN files /\ files[Json(i)] = RecordJson(r)

(* What the command has written of what it listed.                         *)
WrittenInv ==
  command # None =>
    /\ \A i \in DOMAIN command.snapshot \ command.todo : Holds(packet, i, command.snapshot[i])
    /\ command.at = "evidence" => Holds(packet, First(command.todo), command.snapshot[First(command.todo)])
    /\ command.at \in {"checksums", "manifest", "patch"} =>
         MANIFEST_JSON \in DOMAIN packet /\ packet[MANIFEST_JSON].body.findings = command.listed

(* The records are those the manifest lists.                               *)
RecordsMatch(files) ==
  \A l \in files[MANIFEST_JSON].body.findings : \A r \in files[Json(l[1])].self : r.claim_state = l[2]

(* So they are wherever checksums that are whole verify.                   *)
MatchedInv ==
  CHECKSUMS \in DOMAIN packet /\ packet[CHECKSUMS].parses =>
    \A files : SumsOf(files) = packet[CHECKSUMS].body => RecordsMatch(files)

(* The inductive invariant of the records.                                 *)
RecordsInv == RowsInv /\ ListingInv /\ WrittenInv /\ MatchedInv

(* There is no command and no file at first.                               *)
LEMMA RecordsInitially == PacketInit => RecordsInv
BY DEF PacketInit, RecordsInv, RowsInv, ListingInv, WrittenInv, MatchedInv

(* A command lists what it found.                                          *)
LEMMA CommandLists ==
  ASSUME RecordsInv, NEW top, NEW pairs, ExportPacket(top, pairs)
  PROVE  RecordsInv'
<1>. DEFINE ids == Selected(top, pairs)
<1>1. ids \subseteq DOMAIN rows
  BY DEF Selected
<1>. HIDE DEF ids
<1>2. /\ command' = [at |-> "findings", todo |-> ids, snapshot |-> Restricted(rows, ids),
                     listed |-> {<<i, rows[i].claim_state>> : i \in ids}]
      /\ UNCHANGED <<rows, packet>>
  BY DEF ExportPacket, ids
<1>3. DOMAIN Restricted(rows, ids) = ids /\ \A i \in ids : Restricted(rows, ids)[i] = rows[i]
  BY DEF Restricted
<1>4. /\ command'.at = "findings" /\ command'.todo = ids /\ command'.snapshot = Restricted(rows, ids)
      /\ command'.listed = {<<i, rows[i].claim_state>> : i \in ids}
  BY <1>2
<1>5. ListingInv'
  BY <1>1, <1>3, <1>4 DEF ListingInv, RecordsInv, RowsInv
<1>6. WrittenInv'
  BY <1>3, <1>4 DEF WrittenInv
<1>. QED  BY <1>2, <1>5, <1>6 DEF RecordsInv, RowsInv, MatchedInv

(* A file that is put in place of another, or beside the others.           *)
LEMMA OtherRecordsHold ==
  ASSUME NEW path, NEW f, packet' = PutFile(path, f), NEW i, NEW r, Holds(packet, i, r), path # Json(i)
  PROVE  Holds(packet', i, r)
BY FilePut DEF Holds

LEMMA MatchedPut ==
  ASSUME MatchedInv, NEW path, NEW f, packet' = PutFile(path, f), path # CHECKSUMS
  PROVE  MatchedInv'
<1>1. /\ DOMAIN packet' = DOMAIN packet \cup {path}
      /\ \A p \in DOMAIN packet : p # path => packet'[p] = packet[p]
  BY FilePut
<1>2. CHECKSUMS \in DOMAIN packet' => CHECKSUMS \in DOMAIN packet /\ packet'[CHECKSUMS] = packet[CHECKSUMS]
  BY <1>1
<1>. QED  BY <1>2 DEF MatchedInv

(* The paths of the records are those of no other file.                    *)
LEMMA RecordPaths ==
  /\ \A i, j : Json(i) = Json(j) => i = j
  /\ \A i, j : Json(i) # Evidence(j)
  /\ \A i : Json(i) # MANIFEST_JSON /\ Json(i) # BUNDLE /\ Json(i) # CHECKSUMS
  /\ \A i : Evidence(i) # MANIFEST_JSON
<1>1. \A i, j : Json(i) # Evidence(j) /\ (Json(i) = Json(j) => i = j)
  <2>1. \A i, j : Json(i)[3] = ".json" /\ Evidence(j)[3] = ".evidence.md" /\ Json(i)[2] = i
    BY DEF Json, Evidence
  <2>. QED  BY <2>1
<1>2. \A i : Json(i)[1] = "findings" /\ Evidence(i)[1] = "findings"
  BY DEF Json, Evidence
<1>3. MANIFEST_JSON[1] = "manifest.json" /\ BUNDLE[1] = "bundle.md" /\ CHECKSUMS[1] = "checksums.sha256"
  BY DEF CHECKSUMS, MANIFEST_JSON, BUNDLE
<1>. QED  BY <1>1, <1>2, <1>3

(* When all is written, the records are those the manifest lists.          *)
LEMMA CompleteMatches ==
  ASSUME RecordsInv, command # None, command.at \in {"checksums", "patch"}, NEW files, SumsOf(files) = SumsOf(packet)
  PROVE  RecordsMatch(files)
<1>. SUFFICES ASSUME NEW l \in files[MANIFEST_JSON].body.findings, NEW r \in files[Json(l[1])].self
              PROVE  r.claim_state = l[2]
  BY DEF RecordsMatch
<1>1. MANIFEST_JSON \in DOMAIN packet \ {CHECKSUMS} /\ packet[MANIFEST_JSON].body.findings = command.listed
  BY Paths DEF RecordsInv, WrittenInv
<1>2. files[MANIFEST_JSON] = packet[MANIFEST_JSON]
  BY <1>1, SumsDetermine
<1>3. PICK i \in DOMAIN command.snapshot : l = <<i, command.snapshot[i].claim_state>>
  BY <1>1, <1>2 DEF RecordsInv, ListingInv
<1>4. command.todo = {} /\ command.snapshot[i] \in Candidates
  BY <1>3 DEF RecordsInv, ListingInv
<1>5. Json(i) \in DOMAIN packet \ {CHECKSUMS} /\ packet[Json(i)] = RecordJson(command.snapshot[i])
  BY <1>3, <1>4, RecordPaths DEF RecordsInv, WrittenInv, Holds
<1>6. files[Json(i)] = RecordJson(command.snapshot[i])
  BY <1>5, SumsDetermine
<1>7. r = PublicProjection(command.snapshot[i])
  BY <1>3, <1>4, <1>6, RecordIsProjected
<1>. QED  BY <1>3, <1>4, <1>7, RecordIsProjected

(* The record of the first finding left to do, and then its evidence.      *)
LEMMA RecordIsWritten ==
  ASSUME PacketInv, RecordsInv, WriteRecord
  PROVE  RecordsInv'
<1>. DEFINE i == First(command.todo)
            r == command.snapshot[i]
<1>1. /\ command # None /\ command.at = "findings" /\ command.todo # {}
      /\ packet' = PutFile(Json(i), RecordJson(r)) /\ command' = GoTo("evidence") /\ rows' = rows
  BY DEF WriteRecord, WriteNext, AtStep, NextPath, NextContent, RecordContent
<1>2. ListingInv /\ WrittenInv /\ MatchedInv /\ RowsInv
  BY DEF RecordsInv
<1>3. command.todo \subseteq DOMAIN command.snapshot /\ DOMAIN command.snapshot \subseteq Ids
  BY <1>1, <1>2 DEF ListingInv
<1>4. i \in command.todo
  BY <1>1, <1>3, FirstIsOne
<1>5. /\ command'.at = "evidence" /\ command'.todo = command.todo
      /\ command'.snapshot = command.snapshot /\ command'.listed = command.listed
  BY <1>1 DEF GoTo, PacketInv, CommandInv
<1>. HIDE DEF i, r
<1>6. ListingInv'
  BY <1>1, <1>2, <1>5 DEF ListingInv
<1>7. WrittenInv'
  <2>1. Holds(packet', i, r)
    BY <1>1, FilePut DEF Holds
  <2>2. ASSUME NEW j \in DOMAIN command.snapshot \ command.todo PROVE Holds(packet', j, command.snapshot[j])
    <3>1. Holds(packet, j, command.snapshot[j]) /\ Json(i) # Json(j)
      BY <1>1, <1>2, <1>4, RecordPaths DEF WrittenInv
    <3>. QED  BY <1>1, <3>1, OtherRecordsHold
  <2>3. Holds(packet', First(command'.todo), command'.snapshot[First(command'.todo)])
    BY <1>5, <2>1 DEF i, r
  <2>4. \A j \in DOMAIN command'.snapshot \ command'.todo : Holds(packet', j, command'.snapshot[j])
    BY <1>5, <2>2
  <2>. QED  BY <1>5, <2>3, <2>4 DEF WrittenInv
<1>8. MatchedInv'
  BY <1>1, <1>2, RecordPaths, MatchedPut
<1>9. RowsInv'
  BY <1>1, <1>2 DEF RowsInv
<1>. QED  BY <1>6, <1>7, <1>8, <1>9 DEF RecordsInv

LEMMA EvidenceIsWritten ==
  ASSUME PacketInv, RecordsInv, WriteEvidence
  PROVE  RecordsInv'
<1>. DEFINE i == First(command.todo)
            r == command.snapshot[i]
<1>1. /\ command # None /\ command.at = "evidence"
      /\ packet' = PutFile(Evidence(i), EvidenceMd(i, r)) /\ rows' = rows
      /\ command' = [GoTo("findings") EXCEPT !.todo = @ \ {First(@)}]
  BY DEF WriteEvidence, WriteNext, AtStep, NextPath, NextContent
<1>2. ListingInv /\ WrittenInv /\ MatchedInv /\ RowsInv
  BY DEF RecordsInv
<1>3. /\ command'.at = "findings" /\ command'.todo = command.todo \ {i}
      /\ command'.snapshot = command.snapshot /\ command'.listed = command.listed
  BY <1>1 DEF GoTo, PacketInv, CommandInv
<1>4. Holds(packet, i, r)
  BY <1>1, <1>2 DEF WrittenInv
<1>. HIDE DEF i
<1>5. ListingInv'
  BY <1>1, <1>2, <1>3 DEF ListingInv
<1>6. WrittenInv'
  <2>1. ASSUME NEW j \in DOMAIN command'.snapshot \ command'.todo PROVE Holds(packet', j, command'.snapshot[j])
    <3>1. Holds(packet, j, command.snapshot[j]) /\ Evidence(i) # Json(j)
      BY <1>1, <1>2, <1>3, <1>4, RecordPaths DEF WrittenInv
    <3>. QED  BY <1>1, <1>3, <3>1, OtherRecordsHold
  <2>. QED  BY <1>3, <2>1 DEF WrittenInv
<1>7. MatchedInv'
  BY <1>1, <1>2, Paths, MatchedPut
<1>8. RowsInv'
  BY <1>1, <1>2 DEF RowsInv
<1>. QED  BY <1>5, <1>6, <1>7, <1>8 DEF RecordsInv

(* The other files of the packet are written when every record is there.   *)
LEMMA RecordsKept ==
  ASSUME PacketInv, RecordsInv, command # None, command.todo = {}, command.at # "evidence",
         NEW path, NEW f, packet' = PutFile(path, f), rows' = rows,
         \A i : Json(i) # path,
         NEW step, command' = GoTo(step), step \in {"placeholder", "checksums", "manifest", "patch"}
  PROVE  /\ RowsInv' /\ ListingInv'
         /\ command'.at = step /\ command'.listed = command.listed
         /\ \A i \in DOMAIN command'.snapshot \ command'.todo : Holds(packet', i, command'.snapshot[i])
<1>1. ListingInv /\ WrittenInv /\ RowsInv
  BY DEF RecordsInv
<1>2. /\ command'.at = step /\ command'.todo = {}
      /\ command'.snapshot = command.snapshot /\ command'.listed = command.listed
  BY DEF GoTo, PacketInv, CommandInv
<1>3. ListingInv'
  BY <1>1, <1>2 DEF ListingInv
<1>4. ASSUME NEW i \in DOMAIN command'.snapshot \ command'.todo PROVE Holds(packet', i, command'.snapshot[i])
  <2>1. Holds(packet, i, command.snapshot[i])
    BY <1>1, <1>2 DEF WrittenInv
  <2>. QED  BY <1>2, <2>1, OtherRecordsHold
<1>. QED  BY <1>1, <1>2, <1>3, <1>4 DEF RowsInv

(* Checksums that describe the files there are.                            *)
LEMMA DescribedMatch ==
  ASSUME RecordsInv, command # None, command.at \in {"checksums", "patch"},
         packet' = PutFile(CHECKSUMS, Checksums(SumsOf(packet)))
  PROVE  MatchedInv'
<1>1. packet'[CHECKSUMS].body = SumsOf(packet)
  BY ChecksumsPut, ChecksumsFile
<1>. QED  BY <1>1, CompleteMatches DEF MatchedInv

(* A file that is cut short: no checksums then, or those of before.        *)
LEMMA TornKeeps ==
  ASSUME PacketInv, RecordsInv, PacketDiesInsideWrite
  PROVE  RecordsInv'
<1>1. command # None /\ command' = None /\ packet' = PutFile(NextPath, CutShort(NextContent)) /\ rows' = rows
  BY DEF PacketDiesInsideWrite
<1>2. ListingInv /\ WrittenInv /\ MatchedInv /\ RowsInv
  BY DEF RecordsInv
<1>3. command.at \in {"findings", "evidence", "placeholder", "checksums", "manifest", "patch"}
  BY <1>1 DEF PacketInv, CommandInv
<1>4. ListingInv' /\ WrittenInv' /\ RowsInv'
  BY <1>1, <1>2 DEF ListingInv, WrittenInv, RowsInv
<1>5. MatchedInv'
  <2>1. CASE NextPath # CHECKSUMS
    BY <1>1, <1>2, <2>1, MatchedPut
  <2>2. CASE NextPath = CHECKSUMS
    <3>1. command.at \in {"checksums", "patch"}
      BY <1>3, <2>2, Paths DEF NextPath
    <3>2. PICK sums : NextContent = Checksums(sums)
      BY <3>1 DEF NextContent
    <3>3. packet' = PutFile(CHECKSUMS, CutShort(Checksums(sums)))
      BY <1>1, <2>2, <3>2
    <3>4. packet'[CHECKSUMS] = CutShort(Checksums(sums))
      BY <3>3, FilePut
    <3>. QED  BY <3>4, ChecksumsFile DEF MatchedInv
  <2>. QED  BY <2>1, <2>2
<1>. QED  BY <1>4, <1>5 DEF RecordsInv

(* The invariant is inductive.                                             *)
LEMMA RecordsStep == PacketInv /\ RecordsInv /\ [PacketNext]_packetVars => RecordsInv'
<1>. SUFFICES ASSUME PacketInv, RecordsInv, [PacketNext]_packetVars
              PROVE  RecordsInv'
  OBVIOUS
<1>1. ListingInv /\ WrittenInv /\ MatchedInv /\ RowsInv
  BY DEF RecordsInv
<1>2. /\ BUNDLE # CHECKSUMS /\ MANIFEST_JSON # CHECKSUMS
      /\ \A i : Json(i) # BUNDLE /\ Json(i) # MANIFEST_JSON /\ Json(i) # CHECKSUMS
  BY Paths, RecordPaths DEF BUNDLE
<1>3. ASSUME packet' = packet, RowsInv', command' = command \/ command' = None
      PROVE  RecordsInv'
  BY <1>1, <1>3 DEF RecordsInv, ListingInv, WrittenInv, MatchedInv
<1>4. CASE RecordWritten \/ RecordUnreadable
  <2>1. RowsInv'
    <3>1. CASE RecordWritten
      <4>1. PICK i \in Ids, r \in Candidates :
              rows' = [j \in DOMAIN rows \cup {i} |-> IF j = i THEN r ELSE rows[j]]
        BY <3>1 DEF RecordWritten
      <4>. QED  BY <1>1, <4>1 DEF RowsInv
    <3>2. CASE RecordUnreadable
      <4>1. PICK i \in DOMAIN rows : rows' = Restricted(rows, DOMAIN rows \ {i})
        BY <3>2 DEF RecordUnreadable
      <4>. QED  BY <1>1, <4>1 DEF RowsInv, Restricted
    <3>. QED  BY <1>4, <3>1, <3>2
  <2>. QED  BY <1>3, <1>4, <2>1 DEF RecordWritten, RecordUnreadable
<1>5. CASE WriteBundle
  <2>1. /\ command # None /\ command.at = "findings" /\ command.todo = {} /\ rows' = rows
        /\ packet' = PutFile(BUNDLE, BundleMd(command)) /\ command' = GoTo("placeholder")
    BY <1>5 DEF WriteBundle, WriteNext, AtStep, NextPath, NextContent
  <2>2. RowsInv' /\ ListingInv' /\ command'.at = "placeholder"
        /\ \A i \in DOMAIN command'.snapshot \ command'.todo : Holds(packet', i, command'.snapshot[i])
    BY <1>2, <2>1, RecordsKept
  <2>3. MatchedInv'
    BY <1>1, <1>2, <2>1, MatchedPut
  <2>. QED  BY <2>2, <2>3 DEF RecordsInv, WrittenInv
<1>6. ASSUME NEW step \in {"checksums", "patch"}, NEW status, command # None, command.todo = {},
             command.at \in {"placeholder", "manifest"}, rows' = rows,
             packet' = PutFile(MANIFEST_JSON, Manifest(status, command.listed)), command' = GoTo(step)
      PROVE  RecordsInv'
  <2>1. /\ RowsInv' /\ ListingInv' /\ command'.at = step /\ command'.listed = command.listed
        /\ \A i \in DOMAIN command'.snapshot \ command'.todo : Holds(packet', i, command'.snapshot[i])
    BY <1>2, <1>6, RecordsKept
  <2>2. MatchedInv'
    BY <1>1, <1>2, <1>6, MatchedPut
  <2>3. Manifest(status, command.listed).body.findings = command.listed
    BY DEF Manifest, Document
  <2>4. MANIFEST_JSON \in DOMAIN packet' /\ packet'[MANIFEST_JSON].body.findings = command.listed
    BY <1>6, <2>3, FilePut
  <2>. QED  BY <2>1, <2>2, <2>4 DEF RecordsInv, WrittenInv
<1>7. CASE WritePlaceholder
  <2>1. /\ command # None /\ command.at = "placeholder" /\ command' = GoTo("checksums") /\ rows' = rows
        /\ packet' = PutFile(MANIFEST_JSON, Manifest("deferred", command.listed))
    BY <1>7 DEF WritePlaceholder, WriteNext, AtStep, NextPath, NextContent
  <2>2. command.todo = {}
    BY <1>1, <2>1 DEF ListingInv
  <2>. QED  BY <1>6, <2>1, <2>2
<1>8. CASE WriteFinalManifest
  <2>1. /\ command # None /\ command.at = "manifest" /\ command' = GoTo("patch") /\ rows' = rows
        /\ packet' = PutFile(MANIFEST_JSON, Manifest(RunSanitizeCheck, command.listed))
    BY <1>8 DEF WriteFinalManifest, WriteNext, AtStep, NextPath, NextContent
  <2>2. command.todo = {}
    BY <1>1, <2>1 DEF ListingInv
  <2>. QED  BY <1>6, <2>1, <2>2
<1>9. CASE WriteChecksums
  <2>1. /\ command # None /\ command.at = "checksums" /\ command' = GoTo("manifest") /\ rows' = rows
        /\ packet' = PutFile(CHECKSUMS, Checksums(SumsOf(packet)))
    BY <1>9 DEF WriteChecksums, WriteNext, AtStep, NextPath, NextContent, Sums, SumsOf
  <2>2. command.todo = {}
    BY <1>1, <2>1 DEF ListingInv
  <2>3. /\ RowsInv' /\ ListingInv' /\ command'.at = "manifest" /\ command'.listed = command.listed
        /\ \A i \in DOMAIN command'.snapshot \ command'.todo : Holds(packet', i, command'.snapshot[i])
    BY <1>2, <2>1, <2>2, RecordsKept
  <2>4. MANIFEST_JSON \in DOMAIN packet /\ packet[MANIFEST_JSON].body.findings = command.listed
    BY <1>1, <2>1 DEF WrittenInv
  <2>5. MANIFEST_JSON \in DOMAIN packet' /\ packet'[MANIFEST_JSON].body.findings = command.listed
    BY <1>2, <2>1, <2>4, FilePut
  <2>6. MatchedInv'
    BY <2>1, DescribedMatch
  <2>. QED  BY <2>3, <2>5, <2>6 DEF RecordsInv, WrittenInv
<1>10. CASE PatchChecksums
  <2>1. /\ command # None /\ command.at = "patch" /\ command' = None /\ rows' = rows
        /\ packet' = PutFile(CHECKSUMS, Checksums(SumsOf(packet)))
    BY <1>10, PatchedIsSums DEF PatchChecksums, WriteNext, AtStep, NextPath, NextContent
  <2>2. MatchedInv'
    BY <2>1, DescribedMatch
  <2>. QED  BY <1>1, <2>1, <2>2 DEF RecordsInv, RowsInv, ListingInv, WrittenInv
<1>11. CASE PacketDies
  BY <1>1, <1>3, <1>11 DEF PacketDies, RowsInv
<1>12. CASE UNCHANGED packetVars
  BY <1>1, <1>3, <1>12 DEF packetVars, RowsInv
<1>. QED  BY <1>4, <1>5, <1>7, <1>8, <1>9, <1>10, <1>11, <1>12, CommandLists, RecordIsWritten, EvidenceIsWritten,
             TornKeeps DEF PacketNext

(* The invariant of the records.                                           *)
LEMMA RecordsAlways == PacketSpec => []RecordsInv
BY PacketInitially, RecordsInitially, PacketStep, RecordsStep, PTL DEF PacketSpec

(* In a packet that verifies, the records are in the states its manifest   *)
(* lists, however the records changed between the writes, and although the *)
(* directory may hold files of other commands and of ones that died.       *)
THEOREM ManifestMatchesRecordsHolds == PacketSpec => []ManifestMatchesRecords
<1>1. ASSUME RecordsInv PROVE ManifestMatchesRecords
  <2>. SUFFICES ASSUME Verifies(packet) PROVE RecordsMatch(packet)
    BY DEF ManifestMatchesRecords, RecordsMatch
  <2>1. CHECKSUMS \in DOMAIN packet /\ packet[CHECKSUMS].parses /\ packet[CHECKSUMS].body = SumsOf(packet)
    BY DEF Verifies, SumsOf
  <2>. QED  BY <1>1, <2>1 DEF RecordsInv, MatchedInv
<1>. QED  BY <1>1, RecordsAlways, PTL

=============================================================================
