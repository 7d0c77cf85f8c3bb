---------------------------- MODULE ReviewerPacket ----------------------------
(***************************************************************************)
(* `aegisgraph workbench packet`, aegisgraph/workbench/packet_export.py:   *)
(* the directory of one date with a record and an evidence page for each   *)
(* of the best scored findings, a bundle, a manifest and checksums.        *)
(*                                                                         *)
(* The findings are listed once; each evidence page is made from a later   *)
(* scan, while engines and reviewers change the records.  The directory is *)
(* not cleaned: a second command of the day writes over the first one.     *)
(* The command may die at any point.                                       *)
(***************************************************************************)
EXTENDS Sanitizer

CONSTANTS
  Candidates,       \* the records a finding's file may hold
  Ids,              \* the ids of the findings, in lexical order
  Score,            \* score_total, by id
  Tops,             \* values of --top
  Filters,          \* values of --filter, as sets of <<key, value>>
  MaxCommands,      \* bound of the model: commands of the day
  MaxChanges        \* bound of the model: changes of the records

(* There are finitely many files, and a record says what it claims.        *)
ASSUME PacketAssumption ==
  /\ Ids \subseteq Nat /\ IsFiniteSet(Ids)
  /\ \A r \in Candidates : "claim_state" \in DOMAIN r
  /\ Score \in [Ids -> Nat]
  /\ Tops \subseteq Nat
  /\ MaxCommands \in Nat /\ MaxChanges \in Nat

VARIABLES
  rows,             \* what a scan finds: the records, by id
  packet,           \* the files of the packet directory
  command,          \* the command under way, or None
  commands,         \* how many were started
  changes           \* how often a record changed

packetVars == <<rows, packet, command, commands, changes>>

-----------------------------------------------------------------------------

Sha256Of(content) == <<"sha256", content>>

Restricted(f, S) == [p \in S |-> f[p]]

(* FilterSpec.parse drops the pairs whose key it does not know.            *)
ParsedFilter(pairs) == {p \in pairs : p[1] \in {"claim_state", "engine"}}

Matches(r, pairs) ==
  \A p \in pairs : p[2] = IF p[1] = "claim_state" THEN r.claim_state ELSE r.kind

(* The order of the listing: best score first, then by id.                 *)
Before(a, b) == Score[a] > Score[b] \/ (Score[a] = Score[b] /\ a < b)

(* list_findings and the cut to the first `top` rows.                      *)
Selected(top, pairs) ==
  LET matched == {i \in DOMAIN rows : Matches(rows[i], ParsedFilter(pairs))}
  IN {i \in matched : Cardinality({j \in matched : Before(j, i)}) < top}

First(ids) == CHOOSE i \in ids : \A j \in ids \ {i} : Before(i, j)

BlockedFields ==
  PayloadFields \cup {"vendor_contact", "notes_hash", "source_snippet"}

(* _public_projection, and _public_projection_subtree inside it.  A list   *)
(* that is an item of a list is copied as it is, with what is below it.    *)
PublicProjection(r) ==
  [r EXCEPT !.fields = @ \ BlockedFields, !.nested = @ \ BlockedFields]

RecordJson(r) == [Document("record", ".json", None, r.strings) EXCEPT !.self = {PublicProjection(r)}]

(* show_finding scans again; render_markdown gives the state it found, and *)
(* the rest from the record the command holds.                             *)
EvidenceMd(id, r) ==
  [Document("evidence", ".md", None, IF id \in DOMAIN rows THEN r.strings ELSE {}) EXCEPT
     !.body = IF id \in DOMAIN rows THEN rows[id].claim_state ELSE "Finding not found"]

BundleMd(c) == [Document("bundle", ".md", None, {}) EXCEPT !.body = c.listed]

Json(id) == <<"findings", id, ".json">>
Evidence(id) == <<"findings", id, ".evidence.md">>
BUNDLE == <<"bundle.md">>
MANIFEST_JSON == <<"manifest.json">>
CHECKSUMS == <<"checksums.sha256">>

FindingsTree == Restricted(packet, {p \in DOMAIN packet : p[1] = "findings"})

\* Seeded fault: only the files of this command are checked.
ScanWritten ==
  LET mine == {p \in DOMAIN packet : p[1] = "findings" /\ p[2] \in DOMAIN command.snapshot}
  IN IF ScanExportTree(Restricted(packet, mine)) = {} THEN "pass" ELSE "fail"

(* _run_sanitize_check: the findings directory, all that is in it.         *)
RunSanitizeCheck ==
  IF ScanExportTree(FindingsTree) = {} THEN "pass" ELSE "fail"

Manifest(status, listed) ==
  [Document("manifest.json", ".json", "sanitized_candidate", {}) EXCEPT
     !.body = [sanitize |-> status, findings |-> listed]]

Checksums(sums) == [Document("checksums.sha256", "", None, {}) EXCEPT !.body = sums]

Sums(paths) == {<<p, Sha256Of(packet[p])>> : p \in paths}

-----------------------------------------------------------------------------

PacketInit ==
  /\ rows \in [Ids -> Candidates]
  /\ packet = [p \in {} |-> None]
  /\ command = None
  /\ commands = 0
  /\ changes = 0

(* An engine, or a promotion, writes a record, or writes it anew.          *)
RecordWritten ==
  /\ \E i \in Ids, r \in Candidates :
       rows' = [j \in DOMAIN rows \cup {i} |-> IF j = i THEN r ELSE rows[j]]
  /\ changes < MaxChanges /\ changes' = changes + 1
  /\ UNCHANGED <<packet, command, commands>>

(* The scan passes over a file that is being written, or cannot be read.   *)
RecordUnreadable ==
  /\ \E i \in DOMAIN rows : rows' = Restricted(rows, DOMAIN rows \ {i})
  /\ changes < MaxChanges /\ changes' = changes + 1
  /\ UNCHANGED <<packet, command, commands>>

ExportPacket(top, pairs) ==
  /\ command = None
  /\ LET ids == Selected(top, pairs)
     IN command' = [ at       |-> "findings",
                     todo     |-> ids,
                     snapshot |-> Restricted(rows, ids),
                     listed   |-> {<<i, rows[i].claim_state>> : i \in ids} ]
  /\ commands < MaxCommands /\ commands' = commands + 1
  /\ UNCHANGED <<rows, packet, changes>>

AtStep(step) == command # None /\ command.at = step

PutFile(path, f) == [p \in DOMAIN packet \cup {path} |-> IF p = path THEN f ELSE packet[p]]

(* The file the command writes next, and its content.                      *)
NextPath ==
  CASE command.at = "findings" /\ command.todo # {}  -> Json(First(command.todo))
    [] command.at = "evidence"                        -> Evidence(First(command.todo))
    [] command.at = "findings" /\ command.todo = {}  -> BUNDLE
    [] command.at \in {"placeholder", "manifest"}     -> MANIFEST_JSON
    [] OTHER                                          -> CHECKSUMS

\* Seeded fault: the record is read again when it is written.
ContentReadAgain ==
  LET id == First(command.todo)
  IN RecordJson(IF id \in DOMAIN rows THEN rows[id] ELSE command.snapshot[id])

RecordContent == RecordJson(command.snapshot[First(command.todo)])

\* Seeded fault: the manifest keeps the checksum of its first version.
UnpatchedSums == packet[CHECKSUMS].body

(* The line of the manifest is replaced once it is final.                  *)
PatchedSums ==
  {s \in packet[CHECKSUMS].body : s[1] # MANIFEST_JSON} \cup Sums({MANIFEST_JSON})

NextContent ==
  CASE command.at = "findings" /\ command.todo # {} -> RecordContent
    [] command.at = "evidence"    ->
         EvidenceMd(First(command.todo), command.snapshot[First(command.todo)])
    [] command.at = "findings" /\ command.todo = {} -> BundleMd(command)
    [] command.at = "placeholder" -> Manifest("deferred", command.listed)
    [] command.at = "checksums"   -> Checksums(Sums(DOMAIN packet \ {CHECKSUMS}))
    [] command.at = "manifest"    -> Manifest(RunSanitizeCheck, command.listed)
    [] command.at = "patch"       -> Checksums(PatchedSums)

(* One write; the command goes on to the next.                             *)
WriteNext(step, next) ==
  /\ AtStep(step)
  /\ packet' = PutFile(NextPath, NextContent)
  /\ command' = next
  /\ UNCHANGED <<rows, commands, changes>>

GoTo(step) == [command EXCEPT !.at = step]

WriteRecord == command # None /\ command.todo # {} /\ WriteNext("findings", GoTo("evidence"))
WriteEvidence ==
  AtStep("evidence") /\ WriteNext("evidence", [GoTo("findings") EXCEPT !.todo = @ \ {First(@)}])
WriteBundle == command # None /\ command.todo = {} /\ WriteNext("findings", GoTo("placeholder"))
WritePlaceholder == AtStep("placeholder") /\ WriteNext("placeholder", GoTo("checksums"))
WriteChecksums == AtStep("checksums") /\ WriteNext("checksums", GoTo("manifest"))
WriteFinalManifest == AtStep("manifest") /\ WriteNext("manifest", GoTo("patch"))
PatchChecksums == WriteNext("patch", None)

PacketDies ==
  /\ command # None
  /\ command' = None
  /\ UNCHANGED <<rows, packet, commands, changes>>

PacketDiesInsideWrite ==
  /\ command # None
  /\ packet' = PutFile(NextPath, CutShort(NextContent))
  /\ command' = None
  /\ UNCHANGED <<rows, commands, changes>>

PacketNext ==
  \/ RecordWritten
  \/ RecordUnreadable
  \/ \E top \in Tops, pairs \in Filters : ExportPacket(top, pairs)
  \/ WriteRecord
  \/ WriteEvidence
  \/ WriteBundle
  \/ WritePlaceholder
  \/ WriteChecksums
  \/ WriteFinalManifest
  \/ PatchChecksums
  \/ PacketDies
  \/ PacketDiesInsideWrite

PacketSpec == PacketInit /\ [][PacketNext]_packetVars

-----------------------------------------------------------------------------

(* `sha256sum -c` with no file left over: the checksums describe exactly   *)
(* the files there are.                                                    *)
Verifies(files) ==
  /\ CHECKSUMS \in DOMAIN files
  /\ files[CHECKSUMS].parses
  /\ files[CHECKSUMS].body =
       {<<p, Sha256Of(files[p])>> : p \in DOMAIN files \ {CHECKSUMS}}

(* A command that comes to its end leaves checksums that describe all of   *)
(* the directory, the manifest that was rewritten after them and the files *)
(* of earlier commands included.                                           *)
EndsVerified == [][PatchChecksums => Verifies(packet')]_packetVars

(* A packet whose checksums verify and whose manifest says that the        *)
(* sanitize check passed has a findings directory that passes it, whatever *)
(* commands of that day wrote it, and wherever they died.                  *)
PassedIsClean ==
  Verifies(packet) /\ packet[MANIFEST_JSON].body.sanitize = "pass" => ScanExportTree(FindingsTree) = {}

(* In a packet that verifies, the records are those the manifest lists:    *)
(* one listing is used for both, however the records change meanwhile.     *)
ManifestMatchesRecords ==
  Verifies(packet) =>
    \A l \in packet[MANIFEST_JSON].body.findings :
      \A r \in packet[Json(l[1])].self : r.claim_state = l[2]

=============================================================================
