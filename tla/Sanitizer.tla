------------------------------ MODULE Sanitizer ------------------------------
(***************************************************************************)
(* The sanitize check, validator/sanitize_check.py, and the flags of       *)
(* aegisgraph/safety.py.  Both match regular expressions against records;  *)
(* what a text matches is data here: the set of the names of the rules     *)
(* whose expression it matches.                                            *)
(*                                                                         *)
(* A record has                                                            *)
(*   kind               what the prefix of its id says it is               *)
(*   claim_state, disclosure_status, finding_type, task, event_type        *)
(*   fields, nested     the populated fields of the record, and of the     *)
(*                      objects inside it, and in lists inside it          *)
(*   buried             those of objects in a list that is itself an item  *)
(*                      of a list                                          *)
(*   texts, keys        what its values, and its keys, match               *)
(*   limited            whether it states its limitations                  *)
(* A document has                                                          *)
(*   name, ext, link    its file name, suffix, and whether it is a symlink *)
(*   path, text         what its path and its content match                *)
(*   raw                what the raw inputs quoted in it match             *)
(*   parses             whether its JSON parses                            *)
(*   posture            its safety_posture, None when it is no tool output *)
(*   self               the records that are the document itself           *)
(*   records, others    the records in its records and evidence_records    *)
(*                      lists, and in its other lists                      *)
(*   body               what else it says, where a module looks at it        *)
(***************************************************************************)
EXTENDS FiniteSets, Naturals

CONSTANT
  None              \* no such field, record, file or command

PublicSafeDisclosures == {"public_historical", "patched_public", "not_applicable"}
PrivateDisclosures == {"private_review", "disclosed_pending_patch"}
PayloadFields ==
  {"bytes_b64", "payload", "raw_bytes", "raw_reproducer", "raw_witness", "raw_corpus_input"}
PublicEventTypes == {"cve_assigned", "cve_published", "disclosure_public"}
TextExtensions == {".json", ".md", ".txt"}
PublicArtifactGatedRules ==
  {"vendor_contact_in_public_artifact", "disclosure_embargoed_leak", "raw_stack_trace",
   "target_source_snippet", "crosssma_target_redistribution"}

Document(name, ext, posture, text) ==
  [ name    |-> name,    ext    |-> ext, link    |-> FALSE, path   |-> {},
    text    |-> text,    raw    |-> {},  parses  |-> TRUE,
    posture |-> posture, self   |-> {},  records |-> {},    others |-> {},
    body    |-> None ]

(* A file after a write that was cut short: its JSON does not parse, and   *)
(* what its text matched may be in the part that is missing.               *)
CutShort(f) == [f EXCEPT !.parses = FALSE, !.text = {}, !.raw = {}]

-----------------------------------------------------------------------------
(* safety.py                                                               *)

(* The rules a record's values match.  The embargo rule looks for two      *)
(* words that the record's own fields may supply.                          *)
ValueMatches(r) ==
  r.texts \cup
  IF r.claim_state = "reviewed_embargoed" /\ r.posture = "sanitized_candidate"
  THEN {"disclosure_embargoed_leak"} ELSE {}

IsPublicArtifactContext(r) ==
  \/ r.posture = "sanitized_candidate"
  \/ /\ r.posture \notin {"private_by_default", "private_review", "engineering_private"}
     /\ r.disclosure_status \notin PrivateDisclosures

(* scan_record: keys and values are searched, the gated rules only outside *)
(* a private context.                                                      *)
ScanRecord(r) ==
  {rule \in ValueMatches(r) \cup r.keys :
     rule \notin PublicArtifactGatedRules \/ IsPublicArtifactContext(r)}
  \cup {rule \in {"accepted_without_limitations"} :
          r.claim_state = "accepted" /\ ~r.limited}
  \cup {rule \in {"private_finding_raw_reproducer"} :
          r.disclosure_status \in PrivateDisclosures /\ "raw_reproducer" \in r.fields}

-----------------------------------------------------------------------------
(* sanitize_check.py                                                       *)

(* A symlink is passed over.                                               *)
IterFiles(tree) == {tree[p] : p \in {q \in DOMAIN tree : ~tree[q].link}}

\* Seeded fault: no name is exempt from the first rule.
NoneExempt(f) == FALSE

Allowlisted(f) == f.name = "EXCLUSIONS.md"

(* Rule 1: names of the forbidden strings in paths, and in the bodies of   *)
(* text files.                                                             *)
PathAndContentFailures(f) ==
  IF Allowlisted(f) THEN {}
  ELSE f.path \cup (IF f.ext \in TextExtensions THEN f.text \cup f.raw ELSE {})

(* The field vendor_contact counts when it holds an address.               *)
CheckDisclosureEvent(r) ==
  {rule \in {"disclosure_event_private_event_type"} :
     r.event_type \notin PublicEventTypes \cup {None}}
  \cup {rule \in {"vendor_contact", "notes_hash"} : rule \in r.fields}

(* Without a location the check returns before it looks at the top level.  *)
CheckInvariantViolation(r) ==
  {rule \in {"source_snippet"} :
     "location" \in r.fields /\ rule \in r.nested \cup r.fields}

CheckCrash(r) == {rule \in {"crash_record_missing_sha256"} : "crash_sha256" \notin r.fields}

CheckEvidenceRecord(r) ==
  {rule \in {"accepted_with_private_disclosure"} :
     r.claim_state = "accepted" /\ r.disclosure_status \notin PublicSafeDisclosures \cup {None}}
  \cup {rule \in {"novel_private_candidate_in_public"} :
          r.finding_type = "novel_private_candidate"}
  \cup {rule \in {"embedded_crash_payload"} : r.fields \cap PayloadFields # {}}
  \cup ValueMatches(r)
  \cup {rule \in {"static_only_promoted_to_accepted"} :
          r.claim_state = "accepted" /\ r.task \notin {None, "passing"}}
  \cup CASE r.kind = "disclosure_event"    -> CheckDisclosureEvent(r)
         [] r.kind = "invariant_violation" -> CheckInvariantViolation(r)
         [] r.kind = "crash"               -> CheckCrash(r)
         [] OTHER                          -> {}

(* A document that is itself a record counts when it is an evidence record *)
(* or a finding; any other kind is seen only inside a list.                *)
RecordsFromDocument(f) ==
  {r \in f.self : r.kind \in {"evidence", "finding"}} \cup f.records \cup f.others

CheckToolOutput(f) ==
  {rule \in {"tool_output_wrong_safety_posture"} :
     f.posture \notin {None, "sanitized_candidate"}}

ScanSchemaDocument(f) ==
  IF f.ext # ".json" THEN {}
  ELSE IF ~f.parses THEN {"invalid_json"}
  ELSE CheckToolOutput(f)
       \cup UNION {CheckEvidenceRecord(r) : r \in RecordsFromDocument(f)}

(* scan_export_tree: an empty tree, or none, is refused too.               *)
ScanExportTree(tree) ==
  IF IterFiles(tree) = {} THEN {"empty_export_tree"}
  ELSE UNION {PathAndContentFailures(f) \cup ScanSchemaDocument(f) : f \in IterFiles(tree)}

IsExportSafe(tree) == ScanExportTree(tree) = {}

=============================================================================
