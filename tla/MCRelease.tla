------------------------------ MODULE MCRelease ------------------------------
(* The exports for TLC: the reports and records below differ in the rules   *)
(* they break.  The two commands share no file, so a behaviour is about one *)
(* of them: the other is not started.                                       *)
EXTENDS Release, ReviewerPacket

Plain ==
  [ kind |-> "finding", claim_state |-> "observed", disclosure_status |-> None,
    finding_type |-> "weakness", task |-> None, event_type |-> None, posture |-> None,
    fields |-> {}, nested |-> {}, buried |-> {}, texts |-> {}, keys |-> {}, limited |-> TRUE, strings |-> {} ]

MCCandidates ==
  { Plain,
    [Plain EXCEPT !.claim_state = "accepted", !.disclosure_status = "private_review",
                  !.fields = {"location", "payload"}, !.nested = {"source_snippet"},
                  !.buried = {"payload"}] }

MCReports ==
  { [Document("report.json", ".json", "private_by_default", {}) EXCEPT
       !.raw = {"linux_home"}, !.records = {[Plain EXCEPT !.kind = "evidence"]}],
    [Document("report.json", ".json", "private_by_default", {}) EXCEPT
       !.others = {[Plain EXCEPT !.finding_type = "novel_private_candidate"]}] }

MCHandPlaced ==
  { [Document("notes.md", ".md", None, {"linux_home"}) EXCEPT !.link = TRUE],
    [Document("private-submission.png", ".png", None, {}) EXCEPT !.path = {"private_submission"}] }

MCIds == {1, 2}
MCScore == [i \in {1, 2} |-> i]
MCTops == {1, 2}
MCFilters == {{<<"claim_state", "observed">>}, {<<"state", "accepted">>}}

Untouched ==
  /\ report = None /\ validation = None
  /\ DOMAIN public = {} /\ job = None

Init == ReleaseInit /\ PacketInit

Next ==
  \/ /\ commands = 0 /\ changes = 0
     /\ ReleaseNext /\ UNCHANGED packetVars
  \/ /\ Untouched
     /\ PacketNext /\ UNCHANGED releaseVars

Spec == Init /\ [][Next]_<<releaseVars, packetVars>>

=============================================================================
