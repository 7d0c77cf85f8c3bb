------------------------------ MODULE Workbench ------------------------------
(***************************************************************************)
(* `aegisgraph workbench promote`, aegisgraph/workbench/: a reviewer moves *)
(* a record to another claim state by writing a new record that supersedes *)
(* it, promotions/<UTC date>/<prior id>+<STATE>.json.  The command reads   *)
(* the records on disk (registry.scan), and writes the file in a later     *)
(* step: several reviewers, the change of date and crashes come between.   *)
(*                                                                         *)
(* The id of a promotion spells its lineage: here it is the sequence of    *)
(* the finding and of the states it was promoted to, in order.             *)
(***************************************************************************)
EXTENDS DisclosureGates, FiniteSetsExt

CONSTANTS
  Reviewers,        \* who runs the command, one command at a time each
  None,             \* no record found, or no command under way
  Targets,          \* values of --to
  RepeatsAllowed,   \* whether one promotion may be made twice on one date
  MaxDay,           \* bound of the model: last date
  MaxLineage        \* bound of the model: length of an id

VARIABLES
  promotions,       \* the promotion files, by date and id
  today,            \* the UTC date
  command           \* per reviewer, the record it is about to write

workbenchVars == <<promotions, command>>
vars == <<ledger, stored, promotions, today, command>>

ASSUME WorkbenchAssumption ==
  /\ RepeatsAllowed \in BOOLEAN
  /\ MaxDay \in Nat /\ MaxLineage \in Nat

-----------------------------------------------------------------------------

(* SHA-256 is taken to be free of collisions.                              *)
RecordHash(payload) == <<"sha256", payload>>

EngineRecord(f) ==
  LET payload == [id |-> <<f>>, claim_state |-> stored[f]]
  IN [payload |-> payload, previous_hash |-> None, record_hash |-> RecordHash(payload)]

(* The dates under which the scan meets a promotion of this id; a file     *)
(* that does not parse is passed over.                                     *)
DatesOf(id) ==
  {d \in 0..MaxDay :
     <<d, id>> \in DOMAIN promotions /\ promotions[<<d, id>>] # Torn}

\* Seeded fault: the row of the last path wins.
FindLastRecord(id) ==
  IF Len(id) = 1 THEN EngineRecord(id[1])
  ELSE IF DatesOf(id) = {} THEN None ELSE promotions[<<Max(DatesOf(id)), id>>]

(* find_record(): paths are scanned in lexical order, the engines' files   *)
(* first, and of the rows with one id the first is kept.                   *)
FindRecord(id) ==
  IF Len(id) = 1 THEN EngineRecord(id[1])
  ELSE IF DatesOf(id) = {} THEN None ELSE promotions[<<Min(DatesOf(id)), id>>]

Ids == {<<f>> : f \in Findings} \cup {path[2] : path \in DOMAIN promotions}

\* Seeded fault: the new record linked to what its prior is linked to.
PromotedSkippingPrior(prior, target, reviewer) ==
  LET payload ==
        [ id                |-> Append(prior.payload.id, target),
          claim_state       |-> target,
          supersedes        |-> prior.payload.id,
          promoted_at       |-> today,
          promoted_by       |-> reviewer,
          prior_record_hash |-> prior.previous_hash ]
  IN [ payload       |-> payload,
       previous_hash |-> prior.previous_hash,
       record_hash   |-> RecordHash(payload) ]

(* _build_promoted_record: a claim-state delta that names its prior and is *)
(* linked to the record_hash the command read for it.                      *)
PromotedRecord(prior, target, reviewer) ==
  LET payload ==
        [ id                |-> Append(prior.payload.id, target),
          claim_state       |-> target,
          supersedes        |-> prior.payload.id,
          promoted_at       |-> today,
          promoted_by       |-> reviewer,
          prior_record_hash |-> prior.record_hash ]
  IN [ payload       |-> payload,
       previous_hash |-> prior.record_hash,
       record_hash   |-> RecordHash(payload) ]

-----------------------------------------------------------------------------

Init ==
  /\ GateInit
  /\ promotions = [path \in {} |-> Torn]
  /\ today = 0
  /\ command = [r \in Reviewers |-> None]

(* cmd_workbench_promote up to the new record: show_finding, the two       *)
(* states, transition_allowed.  It does not look at the ledger.  A command *)
(* that is refused changes nothing.                                        *)
Promote(r, id, to) ==
  LET prior == FindRecord(id)
  IN /\ command[r] = None
     /\ Len(id) < MaxLineage
     /\ prior # None
     /\ KnownState(to)
     /\ TransitionAllowed(prior.payload.claim_state, to)
     /\ command' = [command EXCEPT ![r] = PromotedRecord(prior, Canonical(to), r)]
     /\ UNCHANGED <<gateVars, promotions, today>>

(* Bound of the environment: see RepeatsAllowed.                           *)
PathFree(r) ==
  RepeatsAllowed \/ <<today, command[r].payload.id>> \notin DOMAIN promotions

(* open(path, "w"): the file of that date and id is written, or replaced.  *)
Put(r, content) ==
  LET path == <<today, command[r].payload.id>>
  IN /\ command[r] # None
     /\ PathFree(r)
     /\ promotions' =
          [p \in DOMAIN promotions \cup {path} |->
             IF p = path THEN content ELSE promotions[p]]
     /\ command' = [command EXCEPT ![r] = None]
     /\ UNCHANGED <<gateVars, today>>

WritePromotion(r) == Put(r, command[r])

(* The command is killed: before it opens the file, or after and the file  *)
(* is left empty or cut short.                                             *)
CrashBeforeOpen(r) ==
  /\ command[r] # None
  /\ command' = [command EXCEPT ![r] = None]
  /\ UNCHANGED <<gateVars, promotions, today>>

CrashWhileWriting(r) == Put(r, Torn)

Midnight ==
  /\ today < MaxDay
  /\ today' = today + 1
  /\ UNCHANGED <<gateVars, workbenchVars>>

Gates == GateNext /\ UNCHANGED <<workbenchVars, today>>

Next ==
  \/ Gates
  \/ Midnight
  \/ \E r \in Reviewers :
       \/ \E id \in Ids, to \in Targets : Promote(r, id, to)
       \/ WritePromotion(r)
       \/ CrashBeforeOpen(r)
       \/ CrashWhileWriting(r)

Spec == Init /\ [][Next]_vars

-----------------------------------------------------------------------------

(* A finding's records: its evidence record and the promotions descended   *)
(* from it that the workbench shows.                                       *)
Records == {FindRecord(id) : id \in Ids} \ {None}

Finding(record) == record.payload.id[1]

(* The rule of claim_states/__init__.py (l. 3-11): no record of a finding  *)
(* is in disclosed_public unless the ledger holds, for that very finding,  *)
(* both that its vendor was contacted and that the embargo ended.          *)
PublicHasEvents ==
  \A record \in Records :
    record.payload.claim_state = "disclosed_public" =>
      /\ Recorded(Finding(record), ContactEvents)
      /\ Recorded(Finding(record), TerminalEvents)

(* A promotion of a promotion carries the record_hash of the very record   *)
(* that `workbench show` finds under the id it supersedes, whoever else    *)
(* promoted that id, on whatever date, and whichever command was killed.   *)
SupersedesLinked ==
  \A record \in Records :
    Len(record.payload.id) > 2 =>
      LET prior == FindRecord(record.payload.supersedes)
      IN prior # None /\ record.previous_hash = prior.record_hash

(* The promote path is additive (cli.py:12-15): what the workbench shows   *)
(* under the id of a promotion never changes and never goes away.          *)
PromotionsAdditive ==
  [][\A id \in Ids :
       Len(id) > 1 /\ FindRecord(id) # None => FindRecord(id)' = FindRecord(id)]_vars
=============================================================================
