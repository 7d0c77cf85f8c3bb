--------------------------- MODULE DisclosureGates ---------------------------
(***************************************************************************)
(* The two gates of aegisgraph/disclosure/claim_states/: a finding enters  *)
(* reviewed_embargoed and then disclosed_public, each time on the strength *)
(* of an event that the disclosure ledger holds for it.                    *)
(*                                                                         *)
(* The ledger is seen as the gates see it, finding and event type per      *)
(* line; DisclosureLedger has its hash chain and its file.  A gate returns *)
(* the new record and leaves it to its caller to persist it: here the      *)
(* caller puts it in the place of the old one.                             *)
(***************************************************************************)
EXTENDS Claims

CONSTANTS
  Findings,        \* ids of the records the engines produced
  LedgerFindings,  \* the finding ids that occur on the ledger
  EventTypes,      \* the event types that may be appended
  InitialStates,   \* claim states an engine gives a new record
  Torn,            \* a ledger line, or a JSON file, cut short by a crash
  MaxLedger        \* bound of the model: length of the ledger

VARIABLES
  ledger,          \* the lines of the disclosure ledger
  stored           \* per finding, the claim state of its evidence record

gateVars == <<ledger, stored>>

ASSUME GatesAssumption ==
  /\ InitialStates \subseteq ClaimStates \cup DOMAIN Aliases
  /\ MaxLedger \in Nat

LedgerEvent == [finding : LedgerFindings, type : EventTypes]

\* Seeded fault: the event type looked for under any finding.
HasEventOfAny(f, types) ==
  \E i \in 1..Len(ledger) :
    /\ \A j \in 1..i : ledger[j] # Torn
    /\ ledger[i].type \in types

(* _ledger_has_event: the lines are parsed one by one until one matches;   *)
(* a torn line before that raises, one behind it is not reached.           *)
LedgerHasEvent(f, types) ==
  \E i \in 1..Len(ledger) :
    /\ \A j \in 1..i : ledger[j] # Torn
    /\ ledger[i].finding = f
    /\ ledger[i].type \in types

ContactEvents == {"vendor_contacted"}
TerminalEvents == {"embargo_expired", "cve_published", "disclosure_public"}

-----------------------------------------------------------------------------

GateInit ==
  /\ ledger = <<>>
  /\ stored \in [Findings -> InitialStates]

(* A PI-authorized append.  On a file with a torn line ledger.append       *)
(* raises; a crash may tear the line it writes.                            *)
AppendLedger(line) ==
  /\ Len(ledger) < MaxLedger
  /\ \A i \in 1..Len(ledger) : ledger[i] # Torn
  /\ ledger' = Append(ledger, line)
  /\ UNCHANGED stored

(* enter(): the prior state by its exact name (an alias is refused), the   *)
(* claim-state machine, the ledger; then the finalized record.             *)
Enter(f, prior, target, types) ==
  /\ stored[f] = prior
  /\ TransitionAllowed(prior, target)
  /\ LedgerHasEvent(f, types)
  /\ stored' = [stored EXCEPT ![f] = target]
  /\ UNCHANGED ledger

EnterReviewedEmbargoed(f) ==
  Enter(f, "reviewed", "reviewed_embargoed", ContactEvents)

EnterDisclosedPublic(f) ==
  Enter(f, "reviewed_embargoed", "disclosed_public", TerminalEvents)

GateNext ==
  \/ \E line \in LedgerEvent \cup {Torn} : AppendLedger(line)
  \/ \E f \in Findings : EnterReviewedEmbargoed(f) \/ EnterDisclosedPublic(f)

GateSpec == GateInit /\ [][GateNext]_gateVars

(* f's own events on the ledger, wherever they stand.                      *)
Recorded(f, types) ==
  \E i \in 1..Len(ledger) :
    ledger[i] # Torn /\ ledger[i].finding = f /\ ledger[i].type \in types
=============================================================================
