---------------------------- MODULE EmbargoTimer ----------------------------
(***************************************************************************)
(* The embargo clock, aegisgraph/disclosure/pipeline/embargo_timer.py: a   *)
(* pure function of the disclosure ledger and of today's date.  It runs    *)
(* over a ledger that a PI extends in any order: an event carries the date *)
(* of what it records, which may lie before events already on the file.    *)
(*                                                                         *)
(* A timestamp is modelled by its UTC date, the only part of it the timer  *)
(* looks at, and a date by its number of days.                             *)
(***************************************************************************)
EXTENDS Integers, Sequences, FiniteSetsExt

CONSTANTS
  Findings,            \* finding ids, numbered in the order the ids sort
  EventTypes,          \* the event types of the schema that may be appended
  EmbargoTerms,        \* values of embargo_days; 0 when absent or not usable
  DefaultEmbargoDays,  \* DEFAULT_EMBARGO_DAYS
  MilestoneDays,       \* MILESTONE_DAYS
  Malformed,           \* a timestamp that datetime.fromisoformat rejects
  MalformedAllowed,    \* whether an event may carry such a timestamp
  MaxEvents, MaxDay    \* bounds of the model: ledger length, last day

VARIABLES
  events,              \* what ledger.read_all() returns
  today                \* the date compute_status() takes for as_of

timerVars == <<events, today>>

ASSUME TimerAssumption ==
  /\ Findings \subseteq Nat
  /\ EmbargoTerms \subseteq Nat
  /\ DefaultEmbargoDays \in Nat \ {0}
  /\ MilestoneDays \subseteq Nat
  /\ MalformedAllowed \in BOOLEAN
  /\ MaxEvents \in Nat /\ MaxDay \in Nat

Dates == 0..MaxDay \cup (IF MalformedAllowed THEN {Malformed} ELSE {})

Event ==
  [finding : Findings, type : EventTypes, date : Dates, days : EmbargoTerms]

-----------------------------------------------------------------------------
(* compute_status(), one operator per value it computes.  es is the ledger *)
(* as read, f a finding with at least one event on it, d the day.          *)

(* Every timestamp on the ledger is parsed; one that does not parse raises *)
(* and no finding gets a status.                                           *)
Computable(es) == \A i \in 1..Len(es) : es[i].date # Malformed

Tracked(es) == {es[i].finding : i \in 1..Len(es)}

\* Seeded fault: the events of every finding in one group.
OfAny(es, f) == 1..Len(es)

Of(es, f) == {i \in 1..Len(es) : es[i].finding = f}

\* Seeded fault: the last line of the finding, whatever its date.
LastLine(es, f) == CHOOSE i \in Of(es, f) : \A j \in Of(es, f) : j <= i

(* sorted(events, key=date)[-1]: the sort is stable, so of the events of   *)
(* the latest date the one furthest down the ledger.                       *)
LatestIndex(es, f) ==
  CHOOSE i \in Of(es, f) :
    \A j \in Of(es, f) :
      es[j].date < es[i].date \/ (es[j].date = es[i].date /\ j <= i)

Latest(es, f) == es[LatestIndex(es, f)]

ContactDates(es, f) ==
  {es[i].date : i \in {j \in Of(es, f) : es[j].type = "vendor_contacted"}}

EmbargoDays(es, f) ==
  LET days == Latest(es, f).days
  IN IF days >= 1 THEN days ELSE DefaultEmbargoDays

\* Seeded fault: every event resets the window from its own date.
StartAtLatest(es, f) == Latest(es, f).date

StartDate(es, f) ==
  IF Latest(es, f).type # "embargo_extended" /\ ContactDates(es, f) # {}
  THEN Min(ContactDates(es, f))
  ELSE Latest(es, f).date

DaysElapsed(es, f, d) == d - StartDate(es, f)

NextActionDate(es, f) == StartDate(es, f) + EmbargoDays(es, f)

DaysRemaining(es, f, d) == NextActionDate(es, f) - d

\* Seeded fault: a milestone crossed on the day before it.
MilestonesTooSoon(es, f, d) == {m \in MilestoneDays : DaysElapsed(es, f, d) + 1 >= m}

MilestonesCrossed(es, f, d) == {m \in MilestoneDays : DaysElapsed(es, f, d) >= m}

Status(es, f, d) ==
  [ current_event_type |-> Latest(es, f).type,
    embargo_days       |-> EmbargoDays(es, f),
    embargo_start_date |-> StartDate(es, f),
    next_action_date   |-> NextActionDate(es, f),
    days_remaining     |-> DaysRemaining(es, f, d),
    expired            |-> DaysRemaining(es, f, d) < 0,
    milestones_crossed |-> MilestonesCrossed(es, f, d) ]

ComputeStatus(es, d) == [f \in Tracked(es) |-> Status(es, f, d)]

-----------------------------------------------------------------------------

TimerInit ==
  /\ events = <<>>
  /\ today = 0

(* A PI-authorized append of something that happened today or earlier.     *)
AppendEvent(e) ==
  /\ Len(events) < MaxEvents
  /\ e.date # Malformed => e.date <= today
  /\ events' = Append(events, e)
  /\ UNCHANGED today

NextDay ==
  /\ today < MaxDay
  /\ today' = today + 1
  /\ UNCHANGED events

TimerNext == NextDay \/ \E e \in Event : AppendEvent(e)

TimerSpec == TimerInit /\ [][TimerNext]_timerVars

-----------------------------------------------------------------------------

TimerTypeOK ==
  /\ events \in Seq(Event)
  /\ today \in 0..MaxDay

(* The status of a finding depends on what its events say and not on the   *)
(* order the PI, or a merge of two branches, put them on the ledger, as    *)
(* long as no two share the latest date (ties go to file order, l. 56).    *)
SoleLatest(f) ==
  \A i \in Of(events, f) :
    events[i].date = Latest(events, f).date => i = LatestIndex(events, f)

OrderIrrelevant ==
  Computable(events) =>
    \A f \in Tracked(events) :
      SoleLatest(f) =>
        \A p \in {q \in [DOMAIN events -> DOMAIN events] :
                     \A i, j \in DOMAIN events : q[i] = q[j] => i = j} :
          LET shuffled == [i \in DOMAIN events |-> events[p[i]]]
          IN Status(shuffled, f, today) = Status(events, f, today)

(* A milestone that was reached is withdrawn only by an embargo_extended   *)
(* of the same finding: once the vendor was contacted, neither a day that  *)
(* passes nor any other event, of whatever date and finding, takes it back *)
(* (each milestone is a prompt to the PI that must not silently vanish).   *)
OnlyExtensionWithdraws ==
  [][\A f \in Tracked(events) :
       Computable(events)' /\ ContactDates(events, f) # {} =>
         \/ MilestonesCrossed(events, f, today)
              \subseteq MilestonesCrossed(events, f, today)'
         \/ /\ Len(events') > Len(events)
            /\ events'[Len(events')].finding = f
            /\ events'[Len(events')].type = "embargo_extended"]_timerVars

(* One finding's events do not move another's clock: an append leaves the  *)
(* status of every other finding as it was on that day.                    *)
ClocksIndependent ==
  [][\A f \in Tracked(events) :
       Computable(events)' /\ today' = today =>
         \/ Status(events, f, today) = Status(events, f, today)'
         \/ events'[Len(events')].finding = f]_timerVars

(* The comment on the clock (embargo_timer.py:92-94): it starts at the     *)
(* earliest vendor_contacted, and an embargo_extended after it resets the  *)
(* window from its own timestamp.                                          *)
ExtensionResetsWindow ==
  Computable(events) =>
    \A f \in Tracked(events) :
      LET extensions ==
            {events[i].date :
               i \in {j \in Of(events, f) : events[j].type = "embargo_extended"}}
      IN /\ extensions # {}
         /\ \A contact \in ContactDates(events, f) : contact < Max(extensions)
         => StartDate(events, f) >= Max(extensions)

=============================================================================
