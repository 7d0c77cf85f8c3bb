----------------------------- MODULE EmbargoTick -----------------------------
(***************************************************************************)
(* The daily job .github/workflows/embargo-tick.yml: it checks out the     *)
(* ledger, verifies its chain, computes the embargo statuses and opens one *)
(* GitHub issue per milestone crossed.  The workflow sets no concurrency   *)
(* group and may also be dispatched by hand, so runs overlap; every `gh`   *)
(* command is a step of its own (check=True: a failure ends the run), and  *)
(* meanwhile the PI appends events and operators close issues.             *)
(*                                                                         *)
(* A title "[disclosure] <finding> reached Day <day> of embargo" is the    *)
(* pair <<finding, day>>.  A search is assumed to see every issue created  *)
(* by a command that has returned.                                         *)
(***************************************************************************)
EXTENDS EmbargoTimer

CONSTANTS
  Runs,                \* runs of the workflow that may be alive together
  LedgerMayBreak       \* whether the chain may stop verifying

VARIABLES
  intact,              \* whether `disclose ledger --verify` passes
  stage,               \* per run: "idle", "list" or "create"
  todo,                \* per run: the titles it has still to deal with
  open,                \* per title, how many open issues carry it
  opened               \* the titles an issue was ever opened for

runVars == <<stage, todo>>
issueVars == <<open, opened>>
vars == <<events, today, intact, stage, todo, open, opened>>

ASSUME TickAssumption == LedgerMayBreak \in BOOLEAN /\ IsFiniteSet(Runs)

Titles == Findings \X MilestoneDays

TypeOK ==
  /\ TimerTypeOK
  /\ intact \in BOOLEAN
  /\ stage \in [Runs -> {"idle", "list", "create"}]
  /\ todo \in [Runs -> SUBSET Titles]
  /\ open \in [Titles -> Nat]
  /\ opened \subseteq Titles

-----------------------------------------------------------------------------

\* Seeded fault: the days elapsed in the place of the milestone.
CrossedByElapsed(es, d) == {<<f, DaysElapsed(es, f, d)>> : f \in Tracked(es)}

(* What compute_status() reports as crossed, over all findings.            *)
Crossed(es, d) ==
  {t \in Titles : t[1] \in Tracked(es) /\ t[2] \in MilestonesCrossed(es, t[1], d)}

(* The job's first two steps succeed: the chain verifies, and every        *)
(* timestamp parses.                                                       *)
Usable == intact /\ Computable(events)

(* The loop goes through the statuses by finding id and, within one,       *)
(* through MILESTONE_DAYS: t is the first of the titles left.              *)
IsNext(t, titles) ==
  /\ t \in titles
  /\ \A u \in titles : t[1] < u[1] \/ (t[1] = u[1] /\ t[2] <= u[2])

(* The run goes on with what is left, or ends.                             *)
GoOn(r, titles) ==
  /\ todo' = [todo EXCEPT ![r] = titles]
  /\ stage' = [stage EXCEPT ![r] = IF titles = {} THEN "idle" ELSE "list"]

Abort(r) ==
  /\ todo' = [todo EXCEPT ![r] = {}]
  /\ stage' = [stage EXCEPT ![r] = "idle"]

Init ==
  /\ TimerInit
  /\ intact = TRUE
  /\ stage = [r \in Runs |-> "idle"]
  /\ todo = [r \in Runs |-> {}]
  /\ open = [t \in Titles |-> 0]
  /\ opened = {}

(* Cron or a dispatch starts a run: its statuses are those of the checkout *)
(* and of the day it starts, and are not looked at again.  On a ledger     *)
(* that is not usable the job fails here.                                  *)
StartRun(r) ==
  /\ stage[r] = "idle"
  /\ Usable
  /\ GoOn(r, Crossed(events, today))
  /\ UNCHANGED <<timerVars, intact, issueVars>>

\* Seeded fault: an open issue of the finding passes for one of the title.
ListByFinding(r, t) ==
  /\ stage[r] = "list"
  /\ IsNext(t, todo[r])
  /\ IF \E u \in Titles : u[1] = t[1] /\ open[u] > 0
     THEN GoOn(r, todo[r] \ {t})
     ELSE /\ stage' = [stage EXCEPT ![r] = "create"]
          /\ UNCHANGED todo
  /\ UNCHANGED <<timerVars, intact, issueVars>>

\* Seeded fault: the search never finds an open issue.
ListAlwaysEmpty(r, t) ==
  /\ stage[r] = "list"
  /\ IsNext(t, todo[r])
  /\ stage' = [stage EXCEPT ![r] = "create"]
  /\ UNCHANGED <<timerVars, intact, todo, issueVars>>

(* gh issue list --state open: skip the title if an issue carries it.      *)
ListIssues(r, t) ==
  /\ stage[r] = "list"
  /\ IsNext(t, todo[r])
  /\ IF open[t] > 0
     THEN GoOn(r, todo[r] \ {t})
     ELSE /\ stage' = [stage EXCEPT ![r] = "create"]
          /\ UNCHANGED todo
  /\ UNCHANGED <<timerVars, intact, issueVars>>

OpenIssue(t) ==
  /\ open' = [open EXCEPT ![t] = @ + 1]
  /\ opened' = opened \cup {t}

CreateIssue(r, t) ==
  /\ stage[r] = "create"
  /\ IsNext(t, todo[r])
  /\ OpenIssue(t)
  /\ GoOn(r, todo[r] \ {t})
  /\ UNCHANGED <<timerVars, intact>>

\* Seeded fault: check=False, a command that fails is passed over.
SkipOnFailure(r) ==
  /\ stage[r] # "idle"
  /\ \E t \in todo[r] : IsNext(t, todo[r]) /\ GoOn(r, todo[r] \ {t})
  /\ UNCHANGED <<timerVars, intact, issueVars>>

(* A `gh` command fails, or the job is cancelled or hits its 15 minutes:   *)
(* the run is over and the titles left wait for another run.               *)
CommandFails(r) ==
  /\ stage[r] # "idle"
  /\ Abort(r)
  /\ UNCHANGED <<timerVars, intact, issueVars>>

(* gh issue create takes effect and still reports a failure.               *)
CreateLandsButFails(r, t) ==
  /\ stage[r] = "create"
  /\ IsNext(t, todo[r])
  /\ OpenIssue(t)
  /\ Abort(r)
  /\ UNCHANGED <<timerVars, intact>>

(* An operator is done with the issue.                                     *)
CloseIssue(t) ==
  /\ open[t] > 0
  /\ open' = [open EXCEPT ![t] = @ - 1]
  /\ UNCHANGED <<timerVars, intact, runVars, opened>>

(* Two appends forked the chain, a write was torn or a line was edited:    *)
(* see DisclosureLedger.  No append repairs it (AppendNeverRepairs there). *)
BreakLedger ==
  /\ LedgerMayBreak
  /\ intact
  /\ intact' = FALSE
  /\ UNCHANGED <<timerVars, runVars, issueVars>>

Timer ==
  /\ TimerNext
  /\ UNCHANGED <<intact, runVars, issueVars>>

RunStep(r) ==
  \/ StartRun(r)
  \/ CommandFails(r)
  \/ \E t \in Titles :
       ListIssues(r, t) \/ CreateIssue(r, t) \/ CreateLandsButFails(r, t)

Next ==
  \/ Timer
  \/ BreakLedger
  \/ \E r \in Runs : RunStep(r)
  \/ \E t \in Titles : CloseIssue(t)

Spec == Init /\ [][Next]_vars

(* Cron starts a run every day, and a run's commands are carried out.  A   *)
(* command may fail, but one that is tried again and again succeeds at     *)
(* last: strong fairness, per title, of the commands' success.             *)
Fairness ==
  \A r \in Runs :
    /\ WF_vars(StartRun(r))
    /\ \A t \in Titles : SF_vars(ListIssues(r, t)) /\ SF_vars(CreateIssue(r, t))

FairSpec == Spec /\ Fairness

-----------------------------------------------------------------------------
(* Safety.                                                                 *)

(* List-then-create of overlapping runs opens duplicates, but never more   *)
(* open issues of one title than there are runs alive together; with runs  *)
(* that do not overlap, never two.                                         *)
AboutToCreate(t) == {r \in Runs : stage[r] = "create" /\ IsNext(t, todo[r])}

DuplicatesBounded ==
  \A t \in Titles : open[t] + Cardinality(AboutToCreate(t)) <= Cardinality(Runs)

(* The milestones of a finding surface in their order: whatever runs were  *)
(* cut short or overlapped, and however the PI moved the clock meanwhile,  *)
(* Day 14 is never raised before Day 7 was (the loop goes in order, and    *)
(* check=True stops it at the first command that fails).                   *)
LadderInOrder ==
  \A t \in opened : \A u \in Titles :
    u[1] = t[1] /\ u[2] < t[2] => u \in opened

(* No issue says "reached Day m" before m days have passed since some      *)
(* event of that finding, not even one opened from a stale snapshot.       *)
NeverEarly ==
  \A t \in opened :
    \E i \in Of(events, t[1]) :
      events[i].date # Malformed /\ today - events[i].date >= t[2]

-----------------------------------------------------------------------------
(* Liveness.                                                               *)

(* A milestone that was crossed gets its issue, in spite of failing        *)
(* commands and of runs that are cut short, unless the PI extends the      *)
(* embargo first or the ledger stops being usable.                         *)
Due(t) == Usable /\ t \in Crossed(events, today)

MilestoneSurfaces == \A t \in Titles : Due(t) ~> (t \in opened \/ ~Due(t))

=============================================================================
