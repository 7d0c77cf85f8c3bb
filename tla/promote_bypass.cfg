\* The workbench offers the disclosure states too.
SPECIFICATION Spec
CONSTANTS
  Findings = {f1}
  LedgerFindings = {f1}
  EventTypes <- MCEvents
  InitialStates <- MCInitial
  Torn = Torn
  MaxLedger = 1
  Reviewers = {r1}
  None = None
  Targets = {"disclosed_public"}
  RepeatsAllowed = FALSE
  MaxDay = 1
  MaxLineage = 2
INVARIANT PublicHasEvents
CHECK_DEADLOCK FALSE
