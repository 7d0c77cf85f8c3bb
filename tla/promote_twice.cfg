\* One promotion made twice on one date.
SPECIFICATION Spec
CONSTANTS
  Findings = {f1}
  LedgerFindings = {f1}
  EventTypes <- MCEvents
  InitialStates <- MCInitial
  Torn = Torn
  MaxLedger = 0
  Reviewers = {r1, r2}
  None = None
  Targets = {"limited"}
  RepeatsAllowed = TRUE
  MaxDay = 1
  MaxLineage = 2
PROPERTY PromotionsAdditive
CHECK_DEADLOCK FALSE
