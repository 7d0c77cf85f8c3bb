\* Gates and promotions together, the disclosure states left to the gates.
SPECIFICATION Spec
CONSTANTS
  Findings = {f1}
  LedgerFindings = {f1, f2}
  EventTypes <- MCEvents
  InitialStates = {"reviewed"}
  Torn = Torn
  MaxLedger = 2
  Reviewers = {r1, r2}
  None = None
  Targets <- MCTargets
  RepeatsAllowed = FALSE
  MaxDay = 1
  MaxLineage = 3
SYMMETRY MCSymmetry
INVARIANT PublicHasEvents SupersedesLinked
PROPERTY PromotionsAdditive
CHECK_DEADLOCK FALSE
