\* Three events of two findings, dated in any order, over three days.
SPECIFICATION TimerSpec
CONSTANTS
  Findings = {1, 2}
  EventTypes <- MCTypes
  EmbargoTerms = {0, 1}
  DefaultEmbargoDays = 2
  MilestoneDays <- MCMilestones
  Malformed = Malformed
  MalformedAllowed = FALSE
  MaxEvents = 3
  MaxDay = 2
INVARIANT OrderIrrelevant
PROPERTY OnlyExtensionWithdraws ClocksIndependent
CHECK_DEADLOCK FALSE
