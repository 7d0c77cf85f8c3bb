\* An extension followed by an event that is not one.
SPECIFICATION TimerSpec
CONSTANTS
  Findings = {1}
  EventTypes <- MCTypes
  EmbargoTerms = {0, 1}
  DefaultEmbargoDays = 2
  MilestoneDays <- MCMilestones
  Malformed = Malformed
  MalformedAllowed = FALSE
  MaxEvents = 3
  MaxDay = 2
INVARIANT ExtensionResetsWindow
CHECK_DEADLOCK FALSE
