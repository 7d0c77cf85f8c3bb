\* Two overlapping runs over one finding's ladder of two milestones.  Once
\* the ledger is damaged and the days are over, nothing is left to happen.
SPECIFICATION FairSpec
CONSTANTS
  Runs = {r1, r2}
  LedgerMayBreak = TRUE
  Findings = {1}
  EventTypes <- MCTypes
  EmbargoTerms = {0}
  DefaultEmbargoDays = 2
  MilestoneDays <- MCMilestones
  Malformed = Malformed
  MalformedAllowed = TRUE
  MaxEvents = 2
  MaxDay = 2
INVARIANT TypeOK DuplicatesBounded LadderInOrder NeverEarly
PROPERTY MilestoneSurfaces
CHECK_DEADLOCK FALSE
