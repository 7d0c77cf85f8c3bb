\* The public export, and the reviewer packet, with crashes at every point.
SPECIFICATION Spec
CONSTANTS
  None = None
  Reports <- MCReports
  HandPlaced <- MCHandPlaced
  Candidates <- MCCandidates
  Ids <- MCIds
  Score <- MCScore
  Tops <- MCTops
  Filters <- MCFilters
  MaxCommands = 2
  MaxChanges = 1
INVARIANT AuthorizationBacked PassedIsClean ManifestMatchesRecords
PROPERTY AuthorizationKept EndsVerified
CHECK_DEADLOCK FALSE
