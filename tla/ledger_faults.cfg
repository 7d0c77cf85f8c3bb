\* Two writers without a lock, every crash point, edits by hand.
SPECIFICATION Spec
CONSTANTS
  w1 = w1
  w2 = w2
  e1 = e1
  e2 = e2
  None = None
  Unparsable = Unparsable
  Writers = {w1, w2}
  Events = {e1, e2}
  TearPoints = {"before", "fragment", "newline"}
  EditsAllowed = TRUE
  MaxLines = 4
SYMMETRY MCSymmetry
INVARIANTS TypeOK EditsFlagged LinksPointBack
PROPERTIES AppendNeverRepairs
CHECK_DEADLOCK FALSE
