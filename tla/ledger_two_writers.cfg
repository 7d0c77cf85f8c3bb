\* Two writers, no crash, no edit: only the missing lock.
SPECIFICATION Spec
CONSTANTS
  w1 = w1
  w2 = w2
  e1 = e1
  e2 = e2
  None = None
  Unparsable = Unparsable
  Writers = {w1, w2}
  Events = {e1, e2}
  TearPoints = {}
  EditsAllowed = FALSE
  MaxLines = 3
INVARIANTS ChainIntact
CHECK_DEADLOCK FALSE
