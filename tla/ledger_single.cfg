\* One writer, as ADR-0014 has it, who may die before the write.
SPECIFICATION Spec
CONSTANTS
  w1 = w1
  e1 = e1
  e2 = e2
  None = None
  Unparsable = Unparsable
  Writers = {w1}
  Events = {e1, e2}
  TearPoints = {"before"}
  EditsAllowed = FALSE
  MaxLines = 5
INVARIANTS ChainIntact
PROPERTIES ImplementsChainedLog
CHECK_DEADLOCK FALSE
