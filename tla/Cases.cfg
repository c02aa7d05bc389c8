CONSTANTS
  Frags = {e1, e2, p1}
  ErrorFrags = {e1, e2}
  ProcedureFrags = {p1}
  Batched = {e2}
  None = None
  EventLimit = 2
  MaxTroubles = 1
SPECIFICATION Spec
INVARIANT FixedIsResolved
CHECK_DEADLOCK FALSE
