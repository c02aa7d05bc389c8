\* Two session ids, three overlapping handlers, one restart, a window of two ticks.
SPECIFICATION Spec
CONSTANTS
  Sids = {s1, s2}
  Threads = {t1, t2, t3}
  None = None
  SessionTTL = 2
  MaxRestarts = 1
SYMMETRY Symmetry
INVARIANTS Restorable EndedStaysEnded
CHECK_DEADLOCK FALSE
