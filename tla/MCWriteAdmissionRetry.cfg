\* One client that sends the same retry-safe item again.
SPECIFICATION Spec
CONSTANTS
  x1 = x1
  x2 = x2
  x3 = x3
  i1 = i1
  c1 = c1
  c2 = c2
  Clients = {c1}
  None = None
  Contents = {x1, x2}
  IdemKeys = {i1}
  Limits = {2}
  Margins = {1}
  Requests <- RetryRequests
INVARIANT RetryKeepsOne
CHECK_DEADLOCK FALSE
