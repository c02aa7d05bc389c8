\* Two concurrent requests; a quota of one or two, and three contents to exceed
\* either; a margin below and above the quota.
SPECIFICATION Spec
CONSTANTS
  x1 = x1
  x2 = x2
  x3 = x3
  i1 = i1
  c1 = c1
  c2 = c2
  Clients = {c1, c2}
  None = None
  Contents = {x1, x2, x3}
  IdemKeys = {i1}
  Limits = {1, 2}
  Margins = {0, 1}
  Requests <- QuotaRequests
SYMMETRY Symmetry
VIEW View
INVARIANTS OvershootBounded KeyLocksEnd
PROPERTY QuotaKept
CHECK_DEADLOCK FALSE
