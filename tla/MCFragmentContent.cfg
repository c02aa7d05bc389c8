SPECIFICATION Spec
CONSTANTS
  Ids = {i1, i2}
  Contents = {a, b}
  Keys = {k1, k2}
  Master = master
  Group <- MCGroup
  Clients = {r1, r2}
  Workers = {w1}
  NoVec = NoVec
  Free = Free
  MaxDisruptions = 2
VIEW View
SYMMETRY Symmetry
INVARIANT ContentSafe
PROPERTY WritesByOwner
CHECK_DEADLOCK FALSE
