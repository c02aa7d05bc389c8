CONSTANTS
  Tasks = {t1, t2, t3, t4, t5}
  Limit = 2
  Requests = {r1, r2}  Entries <- TwoProviders  Slots <- OneSlot
  ChainTimeout = 3  WaitTimeout = 1  CallTimeout = 2  CooldownTime = 1
  \* two calls in flight, either implementation, two failures open the breaker
  Callers = {c1, c2}  Modes = {TRUE, FALSE}  Threshold = 2  Window = 2  OpenFor = 2
  MaxStall = 1  MaxErrors = 1
  r1 = r1  r2 = r2  p1 = p1  p2 = p2  i1 = i1  i2 = i2
  a = a  b = b  w1 = w1  master = master  NoVec = NoVec  Free = Free
SPECIFICATION ServicesSpec
INVARIANTS SlotsKept CallsBounded
PROPERTIES
  OpenForItsTime UsesSemaphores AnsweredInTime EventuallyEmbedded ScoresAgain
CHECK_DEADLOCK FALSE
