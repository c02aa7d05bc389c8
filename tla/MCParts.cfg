CONSTANTS
  f1 = f1  f2 = f2  f3 = f3  t1 = t1  t2 = t2
  k1 = k1  k2 = k2  k3 = k3  a1 = a1  a2 = a2
  s1 = s1  s2 = s2  c1 = c1  m1 = m1  g1 = g1
  g2 = g2  g3 = g3  None = None  Recent = Recent
  Fragments <- Three  Values <- Columns  FirstRows <- Table  RowLinks <- Linked
  Recalls <- Asked  Callers = {"recall"}  Topics = {t1, t2}  Importances = {0, 1}
  SameSession <- OneSession  QueryLimit <- LayerLimits  MaxWrites = 1  MaxAsks = 1
  Lists <- CandidateLists  Budgets = {4, 8}
  WmItems <- Three  WmRows = {"durable"}  WmTokens <- Estimate  Guarded = {f1}  WmLimit = 2
  Births <- Created  PageSize = 1  Rooms = {2, 3}  MaxReflects = 4
  Threads = {1, 2}  FeedbackWindow = 2  LastTick = 3  MaxFeedbacks = 2  LinkWeights = {12, 30}  MaxRaises = 1  Crashes = 1
  KeyOf <- Owner  GroupOf <- Group  SpaceOf <- Space  CaseOf <- OfCase  TopicOf <- OneTopic
  Alike <- SameWords  Adjacent <- Together  Named <- Naming  MarkerOf <- Marker
  Positive = {"uses"}  Negative = {"forbids"}  Deployments <- Settings
  MaxTodo = 1  MaxChanges = 1
  ErrorFrags = {f1, f2}  ProcedureFrags = {f3}  Batched = {f2}  EventLimit = 1  MaxTroubles = 1
  Runs = {1, 2}  Items = {f1, f2}  ItemKinds <- ReflectKinds  Similar <- Together  MaxCalls = 1
  Order <- Born  OwnerOf <- WhoseRow  PlaceOf <- WhereRow  StatusOf <- Resolution
  EventKey <- WhoseEvent  EventLinks <- FixEdge  CaseLimit = 1  LinkSets <- FirstLinks
  Histories <- Told  MaxShifts = 1  Unset = None
  Keys = {k1}  AccessTtl = 2  MaxEntries = 5
  Dates = {1, 2, 3, 4, 5}  Supported = {1, 3, 4}  MaxRequests = 2
  LimitWindow = 2  MaxHits = 2  RotateMax = 1  Horizon = 4
  KeyCalls = {1, 2}  DailyLimit = 2  MaxServed = 4  MaxTurns = 2
  Lookups = {1, 2}  GateTtl = 2  GateTicks = 4
  ConsoleKeys = {k1, k2, k3}  Groups = {g1, g2, g3}  Sessions = {s1, s2}
  FirstKeys = {k1, k2}  FirstGroups = {g1, g2}  FirstMembers <- FirstMember  Menus <- Visits
  MaxOperations = 5  MaxPolls = 1
  Filters = {None, t1}  WindowSize = 4  MaxPages = 7  MaxClicks = 4  MaxFlight = 2
  MaxLoads = 3  MaxMoves = 4
SPECIFICATION Spec
INVARIANTS
  Sound StructuredComplete CutsFair PagesPartition WmWithinBudget MilestonesChained
  FixCoversErrors FeedbackAccounted LinksStayInGroup OneChain LimitsKept ActsOnShown
  ViewsHold HistoryExact
PROPERTIES MarkOutlivesRecord ChangesAreGranted
CHECK_DEADLOCK FALSE
