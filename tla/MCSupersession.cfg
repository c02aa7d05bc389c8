CONSTANTS
    Ids = {f1, f2}
    a = a  b = b  c = c
    Contents = {a, b, c}
    Sim <- SimValue
    Kind <- OneKind
    Keys = {k1}
    Master = Master
    Linkers = {l1}
    Cons = Cons
    Clients = {r1}
    MinFragments = 2
    MinGroup = 2
    MaxClock = 2
    MaxChanges <- ChangesValue
    NoId = NoId
SPECIFICATION Spec
PROPERTIES SupersededByYounger DetectorKeepsTenants AnchorsExempt
VIEW View
SYMMETRY Symmetry
CHECK_DEADLOCK FALSE
