CONSTANTS
  a1 = a1
  b1 = b1
  m1 = m1
  Frags = {a1, b1, m1}
  None = None
  KeyOf <- Keys
  GroupOf <- Groups
  SpaceOf <- Spaces
  CaseOf <- Cases
  TopicOf <- Topics
  Alike <- Similar
  Near <- Close
  Named <- Asked
  MarkerOf <- Markers
  Positive = {"uses"}
  Negative = {"forbids"}
  Deployments <- Settings
  MaxTodo = 1
  MaxChanges = 1
SPECIFICATION Spec
PROPERTY WorkspacesApart
CHECK_DEADLOCK FALSE
