CONSTANTS
  mysql8 = mysql8
  mysql9 = mysql9
  Services = {mysql8, mysql9}
  Rank <- Places
  Endpoint <- SameEndpoint
  None = None
  Dispatchers = {d1}
  Kinds = {"control"}
  Removable = {}
  Capacity = 2
  MaxPosted = 2
  MaxActs = 3
SPECIFICATION Spec
INVARIANTS AdmittedFreesTheRows
CHECK_DEADLOCK FALSE
