CONSTANTS
  mysql8 = mysql8
  mysql9 = mysql9
  Services = {mysql8, mysql9}
  Rank <- Places
  Endpoint <- SameEndpoint
  None = None
  Dispatchers = {d1, d2}
  Kinds = {"startAll", "stopAll", "control"}
  Removable = {mysql9}
  Capacity = 2
  MaxPosted = 1
  MaxActs = 3
SPECIFICATION Spec
SYMMETRY DispatcherSymmetry
INVARIANTS IInv DialogIsForTheTray RowsSettle BulkRowsRecover BulkKeepsApart EndpointsApart
CHECK_DEADLOCK FALSE
CONSTRAINT FewInFlight
