SPECIFICATION Spec
CONSTANTS
  i1 = i1  i2 = i2  u1 = u1  a1 = a1  j1 = j1  p1 = p1  n1 = n1
  Initializers = {i1}
  Residents = {u1}
  Admins = {}
  Jobs = {j1}
  Pollers = {}
  NotificationIds = {n1}
  QueryId = QueryId
INVARIANT NoPaidOrderCancelled
CHECK_DEADLOCK FALSE
