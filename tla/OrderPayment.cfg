SPECIFICATION Spec
CONSTANTS
  i1 = i1  i2 = i2  u1 = u1  a1 = a1  j1 = j1  p1 = p1  n1 = n1
  Initializers = {i1, i2}
  Residents = {u1}
  Admins = {a1}
  Jobs = {j1}
  Pollers = {p1}
  NotificationIds = {n1}
  QueryId = QueryId
SYMMETRY Symmetric
INVARIANTS TypeOK CountersBalance PaidOnWechatsWord ClosedIsClosedAtWechat
  CancelledByFirstClaimant
PROPERTIES PaymentIsFinal ClosingCutsOffCashier ImplementsLifecycle
CHECK_DEADLOCK FALSE
