SPECIFICATION MoneySpec
CONSTANTS
  a1 = a1  a2 = a2  v1 = v1
  i1 = i1  u1 = u1  j1 = j1  p1 = p1  n1 = n1
  QueryId = QueryId
  Approvers = {a1, a2}
  Viewers = {v1}
INVARIANTS TypeOK NoServiceDuringRefund RefundedOnWechatsWord
PROPERTIES OutcomesStay ImplementsLifecycle PaidIsSettled OpenTransactionCloses
CHECK_DEADLOCK FALSE
