SPECIFICATION Spec
CONSTANTS
  e1 = e1  e2 = e2  t1 = t1  t2 = t2  r1 = r1  r2 = r2  w1 = w1  w2 = w2
  NoTemplate = NoTemplate
  Events = {e1}
  Templates = {t1}
  Requests = {r1}
  Workers = {w1}
  MaxAttempts = 2
INVARIANT RetriesEndAtLimit
