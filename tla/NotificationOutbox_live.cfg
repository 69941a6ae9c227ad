SPECIFICATION JobsSpec
CONSTANTS
  e1 = e1  e2 = e2  t1 = t1  r1 = r1  w1 = w1
  NoTemplate = NoTemplate
  Events = {e1, e2}
  Templates = {t1}
  Requests = {r1}
  Workers = {w1}
  MaxAttempts = 2
  SweepOrders = {1, 2, 3}
  SweepBatch = 2
  MaxStuck = 1 MaxStops = 1
PROPERTIES EventsConclude SweepConcludes
