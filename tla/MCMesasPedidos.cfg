\* Two requests at a time, two tables, two comandas.
SPECIFICATION FairSpec

CONSTANTS
  r1 = r1
  r2 = r2
  m1 = m1
  m2 = m2
  NoRequest = nobody
  NoTable = none
  Requests = {r1, r2}
  Mesas = {m1, m2}
  MaxOrders = 2

INVARIANTS
  TypeOK
  
  SettledWhereFound

PROPERTIES
  EveryRequestEnds
