SPECIFICATION LiveSpec
CONSTANTS
  t1 = t1
  t2 = t2
  t3 = t3
  p1 = p1
  p2 = p2
  p3 = p3
  Tickets = {t1, t2, t3}
  Created <- MCCreated
  SnapshotLimit = 2
  Players = {p1, p2, p3}
  IdsOf <- MCYoungest
  PoolKeys = {k1}
  Keys = {c1}
  Matches = {m1}
  Results = {A}
  Regions = {g1}
  ServerCount <- MCServerCount
  Workers = {w1, w2}
  Callers = {}
  MatchSize = 2
  Bannable = {p1}
  None = None
PROPERTIES
  ReservationsResolve
  
