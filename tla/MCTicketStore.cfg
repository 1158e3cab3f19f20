SPECIFICATION Spec
CONSTANTS
  t1 = t1
  t2 = t2
  t3 = t3
  Tickets = {t1, t2, t3}
  Created <- MCCreated
  SnapshotLimit = 3
  Players = {p1, p2}
  PoolKeys = {k1, k2}
  Keys = {c1, c2}
  Reservations = {r1, r2}
  Matches = {m1, m2}
  None = None
SYMMETRY Symmetry
INVARIANTS
  TablesAgree
  OneWaitingTicketPerPlayer
PROPERTIES
  NoTakeover
CHECK_DEADLOCK FALSE
