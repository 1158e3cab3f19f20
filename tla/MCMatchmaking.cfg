SPECIFICATION Spec
CONSTANTS
  t1 = t1
  t2 = t2
  t3 = t3
  p1 = p1
  p2 = p2
  p3 = p3
  Tickets = {t1, t2, t3}
  Created <- MCCreated
  SnapshotLimit = 3
  Players = {p1, p2, p3}
  IdsOf <- MCAnyId
  PoolKeys = {k1, k2}
  Keys = {c1}
  Matches = {m1, m2}
  Results = {A, B}
  Regions = {g1, g2}
  ServerCount <- MCServerCount
  Workers = {w1, w2}
  Callers = {q1, q2}
  MatchSize = 2
  Bannable = {}
  None = None
SYMMETRY Symmetry
INVARIANTS
  OpenMatchHoldsItsRoster
  NoPlayerInTwoMatches
  ServersAccountedFor
  NothingLeftBehind
  CompletionsAreNotRefused
PROPERTIES
  ImplementsAssignment
  FirstResultWins
  SuccessMeansSettled
