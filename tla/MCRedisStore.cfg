SPECIFICATION Spec
CONSTANTS
  Tickets = {t1, t2}
  Reservations = {r1, r2}
  Workers = {w1, w2}
  Clients = {c1}
  MatchSize = 2
  MaxFaults = 2
  None = None
SYMMETRY Symmetry
INVARIANTS
  RedisAgrees
  LiveReservationIsWhole
  NoTicketForgotten
PROPERTIES
  DecisionsStand
  RebuildIsComplete
