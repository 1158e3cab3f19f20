SPECIFICATION Spec
CONSTANTS
  Tickets <- ThreeTickets
  Matches = {m1, m2}
  Workers = {w1, w2}
  Clients = {}
  MatchSize = 2
  MaxCrashes = 0
  None = None
  Done = Done
INVARIANT
  NoTicketInTwoOpenMatches
