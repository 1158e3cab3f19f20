SPECIFICATION LiveSpec
CONSTANTS
  Tickets <- TwoTickets
  Matches = {m1, m2}
  Workers = {w1, w2}
  Clients = {c1}
  MatchSize = 2
  MaxCrashes = 1
  None = None
  Done = Done
INVARIANTS
  CompletionAllOrNothing
  OnTimeMatchIsComplete
PROPERTIES
  NoLostUpdate
  AttemptsEnd
  ExpiredReservationsRecover
