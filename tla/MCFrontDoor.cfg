SPECIFICATION Spec
CONSTANTS
  p1 = p1
  stranger = stranger
  op1 = op1
  k1 = k1
  k2 = k2
  c1 = c1
  c2 = c2
  None = None
  Players = {p1}
  Callers = {p1, stranger, None}
  Operators = {op1}
  Keys = {k1, k2}
  l20 = l20
  Latencies = {l20}
  Clients = {c1, c2}
  MaxTickets = 2
  Stopping = {"matchmaking"}
  Services <- MCServices
SYMMETRY MCSymmetry
VIEW MCView
INVARIANT
  OneTicketPerKey
PROPERTIES
  CancelIsIdempotent
  AnswersAreTrue
  BanStands
