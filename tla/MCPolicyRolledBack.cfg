SPECIFICATION Spec
CONSTANTS
  p1 = p1
  p2 = p2
  c1 = c1
  c2 = c2
  small = small
  large = large
  alice = alice
  bob = bob
  None = None
  Proposals = {p1, p2}
  Operators = {alice, bob}
  Requester = alice
  Rollouts = {small, large}
  Callers = {c1, c2}
  Settings <- MCSettings
  MaxFailures = 0
INVARIANT
  RolledBackStaysOff
CHECK_DEADLOCK FALSE
