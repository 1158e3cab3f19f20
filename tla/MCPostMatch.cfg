SPECIFICATION LiveSpec
CONSTANTS
  m1 = m1
  m2 = m2
  p1 = p1
  p2 = p2
  p3 = p3
  Matches = {m1, m2}
  Players = {p1, p2, p3}
  Roster <- MCRoster
  Callers = {c1, c2}
  MaxFaults = 1
  None = None
INVARIANTS
  LedgerIsExact
  FinishedIsRated
PROPERTIES
  FirstResultWins
  MatchesFinish
