SPECIFICATION Spec
CONSTANTS
  Tickets <- MCTickets
  Player <- MCPlayer
  Party <- MCParty
  Rating <- MCRating
  Latency <- MCLatency
  Prefers <- MCPrefers
  Roles = {"core", "support"}
  Regions = {"east", "west"}
  Home = "east"
  Mode = "normal_5v5"
  BasePolicies <- MCPolicies
  Past <- MCPast
  TeamSize = 2
  SnapshotLimit = 5
  MaxTime = 1
  SampleLimit = 2
  MinimumRiskSample = 2
  None = None
INVARIANTS
  MatchIsLegal
  SelectionIsComplete
  BeamIsOptimal
  ReplayReproduces
  RiskReportIsSound
