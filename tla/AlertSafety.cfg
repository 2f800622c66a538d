SPECIFICATION Spec
CONSTANTS
  Regions = {r1}
  StationRegions = {r1}
  NoRegion = NoRegion
  Evaluators = {e1}
  Handlers = {h1, h2}
  LowAt = 1
  ModerateAt = 3
  HighAt = 4
  TopScore = 4
  Levels = {2, 3}
  Ttls = {0}
  ManualSeverities = {"moderate"}
  MaxCalls = 2
  MaxTime = 1
  MaxFaults = 0
SYMMETRY ThreadSymmetry
INVARIANTS
  OnePendingPerRegion
  SeverityFollowsScore
  AuditTrail
  AlertNeverExaggerates
PROPERTIES
  ProposalsOnlyEscalate
  ImplementsContract
