SPECIFICATION FairSpec
CONSTANTS
  Regions = {r1, r2}
  StationRegions = {r1}
  NoRegion = NoRegion
  Evaluators = {e1}
  Handlers = {h1}
  LowAt = 1
  ModerateAt = 3
  HighAt = 6
  TopScore = 6
  Levels = {0, 4}
  Ttls = {0}
  ManualSeverities = {}
  MaxCalls = 2
  MaxTime = 1
  MaxFaults = 1
INVARIANTS
  TypeOK
  OneStandingProposal
  OneAlertPerProposal
PROPERTIES
  WetRegionStands
  EveryAlertPushed
