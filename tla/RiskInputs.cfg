SPECIFICATION Spec
CONSTANTS
  None = None
  Stations <- MCStations
  Readings = {100, 420, 650, 720}
  Rises <- MCRises
  Rains = {0, 40, 100}
  Forecasts = {0, 30, 60}
  People = 8
INVARIANTS
  TypeOK
  WorseNeverScoresLower
  MajorFloodIsHigh
  ResultsFitBands
