SPECIFICATION MCSpec
CONSTANTS
  SlotsPerHour = 2
  Lookback = 2
  Horizon = 2
  TrainShare = 20
  ValShare = 70
  OpenHours = 2
  Severities = {0, 1, 2}
  Sinces = {1, 2}
  LastSlot = 6
  None = None
  low = low
  high = high
  Stations = {low, high}
  Measures <- MCMeasures
  Gaps = {1, 5}
  PerHour = 2
  Thresholds = {2, 3}
  Horizons = {2}
  PageSize = 1
  MaxPages = 2
  ViewSize = 2
  MaxRows = 3
  MaxRuns = 2
  MaxClears = 1
  Upstreams <- MCUpstreams
  AlertLevel = 2
  Windows = {3}
  Lags = {1}
  MinHistory = 2
  Cumulative = FALSE
  DataSetSearch <- MCDataSetSearch
  ExperimentSearch <- MCExperimentSearch
  TrainUntil = 7
  MaxReadings = 3
PROPERTY RunKeepsFeed
