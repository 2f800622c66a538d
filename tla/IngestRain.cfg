SPECIFICATION Spec
CONSTANTS
  cellA = cellA
  cellB = cellB
  Regions <- MCRegions
  Threads = {job, admin}
  Past = 1
  Ahead = 1
  LastHour = 2
  MaxFaults = 1
  None = None
SYMMETRY ThreadSymmetry
INVARIANTS ObservedAreMeasured NoHourLost
