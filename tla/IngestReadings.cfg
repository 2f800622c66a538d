SPECIFICATION FairSpec
CONSTANTS
  Gauges = {g1, g2}
  Feet = {g2}
  Job = job
  Admins = {admin}
  PageSize = 2
  Pages = {2}
  MaxFeed = 3
  MaxFaults = 1
  None = None
INVARIANTS PassedRowsStored
PROPERTIES WrongUnitsEnd EveryReadingArrives
