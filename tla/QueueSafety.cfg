SPECIFICATION Spec
CONSTANTS
  Users = {ua, ub}
  NoUser = NoUser
  Tasks = {t1, t2}
  Cap = 2
  Invalid = {2}
  MaxPings = 3
  MaxSessions = 2
  MaxCrashes = 1
SYMMETRY PhoneSymmetry
INVARIANTS
  TypeOK
  QueueSound
  NoOthersPings
  NothingForgotten
CHECK_DEADLOCK FALSE
