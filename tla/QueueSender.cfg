SPECIFICATION Spec
CONSTANTS
  Users = {ua, ub}
  NoUser = NoUser
  Tasks = {t1}
  Cap = 2
  Invalid = {}
  MaxPings = 3
  MaxSessions = 1
  MaxCrashes = 0
INVARIANT
  DrainSendsOwn
CHECK_DEADLOCK FALSE
