SPECIFICATION Spec
CONSTANTS
  Users = {ua, ub}
  NoUser = NoUser
  Flows = {f1, f2}
  MaxExpired = 0
  MaxNews = 1
  MaxRestarts = 0
SYMMETRY SessionSymmetry
PROPERTIES
  OwnConsentOnly
