SPECIFICATION FairSpec
CONSTANTS
  Users = {ua}
  NoUser = NoUser
  Flows = {f1, f2}
  MaxExpired = 1
  MaxNews = 2
  MaxRestarts = 1
INVARIANTS
  TypeOK
  NoRecordForgotten
PROPERTIES
  BannerNeverGoesBack
  SplashEnds
  OrphanStreamStops
