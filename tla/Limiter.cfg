CONSTANTS
  r1 = r1
  r2 = r2
  x1 = x1
  a1 = a1
  a2 = a2
  Requests = {r1, r2}
  Users = {x1}
  NoUser = NoUser
  UserOf <- OneNamesUser
  GlobalApi = GlobalApi
  UserApi = UserApi
  Admins = {a1, a2}
  Configs <- OnAndOff
  NoConfig = NoConfig
  MaxRate = 1
  MaxBurst = 1
  MaxTime = 2
SPECIFICATION Spec
SYMMETRY Symmetry
INVARIANTS TypeOK RateKept StatisticsAddUp ConfigInForce
CHECK_DEADLOCK FALSE
