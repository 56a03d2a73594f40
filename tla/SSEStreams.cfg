CONSTANTS
  c1 = c1
  c2 = c2
  u1 = u1
  Clients = {c1, c2}
  Updates = {u1}
SPECIFICATION FairSpec
INVARIANTS TypeOK ListMatches OnlyRemovalsDisturb
PROPERTIES DeadlockIsFinal OnlyHeartbeatKeepsStreams
CHECK_DEADLOCK FALSE
