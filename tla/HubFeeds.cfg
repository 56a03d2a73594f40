CONSTANTS
  c1 = c1
  c2 = c2
  c3 = c3
  u1 = u1
  u2 = u2
  u3 = u3
  p1 = p1
  Clients = {c1, c2}
  Updates = {u1, u2}
  Polls = {p1}
  PollOf <- OnePoll
  MaxConnections = 1
  SendBuffer = 1
  MaxHistory = 1
  Attempts = 1
SPECIFICATION FairSpec
INVARIANTS TypeOK ClosedOnce CountsMatch OnlyRacesExceedLimit UpToDate
PROPERTIES NoneLeft StreamSpec
CHECK_DEADLOCK FALSE
