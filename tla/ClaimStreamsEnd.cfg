CONSTANTS
  c1 = c1
  c2 = c2
  u1 = u1
  Clients = {c1}
  Updates = {}
SPECIFICATION FairSpec
PROPERTY StreamsEnd
CHECK_DEADLOCK FALSE
