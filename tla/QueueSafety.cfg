CONSTANTS
  m1 = m1
  s1 = s1
  n1 = n1
  n2 = n2
  Messages = {m1}
  Senders = {}
  NamedSenders = {n1, n2}
  MessageOf <- ByName
  Workers = {w1, w2}
  Checker = checker
  Admins = {}
  NoCopy = NoCopy
  SendFaults = {"SISMEMBER", "SADD"}
  MaxRetries = 2
  ProcessingTimeout = 0
  MaxTime = 1
  MaxExits = 1
SPECIFICATION Spec
SYMMETRY CallSymmetry
CHECK_DEADLOCK FALSE
INVARIANT AcceptedIsSomewhere
INVARIANT DoublesExplained
INVARIANT RetriesAreSkipped
INVARIANT BuriedAfterRetries
