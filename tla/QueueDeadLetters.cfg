CONSTANTS
  m1 = m1
  s1 = s1
  n1 = n1
  n2 = n2
  Messages = {m1}
  Senders = {s1}
  NamedSenders = {}
  MessageOf <- ByCall
  Workers = {w1, w2}
  Checker = checker
  Admins = {a1}
  NoCopy = NoCopy
  SendFaults = {"SISMEMBER", "SADD", "LPUSH"}
  MaxRetries = 0
  ProcessingTimeout = 0
  MaxTime = 1
  MaxExits = 1
SPECIFICATION Spec
SYMMETRY WorkerSymmetry
CHECK_DEADLOCK FALSE
INVARIANT TypeOK
INVARIANT AcceptedIsSomewhere
