CONSTANTS
  m1 = m1
  s1 = s1
  n1 = n1
  n2 = n2
  Messages = {m1}
  Senders = {s1}
  NamedSenders = {}
  MessageOf <- ByCall
  Workers = {w1, w2}
  Checker = checker
  Admins = {}
  NoCopy = NoCopy
  SendFaults = {"SISMEMBER", "SADD", "LPUSH"}
  MaxRetries = 1
  ProcessingTimeout = 0
  MaxTime = 2
  MaxExits = 1
SPECIFICATION FairSpec
CHECK_DEADLOCK FALSE
PROPERTIES Settles LedgerSpec
