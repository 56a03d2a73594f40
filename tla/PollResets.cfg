CONSTANTS
  p1 = p1
  o1 = o1
  o2 = o2
  o3 = o3
  a1 = a1
  a2 = a2
  Polls = {p1}
  Options = {o1, o2}
  IPs = {a1, a2}
  PollOf <- OnePoll
  TailPolls <- NoTails
  MaxTime = 0
  Voters = {v1, v2}
  EnhancedVoters = {e1}
  Editors = {}
  Resetters = {s1}
  NoRequest = NoRequest
  NoOption = NoOption
  NewPolls <- MultiOpenEnded
  VoteInputs <- VoteOne
  EnhancedInputs <- EnhancedBoth
  UpdateInputs <- EditFields
  Broadcasts = 1
  DbFaults = TRUE
  LostReplies = TRUE
  RedisFaults = TRUE
SPECIFICATION OpenSpec
SYMMETRY Symmetry
CHECK_DEADLOCK FALSE
INVARIANT RejectedUncounted
INVARIANT ResetIsFinal
INVARIANT AcceptedCounted
PROPERTY BoxSpec
