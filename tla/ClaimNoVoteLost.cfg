CONSTANTS
  p1 = p1
  o1 = o1
  o2 = o2
  o3 = o3
  a1 = a1
  a2 = a2
  Polls = {p1}
  Options = {o1, o2}
  IPs = {a1, a2}
  PollOf <- OnePoll
  TailPolls <- NoTails
  MaxTime = 0
  Voters = {v1, v2}
  EnhancedVoters = {}
  Editors = {u1}
  Resetters = {}
  NoRequest = NoRequest
  NoOption = NoOption
  NewPolls <- MultiOpenEnded
  VoteInputs <- VoteOne
  EnhancedInputs <- EnhancedBoth
  UpdateInputs <- EditOne
  Broadcasts = 1
  DbFaults = FALSE
  LostReplies = FALSE
  RedisFaults = FALSE
SPECIFICATION OpenSpec
CHECK_DEADLOCK FALSE
INVARIANT NoVoteLost
