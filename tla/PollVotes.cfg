CONSTANTS
  p1 = p1
  o1 = o1
  o2 = o2
  o3 = o3
  a1 = a1
  a2 = a2
  Polls = {p1}
  Options = {o1, o2}
  IPs = {a1, a2}
  PollOf <- OnePoll
  TailPolls <- NoTails
  MaxTime = 1
  Voters = {v1, v2}
  EnhancedVoters = {}
  Editors = {}
  Resetters = {}
  NoRequest = NoRequest
  NoOption = NoOption
  NewPolls <- EitherEnding
  VoteInputs <- VoteAny
  EnhancedInputs <- EnhancedBoth
  UpdateInputs <- EditFields
  Broadcasts = 1
  DbFaults = FALSE
  LostReplies = TRUE
  RedisFaults = TRUE
SPECIFICATION Spec
SYMMETRY Symmetry
CHECK_DEADLOCK FALSE
INVARIANT OneVotePerIP
INVARIANT NoLateVotes
INVARIANT OneChoice
INVARIANT AcceptedCounted
