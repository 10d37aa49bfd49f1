\* A vote for a poll that is on the chain.
CONSTANTS
  n1 = n1
  n2 = n2
  r1 = r1
  r2 = r2
  Node = {n1, n2}
  Request = {r1, r2}
  By <- OneEach
  Text <- OneText
  Voters <- PairGuests
  PollID = {0, 1}
  VoteID <- BothVote
  Debug = FALSE
  NoPoll = NoPoll
  Idle = Idle
SPECIFICATION Spec
PROPERTIES
  RefusedUnregistered
CHECK_DEADLOCK FALSE
