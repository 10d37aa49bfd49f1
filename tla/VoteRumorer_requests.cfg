\* Two polls of one user, with one text, on two nodes that work on.
CONSTANTS
  n1 = n1
  n2 = n2
  r1 = r1
  r2 = r2
  Node = {n1, n2}
  Request = {r1, r2}
  By <- BothByN1
  Text <- OneText
  Voters <- PairGuests
  PollID = {1}
  VoteID <- OnlyN1
  Debug = FALSE
  NoPoll = NoPoll
  Idle = Idle
SPECIFICATION FairSpec
INVARIANTS
  TypeOK
  CountsJustified
PROPERTIES
  RequestsEnd
  
CHECK_DEADLOCK FALSE
