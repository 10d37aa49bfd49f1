CONSTANTS
  n1 = n1
  n2 = n2
  p1 = p1
  p2 = p2
  p3 = p3
  r1 = r1
  NoTx = NoTx
  Node = {n1, n2}
  Poll = {p1, p2, p3}
  Reg = {}
  Creator <- CreatorThree
  Reaches <- AllButPoll
  Blank = {}
  StopCap = 2
SPECIFICATION Spec
INVARIANTS
  PollIDsUnique
CHECK_DEADLOCK FALSE
