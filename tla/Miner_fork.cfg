CONSTANTS
  n1 = n1
  n2 = n2
  p1 = p1
  p2 = p2
  p3 = p3
  r1 = r1
  NoTx = NoTx
  Node = {n1, n2}
  Poll = {p1, p2}
  Reg = {r1}
  Creator <- CreatorTwo
  Reaches <- AllButReg
  Blank = {}
  StopCap = 2
SPECIFICATION Spec
INVARIANTS
  TypeOK
  ChainLinked
  NumberedOnce
  SameHashSameHistory
  StopsInOrder
  
CHECK_DEADLOCK FALSE
