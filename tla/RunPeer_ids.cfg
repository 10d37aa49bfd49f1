\* Three packets, among two own messages and a rumor and a status of two peers.
CONSTANTS
  m1 = m1
  m2 = m2
  rumor = rumor
  status = status
  p1 = p1
  p2 = p2
  Own = {m1, m2}
  Theirs = {rumor}
  Statuses = {status}
  Peer = {p1, p2}
  NoAddr = NoAddr
  Nothing = Nothing
  MaxPackets = 3
SPECIFICATION Spec
SYMMETRY Symmetry
INVARIANTS
  OwnGetAnID
CHECK_DEADLOCK FALSE
