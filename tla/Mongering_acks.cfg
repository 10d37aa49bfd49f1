\* Three goroutines, one message, two peers, and one place in a channel.
CONSTANTS
  m1 = m1
  p1 = p1
  p2 = p2
  Msg = {m1}
  Peer = {p1, p2}
  Known = {}
  Mongerers = {NoAddr, p2}
  Ackers = {p1, p2}
  NoAddr = NoAddr
  NoMsg = NoMsg
  AckCap = 1
  MaxPackets = 3
  MaxMongers = 2
SPECIFICATION FairSpec
INVARIANTS
  TypeOK
  SomebodyElse
  NoDeadEntry
  OneCanGoOn
PROPERTIES
  JamLasts
  HandledUnlessJammed
CHECK_DEADLOCK FALSE
