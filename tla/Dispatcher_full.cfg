\* One place in stopMining.
CONSTANTS
  t1 = t1
  t2 = t2
  peer = peer
  text = text
  Tx = {t1, t2}
  Registration = t1
  PeerBlocks <- ThreeBlocks
  Rumors = {}
  Statuses = {}
  Privates = {}
  Requests = {text}
  For <- TextAndVote
  Self = Self
  Genesis = Genesis
  Nothing = Nothing
  StopCap = 1
SPECIFICATION FairSpec
INVARIANTS
  TypeOK
  StuckOnFullStops
PROPERTIES
  PassUnlessFull
  AllAnswered
CHECK_DEADLOCK FALSE
