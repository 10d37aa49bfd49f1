\* Three nodes in a line: the middle one forwards.
CONSTANTS
  n1 = n1
  n2 = n2
  n3 = n3
  Node = {n1, n2, n3}
  Clients = {n1}
  KnownPeers <- LineKnown
  WebPeers <- LineNoWeb
  NoAddr = NoAddr
  MaxMessages = 1
  MaxMongers = 1
  MaxInFlight = 1
SPECIFICATION FairSpec
PROPERTIES
  AllHear
