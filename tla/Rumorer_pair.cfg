\* Two nodes, two messages of one of them, up to two packets in flight.
CONSTANTS
  n1 = n1
  n2 = n2
  n3 = n3
  Node = {n1, n2}
  Clients = {n1}
  KnownPeers <- PairKnown
  WebPeers <- PairWeb
  NoAddr = NoAddr
  MaxMessages = 2
  MaxMongers = 2
  MaxInFlight = 2
SPECIFICATION Spec
INVARIANTS
  TypeOK
  StoreExact
  HandedOnce
  OriginFirst
  StatusTrue
  AckSound
PROPERTIES
  Broadcasts
