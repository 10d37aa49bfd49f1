\* A line of three nodes; the user at one end writes twice.
CONSTANTS
  n1 = n1
  n2 = n2
  n3 = n3
  Node = {n1, n2, n3}
  Link <- LineLinks
  Talkers = {n1}
  Mail <- OneMail
  HopLimit = 3
  HopValues = 8
  MaxRumors = 2
  MaxInFlight = 1
  NoAddr = NoAddr
  NoID <- Minus1
SPECIFICATION FairSpec
INVARIANTS
  TypeOK
  RouteFresh
  WithinHopLimit
PROPERTIES
  LoopsComeFromLateRoutes
  Settles
CHECK_DEADLOCK FALSE
