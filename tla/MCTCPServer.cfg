SPECIFICATION FairSpec
CONSTANTS
  c1 = c1
  c2 = c2
  c3 = c3
  Clients = {c1, c2, c3}
  MaxConnections = 2
  Packet = 2
  Window = 1
  MaxChunks = 1
  Asks <- MCAsks
INVARIANTS
PROPERTIES
  RoundServesAll
  StreamSpec
  SlotsComeBack
CHECK_DEADLOCK FALSE
