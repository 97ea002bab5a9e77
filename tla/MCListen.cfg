CONSTANTS
  IntMax = 7
  Players = {p1, p2}
  Threads = {"slim"}
  Asked <- MCAsked
  MaxItems = 3
  None = None
  Gone = Gone
SPECIFICATION ListenSpec
INVARIANTS InStep
PROPERTIES PlaysToEnd RepeatsForever
CHECK_DEADLOCK FALSE
