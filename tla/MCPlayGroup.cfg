CONSTANTS
  IntMax = 7
  Players = {p1}
  Threads = {"slim","shout"}
  Asked <- MCAsked
  MaxItems = 3
  None = None
  Gone = Gone
SPECIFICATION Spec
INVARIANTS TypeOK
PROPERTIES SeekAligns
