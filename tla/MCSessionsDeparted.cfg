SPECIFICATION Spec
CONSTANTS
  a1 = a1
  a2 = a2
  w1 = w1
  w2 = w2
  PlayerSessions = {a1, a2}
  PageSessions = {w1, w2}
  Name <- MCName
  Numbers = {3, 4, 5, 6, 7, 8}
  MaxEntries = 2
  None = None
INVARIANTS
  EntriesLive
CHECK_DEADLOCK FALSE
