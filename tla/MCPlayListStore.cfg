CONSTANTS
  IntMax = 7
  Threads = {slim, shout}
  file = file
  stream = stream
  Blank = Blank
  Songs <- MCSongs
  Fragile <- MCFragile
  DefaultList <- MCDefault
  Asked <- MCAsked
  MaxLen = 2
SPECIFICATION Spec
INVARIANTS TypeOK PositionInv SavedInv
PROPERTIES CurrentSongKept SeekRepairs
