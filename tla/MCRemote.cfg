SPECIFICATION FairSpec
CONSTANTS
  KeySets <- MCKeySets
  Menu <- MCMenu
  Entries <- MCEntries
  Root = "music"
  MaxList = 2
  MaxLetters = 2
  MaxVolume = 4
  Delta = 2
  Byte = 8
  PageVolumes <- MCPageVolumes
  Visus = 2
INVARIANTS
  ScreenShown
  CursorsOnItems
  PowerRestores
PROPERTIES
  ImageArrives
CHECK_DEADLOCK FALSE
