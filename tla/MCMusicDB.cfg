SPECIFICATION Spec
CONSTANTS
  Libraries <- MCLibraries
  Paths = {1, 2}
  Fields <- MCFields
  Matches <- MCMatches
  MaxOps = 3
INVARIANTS
  EntriesExist
  WholeRecords
  CleanIsSorted
  FoundAll
  GroupAdded
