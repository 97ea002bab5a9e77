\* The tag readers on every file of the collection. A reader stops at the end
\* of its file, so that deadlock is not checked.
SPECIFICATION ReadSpec
CONSTANTS
    NoTag = NoTag
    Files <- MCFiles
INVARIANTS
    TagsRight
    StaysInTag
    HeaderRead
PROPERTY
    Ends
CHECK_DEADLOCK FALSE
