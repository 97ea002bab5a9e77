\* A player and a web client, their streams cut in every way. Both streams
\* end, so that deadlock is not checked.
SPECIFICATION Spec
CONSTANTS
    Header = 2
    RxSize = 5
    BufSize = 7
    Player = "sb"
    Group = "all"
    Feeds <- MCFeeds
    Junk <- MCJunk
    Requests <- MCRequests
    Files <- MCFiles
    List <- MCList
    CaseOf <- MCCaseOf
    Sections <- MCSections
    ItemTemplate <- MCItemTemplate
    DeviceTemplate <- MCDeviceTemplate
    DirTemplate <- MCDirTemplate
    DirItemTemplate <- MCDirItemTemplate
INVARIANTS
    InStep
    RequestEnds
    ClientFromCookie
    PageIsTheFile
    OneSong
CHECK_DEADLOCK FALSE
