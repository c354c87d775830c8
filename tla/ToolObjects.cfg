SPECIFICATION WdcSpec
CONSTANTS
    WordBits = 16
    MergeLimit = 16
    ShortReach = 7
    LongReach = 15
    MaxShift = 24
    PageSize = 4
    Radix = 16
    MaxSuper = 2
    NameMax = 3
    BlockSize = 64
    Missing = {}
    MaxFaults = 0
    Places = 64
    NameLength <- MCNameLength
    Names <- MCNames
    SectionNames <- MCSectionNames
    BegName <- MCBegName
    EndName <- MCEndName
    CommandLines <- MCTool
INVARIANTS
    BytesPlaced
    MergedFits
    BytesSaved
    AddressesLoad
    BranchesReach
    RecordsApart
    NothingLost
PROPERTY
    ToolEnds
