SPECIFICATION FileSpec
CONSTANTS
    Byte = 16
    MaxSuper = 3
    NameMax = 3
    BlockSize = 64
    Missing = {1, 30}
    MaxFaults = 2
    SegmentLists <- MCSegmentLists
INVARIANTS
    FileTypeOK
    RelocationsSurvive
    OtherBytesStay
    PiecesAdjoin
    ExpressLeads
