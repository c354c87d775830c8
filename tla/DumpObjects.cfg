SPECIFICATION Spec
CONSTANTS
    CommandLines <- MCCommandLines
INVARIANTS
    ListingTypeOK
    BytesReassemble
    SpaceReassembles
    LabelsPlaced
    LabelsFound
    DeclaredOnce
    ReferencesReserved
PROPERTY
    ListingAdvances
