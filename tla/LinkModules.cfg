SPECIFICATION Spec
CONSTANTS
    WordBits = 8
    Names <- MCNames
    SectionNames <- MCSectionNames
    BegName <- MCBegName
    EndName <- MCEndName
    CommandLines <- MCModules
INVARIANTS
    TypeOK
    TableConsistent
    UndefinedListed
    NothingUndefined
    OperandsNamed
    UndefinedExactly
    SymbolReferencesLand
    ExpressionsPatchTheirBytes
    EndSymbolAtEnd
    DuplicateReported
    LibraryModuleOnce
PROPERTIES
    DefinitionsStay
    KeepsPromise
    LibraryExhausted
