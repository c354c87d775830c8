SPECIFICATION Spec
CONSTANTS
    WordBits = 8
    Names <- MCNames
    SectionNames <- MCSectionNames
    BegName <- MCBegName
    EndName <- MCEndName
    CommandLines <- MCRefOnly
INVARIANT
    RefOnlyDisjoint
