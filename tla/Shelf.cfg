SPECIFICATION FairSpec
CONSTANTS
    Nibble = 2
    Width = 2
    Nil = Nil
    This <- MCThis
    Other <- MCOther
    Number = {2, 6, 7, 8}
    OtherNumber = {6}
    PageSize = 1
    MaxWrites = 1
INVARIANTS
    TypeOK
    RangeExact
    
    IterateComplete
    EmptyIsEmpty
    FailsOnlyAtEdges
    NeverPasses
PROPERTIES
    CallEnds
CHECK_DEADLOCK FALSE
