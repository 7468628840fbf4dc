SPECIFICATION FairSpec
CONSTANT
    Inputs <- MCInputs
CHECK_DEADLOCK FALSE
INVARIANTS
    TypeOK
    SplitsAtTopLevelCommas
    LiteralsInOrder
    SubstitutesAllOrNothing
PROPERTIES
    AlwaysEnds
