SPECIFICATION Spec
CONSTANTS
    TopStagesLimit = 2
    MaxScanDepth = 1
    Workloads <- MCWorkloads
INVARIANTS
    TypeOK
    LeadsWithWorst
    ConnectorIOConserves
    RowsCreditedOnce
    ConnectorsAgree
    RemediesFitTheSource
    EveryStageOnce
    SkewIsReal
    NoStageOutwaitsTheList
PROPERTIES
    CumulativeFindingsStay
    WaitKindAdvances
