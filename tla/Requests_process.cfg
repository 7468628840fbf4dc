SPECIFICATION FairRequestSpec
CONSTANTS
    Statuses <- MCStatuses
    Users <- MCUsers
    Settings <- MCSettings
    DefaultTimeout = 1
    DefaultWindow = 3
    MaxWindow = 4
    DefaultTTL = 3
    DefaultCacheSize = 3
CHECK_DEADLOCK FALSE
INVARIANTS
    RequestTypeOK
    ServesSoundly
    SuccessIsEarned
    SecretsAsConfigured
PROPERTIES
    AlwaysStops
    EveryRequestEnds
