SPECIFICATION Spec
CONSTANTS
    c1 = c1
    c2 = c2
    q1 = q1
    q2 = q2
    Callers = {c1, c2}
    Queries = {q1, q2}
    EmptyID = EmptyID
    NoOne = NoOne
    Cap = 1
    TTL = 2
    NonTerminalTTLCap = 1
    Endings = {"FINISHED"}
    MaxClock = 3
SYMMETRY CallersAndQueries
INVARIANTS
    TypeOK
    CacheBounded
    EntriesDieOnTime
    EndedQueriesCatchUp
    IndInv
