SPECIFICATION Spec
CONSTANTS
    c1 = c1
    c2 = c2
    q1 = q1
    q2 = q2
    q3 = q3
    Callers = {c1, c2}
    Queries = {q1, q2, q3}
    EmptyID = EmptyID
    NoOne = NoOne
    Cap = 2
    TTL = 1
    NonTerminalTTLCap = 1
    Endings = {}
    MaxClock = 3
SYMMETRY CallersAndQueries
PROPERTIES
    EvictsClosestToExpiry
