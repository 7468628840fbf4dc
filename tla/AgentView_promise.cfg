SPECIFICATION FairAgentSpec
CONSTANTS
    c1 = c1
    c2 = c2
    q1 = q1
    Callers = {c1, c2}
    Queries = {q1}
    EmptyID = EmptyID
    NoOne = NoOne
    Cap = 1
    TTL = 2
    NonTerminalTTLCap = 1
    Endings = {"FINISHED"}
    MaxClock = 2
INVARIANTS
    OnlyOverlapsRegress
PROPERTIES
    ImplementsBoundedStaleness
    EveryCallReturns
