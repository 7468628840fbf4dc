SPECIFICATION Spec
CONSTANTS
    MinSQLBudgetBytes = 2
    MaxQuerySQLBytes = 6
    Windows <- MCWindows
    Lengths <- MCLengths
INVARIANTS
    WithinBudget
