SPECIFICATION FairSpec
CONSTANTS
    c1 = c1
    c2 = c2
    c3 = c3
    c4 = c4
    k1 = k1
    k2 = k2
    value = value
    error = error
    Cancelled = Cancelled
    None = None
    Calls = {c1, c2, c3, c4}
    Idents = {k1, k2}
    IdentOf <- MCIdentOf
    Outcomes = {value, error}
INVARIANTS
    TypeOK
    OneRunPerKey
    RunningIsExact
PROPERTIES
    SharesOutcomes
    EveryCallerAnswered
