SPECIFICATION FairSpec
CONSTANTS
    p1 = p1
    m1 = m1
    m2 = m2
    b1 = b1
    b2 = b2
    NoMessage = NoMessage
    Processes = {p1}
    RestCalls = {"rows"}
    Messages = {m1, m2}
    Books = {b1, b2}
    Results <- MCResults
    MaxCopies = 2
    MaxBreaks = 1
INVARIANTS
    TypeOK
    AckedAreSaved
    StopsClean
PROPERTIES
    ImplementsFeed
    EveryMessageSettled
CHECK_DEADLOCK FALSE
