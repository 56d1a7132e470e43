SPECIFICATION PoolFairSpec
CONSTANTS
    r1 = r1
    r2 = r2
    r3 = r3
    b1 = b1
    b2 = b2
    b3 = b3
    b4 = b4
    b5 = b5
    x = x
    y = y
    xLong = xLong
    UNSET = UNSET
    NULL = NULL
    Absent = Absent
    NoOp = NoOp
    Fields <- MCFields
    Texts <- MCTexts
    Stored <- MCStored
    Cut <- MCCut
    Seeds <- MCSeeds
    BookIds = {b1, b2, b3, b4}
    Requests = {r1, r2, r3}
    Ops <- PoolOps
    PoolSize = 2
PROPERTIES
    EveryRequestAnswered
    ConnectionsComeBack
