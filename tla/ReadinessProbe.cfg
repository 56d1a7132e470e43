SPECIFICATION Spec
CONSTANTS
    postgres = postgres
    redis = redis
    nats = nats
    Checks = {postgres, redis, nats}
    Local = {nats}
    Timeout = 2
    Unwinding = 1
    MaxChanges = 3
    Unknown = Unknown
INVARIANTS
    AnsweredInTime
    ReadyMeansUp
    ReportsEveryCheck
