SPECIFICATION Spec
CONSTANTS
    p = p
    q = q
    d1 = d1
    d2 = d2
    anonymous = anonymous
    Docs = {d1, d2, anonymous}
    Authored = {d1, d2}
    Key <- MCKey
    Queries = {p, q}
    Upstreams <- MCUpstreams
    Events <- MCEvents
    BucketSize = 2
INVARIANTS
    SavesThroughFirstGap
    NeverSearchesPastTheEnd
