SPECIFICATION Spec
CONSTANTS
    c1 = c1
    c2 = c2
    c3 = c3
    c4 = c4
    rest = rest
    stream = stream
    Failure = Failure
    Cancelled = Cancelled
    None = None
    Calls = {c1, c2, c3, c4}
    Containers = {rest, stream}
    Searches <- MCSearches
    ContainerOf <- MCContainerOf
    SearchOf <- MCSearchOf
    TTL = 1
    Delay = 1
    MaxTime = 3
SYMMETRY Interchangeable
INVARIANTS
    TypeOK
    AnswersOwnSearch
    AnsweredIsCached
PROPERTIES
    AgeBounded
