SPECIFICATION WalkSpec
CONSTANTS
    Ids <- MCIds
    Initial <- MCInitial
    OrderedById = FALSE
    Limit = 2
    MaxChanges = 3
INVARIANT
    PagesPartition
