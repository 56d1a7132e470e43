SPECIFICATION WalkSpec
CONSTANTS
    Ids <- MCIds
    Initial <- MCInitial
    OrderedById = TRUE
    Limit = 2
    MaxChanges = 3
INVARIANTS
    MissesOnlyForDeletions
    RepeatsOnlyForCreations
