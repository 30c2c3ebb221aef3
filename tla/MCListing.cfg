SPECIFICATION FairSpec
CONSTANTS
    Items <- SmallItems
    PageSize = 2
    MaxListed = 4
    MaxChanges = 2
CHECK_DEADLOCK FALSE
INVARIANTS
    TypeOK
    MissesNeedRemovals
    RepeatsNeedInsertions
    OnlyValidDeals
PROPERTIES
    FetchEnds
