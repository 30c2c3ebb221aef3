SPECIFICATION Spec
CONSTANTS
    Replies <- SmallReplies
    Listings <- SmallListings
CHECK_DEADLOCK FALSE
INVARIANTS
    TypeOK
    StockOfAnyColour
    LabelsAsListed
