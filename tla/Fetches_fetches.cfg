SPECIFICATION FairSpec
CONSTANTS
    Stores <- TwoStores
    Hash = {"x", "y"}
    Node = {"p", "q"}
    Limit = 1
    MaxTries = 2
    MaxSeries = 1
    Before <- BothLack
    Budgets <- FetchBudgets
CHECK_DEADLOCK FALSE
INVARIANTS BoundedPerProvider SeriesGoesOn NoneForgotten
PROPERTIES Settles
