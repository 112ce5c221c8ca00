SPECIFICATION FairSpec
CONSTANTS
    Party <- Parties
    Stores <- BothStores
    Conn = {c1, c2, c3}
    Triggers = {"DirectJoin"}
    Askers = {1, 2}
    Fresh = {1}
    InProcess = FALSE
    MAX_REDIALS = 1
    Budgets <- SettleBudget
INVARIANTS OneServed
PROPERTIES Settles
CHECK_DEADLOCK FALSE
