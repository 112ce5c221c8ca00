SPECIFICATION Spec
CONSTANTS
    Party <- Parties
    Stores <- BothStores
    Conn = {c1, c2, c3}
    Triggers = {"DirectJoin"}
    Askers = {1, 2}
    Fresh = {}
    InProcess = FALSE
    MAX_REDIALS = 1
    Budgets <- SessionsBudgets
CHECK_DEADLOCK FALSE
INVARIANTS HeldIsAwaited SlotHasExchange
PROPERTIES RecordsFollowMembership
