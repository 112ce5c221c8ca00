SPECIFICATION Spec
CONSTANTS
    Party <- Parties
    Stores <- OneStore
    Conn = {c1, c2, c3}
    Triggers = {"Announced"}
    Askers = {1, 2}
    Fresh = {}
    InProcess = TRUE
    MAX_REDIALS = 3
    Budgets <- InProcessBudget
INVARIANTS SlotHasExchange
CHECK_DEADLOCK FALSE
