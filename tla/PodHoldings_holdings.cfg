SPECIFICATION Spec
CONSTANTS
    Cases <- HoldingCases
CHECK_DEADLOCK FALSE
INVARIANTS ListedOpens
PROPERTIES HoldingSettles
