SPECIFICATION FairSpec
CONSTANTS
    Device <- Family
    Who <- WhoFamily
    Cases <- SettleCases
CHECK_DEADLOCK FALSE
PROPERTIES Settles
