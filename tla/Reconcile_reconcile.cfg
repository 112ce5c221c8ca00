SPECIFICATION FairSpec
CONSTANTS
    Key = {1, 2, 3, 4}
    Replica <- Trio
    Links <- ChainLinks
    AuthorOf <- Authors
    Rank = {2, 3, 4}
    Cases <- AllCases
CHECK_DEADLOCK FALSE
INVARIANTS Delivered
PROPERTIES Refines Ends
