SPECIFICATION FairSpec
CONSTANTS
    n1 = n1
    n2 = n2
    me = me
    i1 = i1
    a = a
    b = b
    NoReading = NoReading
    NoTomb = NoTomb
    Peers <- MCPeers
    Contacts <- MCContacts
    Identities <- MCIdentities
    Default = i1
    Me = me
    First = a
    Capacity = 1
    MaxRedials = 1
    Cases <- DeliveryCases
\* A case ends when what it allows is used up.
CHECK_DEADLOCK FALSE
INVARIANTS NeighborsAreCurrent UnreachedIsTried QuietIsEqual
PROPERTIES ContactsNeverGoBack Settles
