SPECIFICATION FairSpec
CONSTANTS
    d1 = d1
    d2 = d2
    i1 = i1
    s1 = s1
    s2 = s2
    Nobody = Nobody
    Devices <- MCDevices
    Identities <- MCIdentities
    Secrets <- MCSecrets
    Cases <- NodeCases
CHECK_DEADLOCK FALSE
INVARIANTS HalfHasOwner PromisedComesBack SecretServesOne ConfirmedIsRecorded PayloadKept
PROPERTIES LinksSettle
