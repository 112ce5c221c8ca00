\* Records written, read, flushed and served.
SPECIFICATION Spec
CONSTANTS
    w = w
    v = v
    n = n
    G = G
    H = H
    None = None
    Guest = G
    Devices <- MCDevices
    IdentityOf <- MCIdentityOf
    Cases <- RecordsCases
INVARIANTS
    OneWritePerKey
    WrittenCounts
    FlushedIsHeld
    NoneAfterRemoval
\* A case ends when what it allows is used up.
CHECK_DEADLOCK FALSE
