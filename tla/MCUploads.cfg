SPECIFICATION Spec
CONSTANTS
    u1 = u1
    u2 = u2
    b1 = b1
    b2 = b2
    s1 = s1
    s2 = s2
    s3 = s3
    Users = {u1}
    Batches = {b1, b2}
    Sessions = {s1, s2, s3}
    Owner <- OneOwner
    BatchOf <- FileBatch
    Hashed = {s1}
    Sizes = {0, 2}
    MaxChunk = 1
    Quota = 4
    MaxFaults = 1
INVARIANTS
    TypeOK
    BatchLedger
    
    CompletedIntact
    HashedContentIntact
    NoLeakWithoutFault
PROPERTIES
    OnlyStaleSweepUnderReserves
    UploadsDeliver
