SPECIFICATION Spec
CONSTANTS
    u1 = u1
    u2 = u2
    b1 = b1
    b2 = b2
    s1 = s1
    s2 = s2
    s3 = s3
    Users = {u1, u2}
    Batches = {b1, b2}
    Sessions = {s1, s3}
    Owner <- TwoOwners
    BatchOf <- FileBatch
    Hashed = {s1}
    Sizes = {0, 1}
    MaxChunk = 1
    Quota = 1
    MaxFaults = 2
PROPERTIES
    EveryBatchCloses
