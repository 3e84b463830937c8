SPECIFICATION ServerSpec
CONSTANTS
    r1 = r1
    r2 = r2
    Requests = {r1, r2}
    Workloads <- MCWorkloads
    MaxAttempts = 1
    Limit = 1
    MaxChallenges = 2
    MaxTokens = 2
    MaxPassword = 2
    MaxSecret = 2
    MaxClock = 1
    Callers = {r1, r2}
    MaxUsers = 3
    MaxConns = 2
    Legacy = 2
    Writers = {r1, r2}
    Sessions = {s1}
    Files = {x, y}
    MaxSize = 2
    MaxQuota = 3
    People = {a, b}
    Items = {x, y}
    Clerks = {r1, r2}
    Tasks <- MCTasks
    MaxUsed = 2
    Visitors = {r1, r2}
    Offers <- MCOffers
    MaxHash = 3
    MaxTries = 1
    MaxVisits = 2
    Mounters = {r1, r2}
    Paths <- MCPaths
    Ids = {1, 2}
    Mounts <- MCMounts
    TTL = 2
SYMMETRY Symmetry
INVARIANTS
    ServerTypeOK
    GuessesBounded
    ResetSignsOut
    
    NoStandstill
    
    
    
    
    ProofsStayValid
PROPERTIES
    ApprovalsAdmitOnce
    RolesChangeInTurn
    
    LockKeepsOthersOut
CHECK_DEADLOCK FALSE
