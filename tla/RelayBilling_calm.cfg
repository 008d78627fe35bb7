SPECIFICATION FairSpec
CONSTANTS
    r1 = r1
    r2 = r2
    n1 = n1
    n2 = n2
    u1 = u1
    Requests = {r1, r2}
    Nodes = {n1}
    Users = {u1}
    UnlimitedUsers = {}
    Amounts = {0, 1, 2}
    InitialQuota = 3
    TrustQuota = 2
    StaleReads = {0, 2}
    RedisEnabled = FALSE
    Paths = {"text", "claude", "audio"}
    Faults = {}
    MaxStarts = 0
    NoRequest = NoRequest
CHECK_DEADLOCK FALSE
PROPERTIES LedgerSpec
