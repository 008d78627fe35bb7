SPECIFICATION FairSpec
CONSTANTS
    r1 = r1
    g1 = g1
    g2 = g2
    c1 = c1
    c2 = c2
    c3 = c3
    c4 = c4
    Requests = {r1}
    Channels = {c1, c2, c3, c4}
    Groups = {g1, g2}
    Members <- TwoGroups
    Priority <- MCPriority
    Weight <- MCWeight
    MultiKey = {c3}
    AutoGroups <- OneToTwo
    RetryTimes = 1
    StatusCodes <- Codes
    Kinds <- AllTokens
    Changes = {"disable", "sync"}
    NoChannel = NoChannel
CHECK_DEADLOCK FALSE
INVARIANTS TriesBounded RetriesUsed BilledAsServed
PROPERTY EveryRequestEnds
