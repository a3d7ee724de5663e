\* The leader is down, the other three run and time out.
SPECIFICATION SurvivorSpec
PROPERTIES LeaderIsReplaced
CHECK_DEADLOCK FALSE
CONSTANTS
    s0 = s0
    s1 = s1
    s2 = s2
    s3 = s3
    q1 = q1
    F = 1
    Sites <- FourSites
    SiteOf <- SidOrder
    Requests = {}
    Noop = Noop
    MaxSeq = 1
    MaxView = 1
    MaxRestarts = 0
    NoRequest = NoRequest
    Prompt = {}
