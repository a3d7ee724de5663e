\* Two view changes, a restart that forgets VIEW-CHANGEs, and stale timers.
SPECIFICATION FairSpec
INVARIANTS ViewIsSupported SupportInv
PROPERTIES NewViewReached ViewsConverge
ACTION_CONSTRAINTS VotesAreLost RestartForgets
CHECK_DEADLOCK FALSE
CONSTANTS
    s0 = s0
    s1 = s1
    s2 = s2
    s3 = s3
    q1 = q1
    F = 1
    Sites <- FourSites
    SiteOf <- SidOrder
    Requests = {q1}
    Noop = Noop
    MaxSeq = 1
    MaxView = 2
    MaxRestarts = 1
    NoRequest = NoRequest
    Prompt = {}
