\* No faults, no lost messages, PRE-PREPAREs arrive before votes.
SPECIFICATION FairSpec
PROPERTIES RequestAnswered EveryoneExecutes
CHECK_DEADLOCK FALSE
CONSTANTS
    s0 = s0
    s1 = s1
    s2 = s2
    s3 = s3
    q1 = q1
    q2 = q2
    c1 = c1
    c2 = c2
    A = A
    B = B
    C = C
    F = 1
    Sites <- FourSites
    SiteOf <- SidOrder
    Malicious = {}
    Victim = s3
    Faulty = {}
    FaultyTxs = {}
    FaultyStates = {}
    Requests = {q1}
    Demo = {}
    DemoId <- NoDemo
    Ids = {1}
    Noop = Noop
    ClientOf <- OwnClient
    Contact = {s1}
    MaxAttempts = 1
    Accounts = {A, B}
    InitialBalance = 100
    Op <- RivalOps
    MaxSeq = 1
    Window = 100
    Interval = 2
    Channels = "phased"
    NoRequest = NoRequest
    NoSocket = NoSocket
