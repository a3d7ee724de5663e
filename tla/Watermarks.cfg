\* Window and checkpoint interval of one: the leader waits for a stable checkpoint.
\* A client may send its request again.
SPECIFICATION Spec
SYMMETRY OtherSymmetry
INVARIANTS WindowIsExecuted BalancesMatchLedger
CHECK_DEADLOCK FALSE
CONSTANTS
    s0 = s0
    s1 = s1
    s2 = s2
    s3 = s3
    q1 = q1
    q2 = q2
    c1 = c1
    c2 = c2
    A = A
    B = B
    C = C
    F = 1
    Sites <- FourSites
    SiteOf <- SidOrder
    Malicious = {}
    Victim = s3
    Faulty = {s3}
    FaultyTxs = {}
    FaultyStates = {}
    Requests = {q1, q2}
    Demo = {}
    DemoId <- NoDemo
    Ids = {1, 2}
    Noop = Noop
    ClientOf <- OwnClient
    Contact = {s0}
    MaxAttempts = 2
    Accounts = {A, B}
    InitialBalance = 100
    Op <- RivalOps
    MaxSeq = 2
    Window = 1
    Interval = 1
    Channels = "fifo"
    NoRequest = NoRequest
    NoSocket = NoSocket
