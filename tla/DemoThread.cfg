\* The demo thread of the leader proposes while its message thread counts votes.
\* No faults, no lost messages; votes may overtake the PRE-PREPARE.
SPECIFICATION Spec
SYMMETRY BackupSymmetry
INVARIANTS BalancesMatchLedger QuorumExecutes
PROPERTIES ExecuteOnce
CHECK_DEADLOCK FALSE
CONSTANTS
    s0 = s0
    s1 = s1
    s2 = s2
    s3 = s3
    q1 = q1
    q2 = q2
    c1 = c1
    c2 = c2
    A = A
    B = B
    C = C
    F = 1
    Sites <- FourSites
    SiteOf <- SidOrder
    Malicious = {}
    Victim = s3
    Faulty = {}
    FaultyTxs = {}
    FaultyStates = {}
    Requests = {q1}
    Demo = {q1}
    DemoId <- DemoOrder
    Ids = {1}
    Noop = Noop
    ClientOf <- OwnClient
    Contact = {}
    MaxAttempts = 1
    Accounts = {A, B}
    InitialBalance = 100
    Op <- SmallOps
    MaxSeq = 1
    Window = 100
    Interval = 2
    Channels = "ordered"
    NoRequest = NoRequest
    NoSocket = NoSocket
