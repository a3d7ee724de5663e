\* The leader runs the is_malicious branch of _send_pre_prepare against s3, and
\* the backup s1 votes for the request and for its forged copy, and for any
\* checkpoint; every decision ends in a checkpoint.
SPECIFICATION Spec
INVARIANTS TypeOK IInv OnlyRequested StableIsExecuted
PROPERTIES ImplementsLog
CHECK_DEADLOCK FALSE
CONSTANTS
    s0 = s0
    s1 = s1
    s2 = s2
    s3 = s3
    q1 = q1
    q2 = q2
    c1 = c1
    c2 = c2
    A = A
    B = B
    C = C
    F = 1
    Sites <- FourSites
    SiteOf <- SidOrder
    Malicious = {s0}
    Victim = s3
    Faulty = {s1}
    FaultyTxs <- RealOrForged
    FaultyStates <- AfterOneTx
    Requests = {q1}
    Demo = {}
    DemoId <- NoDemo
    Ids = {1}
    Noop = Noop
    ClientOf <- OwnClient
    Contact = {s0}
    MaxAttempts = 1
    Accounts = {A, B}
    InitialBalance = 100
    Op <- RivalOps
    MaxSeq = 1
    Window = 100
    Interval = 1
    Channels = "fifo"
    NoRequest = NoRequest
    NoSocket = NoSocket
