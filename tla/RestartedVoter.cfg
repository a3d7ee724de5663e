\* A node restarts after the view change.  One request, every message that a node
\* waits for arrives at once.
SPECIFICATION Spec
INVARIANTS Agreement
ACTION_CONSTRAINTS EveryStepCounts LateTogether AtomicTimeouts LateRestart
CHECK_DEADLOCK FALSE
CONSTANTS
    s0 = s0
    s1 = s1
    s2 = s2
    s3 = s3
    q1 = q1
    F = 1
    Sites <- FourSites
    SiteOf <- SidOrder
    Requests = {q1}
    Noop = Noop
    MaxSeq = 1
    MaxView = 1
    MaxRestarts = 1
    NoRequest = NoRequest
    Prompt = {s0, s1, s2, s3}
