\* A request and a view change race; votes, proposals and NEW-VIEWs may be late.
\* Votes to s3 come at any time, those to the others together.
SPECIFICATION Spec
INVARIANTS TypeOK Agreement
ACTION_CONSTRAINTS EveryStepCounts LateTogether
CHECK_DEADLOCK FALSE
CONSTANTS
    s0 = s0
    s1 = s1
    s2 = s2
    s3 = s3
    q1 = q1
    F = 1
    Sites <- FourSites
    SiteOf <- SidOrder
    Requests = {q1}
    Noop = Noop
    MaxSeq = 1
    MaxView = 1
    MaxRestarts = 0
    NoRequest = NoRequest
    Prompt = {s0, s1, s2}
