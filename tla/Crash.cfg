\* The process may die at any point of a handler, and once more in start().
SPECIFICATION Spec
SYMMETRY PeerSymmetry
INVARIANTS TypeOK CommitSurvives LedgerIsFinal DecisionSurvives
CHECK_DEADLOCK FALSE
CONSTANTS
    p1 = p1
    p2 = p2
    p3 = p3
    A = A
    B = B
    F = 1
    Self = Self
    Peers <- ThreePeers
    Accounts = {A, B}
    InitialBalance = 100
    Op <- TwoTransfers
    MaxSeq = 2
    Interval = 2
    Arriving <- MostArrive
    MaxCrashes = 1
    NoRequest = NoRequest
