\* Two threads and the health check share the connection; one connection breaks
\* and one send times out.
SPECIFICATION Spec
INVARIANTS PooledIsOpen TrueIsDelivered AtMostOnce
ACTION_CONSTRAINT TwoPieces
SYMMETRY SenderSymmetry
CHECK_DEADLOCK FALSE
CONSTANTS
    Senders = {handler, heartbeat}
    Keeper = keeper
    Outbox <- OneEach
    Newline = newline
    MaxSockets = 3
    MaxFaults = 1
