SPECIFICATION Spec
CONSTANTS
    StreamIds = {c1, c2, r1}
    ChatStreams = {c1, c2}
    RunStreams = {r1}
    Readers = {a, b}
    MaxEvents = 2
    MaxActive = 2
    TTL = 2
    MaxRetries = 0
    MaxProduced = 2
    MaxSessions = 1
INVARIANTS
    RegistryBounded
    PendingReachesHead
PROPERTIES
    ActiveStreamsStay
CHECK_DEADLOCK FALSE
