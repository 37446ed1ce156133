SPECIFICATION Spec
CONSTANTS
    StreamIds = {c1}
    ChatStreams = {c1}
    RunStreams = {}
    Readers = {a}
    MaxEvents = 2
    MaxActive = 1
    TTL = 1
    MaxRetries = 2
    MaxProduced = 5
    MaxSessions = 2
INVARIANTS
    ResumeContinuesLive
CHECK_DEADLOCK FALSE
