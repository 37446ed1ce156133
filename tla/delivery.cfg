\* One client of a chat stream or of a background run: a window of two, expiry, two resumes.
SPECIFICATION FairSpec
CONSTRAINT OneStream
CONSTANTS
    StreamIds = {c1, r1}
    ChatStreams = {c1}
    RunStreams = {r1}
    Readers = {a}
    MaxEvents = 2
    MaxActive = 1
    TTL = 1
    MaxRetries = 2
    MaxProduced = 5
    MaxSessions = 2
INVARIANTS
    TypeOK
    ContiguousDelivery
    TerminalPending
    WindowIsTail
PROPERTIES
    ReadersReleased
CHECK_DEADLOCK FALSE
