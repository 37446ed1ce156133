SPECIFICATION OneSpec
CONSTANTS
    r1 = r1
    r2 = r2
    cancel = cancel
    resume1 = resume1
    resume2 = resume2
    None = None
    StreamIds <- OneRun
    Readers <- Nobody
    Cancellers <- Nobody
    Resumers <- Nobody
    MaxEvents = 2
    MaxActive = 1
    TTL = 1
    MaxAttempts = 2
    MaxCheckpoints = 2
    MaxProduced = 2
    MaxStops = 1
INVARIANTS
    SuccessIsEarned
CHECK_DEADLOCK FALSE
