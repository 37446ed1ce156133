\* One run that is cancelled, resumed and listed, or two runs and one place for a stream.
SPECIFICATION BothSpec
CONSTANTS
    r1 = r1
    r2 = r2
    cancel = cancel
    resume1 = resume1
    resume2 = resume2
    None = None
    StreamIds <- TwoRuns
    Readers <- Nobody
    Cancellers <- OneCancel
    Resumers <- OneResume
    MaxEvents = 2
    MaxActive = 1
    TTL = 1
    MaxAttempts = 2
    MaxCheckpoints = 2
    MaxProduced = 2
    MaxStops = 1
INVARIANTS
    TypeOK
    CancelHonoured
    CheckpointsPersisted
    OrphansOnlyAfterStop
PROPERTIES
    TaskCompletesStream
    Settled
CHECK_DEADLOCK FALSE
