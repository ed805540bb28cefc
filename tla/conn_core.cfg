\* Two calls over a channel of capacity one, which the second finds full.
CONSTANTS
    Requests = {r1, r2}
    Idempotent = {r1}
    MaxAttempts = 2
    SendCap = 1
    None = None
    Empty = Empty
    Nil = Nil
    Failed = Failed
    Panicked = Panicked
SPECIFICATION FairSpec
CHECK_DEADLOCK FALSE
INVARIANTS
    TypeOK
    PendingIsInFlight
    OwnResponse
    ClosedWakesWaiters
    AnswersNotLost
    LocalRuns
PROPERTIES
    CloseReleasesWaiters
    EveryCallReturns
    ImplementsPromise
