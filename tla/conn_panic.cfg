\* A call past its check when Close runs.
CONSTANTS
    Requests = {r1, r2}
    Idempotent = {r1}
    MaxAttempts = 2
    SendCap = 1
    None = None
    Empty = Empty
    Nil = Nil
    Failed = Failed
    Panicked = Panicked
SPECIFICATION Spec

CHECK_DEADLOCK FALSE
INVARIANTS
    NoPanic
