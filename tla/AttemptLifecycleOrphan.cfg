SPECIFICATION AttemptSpec
CONSTANT Canceller = {c1}
INVARIANT OrphanIsReported
CHECK_DEADLOCK FALSE
