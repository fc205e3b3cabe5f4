SPECIFICATION AttemptSpec
CONSTANT Canceller = {c1}
PROPERTY ExitIsFinal
CHECK_DEADLOCK FALSE
