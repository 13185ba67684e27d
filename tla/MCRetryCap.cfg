SPECIFICATION Spec
CONSTANTS
    MaxInt = 127
    Second = 2
    MaxBackoff = 60
    None = None
    Retries <- MCRetries
    Delays <- MCDelays
    Failure <- MCFailure
    MaxFailures = 7
INVARIANT
    WaitIsCapped
CHECK_DEADLOCK FALSE
