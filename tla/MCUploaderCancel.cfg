SPECIFICATION Spec
CONSTANTS
    a = a
    b = b
    c = c
    u = u
    None = None
    Aborted = Aborted
    MaxInt = 127
    Second = 2
    MaxBackoff = 60
    Service <- MCTwo
    Selected <- MCTwoSelected
    Registered <- MCTwo
    HasCredentials <- MCTwo
    FileSize = 1
    Capacity = 1
    MaxRetries = 1
    RetryDelay = 1
    Failure <- MCOneFailure
    MaxCalls = 1
PROPERTY
    CancelledInBackoffIsAborted
