SPECIFICATION Spec
CONSTANTS
    a = a
    b = b
    c = c
    u = u
    None = None
    Aborted = Aborted
    MaxInt = 127
    Second = 2
    MaxBackoff = 60
    Service <- MCService
    Selected <- MCSelected
    Registered <- MCRegistered
    HasCredentials <- MCHasCredentials
    FileSize = 1
    Capacity = 2
    MaxRetries = 1
    RetryDelay = 1
    Failure <- MCFailure
    MaxCalls = 2
INVARIANTS
    TypeOK
    NoSendAfterClose
    ResultsMatchEvents
    EveryServiceAnswers
    TransientFailuresUseAllAttempts
