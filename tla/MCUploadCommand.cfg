SPECIFICATION CommandSpec
CONSTANTS
    a = a
    b = b
    c = c
    None = None
    Aborted = Aborted
    MaxInt = 127
    Second = 2
    MaxBackoff = 60
    Service <- MCService
    Selected <- MCSelected
    Registered <- MCService
    HasCredentials <- MCHas
    FileSize = 1
    Capacity = 1
    MaxRetries = 1
    RetryDelay = 1
    Failure <- MCFailure
    MaxCalls = 2
INVARIANTS
    OneBarPerService
    BarsShowTheResults
    UnfinishedServicesHaveBars
PROPERTY
    CommandEnds
