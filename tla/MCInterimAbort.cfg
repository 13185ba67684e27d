SPECIFICATION Spec
CONSTANTS
    Sizes = {0, 7}
    Offers <- MCOffers
    MaxParts = 4
    PartBatch = 3
    CompleteAttempts = 2
    MaxAttempts = 2
    None = None
INVARIANTS AnsweredIntentsAreAborted
CHECK_DEADLOCK FALSE
