SPECIFICATION Spec
CONSTANTS
    Sizes = {0, 7}
    Offers <- MCOffers
    MaxParts = 4
    PartBatch = 3
    CompleteAttempts = 2
    MaxAttempts = 2
    None = None
INVARIANTS
    TypeOK CommittedFilesAreWhole SuccessIsCommitted RefusedUploadsAreNotCommitted
    FailedUploadsAreAborted EveryByteIsSent
PROPERTIES OnlyTransfersStall CancelledUploadsEnd
CHECK_DEADLOCK FALSE
