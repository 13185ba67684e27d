SPECIFICATION Spec
CONSTANTS
    Sizes = {0, 2, 5}
    Offers <- MCOffers
    MaxParts = 3
    MaxAttempts = 2
    MochaPresignBatch = 2
    MochaDefaultPartSize = 3
    MochaRelayPartSize = 2
    ZincSinglePartMax = 2
    ZincMultipartPartSize = 2
    None = None
INVARIANTS
    TypeOK StoredFilesAreInOrder SuccessIsPublished OnlyCommitsStoreFiles
    SessionsAreGivenUp
PROPERTIES UploadsEnd
CHECK_DEADLOCK FALSE
