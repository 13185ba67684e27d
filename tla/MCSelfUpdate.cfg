SPECIFICATION Spec
CONSTANTS
    Process = {1, 2}
    Releases <- MCReleases
    Absent = Absent
INVARIANTS
    TypeOK
    AWorkingBinaryRemains
    FailedUpdatesLeaveABinary
    TempFilesAreRemoved
PROPERTIES
    UpdatesGoForward
    UpdatesEnd
CHECK_DEADLOCK FALSE
