SPECIFICATION Spec
CONSTANTS
    p = p
    q = q
    good = good
    bad = bad
    None = None
    Absent = Absent
    Broken = Broken
    MaxInt = 127
    Second = 2
    MaxBackoff = 60
    Service <- MCService
    Verifiers = {"datanodes", "interim", "zincdrive"}
    Token = {good, bad}
    Accepted <- MCAccepted
    Process = {p, q}
    Command <- MCCommand
    Key = {"API_TOKEN", "API_KEY", "folder"}
    Mode = {"parallel", "sequential", "typo"}
    Count = {0, 1, 2, 3}
    Retired = {"gone"}
    Initial <- MCInitial
    MaxCommands = 2
INVARIANTS
    TypeOK
    UnrefusedCredentialsOnly
PROPERTIES
    FreshSavesLoseNothing
    StoreImplementsSettings
SYMMETRY Symmetry
CHECK_DEADLOCK FALSE
