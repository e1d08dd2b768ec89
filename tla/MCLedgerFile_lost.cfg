SPECIFICATION Spec
CONSTANTS
    p1 = p1
    p2 = p2
    Procs = {p1, p2}
    Releases <- Installed
    FirstFiles <- Found
    NoFile = NoFile
    Nobody = Nobody
    MaxTroubles = 0
INVARIANT
    AcknowledgedWritesStay
CHECK_DEADLOCK FALSE
