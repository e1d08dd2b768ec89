SPECIFICATION Spec
CONSTANTS
    Servers = {s1, s2}
    Paths = {"x", "y"}
    Documents <- SomeDocuments
    NoFile = NoFile
    Requests <- AllRequests
    MaxFailures = 1
    Assets = {"m1", "m2"}
    TimeLimit = 4
SYMMETRY Symmetric
INVARIANTS
    SensibleCallsKeepClips
    OutcomeTellsFile
PROPERTIES
    CheckAgreesWithEdit
CHECK_DEADLOCK FALSE
