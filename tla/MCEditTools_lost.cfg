SPECIFICATION Spec
CONSTANTS
    Servers = {s1, s2}
    Paths = {"x", "y"}
    Documents <- RepeatedDocuments
    NoFile = NoFile
    Requests <- ReorderRequests
    MaxFailures = 1
    Assets = {"m1", "m2"}
    TimeLimit = 4
SYMMETRY Symmetric
INVARIANTS
    SuccessKeepsClips
CHECK_DEADLOCK FALSE
