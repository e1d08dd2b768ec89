SPECIFICATION CallsSpec
CONSTANTS
    Runs = {r1}
    ClientRuns = {}
    Keys = {k1}
    Requests = {q1, q2}
    Values <- Digests
    Null = Null
    Ttl = 1
    MaxTime = 1
    MaxRevision = 9
    Preparers = {p1, p2}
    Readers = {p1, p2}
    Contents = {a, b}
    Absent = Absent
    Edit <- Editing
    Expects <- Expecting
    Sizes <- Measured
    MaxArtifactBytes = 4
    Nothing = Nothing
    Corrupt = Corrupt
    MaxTroubles = 2
    a = a
    b = b
    q1 = q1
    q2 = q2
SYMMETRY Symmetric
INVARIANTS
    TypeOK
    ReplyFitsRequest
    EvidenceHangsTogether
    RecordedArtifactsReadable
    ErrorSettlesRun
    StatusToldTrue
CHECK_DEADLOCK FALSE
