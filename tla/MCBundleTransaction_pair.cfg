\* Two attempts, two processes, errors, crashes and one foreign write.
CONSTANTS
    Null = Null
    Absent = Absent
    Partial = Partial
    t1 = t1
    t2 = t2
    p1 = p1
    p2 = p2
    clip = clip
    cut = cut
    src0 = src0
    src1 = src1
    src2 = src2
    other = other
    Txns = {t1, t2}
    Procs = {p1, p2}
    Contents = {clip, cut, src0, src1, src2, other}
    Payload <- SameDocument
    Initial <- Starts
    Outsiders = {other}
    MaxFaults = 2
SPECIFICATION Spec
SYMMETRY ProcSymmetry
INVARIANTS
    TypeOK
    NeverMixedAtRest
    UndoIsPossible
    ReplacesWhatWasSeen
    CommittedIsReplayable
CHECK_DEADLOCK FALSE
