\* One error and one crash: the journal and the files contradict each other.
CONSTANTS
    Null = Null
    Absent = Absent
    Partial = Partial
    t1 = t1
    t2 = t2
    p1 = p1
    p2 = p2
    clip = clip
    cut = cut
    src0 = src0
    src1 = src1
    src2 = src2
    other = other
    Txns = {t1, t2}
    Procs = {p1, p2}
    Contents = {clip, cut, src0, src1, src2, other}
    Payload <- SameDocument
    Initial <- Starts
    Outsiders = {}
    MaxFaults = 1
SPECIFICATION Spec
SYMMETRY ProcSymmetry
INVARIANT InterruptedReconciles
CHECK_DEADLOCK FALSE
