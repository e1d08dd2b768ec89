\* Two operators reconcile one run.
CONSTANTS
    Null = Null
    Absent = Absent
    Partial = Partial
    r1 = r1
    r2 = r2
    r3 = r3
    c1 = c1
    c2 = c2
    w1 = w1
    w2 = w2
    old = old
    new1 = new1
    new2 = new2
    other = other
    Runs = {r1}
    ClientRuns = {}
    Keys = {}
    Requests = {}
    Contents = {old, new1, new2, other}
    Values <- AllValues
    Procs = {c1, c2, w1, w2}
    Committers = {c1, c2}
    Reconcilers = {w1, w2}
    Prior <- SamePrior
    Candidate <- OwnCandidate
    Outsiders = {}
    MaxFaults = 0
    Ttl = 1
    MaxTime = 2
    MaxRevision = 12
SPECIFICATION Spec
PROPERTIES
    OnlyDeadLocksRemoved
CHECK_DEADLOCK FALSE
