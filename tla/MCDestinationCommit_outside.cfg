\* Another program writes, installs or deletes the destination at any moment.
CONSTANTS
    Null = Null
    Absent = Absent
    Partial = Partial
    r1 = r1
    r2 = r2
    r3 = r3
    c1 = c1
    c2 = c2
    w1 = w1
    w2 = w2
    old = old
    new1 = new1
    new2 = new2
    other = other
    Runs = {r1}
    ClientRuns = {}
    Keys = {}
    Requests = {}
    Contents = {old, new1, new2, other}
    Values <- AllValues
    Procs = {c1, c2, w1}
    Committers = {c1, c2}
    Reconcilers = {w1}
    Prior <- SamePrior
    Candidate <- OwnCandidate
    Outsiders = {other, new1, Absent}
    MaxFaults = 2
    Ttl = 1
    MaxTime = 2
    MaxRevision = 12
SPECIFICATION FairSpec
INVARIANTS
    CommittedKeepsPrior
PROPERTIES
    MutationNeedsIntent
    UnobstructedCommitResolves
CHECK_DEADLOCK FALSE
