\* Three runs: two from one prior, the third restores what the first replaces.
CONSTANTS
    Null = Null
    Absent = Absent
    Partial = Partial
    r1 = r1
    r2 = r2
    r3 = r3
    c1 = c1
    c2 = c2
    w1 = w1
    w2 = w2
    old = old
    new1 = new1
    new2 = new2
    other = other
    Runs = {r1, r2, r3}
    ClientRuns = {r3}
    Keys = {}
    Requests = {}
    Contents = {old, new1, new2, other}
    Values <- AllValues
    Procs = {c1, c2, w1}
    Committers = {c1, c2}
    Reconcilers = {w1}
    Prior <- UndoPrior
    Candidate <- UndoCandidate
    Outsiders = {}
    MaxFaults = 1
    Ttl = 1
    MaxTime = 1
    MaxRevision = 12
SPECIFICATION Spec
SYMMETRY ProcSymmetry
INVARIANTS
    TypeOK
    OneHolder
    ReceiptMatchesLedger
PROPERTIES
    ImplementsAtomicInstall
CHECK_DEADLOCK FALSE
