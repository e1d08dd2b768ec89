\* One run approved on the command line, every caller, the whole life, two keys.
CONSTANTS
    Runs = {r1}
    ClientRuns = {}
    Keys = {k1, k2}
    Requests = {q1}
    Values = {a, b}
    Null = Null
    r1 = r1
    a = a
    b = b
    k1 = k1
    k2 = k2
    q1 = q1
    Ttl = 1
    MaxTime = 4
    MaxRevision = 11
SPECIFICATION LedgerSpec
SYMMETRY ValueAndKeySymmetry
INVARIANTS
    LedgerTypeOK
    RowMatchesChain
    VerifierAccepts
    DecisionExplainsState
    OneRunPerKey
PROPERTIES
    TerminalIsFinal
    FollowsStateMachine
    ExpiryHonoured
CHECK_DEADLOCK FALSE
