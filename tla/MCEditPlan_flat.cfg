SPECIFICATION Spec
CONSTANTS
    Sources <- PlainSources
    Operations <- PlanOperations
    MaxPlan = 3
    TimeLimit = 12
    MotionEffects = {"fade"}
    VisualAssets = {"m2"}
INVARIANTS
    AcceptedPlanExecutes
    ProjectionMatches
    FootageConserved
    ResultTimesInDomain
PROPERTIES
    ReceiptsAccountForChanges
CHECK_DEADLOCK FALSE
