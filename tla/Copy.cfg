SPECIFICATION Spec
CONSTANTS
    p1 = p1
    p2 = p2
    r1 = r1
    None = None
    Kinds = {bounce}
    Variants = {v1, v2}
    MinTrials = 1
    Per <- MCPer
    PriorFailures = 1
    Prospects <- MCProspects
    Replies = {r1}
    Briefs = {b1}
    OfReply <- MCOfReply
    Workers = {w1, w2}
    Tries <- MCTries
    ApproveFirst = 1
    PerCohort = 5
    MaxAttempts = 2
    MaxFailures = 1
    MaxMarks = 2
    MaxRepeats = 1
    MaxAudits = 1
SYMMETRY Symmetry
INVARIANTS UnpausedBreachIsYoung  RampExact
PROPERTIES PausedOnlyDrains
CHECK_DEADLOCK FALSE
