SPECIFICATION Spec
CONSTANTS
    north = north
    south = south
    NoCohort = NoCohort
    Cohorts <- MCCohorts
    Miners = {m1}
    Operators = {o1}
    Classifiers = {w1}
    OneDecider = TRUE
    Replying <- MCReplying
    Outcomes <- MCOutcomes
    Ideas <- MCIdeas
    Plan = 2
    MinSignal = 3
    EvaluateEvery = 2
    MinReplies = 2
    MaxReplies = 4
    MaxProposals = 2
    MaxMonths = 2
INVARIANTS TypeOK   
PROPERTIES TotalRaisedOnlyByOverdraft
