SPECIFICATION Spec
CONSTANTS
    opener = opener
    followup = followup
    rival = rival
    reply = reply
    ann = ann
    bob = bob
    entity = entity
    cohort = cohort
    box1 = box1
    w1 = w1
    w2 = w2
    None = None
    TenantRow = TenantRow
    Touches <- DripTouches
    Prospects <- MCProspects
    Entities <- MCEntities
    Cohorts <- MCCohorts
    Mailboxes <- MCMailboxes
    Workers <- MCWorkers
    ProspectOf <- DripProspectOf
    EntityOf <- MCEntityOf
    CohortOf <- MCCohortOf
    Kind <- DripKind
    Step <- DripStep
    Steps = 2
    Invalid = {}
    Unverified = {}
    TenantCap = 3
    CohortCap <- MCCohortCap
    BoxCap <- DripBoxCap
    AnnualCap = 2
    MaxAttempts = 1
    MaxReaps = 1
    MaxCrashes = 1
    MaxIncidents = 1
SYMMETRY Symmetry
INVARIANTS TypeOK  
PROPERTIES GateFourHoldsAtCommit
CHECK_DEADLOCK FALSE
