SPECIFICATION FairSpec
CONSTANTS
    opener = opener
    followup = followup
    rival = rival
    reply = reply
    ann = ann
    bob = bob
    entity = entity
    cohort = cohort
    box1 = box1
    w1 = w1
    w2 = w2
    None = None
    TenantRow = TenantRow
    Touches <- ReplyTouches
    Prospects <- MCProspects
    Entities <- MCEntities
    Cohorts <- MCCohorts
    Mailboxes <- MCMailboxes
    Workers <- MCWorkers
    ProspectOf <- ReplyProspectOf
    EntityOf <- MCEntityOf
    CohortOf <- MCCohortOf
    Kind <- ReplyKind
    Step <- ReplyStep
    Steps = 2
    Invalid = {}
    Unverified = {}
    TenantCap = 1
    CohortCap <- MCCohortCap
    BoxCap <- ReplyBoxCap
    AnnualCap = 2
    MaxAttempts = 1
    MaxReaps = 1
    MaxCrashes = 0
    MaxIncidents = 1
INVARIANTS  BudgetConserved HaltLagBounded
  
CHECK_DEADLOCK FALSE
