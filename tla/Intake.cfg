SPECIFICATION FairSpec
CONSTANTS
    registry = registry
    website = website
    listing = listing
    npi = npi
    mailA = mailA
    cohortA = cohortA
    cohortB = cohortB
    None = None
    Cohorts <- MCCohorts
    Triggered = {cohortB}
    Candidates <- MCCandidates
    Returns <- MCReturns
    Keys <- MCKeys
    Addresses = {mailA}
    KeysOf <- MCKeysOf
    EmailOf <- MCEmailOf
    Finds <- MCFinds
    Denied = {}
    Discoverers = {d1}
    Workers = {w1}
    ForgetAlone = TRUE
    MaxEntities = 2
    MaxPages = 3
    MaxForgets = 1
INVARIANTS NothingKeptOfForgotten KeysAccounted
PROPERTIES FollowsLifecycle IntakeSettles
CHECK_DEADLOCK FALSE
