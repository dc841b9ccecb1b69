SPECIFICATION FairSpec
CONSTANTS
    bounce = bounce
    unsubscribe = unsubscribe
    home = home
    work = work
    global = global
    None = None
    Mail <- MCMail
    Hooks <- MCHooks
    People <- MCPeople
    EntityOf <- MCEntityOf
    About <- MCAbout
    Says <- MCSays
    HasId <- MCMail
    Pollers = {poll1, poll2}
    Scopes <- MCScopes
    MaxCrashes = 1
    MaxHalts = 1
INVARIANTS ActedOnce 
PROPERTIES  OptOutEnforced
CHECK_DEADLOCK FALSE
