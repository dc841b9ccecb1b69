SPECIFICATION Spec
CONSTANTS
    p1 = p1  p2 = p2  e1 = e1  a1 = a1  a2 = a2
    None = None
    Prospects = {p1, p2}
    Entities = {e1}
    Addresses = {a1, a2}
    EntityOf <- OneEntity
    AddressOf <- OwnAddress
    Steps = 2
    HumanSteps <- NoSteps
    Prompted = TRUE
    ApproveFirst = 0
    ReferralMode = "on_behalf_of"
    AnnualCap = 3
    MaxReplies = 1
    MaxCopies = 1
    MaxRedeliveries = 0
    MaxEvents = 3
INVARIANTS AskedOnce 
CHECK_DEADLOCK FALSE
