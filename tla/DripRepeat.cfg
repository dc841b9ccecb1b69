SPECIFICATION Spec
CONSTANTS
    p1 = p1  p2 = p2  e1 = e1  a1 = a1  a2 = a2
    None = None
    Prospects = {p1}
    Entities = {e1}
    Addresses = {a1}
    EntityOf <- OneEntity
    AddressOf <- OwnAddress
    Steps = 3
    HumanSteps <- NoSteps
    Prompted = TRUE
    ApproveFirst = 0
    ReferralMode = "direct"
    AnnualCap = 3
    MaxReplies = 1
    MaxCopies = 2
    MaxRedeliveries = 1
    MaxEvents = 0
INVARIANTS StepOnce
CHECK_DEADLOCK FALSE
