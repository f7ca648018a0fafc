SPECIFICATION ApprovalSpec
CONSTANTS
    MaxMessages = 2
    Tagless = {}
    MaxTries = 2
    Reprompts = 1
    ManyHolds = 2
    MaxDecisions = 2
    MaxMishaps = 2
INVARIANTS
    HeldInOrder
PROPERTIES
    ApprovedGetThrough
    OwnerIsAsked
CHECK_DEADLOCK FALSE
