SPECIFICATION ProtocolsSpec
CONSTANTS
    c1 = c1
    c2 = c2
    c3 = c3
    Callers <- ThreeCallers
    MaxTokens = 2
    s1 = s1
    s2 = s2
    g1 = g1
    Schedules <- TwoSchedules
    Sessions <- OneSession
    NoSession = "none"
    MaxFires = 2
    MaxAttempts = 1
    old = old
    good = good
    bad = bad
    u1 = u1
    Refs <- ThreeRefs
    First = old
    Broken <- OneBroken
    Updates <- OneRequest
    MaxStartAttempts = 2
    MaxDeploys = 2
    MaxFailures = 2
INVARIANTS
    NoStrandedSubscriber
    HighWaterCovers
    IntentOnDisk
PROPERTIES
    ImplementsSingleFlight
    ImplementsFireOutcome
    VerdictIsFinal
    
    ServesAgain
CHECK_DEADLOCK FALSE
