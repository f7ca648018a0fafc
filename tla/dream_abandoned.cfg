SPECIFICATION DurableSpec
CONSTANTS
    d1 = d1
    d2 = d2
    Runners <- OneRunner
    Nobody = Nobody
    Cap = 2
    MaxNights = 1
    MaxMessages = 1
    MaxFaults = 1
    general = general
    ops = ops
    p1 = p1
    p2 = p2
    Channels <- TwoChannels
    ChannelOf <- EventChannels
    Overlap = 0
    Pollers <- TwoPollers
    NoEvent = NoEvent
    MaxPolicies = 2
    MaxUpsets = 1
    MaxIncidents = 3
    MaxUpdates = 2
    BotPollers <- TwoBotPollers
    MaxInstalls = 1
    MaxOutages = 1
INVARIANT
    RetryDuplicatesNothing
CHECK_DEADLOCK FALSE
