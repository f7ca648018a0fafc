SPECIFICATION LiveSpec
CONSTANTS
    r = r
    o = o
    g1 = g1
    g2 = g2
    Schedules <- OnlyRecurring
    OneShot <- None
    Sessions <- OneSession
    NoSession = "none"
    MaxFires = 2
    MaxAttempts = 1
    MaxFaults = 1
PROPERTIES
    LaneReleased
    OwedSettles
