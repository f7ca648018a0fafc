SPECIFICATION SafetySpec
CONSTANTS
    r = r
    o = o
    g1 = g1
    g2 = g2
    Schedules <- Both
    OneShot <- OnlyOneShot
    Sessions <- TwoSessions
    NoSession = "none"
    MaxFires = 2
    MaxAttempts = 1
    MaxFaults = 1
SYMMETRY SessionSymmetry
INVARIANTS
    OneOpenPaste
    WaiterHasTurn
    PastedAtMostOnce
PROPERTIES
    SupersededNotPasted
