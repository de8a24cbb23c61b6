SPECIFICATION HSpec
CONSTANTS
    s1 = s1
    t1 = t1
    t2 = t2
    t3 = t3
    a1 = a1
    a2 = a2
    a3 = a3
    Source = {s1}
    Target <- MCTarget
    Checks <- MCController
    Attempt <- MCThree
    SourceLimit = 3
    TargetLimit = 2
    MaxEntries = 2
    Window = 2
    InitialBackoff = 1
    MaxBackoff = 2
    Recovery = 2
    CleanupPeriod = 1
    Exponential = TRUE
    MaxTime = 5
    MaxGeneration = 1
SYMMETRY Alike
INVARIANTS
    ReservationsExact
    BudgetKept
    CooldownQuiet
PROPERTIES
    CooldownKept
    EscalationKept
    ClearedForgotten
CHECK_DEADLOCK FALSE
