CONSTANTS
    Workflow = {w1, w2, w3}
    Activity = {a1}
    Approval = {}
    Token = {k1}
    DomainKey = {d1}
    Version = {1, 2}
    Topic = {t1}
    None = None
    Limit <- OneSlot
    MaxActivation = 1
    MaxStreak = 2
    MaxAttempts = 1
    Runnable = {FALSE}
    Transitions = {"child", "activity", "complete"}
    MaxCommands = 1
    MaxDelivered = 2
    Calls = {"start", "recover", "cancel", "restart", "pause", "resume"}
    MaxAttemptLimit = 3
SPECIFICATION Spec
SYMMETRY LineageSymmetry
INVARIANTS
    WaitCoupling
    LinearLineage
    NoAncestorWait
    OneDeliverableEvent
PROPERTIES
    CancelReachesOwned
    DeliveredOnce
CHECK_DEADLOCK FALSE
