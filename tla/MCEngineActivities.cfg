CONSTANTS
    Workflow = {w1, w2}
    Activity = {a1, a2}
    Approval = {}
    Token = {k1, k2, k3}
    DomainKey = {}
    Version = {1}
    Topic = {t1}
    None = None
    Limit <- OneSlot
    MaxActivation = 2
    MaxStreak = 2
    MaxAttempts = 1
    Runnable = {TRUE, FALSE}
    Transitions = {"activity", "complete"}
    MaxCommands = 1
    MaxDelivered = 2
    Calls = {"start", "cancel", "pause", "resume", "retry"}
    MaxAttemptLimit = 2
SPECIFICATION Spec
SYMMETRY Symmetry
INVARIANTS
    TopicCap
    TypeOK
    LeaseOwnership
    NoOrphanActivity
    AttemptCap
    RevocationSticks
CHECK_DEADLOCK FALSE
