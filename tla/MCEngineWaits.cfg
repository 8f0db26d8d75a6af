CONSTANTS
    Workflow = {w1}
    Activity = {a1}
    Approval = {p1}
    Token = {k1, k2}
    DomainKey = {}
    Version = {1}
    Topic = {t1}
    None = None
    Limit <- OneSlot
    MaxActivation = 2
    MaxStreak = 2
    MaxAttempts = 2
    Runnable = {TRUE}
    Transitions = {"activity", "sleep", "approval", "continue", "complete", "fail"}
    MaxCommands = 2
    MaxDelivered = 3
    Calls = {"start", "cancel", "pause", "resume", "resolve"}
    MaxAttemptLimit = 3
SPECIFICATION FairSpec
INVARIANTS
    OneDeliverableEvent
    PendingApprovalAwaited
    SnapshotCurrent
PROPERTIES
    RunsEnd
    RevocationsSettle
CHECK_DEADLOCK FALSE
