CONSTANTS
    restart_backoff = 1
    max_restart_backoff = 3
    task_healthy_after = 2
    max_task_restarts = 1
    restart_window = 4
    max_transient_outage = 3
    None = None
    MaxTime = 14
SPECIFICATION Spec
INVARIANTS
    BudgetMatchesFaults
    OutageStopExact
CHECK_DEADLOCK FALSE
