CONSTANTS
    Execution = {e1}
    None = None
    Res = 2
    Lease = 3
    Events = {"revoke", "shutdown", "crash"}
    MaxDelay = 1
SPECIFICATION FairSpec
INVARIANTS
    PolledUnderLease
PROPERTIES
    ReturnKept
    ExecutionEnds
