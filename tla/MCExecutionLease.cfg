CONSTANTS
    Execution = {e1, e2}
    None = None
    Res = 2
    Lease = 2
    Events = {"revoke"}
    MaxDelay = 1
SPECIFICATION Spec
INVARIANTS
    PolledUnderLease
