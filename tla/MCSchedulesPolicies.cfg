CONSTANTS
    Process = {p1}
    Definition <- Policies
    Controls = {"run_now", "restart", "pause"}
    MaxTime = 5
    MaxRuns = 1
    MAX_GAP_SCAN_SECONDS = 5
    MAX_DUE_OCCURRENCES_PER_TICK = 2
SPECIFICATION Spec
INVARIANTS
    ChunksAgree
PROPERTIES
    OverlapPolicyKept
