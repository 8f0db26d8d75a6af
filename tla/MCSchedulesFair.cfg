CONSTANTS
    Process = {p1, p2}
    Definition <- UpgradeLater
    Controls = {"run_now"}
    MaxTime = 2
    MaxRuns = 1
    MAX_GAP_SCAN_SECONDS = 5
    MAX_DUE_OCCURRENCES_PER_TICK = 1
SPECIFICATION FairSpec
PROPERTIES
    BacklogWorkedOff
    QueuedStarts
