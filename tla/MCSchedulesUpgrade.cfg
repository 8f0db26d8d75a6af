CONSTANTS
    Process = {p1, p2}
    Definition <- Upgrades
    Controls = {"deploy", "pause", "run_now", "restart"}
    MaxTime = 4
    MaxRuns = 1
    MAX_GAP_SCAN_SECONDS = 5
    MAX_DUE_OCCURRENCES_PER_TICK = 2
SYMMETRY Symmetry
SPECIFICATION Spec
INVARIANTS
    CursorAhead
    CursorOnCalendar
PROPERTIES
    EveryOccurrenceRecorded
