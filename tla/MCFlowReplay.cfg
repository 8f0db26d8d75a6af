CONSTANTS
    Program <- UpToThree
    MaxActivation = 2
    None = None
SPECIFICATION FairSpec
INVARIANTS
    JournalIsHistory
    ReplayExact
PROPERTIES
    EventsSettle
CHECK_DEADLOCK FALSE
