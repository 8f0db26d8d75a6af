CONSTANTS
    Worker = {"coordinator"}
    Topic = {t1}
    local_topic_limit <- TwoPerTopic
    Execution = {1, 2, 3}
    Stubborn = {2}
    MaxGeneration = 2
    MaxFailures = 3
SPECIFICATION FairSpec
INVARIANTS
    LocalCapacity
    NoLostChange
    NoClaimRefused
    DrainedBeforeReturn
    FailuresReported
PROPERTIES
    RuntimeStops
    ShutdownEnds
CHECK_DEADLOCK FALSE
