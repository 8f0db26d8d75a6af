CONSTANTS
    Program <- CatchAll
    MaxActivation = 2
    None = None
SPECIFICATION Spec
INVARIANTS
    FailsClosed
CHECK_DEADLOCK FALSE
