\* An execution cancelled while its stream is being closed.
SPECIFICATION StreamSpec
CONSTANTS
    Sessions = {s1, s2}
    NoSession = NoSession
    MaxConcurrency = 2
    MaxAttempts = 2
CHECK_DEADLOCK FALSE
INVARIANTS
    TakenSlotsAreHeld
