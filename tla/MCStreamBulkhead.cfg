\* The same streams on a bulkhead of two slots for two executions.
SPECIFICATION CalmSpec
CONSTANTS
    Sessions = {s1, s2}
    NoSession = NoSession
    MaxConcurrency = 2
    MaxAttempts = 2
CHECK_DEADLOCK FALSE
PROPERTIES
    InterruptedSlotReleased
