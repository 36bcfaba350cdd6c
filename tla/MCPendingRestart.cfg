\* One generation after the first, for a process that cannot restart itself.
SPECIFICATION AdminSpec
CONSTANTS
    Providers = {p1, p2}
    Unlisted = {p2}
    Testers = {t1}
    LastPublished = 2
CHECK_DEADLOCK FALSE
INVARIANTS
    RestartPrecedesPublication
