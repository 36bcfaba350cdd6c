\* Two laps in flight with one key, which answers 429 to one and 503 to the other.
SPECIFICATION PoolSpec
CONSTANTS
    KeyCount = 2
    Laps = {l1, l2}
    PerKeyRpm = 3
    Headroom = 1
    Window = 2
    Cooldown = 3
    OverloadCooldown = 1
    Beat = 1
    MaxTime = 4
CHECK_DEADLOCK FALSE
PROPERTIES
    CooldownIsFlat
