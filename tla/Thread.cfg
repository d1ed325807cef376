CONSTANTS
    x = x
    y = y
    Never = Never
    Nobody = Nobody
    Alerts = {x, y}
    Keep = 3
    Limit = 1
    Interval = 2
    Gap = 1
    MaxLag = 2
    MaxBroken = 1
SPECIFICATION FairThreadSpec
INVARIANTS OneLateRepeat
PROPERTIES RepeatsSpaced RepeatedWhileArmed
