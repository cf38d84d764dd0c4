\* The age limit is a minute and a half: a minute has two ticks.
SPECIFICATION FairSpec
CONSTANTS
    Loop = {g1, g2}
    Instance = {i1, i2}
    OlderThan = 3
    Minute = 2
    MaxClock = 4
    Unborn = Unborn
INVARIANTS TypeOK OneLoopWhileStarted
PROPERTIES LessThanAMinuteEarly StopReturns ExpiredDeleted
CHECK_DEADLOCK FALSE
