SPECIFICATION Spec
CONSTANTS
    Timers = {t1, t2, t3}
    NoTimer = NoTimer
    TickMax = 7
    InitTicks = {1, 2}
SYMMETRY TimerSymmetry
INVARIANTS TypeOK ActiveIsLinked Sorted
PROPERTIES FiresOnTime
