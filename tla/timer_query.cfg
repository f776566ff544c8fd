SPECIFICATION QuerySpec
CONSTANTS
    Timers = {t1, t2}
    NoTimer = NoTimer
    TickMax = 7
    InitTicks = {1, 2}
INVARIANT StateAnswered
