SPECIFICATION Spec
CONSTANTS
    idle = idle
    main = main
    a = a
    b = b
    Thread <- MCThread
    Idle = idle
    Main = main
    Priorities = 3
    InitPrio <- MCInitPrio
    Slice = 1
    WaitList = {}
    Calls <- AllCalls
    Delays = {1}
    MaxNest = 1
INVARIANTS TypeOK ListsConsistent HighestRuns
PROPERTIES LockHolds FreedIsUnused

