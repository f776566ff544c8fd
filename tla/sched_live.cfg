SPECIFICATION FairSpec
CONSTANTS
    idle = idle
    main = main
    a = a
    b = b
    Thread <- MCThread4
    Idle = idle
    Main = main
    Priorities = 3
    InitPrio <- MCInitPrio4
    Slice = 1
    WaitList = {}
    Calls <- LiveCalls
    Delays = {1}
    MaxNest = 1
PROPERTIES RoundRobin SleepEnds
