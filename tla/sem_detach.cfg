SPECIFICATION DetachSpec
CONSTANTS
    idle = idle
    main = main
    a = a
    Thread <- MCThread
    Idle = idle
    Main = main
    Priorities = 3
    InitPrio <- MCInitPrio
    Slice = 1
    WaitList = {s}
    Calls = {"startup"}
    Delays = {}
    MaxNest = 0
    ValueMax = 1
    Times = {1}
    Forever = Forever
INVARIANT FindsSuspendedThread
