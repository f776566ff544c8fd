SPECIFICATION UnguardedSpec
CONSTANTS
    idle = idle
    main = main
    a = a
    Thread <- MCThread
    Idle = idle
    Main = main
    Priorities = 3
    InitPrio <- MCInitPrio
    Slice = 2
    WaitList = {}
    Calls = {"startup", "sleep"}
    Delays = {1}
    MaxNest = 0
INVARIANT DeletedIsOffTheQueues
