SPECIFICATION MutexSpec
CONSTANTS
    idle = idle
    main = main
    a = a
    b = b
    Thread <- MCThread
    Idle = idle
    Main = main
    Priorities = 4
    InitPrio <- MCInitPrio
    Slice = 1
    WaitList = {m}
    Calls = {"startup", "sleep"}
    Delays = {1}
    MaxNest = 0
    HoldMax = 2
    NoThread = NoThread
    Times = {1}
    Forever = Forever
INVARIANTS MutexTypeOK ListsConsistent HighestRuns HolderIsOwner WaitersHaveOwner PriorityInherited PriorityRestored
PROPERTIES HandsToMostUrgent
