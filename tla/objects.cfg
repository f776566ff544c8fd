SPECIFICATION ObjectsSpec
CONSTANTS
    idle = idle
    main = main
    a = a
    Thread <- MCThread
    Idle = idle
    Main = main
    Priorities = 3
    InitPrio <- MCInitPrio
    Slice = 1
    Receivers = receivers
    Senders = senders
    WaitList = {receivers, senders}
    Calls = {"startup"}
    Delays = {}
    MaxNest = 0
    Times = {1}
    Forever = Forever
    Handler = handler
    Kinds = {"mailbox", "queue", "event", "pool", "completion", "serial"}
    Flags = {"prio"}
    Message = {m1, m2}
    Nothing = nothing
    Capacity = 2
    EntryMax = 2
    EventBit = {e1, e2}
    Blocks = 2
    Pool = pool
    Char = {c1, c2}
    BufSz = 3
    RxValueMax = 1
SYMMETRY MCSymmetry
INVARIANTS ObjectsTypeOK CellsAccounted NoMissedEvent BlocksAccounted DoneSeen InputSeen WaitersServed
PROPERTIES EventReported ImplementsQueue RestShrinks InputOrdered
