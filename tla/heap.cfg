SPECIFICATION Spec
CONSTANTS
    Size = 108
    Header = 12
    MinSize = 12
    AlignSize = 4
    Requests = {5, 16, 30, 52}
INVARIANTS TypeOK Tiled LowestFree AllocationsHold
