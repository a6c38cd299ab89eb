SPECIFICATION FairSpec
CONSTANTS
    BASE = 10
    H = 9
    T = 8
    BUF = 22
    MAX_DATA = 22
    Frames <- BoardFrames
    MaxWaiting = 12
    MaxNoise = 1
INVARIANTS
    StreamKept
    HandedOnAtOnce
    FullOnlyForLongFrame
PROPERTIES
    Recovers
