SPECIFICATION FairSpec
CONSTANTS
    Values = {0, 4}
    Finished = 4
    Zero = 0
    NoValue = NoValue
    MaxChanges = 2
    MaxLosses = 1
    MaxQueue = 2
INVARIANTS
    TableFollowsBoard
    PushedWhenDone
PROPERTIES
    Converges
