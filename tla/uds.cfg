SPECIFICATION FairSpec
CONSTANTS
    MaxConns = 3
    Fds = {1, 2, 3}
    BACKLOG = 1
    MaxUnread = 1
INVARIANTS
    TablesAgree
    NeverBlocksInRecv
PROPERTIES
    EventReachesServed
    EndedAreReleased
    RequestsRead
