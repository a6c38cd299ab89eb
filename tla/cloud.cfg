SPECIFICATION FairSpec
CONSTANTS
    OtherStates = {"connectfailed"}
    MaxRequests = 2
INVARIANTS
    RequestKept
    NeverStranded
PROPERTIES
    CarriedOut
    ShownSettles
