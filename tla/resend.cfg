SPECIFICATION FairSpec
CONSTANTS
    Requests <- TwoRequests
    Threads <- BothThreads
    Main = "main"
    SenderOf <- Senders2
    RESEND_CNT = 1
    SEQ_SPACE = 8
    MaxLosses = 1
    MaxPolls = 1
    NoThread = NoThread
    NoRequest = NoRequest
INVARIANTS
    CountsAddUp
    AnsweredWasReceived
    OlderOnlyByResend
PROPERTIES
    ImplementsDelivery
    ListDrains
    Delivered
