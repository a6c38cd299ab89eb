SPECIFICATION FairSpec
CONSTANTS
    MSG_GET_SHORT_TIME = 2
    MSG_GET_LONG_TIME = 5
    MSG_HEART_TIME = 3
    ECB_UART_DISCONNECT_COUNT = 2
    BeatEvery = 2
    BoardFault = 3
    GestureAttached = TRUE
    MaxUplink = 2
INVARIANTS
    OneAlarmPerOutage
    LostBoardPolledOften
PROPERTIES
    NoFalseAlarm
    OutageReported
    StatusFollows
    ErrorsSettle
