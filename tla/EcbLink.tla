------------------------------ MODULE EcbLink ------------------------------
(***************************************************************************)
(* Supervision of the power board by the main thread of the X50 server.    *)
(*                                                                         *)
(* When select has waited 200 ms without a byte, ecb_timeout_cb counts: it *)
(* polls the board with GET, often while it does not answer and seldom     *)
(* while it does, and raises error 9 when no HEART has come for            *)
(* MSG_HEART_TIME timeouts.  The attributes ErrorCode (a bit per error)    *)
(* and ErrorCodeShow (one number) are written by three parties: the        *)
(* board's own frames, this watchdog and the gesture module's frames.      *)
(*                                                                         *)
(* The board is external: it may stop at any time, come back, and its own  *)
(* fault may come and go.  `uplink' is what it sent and select will find.  *)
(***************************************************************************)
EXTENDS Integers, Sequences

CONSTANTS
    MSG_GET_SHORT_TIME,       \* timeouts between polls of a lost board: 15
    MSG_GET_LONG_TIME,        \* ... of an answering one: 450
    MSG_HEART_TIME,           \* timeouts without HEART until error 9: 75
    ECB_UART_DISCONNECT_COUNT, \* unanswered polls until disconnected: 4
    BeatEvery,                \* a running board beats within so many timeouts
    BoardFault,               \* an error number of the board itself
    GestureAttached,          \* does the gesture module send errors?
    MaxUplink                 \* bound: frames waiting to be read

ASSUME LinkAssumption ==
    /\ MSG_GET_SHORT_TIME \in Nat /\ MSG_GET_LONG_TIME \in Nat
    /\ MSG_GET_SHORT_TIME < MSG_GET_LONG_TIME
    /\ MSG_HEART_TIME \in Nat \ {0}
    /\ ECB_UART_DISCONNECT_COUNT \in Nat \ {0}
    /\ BeatEvery \in Nat /\ BeatEvery < MSG_HEART_TIME
    /\ BoardFault \in 1 .. 8
    /\ GestureAttached \in BOOLEAN
    /\ MaxUplink \in Nat

VARIABLES
    msg_get_timeout_count, \* polls since the last answer, saturating
    ecb_msg_get_timeout,   \* the poll interval in use
    ecb_msg_get_count,     \* timeouts since the last poll
    ecb_heart_count,       \* timeouts since the last HEART, saturating
    gesture_error_status,  \* did the last gesture frame report its error?
    ErrorCode,             \* attribute 0x0a, 32 bits
    ErrorCodeShow,         \* attribute 0x0b
    board,                 \* "up" or "down"
    fault,                 \* has the board an error of its own?
    get,                   \* is a GET on its way to the board?
    uplink,                \* frames from the board
    quiet,                 \* timeouts since the board beat
    outage,                \* history: did it stop since the last HEART?
    alarms                 \* history: error 9 raised since the last HEART

poll_vars == <<msg_get_timeout_count, ecb_msg_get_timeout, ecb_msg_get_count>>
error_vars == <<gesture_error_status, ErrorCode, ErrorCodeShow>>
board_vars == <<board, fault, uplink, quiet>>
vars == <<msg_get_timeout_count, ecb_msg_get_timeout, ecb_msg_get_count,
          ecb_heart_count, gesture_error_status, ErrorCode, ErrorCodeShow,
          board, fault, get, uplink, quiet, outage, alarms>>

POWER_BOARD_ERROR_CODE == 9
COMMUNICATION_BOARD_ERROR_CODE == 11
GESTURE_ERROR == 20

(***************************************************************************)
(* Error words                                                             *)
(***************************************************************************)
Bit(e) == 2 ^ (e - 1)

\* the four bytes of send_error_to_cloud: the third is taken six bits down
Byte(n) == n % 256
Bytes(code) ==
    2 ^ 24 * Byte(code \div 2 ^ 24) + 2 ^ 16 * Byte(code \div 2 ^ 16)
        + 2 ^ 8 * Byte(code \div 2 ^ 6) + Byte(code)

BoardErrors == IF fault THEN Bit(BoardFault) ELSE 0
BoardShows == IF fault THEN BoardFault ELSE 0

(***************************************************************************)
(* Polling                                                                 *)
(***************************************************************************)
Status ==
    IF msg_get_timeout_count >= ECB_UART_DISCONNECT_COUNT THEN "disconnected"
    ELSE IF msg_get_timeout_count = 0 THEN "connected" ELSE "connecting"

\* ecb_uart_msg_get(true)
CountPoll_Forgotten == msg_get_timeout_count
CountPoll ==
    IF msg_get_timeout_count <= ECB_UART_DISCONNECT_COUNT
    THEN msg_get_timeout_count + 1 ELSE msg_get_timeout_count

Interval_StaysLong ==
    IF Status = "connected" THEN MSG_GET_LONG_TIME ELSE ecb_msg_get_timeout

Interval ==
    IF ecb_msg_get_timeout = MSG_GET_SHORT_TIME /\ Status = "connected"
        THEN MSG_GET_LONG_TIME
    ELSE IF ecb_msg_get_timeout = MSG_GET_LONG_TIME /\ Status = "disconnected"
        THEN MSG_GET_SHORT_TIME
    ELSE ecb_msg_get_timeout

Poll ==
    /\ ecb_msg_get_timeout' = Interval
    /\ IF ecb_msg_get_count + 1 > Interval
       THEN /\ ecb_msg_get_count' = 0
            /\ msg_get_timeout_count' = CountPoll
            /\ get' = TRUE
       ELSE /\ ecb_msg_get_count' = ecb_msg_get_count + 1
            /\ UNCHANGED <<msg_get_timeout_count, get>>

(***************************************************************************)
(* The heart beat                                                          *)
(***************************************************************************)
RaiseError ==
    /\ ErrorCode' = Bytes(Bit(POWER_BOARD_ERROR_CODE))
    /\ ErrorCodeShow' = POWER_BOARD_ERROR_CODE
    /\ alarms' = alarms + 1

WatchHeart_AtEveryTimeout ==
    /\ ecb_heart_count' = IF ecb_heart_count < MSG_HEART_TIME
                          THEN ecb_heart_count + 1 ELSE ecb_heart_count
    /\ IF ecb_heart_count' = MSG_HEART_TIME
       THEN RaiseError ELSE UNCHANGED <<ErrorCode, ErrorCodeShow, alarms>>

WatchHeart_OffByOne ==
    IF ecb_heart_count < MSG_HEART_TIME
    THEN /\ ecb_heart_count' = ecb_heart_count + 1
         /\ IF ecb_heart_count + 1 > MSG_HEART_TIME
            THEN RaiseError ELSE UNCHANGED <<ErrorCode, ErrorCodeShow, alarms>>
    ELSE UNCHANGED <<ecb_heart_count, ErrorCode, ErrorCodeShow, alarms>>

WatchHeart ==
    IF ecb_heart_count < MSG_HEART_TIME
    THEN /\ ecb_heart_count' = ecb_heart_count + 1
         /\ IF ecb_heart_count + 1 = MSG_HEART_TIME
            THEN RaiseError ELSE UNCHANGED <<ErrorCode, ErrorCodeShow, alarms>>
    ELSE UNCHANGED <<ecb_heart_count, ErrorCode, ErrorCodeShow, alarms>>

\* ecb_timeout_cb: only when there is nothing to read, for 200 ms
Timeout ==
    /\ uplink = <<>>
    /\ board = "up" => quiet < BeatEvery /\ ~ get
    /\ Poll
    /\ WatchHeart
    /\ quiet' = IF board = "up" THEN quiet + 1 ELSE quiet
    /\ UNCHANGED <<gesture_error_status, board, fault, uplink, outage>>

(***************************************************************************)
(* Frames from the board: ecb_uart_parse_msg                               *)
(***************************************************************************)
Received(kind) == uplink # <<>> /\ Head(uplink).kind = kind /\ uplink' = Tail(uplink)

ReceiveHeart_Kept ==
    /\ Received("heart")
    /\ outage' = (board = "down") /\ alarms' = 0
    /\ UNCHANGED <<poll_vars, ecb_heart_count, error_vars, board, fault, get, quiet>>

ReceiveHeart ==
    /\ Received("heart")
    /\ ecb_heart_count' = 0
    /\ outage' = (board = "down") /\ alarms' = 0
    /\ UNCHANGED <<poll_vars, error_vars, board, fault, get, quiet>>

\* send_data_to_cloud of the error attributes in an EVENT or a GETACK
TakeErrors ==
    /\ ErrorCode' = Head(uplink).code
    /\ ErrorCodeShow' = Head(uplink).show

ReceiveEvent ==
    /\ Received("event")
    /\ TakeErrors
    /\ UNCHANGED <<poll_vars, ecb_heart_count, gesture_error_status, board,
                   fault, get, quiet, outage, alarms>>

ReceiveGetAck_AnswerOnly ==
    /\ Received("getack")
    /\ msg_get_timeout_count' = 0
    /\ UNCHANGED <<ecb_msg_get_timeout, ecb_msg_get_count, ecb_heart_count,
                   error_vars, board, fault, get, quiet, outage, alarms>>

ReceiveGetAck ==
    /\ Received("getack")
    /\ msg_get_timeout_count' = 0
    /\ TakeErrors
    /\ UNCHANGED <<ecb_msg_get_timeout, ecb_msg_get_count, ecb_heart_count,
                   gesture_error_status, board, fault, get, quiet, outage, alarms>>

(***************************************************************************)
(* Frames from the gesture module.  get_ErrorCode and get_ErrorCodeShow    *)
(* compare the first attribute's key only and return 0.                    *)
(***************************************************************************)
GestureError ==
    /\ GestureAttached
    /\ gesture_error_status' = 1
    /\ ErrorCode' = Bytes(Bit(GESTURE_ERROR))
    /\ ErrorCodeShow' = GESTURE_ERROR
    /\ UNCHANGED <<poll_vars, ecb_heart_count, board_vars, get, outage, alarms>>

GestureFine ==
    /\ GestureAttached
    /\ gesture_error_status = 1
    /\ gesture_error_status' = 0
    /\ ErrorCode' = Bytes(0)
    /\ UNCHANGED <<ErrorCodeShow, poll_vars, ecb_heart_count, board_vars, get,
                   outage, alarms>>

(***************************************************************************)
(* The board                                                               *)
(***************************************************************************)
Report(kind) == [kind |-> kind, code |-> BoardErrors, show |-> BoardShows]

Beat ==
    /\ board = "up" /\ quiet > 0 /\ Len(uplink) < MaxUplink
    /\ \A i \in DOMAIN uplink : uplink[i].kind # "heart"
    /\ uplink' = Append(uplink, [kind |-> "heart"])
    /\ quiet' = 0
    /\ UNCHANGED <<poll_vars, ecb_heart_count, error_vars, board, fault, get,
                   outage, alarms>>

Answer ==
    /\ board = "up" /\ get /\ Len(uplink) < MaxUplink
    /\ get' = FALSE
    /\ uplink' = Append(uplink, Report("getack"))
    /\ UNCHANGED <<poll_vars, ecb_heart_count, error_vars, board, fault, quiet,
                   outage, alarms>>

ChangeFault ==
    /\ board = "up" /\ Len(uplink) < MaxUplink
    /\ fault' = ~ fault
    /\ uplink' = Append(uplink, (Report("event"))')
    /\ UNCHANGED <<poll_vars, ecb_heart_count, error_vars, board, get, quiet,
                   outage, alarms>>

BoardFails ==
    /\ board = "up"
    /\ board' = "down"
    /\ get' = FALSE
    /\ outage' = TRUE
    /\ UNCHANGED <<poll_vars, ecb_heart_count, error_vars, fault, uplink, quiet,
                   alarms>>

\* a GET sent to a stopped board is lost; a restarted one starts beating anew
BoardReturns ==
    /\ board = "down"
    /\ board' = "up"
    /\ get' = FALSE
    /\ quiet' = 0
    /\ UNCHANGED <<poll_vars, ecb_heart_count, error_vars, fault, uplink,
                   outage, alarms>>

Init ==
    /\ msg_get_timeout_count = 1   \* ecb_uart_init polls at once
    /\ ecb_msg_get_timeout = MSG_GET_SHORT_TIME
    /\ ecb_msg_get_count = 0 /\ ecb_heart_count = 0
    /\ gesture_error_status = 0 /\ ErrorCode = 0 /\ ErrorCodeShow = 0
    /\ board \in {"up", "down"} /\ fault = FALSE
    /\ get = (board = "up")
    /\ uplink = <<>> /\ quiet = 0
    /\ outage = (board = "down") /\ alarms = 0

Receive == ReceiveHeart \/ ReceiveEvent \/ ReceiveGetAck
Gesture == GestureError \/ GestureFine
Board == Beat \/ Answer \/ ChangeFault \/ BoardFails \/ BoardReturns

Next == Timeout \/ Receive \/ Gesture \/ Board

Spec == Init /\ [][Next]_vars

(***************************************************************************)
(* What has arrived is read, a running board beats and answers, and select *)
(* times out when the lines have been silent for 200 ms.  Whether they     *)
(* ever are is up to the environment (traffic on the gesture line puts the *)
(* timeout off as well), so that is a premise of the properties.           *)
(***************************************************************************)
Fairness ==
    /\ WF_vars(Receive) /\ SF_vars(Timeout)
    /\ SF_vars(Beat) /\ SF_vars(Answer)

FairSpec == Spec /\ Fairness

(***************************************************************************)
(* Properties                                                              *)
(***************************************************************************)
Frame == [kind : {"heart"}]
            \cup [kind : {"event", "getack"}, code : {0, Bit(BoardFault)},
                  show : {0, BoardFault}]

\* Counters stay in their ranges: both saturate instead of growing.
TypeOK ==
    /\ msg_get_timeout_count \in 0 .. ECB_UART_DISCONNECT_COUNT + 1
    /\ ecb_msg_get_timeout \in {MSG_GET_SHORT_TIME, MSG_GET_LONG_TIME}
    /\ ecb_msg_get_count \in 0 .. MSG_GET_LONG_TIME
    /\ ecb_heart_count \in 0 .. MSG_HEART_TIME
    /\ gesture_error_status \in {0, 1}
    /\ ErrorCode \in Int /\ ErrorCodeShow \in 0 .. 64
    /\ board \in {"up", "down"} /\ fault \in BOOLEAN /\ get \in BOOLEAN
    /\ uplink \in Seq(Frame) /\ quiet \in 0 .. BeatEvery
    /\ outage \in BOOLEAN /\ alarms \in Nat

\* Error 9 is raised only if the board really stopped since its last HEART,
\* whatever EVENT, GETACK and gesture frames are handled in between.
NoFalseAlarm == [][alarms' > alarms => outage]_vars

\* ... and once, however long it stays away.
OneAlarmPerOutage == alarms <= 1

\* A board that is taken for disconnected is polled at the short interval, and
\* never waits for the rest of a long one.
LostBoardPolledOften ==
    Status = "disconnected" => ecb_msg_get_count <= MSG_GET_SHORT_TIME

LinesFallSilent == []<>(uplink = <<>>)

\* A board that stays away is reported ...
OutageReported ==
    LinesFallSilent => ((board = "down") ~> (alarms = 1 \/ board = "up"))

\* ... and taken for disconnected, and one that is there for connected.
StatusFollows ==
    LinesFallSilent =>
        /\ (board = "down") ~> (Status = "disconnected" \/ board = "up")
        /\ (board = "up") ~> (Status = "connected" \/ board = "down")

\* Once the board stays, its fault does not change and the gesture module has
\* no error, the error attributes come to show the board's errors and nothing
\* else: the polls, seldom as they are, clear what watchdog and gesture raised.
ErrorsSettle ==
    \A f \in BOOLEAN :
        LinesFallSilent /\ <>[](board = "up" /\ fault = f /\ gesture_error_status = 0)
            => <>[](ErrorCode = BoardErrors /\ ErrorCodeShow = BoardShows)
=============================================================================
