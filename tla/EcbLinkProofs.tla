--------------------------- MODULE EcbLinkProofs ---------------------------
(***************************************************************************)
(* Proofs about EcbLink for any intervals, thresholds and board faults:    *)
(* error 9 is raised for outages only, and once for each; a lost board is  *)
(* polled often.                                                           *)
(***************************************************************************)
EXTENDS EcbLink, SequenceTheorems, TLAPS

\* The error words are numbers.
LEMMA WordsAreNumbers ==
    /\ Bytes(Bit(POWER_BOARD_ERROR_CODE)) \in Int
    /\ Bytes(Bit(GESTURE_ERROR)) \in Int
    /\ Bytes(0) \in Int
    /\ Bit(BoardFault) \in Int
<1>1. \A n \in Int : Byte(n) \in Int
  BY DEF Byte
<1>2. 2 ^ 24 \in Nat \ {0} /\ 2 ^ 16 \in Nat \ {0} /\ 2 ^ 8 \in Nat /\ 2 ^ 6 \in Nat \ {0}
  OBVIOUS
<1>3. \A n \in Int : Bytes(n) \in Int
  BY <1>1, <1>2 DEF Bytes
<1>4. \A e \in 1 .. 24 : Bit(e) \in Int
  BY DEF Bit
<1> QED
  BY <1>3, <1>4, LinkAssumption
     DEF LinkAssumption, POWER_BOARD_ERROR_CODE, GESTURE_ERROR

-----------------------------------------------------------------------------
(***************************************************************************)
(* Types                                                                   *)
(***************************************************************************)
CountersOK ==
    /\ msg_get_timeout_count \in 0 .. ECB_UART_DISCONNECT_COUNT + 1
    /\ ecb_msg_get_timeout \in {MSG_GET_SHORT_TIME, MSG_GET_LONG_TIME}
    /\ ecb_msg_get_count \in 0 .. MSG_GET_LONG_TIME
    /\ ecb_heart_count \in 0 .. MSG_HEART_TIME
    /\ get \in BOOLEAN /\ alarms \in Nat

ErrorsOK ==
    /\ gesture_error_status \in {0, 1}
    /\ ErrorCode \in Int /\ ErrorCodeShow \in 0 .. 64

BoardOK ==
    /\ board \in {"up", "down"} /\ fault \in BOOLEAN
    /\ uplink \in Seq(Frame) /\ quiet \in 0 .. BeatEvery
    /\ outage \in BOOLEAN

Types == CountersOK /\ ErrorsOK /\ BoardOK

\* Together they are the type invariant.
LEMMA TypeParts == TypeOK <=> Types
  BY DEF TypeOK, Types, CountersOK, ErrorsOK, BoardOK

LEMMA TypeInit == Init => Types
<1> SUFFICES ASSUME Init PROVE Types
  OBVIOUS
<1> USE LinkAssumption DEF LinkAssumption
<1>1. get \in BOOLEAN /\ outage \in BOOLEAN /\ fault \in BOOLEAN
  BY Zenon DEF Init
<1>2. CountersOK
  BY <1>1 DEF CountersOK, Init
<1>3. ErrorsOK
  BY DEF ErrorsOK, Init
<1>4. <<>> \in Seq(Frame) /\ 0 \in 0 .. BeatEvery
  OBVIOUS
<1>5. BoardOK
  BY <1>1, <1>4 DEF BoardOK, Init
<1> QED
  BY <1>2, <1>3, <1>5 DEF Types

\* The watchdog and the polls of one timeout.
LEMMA TimeoutTypes == Types /\ Timeout => Types'
<1> SUFFICES ASSUME Types, Timeout PROVE Types'
  OBVIOUS
<1> USE LinkAssumption DEF LinkAssumption, Types
<1>1. Interval \in {MSG_GET_SHORT_TIME, MSG_GET_LONG_TIME}
  BY DEF Interval, CountersOK
<1>2. CountPoll \in 0 .. ECB_UART_DISCONNECT_COUNT + 1
  BY DEF CountPoll, CountersOK
<1>3. ecb_msg_get_timeout' \in {MSG_GET_SHORT_TIME, MSG_GET_LONG_TIME}
  BY <1>1 DEF Timeout, Poll
<1>4. /\ ecb_msg_get_count' \in 0 .. MSG_GET_LONG_TIME
      /\ msg_get_timeout_count' \in 0 .. ECB_UART_DISCONNECT_COUNT + 1
      /\ get' \in BOOLEAN
  <2> USE DEF CountersOK
  <2>1. CASE ecb_msg_get_count + 1 > Interval
    BY <1>2, <2>1 DEF Timeout, Poll
  <2>2. CASE ~ (ecb_msg_get_count + 1 > Interval)
    <3>1. /\ ecb_msg_get_count' = ecb_msg_get_count + 1
          /\ UNCHANGED <<msg_get_timeout_count, get>>
      BY <2>2 DEF Timeout, Poll
    <3> QED
      BY <1>1, <2>2, <3>1
  <2> QED
    BY <2>1, <2>2
<1>5. ecb_heart_count' \in 0 .. MSG_HEART_TIME /\ alarms' \in Nat
  BY DEF Timeout, WatchHeart, RaiseError, CountersOK
<1>6. ErrorsOK'
  <2>1. CASE RaiseError
    BY <2>1, WordsAreNumbers DEF Timeout, RaiseError, ErrorsOK, POWER_BOARD_ERROR_CODE
  <2>2. CASE UNCHANGED <<ErrorCode, ErrorCodeShow>>
    BY <2>2 DEF Timeout, ErrorsOK
  <2> QED
    BY <2>1, <2>2 DEF Timeout, WatchHeart
<1>7. BoardOK'
  <2>1. quiet' \in 0 .. BeatEvery
    BY DEF Timeout, BoardOK
  <2> QED
    BY <2>1 DEF Timeout, BoardOK
<1> QED
  BY <1>3, <1>4, <1>5, <1>6, <1>7 DEF CountersOK

LEMMA TypeStep == Types /\ [Next]_vars => Types'
<1> SUFFICES ASSUME Types, [Next]_vars PROVE Types'
  OBVIOUS
<1> USE LinkAssumption DEF LinkAssumption, Types
<1>1. CASE Timeout
  BY <1>1, TimeoutTypes
<1>2. CASE Receive
  <2>1. /\ uplink' = Tail(uplink) /\ Head(uplink) \in Frame
        /\ uplink' \in Seq(Frame)
    BY <1>2, HeadTailProperties
       DEF Receive, ReceiveHeart, ReceiveEvent, ReceiveGetAck, Received, BoardOK
  <2>2. CASE ReceiveHeart
    <3>1. outage' \in BOOLEAN
      BY <2>2, Zenon DEF ReceiveHeart
    <3>2. CountersOK' /\ ErrorsOK'
      BY <2>2 DEF ReceiveHeart, poll_vars, error_vars, CountersOK, ErrorsOK
    <3>3. BoardOK'
      BY <2>1, <2>2, <3>1 DEF ReceiveHeart, BoardOK
    <3> QED
      BY <3>2, <3>3
  <2>3. CASE ReceiveEvent \/ ReceiveGetAck
    <3>1. Head(uplink).kind \in {"event", "getack"}
      BY <2>3 DEF ReceiveEvent, ReceiveGetAck, Received
    <3>2. /\ Head(uplink).code \in {0, Bit(BoardFault)}
          /\ Head(uplink).show \in {0, BoardFault}
      BY <2>1, <3>1 DEF Frame
    <3>3. ErrorCode' \in Int /\ ErrorCodeShow' \in 0 .. 64
      BY <2>3, <3>2, WordsAreNumbers DEF ReceiveEvent, ReceiveGetAck, TakeErrors
    <3>4. CountersOK'
      BY <2>3 DEF ReceiveEvent, ReceiveGetAck, poll_vars, CountersOK
    <3>5. ErrorsOK'
      BY <2>3, <3>3 DEF ReceiveEvent, ReceiveGetAck, ErrorsOK
    <3>6. BoardOK'
      BY <2>1, <2>3 DEF ReceiveEvent, ReceiveGetAck, BoardOK
    <3> QED
      BY <3>4, <3>5, <3>6
  <2> QED
    BY <1>2, <2>2, <2>3 DEF Receive
<1>3. CASE Gesture
  <2>1. ErrorsOK'
    BY <1>3, WordsAreNumbers DEF Gesture, GestureError, GestureFine, GESTURE_ERROR,
       ErrorsOK
  <2>2. CountersOK' /\ BoardOK'
    BY <1>3 DEF Gesture, GestureError, GestureFine, poll_vars, board_vars,
       CountersOK, BoardOK
  <2> QED
    BY <2>1, <2>2
<1>4. CASE Board
  <2>1. [kind |-> "heart"] \in Frame
    BY DEF Frame
  <2>2. /\ Report("getack") \in Frame
        /\ (Report("event"))' \in Frame
    BY DEF Report, Frame, BoardErrors, BoardShows
  <2>3. \A f \in Frame : Append(uplink, f) \in Seq(Frame)
    BY AppendProperties DEF BoardOK
  <2>4. uplink' \in Seq(Frame)
    BY <1>4, <2>1, <2>2, <2>3 DEF Board, Beat, Answer, ChangeFault, BoardFails,
       BoardReturns, BoardOK
  <2>5. CountersOK' /\ ErrorsOK'
    BY <1>4 DEF Board, Beat, Answer, ChangeFault, BoardFails,
       BoardReturns, CountersOK, ErrorsOK, poll_vars, error_vars
  <2>6. fault' \in BOOLEAN /\ outage' \in BOOLEAN
    BY <1>4 DEF Board, Beat, Answer, ChangeFault, BoardFails, BoardReturns, BoardOK
  <2>7. board' \in {"up", "down"} /\ quiet' \in 0 .. BeatEvery
    BY <1>4 DEF Board, Beat, Answer, ChangeFault, BoardFails, BoardReturns, BoardOK
  <2> QED
    BY <2>4, <2>5, <2>6, <2>7 DEF BoardOK
<1>5. CASE UNCHANGED vars
  BY <1>5 DEF vars, CountersOK, ErrorsOK, BoardOK
<1> QED
  BY <1>1, <1>2, <1>3, <1>4, <1>5 DEF Next

\* Counters saturate and error words are numbers (ecb_uart_parse_msg.c:34).
THEOREM TypeCorrect == Spec => []TypeOK
<1> QED
  BY TypeInit, TypeStep, TypeParts, PTL DEF Spec

-----------------------------------------------------------------------------
(***************************************************************************)
(* Alarms                                                                  *)
(***************************************************************************)
\* No alarm yet while the watchdog still counts.
AlarmsInv == OneAlarmPerOutage /\ (ecb_heart_count < MSG_HEART_TIME => alarms = 0)

\* Error 9 comes once, however long the board stays away (ecb_uart.c:198).
THEOREM AlarmedOnce == Spec => []OneAlarmPerOutage
<1> USE LinkAssumption DEF LinkAssumption
<1>1. Init => AlarmsInv
  BY DEF Init, AlarmsInv, OneAlarmPerOutage
<1>2. TypeOK /\ AlarmsInv /\ [Next]_vars => AlarmsInv'
  <2> SUFFICES ASSUME TypeOK, AlarmsInv, [Next]_vars PROVE AlarmsInv'
    OBVIOUS
  <2>1. CASE Timeout
    BY <2>1 DEF Timeout, WatchHeart, RaiseError, AlarmsInv, OneAlarmPerOutage, TypeOK
  <2>2. CASE ReceiveHeart
    BY <2>2 DEF ReceiveHeart, AlarmsInv, OneAlarmPerOutage
  <2>3. ASSUME ~ Timeout, ~ ReceiveHeart PROVE UNCHANGED <<ecb_heart_count, alarms>>
    BY <2>3 DEF Next, Receive, ReceiveEvent, ReceiveGetAck, Gesture, GestureError,
       GestureFine, Board, Beat, Answer, ChangeFault, BoardFails, BoardReturns, vars
  <2>4. CASE UNCHANGED <<ecb_heart_count, alarms>>
    BY <2>4 DEF AlarmsInv, OneAlarmPerOutage
  <2> QED
    BY <2>1, <2>2, <2>3, <2>4
<1>3. AlarmsInv => OneAlarmPerOutage
  BY DEF AlarmsInv
<1> QED
  BY <1>1, <1>2, <1>3, TypeCorrect, PTL DEF Spec

\* No HEART waits to be read.
NoHeart == \A i \in 1 .. Len(uplink) : uplink[i].kind # "heart"

\* While the board has not stopped since its last HEART, the watchdog is behind
\* the board's own silence, or at worst at BeatEvery when a HEART waits.
HeartInv ==
    /\ board = "down" => outage
    /\ ~ outage => ecb_heart_count <= BeatEvery
    /\ ~ outage /\ NoHeart => ecb_heart_count <= quiet

LEMMA HeartInit == Init => HeartInv
<1> SUFFICES ASSUME Init PROVE HeartInv
  OBVIOUS
<1>1. outage <=> board = "down"
  BY Zenon DEF Init
<1> QED
  BY <1>1, LinkAssumption DEF LinkAssumption, Init, HeartInv

\* What is taken from the front, or added behind, leaves the others.
LEMMA HeartLine ==
    ASSUME TypeOK
    PROVE  /\ uplink # <<>> /\ uplink' = Tail(uplink) /\ Head(uplink).kind # "heart"
                => (NoHeart' => NoHeart)
           /\ \A f \in Frame : uplink' = Append(uplink, f) => (NoHeart' => NoHeart)
<1>0. uplink \in Seq(Frame) /\ Len(uplink) \in Nat
  BY DEF TypeOK
<1>1. ASSUME uplink # <<>>, uplink' = Tail(uplink), Head(uplink).kind # "heart", NoHeart'
      PROVE  NoHeart
  <2> SUFFICES ASSUME NEW i \in 1 .. Len(uplink) PROVE uplink[i].kind # "heart"
    BY DEF NoHeart
  <2>1. Head(uplink) = uplink[1] /\ Len(uplink') = Len(uplink) - 1
        /\ \A k \in 1 .. Len(uplink') : uplink'[k] = uplink[k + 1]
    BY <1>0, <1>1, HeadTailProperties
  <2>2. CASE i = 1
    BY <1>1, <2>1, <2>2
  <2>3. CASE i # 1
    <3>1. i - 1 \in 1 .. Len(uplink') /\ uplink'[i - 1] = uplink[(i - 1) + 1]
      BY <1>0, <2>1, <2>3
    <3> QED
      BY <1>1, <3>1 DEF NoHeart
  <2> QED
    BY <2>2, <2>3
<1>2. ASSUME NEW f \in Frame, uplink' = Append(uplink, f), NoHeart'
      PROVE  NoHeart
  <2>1. Len(uplink') = Len(uplink) + 1
        /\ \A i \in 1 .. Len(uplink) : uplink'[i] = uplink[i]
    BY <1>0, <1>2, AppendProperties
  <2> QED
    BY <1>0, <1>2, <2>1 DEF NoHeart
<1> QED
  BY <1>1, <1>2

LEMMA HeartStep == TypeOK /\ TypeOK' /\ HeartInv /\ [Next]_vars => HeartInv'
<1> SUFFICES ASSUME TypeOK, TypeOK', HeartInv, [Next]_vars PROVE HeartInv'
  OBVIOUS
<1> USE LinkAssumption DEF LinkAssumption
<1>1. CASE Timeout
  <2>1. NoHeart /\ UNCHANGED <<board, outage, uplink>>
    BY <1>1 DEF Timeout, NoHeart
  <2>2. ecb_heart_count' <= ecb_heart_count + 1
    BY <1>1 DEF Timeout, WatchHeart, TypeOK
  <2>3. ASSUME ~ outage PROVE ecb_heart_count <= quiet /\ quiet' = quiet + 1
    BY <1>1, <2>1, <2>3 DEF Timeout, HeartInv, TypeOK
  <2> QED
    BY <2>1, <2>2, <2>3 DEF HeartInv, TypeOK
<1>2. CASE ReceiveHeart
  BY <1>2 DEF ReceiveHeart, HeartInv, TypeOK
<1>3. CASE ReceiveEvent \/ ReceiveGetAck
  <2>1. NoHeart' => NoHeart
    BY <1>3, HeartLine DEF ReceiveEvent, ReceiveGetAck, Received
  <2> QED
    BY <1>3, <2>1 DEF ReceiveEvent, ReceiveGetAck, HeartInv
<1>4. CASE Beat
  <2>1. ~ NoHeart'
    <3>1. Len(uplink') = Len(uplink) + 1 /\ Len(uplink) \in Nat
          /\ uplink'[Len(uplink) + 1] = [kind |-> "heart"]
      BY <1>4, AppendProperties DEF Beat, TypeOK
    <3> QED
      BY <3>1 DEF NoHeart
  <2> QED
    BY <1>4, <2>1 DEF Beat, HeartInv
<1>5. CASE Answer \/ ChangeFault
  <2>1. PICK f \in Frame : uplink' = Append(uplink, f)
    <3>1. Report("getack") \in Frame /\ (Report("event"))' \in Frame
      BY DEF Report, Frame, BoardErrors, BoardShows
    <3> QED
      BY <1>5, <3>1 DEF Answer, ChangeFault
  <2>2. NoHeart' => NoHeart
    BY <2>1, HeartLine
  <2> QED
    BY <1>5, <2>2 DEF Answer, ChangeFault, HeartInv
<1>6. CASE BoardFails \/ BoardReturns
  BY <1>6 DEF BoardFails, BoardReturns, HeartInv, TypeOK
<1>7. CASE Gesture \/ UNCHANGED vars
  <2>1. UNCHANGED <<board, outage, uplink, quiet, ecb_heart_count>>
    BY <1>7 DEF Gesture, GestureError, GestureFine, board_vars, vars
  <2> QED
    BY <2>1 DEF HeartInv, NoHeart
<1> QED
  BY <1>1, <1>2, <1>3, <1>4, <1>5, <1>6, <1>7 DEF Next, Receive, Board

\* Error 9 is raised only for an outage (ecb_uart.c:196).
THEOREM AlarmsAreTrue == Spec => NoFalseAlarm
<1> USE LinkAssumption DEF LinkAssumption
<1>1. TypeOK /\ HeartInv /\ [Next]_vars => [alarms' > alarms => outage]_vars
  <2> SUFFICES ASSUME TypeOK, HeartInv, [Next]_vars, alarms' > alarms PROVE outage
    OBVIOUS
  <2>1. CASE Timeout
    <3>1. NoHeart
      BY <2>1 DEF Timeout, NoHeart
    <3>2. ecb_heart_count + 1 = MSG_HEART_TIME
      BY <2>1 DEF Timeout, WatchHeart, TypeOK
    <3>3. ASSUME ~ outage PROVE ecb_heart_count <= quiet /\ quiet < BeatEvery
      BY <2>1, <3>1, <3>3 DEF Timeout, HeartInv, TypeOK
    <3> QED
      BY <3>2, <3>3 DEF TypeOK
  <2>2. CASE ReceiveHeart
    BY <2>2 DEF ReceiveHeart, TypeOK
  <2>3. ASSUME ~ Timeout, ~ ReceiveHeart PROVE alarms' = alarms
    BY <2>3 DEF Next, Receive, ReceiveEvent, ReceiveGetAck, Gesture, GestureError,
       GestureFine, Board, Beat, Answer, ChangeFault, BoardFails, BoardReturns, vars
  <2> QED
    BY <2>1, <2>2, <2>3 DEF TypeOK
<1> QED
  BY <1>1, HeartInit, HeartStep, TypeCorrect, PTL DEF Spec, NoFalseAlarm

-----------------------------------------------------------------------------
(***************************************************************************)
(* Polling                                                                 *)
(***************************************************************************)
\* A lost board is polled at the short interval, and the count of a long one
\* never runs on when the board gets lost (ecb_uart.c:181).
THEOREM LostIsPolledOften == Spec => []LostBoardPolledOften
<1> USE LinkAssumption DEF LinkAssumption
<1>1. Init => LostBoardPolledOften
  BY DEF Init, LostBoardPolledOften
<1>2. TypeOK /\ LostBoardPolledOften /\ [Next]_vars => LostBoardPolledOften'
  <2> SUFFICES ASSUME TypeOK, LostBoardPolledOften, [Next]_vars
               PROVE  LostBoardPolledOften'
    OBVIOUS
  <2>1. CASE Timeout
    <3>1. CASE ecb_msg_get_count + 1 > Interval
      BY <2>1, <3>1 DEF Timeout, Poll, LostBoardPolledOften
    <3>2. CASE ~ (ecb_msg_get_count + 1 > Interval)
      <4>1. ecb_msg_get_count' = ecb_msg_get_count + 1
            /\ msg_get_timeout_count' = msg_get_timeout_count
        BY <2>1, <3>2 DEF Timeout, Poll
      <4>2. Status' = Status
        BY <4>1 DEF Status
      <4>3. Status = "disconnected" => Interval = MSG_GET_SHORT_TIME
        BY DEF Interval, TypeOK
      <4> QED
        BY <3>2, <4>1, <4>2, <4>3 DEF LostBoardPolledOften, TypeOK
    <3> QED
      BY <3>1, <3>2
  <2>2. CASE ReceiveGetAck
    BY <2>2 DEF ReceiveGetAck, LostBoardPolledOften, Status
  <2>3. ASSUME ~ Timeout, ~ ReceiveGetAck
        PROVE  UNCHANGED <<msg_get_timeout_count, ecb_msg_get_count>>
    BY <2>3 DEF Next, Receive, ReceiveEvent, ReceiveHeart, Gesture, GestureError,
       GestureFine, Board, Beat, Answer, ChangeFault, BoardFails, BoardReturns,
       poll_vars, vars
  <2>4. CASE UNCHANGED <<msg_get_timeout_count, ecb_msg_get_count>>
    BY <2>4 DEF LostBoardPolledOften, Status
  <2> QED
    BY <2>1, <2>2, <2>3, <2>4
<1> QED
  BY <1>1, <1>2, TypeCorrect, PTL DEF Spec
=============================================================================
