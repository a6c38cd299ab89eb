-------------------------- MODULE AttributesProofs --------------------------
(***************************************************************************)
(* Proofs about Attributes for any values, changes and losses: the table   *)
(* keeps up with the board, and the end of cooking is pushed by one of the *)
(* two threads that may have to.                                           *)
(***************************************************************************)
EXTENDS Attributes, SequenceTheorems, TLAPS

BoardOK ==
    /\ board \in Values /\ uart \in Seq(Values) /\ get \in BOOLEAN
    /\ changes \in 0..MaxChanges /\ losses \in 0..MaxLosses

HandsOK ==
    /\ table \in Values /\ screen \in Values
    /\ main \in {Idle} \cup [at : {"store", "post", "event"}, v : Values]
    /\ uds \in Values \cup {NoValue}

CloudOK ==
    /\ shadow \in Values /\ net \in Values \cup {NoValue}
    /\ cloud \in {Idle} \cup [at : {"post"}, v : Values]
                 \cup [at : {"collect"}, v : {NoValue}]
    /\ link \in BOOLEAN /\ cloud_connected \in BOOLEAN /\ download \in BOOLEAN
    /\ pushed \in BOOLEAN /\ excused \in BOOLEAN

Types == BoardOK /\ HandsOK /\ CloudOK

\* Together they are the type invariant.
LEMMA TypeParts == TypeOK <=> Types
  BY DEF TypeOK, Types, BoardOK, HandsOK, CloudOK

LEMMA TypeInit == Init => Types
<1> SUFFICES ASSUME Init PROVE Types
  OBVIOUS
<1>1. <<>> \in Seq(Values) /\ 0 \in 0..MaxChanges /\ 0 \in 0..MaxLosses
  BY AttrAssumption DEF AttrAssumption
<1>2. BoardOK
  BY <1>1 DEF Init, BoardOK
<1>3. HandsOK /\ CloudOK
  BY AttrAssumption DEF AttrAssumption, Init, HandsOK, CloudOK
<1> QED
  BY <1>2, <1>3 DEF Types

\* Reports of the board.
LEMMA BoardStep == Types /\ [Next]_vars => BoardOK'
<1> SUFFICES ASSUME BoardOK, [Next]_vars PROVE BoardOK'
  BY DEF Types
<1> USE AttrAssumption DEF AttrAssumption, BoardOK
<1>1. \A v \in Values : Append(uart, v) \in Seq(Values)
  BY AppendProperties
<1>2. uart # <<>> => Tail(uart) \in Seq(Values)
  BY HeadTailProperties
<1>3. ASSUME NEW v \in Values, BoardChanges(v) PROVE BoardOK'
  BY <1>1, <1>3 DEF BoardChanges
<1>4. CASE AnswerGet
  BY <1>1, <1>4 DEF AnswerGet
<1>5. CASE LoseFrame
  <2>1. losses' \in 0..MaxLosses
    BY <1>5 DEF LoseFrame
  <2>2. uart' \in Seq(Values) /\ get' \in BOOLEAN
    BY <1>2, <1>5 DEF LoseFrame
  <2> QED
    BY <1>5, <2>1, <2>2 DEF LoseFrame
<1>6. CASE TakeReport
  BY <1>2, <1>6 DEF TakeReport
<1>7. CASE Poll
  BY <1>7 DEF Poll
<1>8. CASE \/ StoreValue \/ PostValue \/ SendEvent \/ ReadForScreen \/ AnswerScreen
           \/ Connected \/ CollectAll \/ PostAll \/ Disconnected
           \/ LinkUp \/ LinkDown \/ CloudReceives \/ Download \/ UNCHANGED vars
  <2>1. UNCHANGED board_vars
    BY <1>8 DEF StoreValue, PostValue, SendEvent, ReadForScreen, AnswerScreen,
       Connected, CollectAll, PostAll, Disconnected, LinkUp, LinkDown, CloudReceives,
       Download, board_vars, vars
  <2> QED
    BY <2>1 DEF board_vars
<1> QED
  BY <1>3, <1>4, <1>5, <1>6, <1>7, <1>8 DEF Next, Main, Cloud

\* What the threads have in hand.
LEMMA HandsStep == Types /\ [Next]_vars => HandsOK'
<1> SUFFICES ASSUME BoardOK, HandsOK, [Next]_vars PROVE HandsOK'
  BY DEF Types
<1>1. CASE TakeReport
  <2>1. Head(uart) \in Values
    BY <1>1, HeadTailProperties DEF TakeReport, BoardOK
  <2> QED
    BY <1>1, <2>1 DEF TakeReport, HandsOK
<1>2. CASE StoreValue \/ PostValue \/ SendEvent
  <2>1. main \in [at : {"store", "post", "event"}, v : Values]
    BY <1>2 DEF StoreValue, PostValue, SendEvent, HandsOK, Idle
  <2> QED
    BY <1>2, <2>1 DEF StoreValue, PostValue, SendEvent, HandsOK
<1>3. CASE ReadForScreen \/ AnswerScreen
  BY <1>3 DEF ReadForScreen, AnswerScreen, HandsOK
<1>4. CASE \/ (\E v \in Values : BoardChanges(v)) \/ AnswerGet \/ LoseFrame \/ Poll
           \/ Connected \/ CollectAll \/ PostAll \/ Disconnected
           \/ LinkUp \/ LinkDown \/ CloudReceives \/ Download \/ UNCHANGED vars
  <2>1. UNCHANGED <<table, screen, main, uds>>
    BY <1>4 DEF BoardChanges, AnswerGet, LoseFrame, Poll, Connected, CollectAll,
       PostAll, Disconnected, LinkUp, LinkDown, CloudReceives, Download, vars
  <2> QED
    BY <2>1 DEF HandsOK
<1> QED
  BY <1>1, <1>2, <1>3, <1>4 DEF Next, Main, Cloud

\* The connection, its thread and what was pushed.
LEMMA CloudStep == Types /\ [Next]_vars => CloudOK'
<1> SUFFICES ASSUME HandsOK, CloudOK, [Next]_vars PROVE CloudOK'
  BY DEF Types
<1> USE DEF CloudOK
<1>0. MayPost \in BOOLEAN /\ (excused \/ main.at = "store") \in BOOLEAN
      /\ (pushed \/ MayPost) \in BOOLEAN /\ (excused \/ download) \in BOOLEAN
  BY DEF MayPost
<1>1. CASE TakeReport
  <2>1. pushed' \in BOOLEAN /\ excused' \in BOOLEAN
    BY <1>0, <1>1 DEF TakeReport, history
  <2>2. UNCHANGED cloud_vars /\ UNCHANGED download
    BY <1>1 DEF TakeReport
  <2> QED
    BY <2>1, <2>2 DEF cloud_vars
<1>2. CASE PostValue
  <2>1. main.v \in Values
    BY <1>2 DEF PostValue, HandsOK, Idle
  <2> QED
    BY <1>2, <2>1 DEF PostValue, Post, history
<1>3. CASE PostAll
  <2>1. cloud.v \in Values
    BY <1>3 DEF PostAll, Idle
  <2> QED
    BY <1>3, <2>1 DEF PostAll, Post, history
<1>4. CASE Connected
  <2>1. cloud' = [at |-> "collect", v |-> NoValue] /\ cloud_connected' = TRUE
        /\ UNCHANGED <<shadow, net, link, download, pushed>>
    BY <1>4 DEF Connected
  <2>2. excused' \in BOOLEAN
    BY <1>0, <1>4 DEF Connected
  <2> QED
    BY <2>1, <2>2
<1>5. CASE CollectAll
  <2>1. table \in Values
    BY DEF HandsOK
  <2>2. pushed' \in BOOLEAN /\ excused' \in BOOLEAN
    BY <1>0, <1>5 DEF CollectAll, history
  <2>3. cloud' = [at |-> "post", v |-> table]
        /\ UNCHANGED <<shadow, net, link, cloud_connected, download>>
    BY <1>5 DEF CollectAll
  <2> QED
    BY <2>1, <2>2, <2>3
<1>6. CASE Disconnected \/ LinkUp \/ LinkDown \/ CloudReceives \/ Download
  <2>1. UNCHANGED cloud \/ cloud' = Idle
    BY <1>6 DEF Disconnected, LinkUp, LinkDown, CloudReceives, Download, cloud_vars
  <2>2. shadow' \in Values /\ net' \in Values \cup {NoValue}
    BY <1>6 DEF Disconnected, LinkUp, LinkDown, CloudReceives, Download, cloud_vars
  <2>3. link' \in BOOLEAN /\ cloud_connected' \in BOOLEAN /\ download' \in BOOLEAN
        /\ pushed' \in BOOLEAN /\ excused' \in BOOLEAN
    BY <1>6, Zenon
       DEF Disconnected, LinkUp, LinkDown, CloudReceives, Download, cloud_vars, history
  <2> QED
    BY <2>1, <2>2, <2>3
<1>7. CASE \/ (\E v \in Values : BoardChanges(v)) \/ AnswerGet \/ LoseFrame \/ Poll
           \/ StoreValue \/ SendEvent \/ ReadForScreen \/ AnswerScreen \/ UNCHANGED vars
  <2>1. UNCHANGED <<link, cloud_connected, cloud, net, shadow, download, pushed, excused>>
    BY <1>7 DEF BoardChanges, AnswerGet, LoseFrame, Poll, StoreValue, SendEvent,
       ReadForScreen, AnswerScreen, cloud_vars, history, vars
  <2> QED
    BY <2>1
<1> QED
  BY <1>1, <1>2, <1>3, <1>4, <1>5, <1>6, <1>7 DEF Next, Main, Cloud

\* A thread has a value of the attribute in hand while it is under way with it.
THEOREM TypeCorrect == Spec => []TypeOK
<1>1. Types /\ [Next]_vars => Types'
  BY BoardStep, HandsStep, CloudStep DEF Types
<1> QED
  BY <1>1, TypeInit, TypeParts, PTL DEF Spec

-----------------------------------------------------------------------------
(***************************************************************************)
(* Board and table                                                         *)
(***************************************************************************)
\* The newest value is the last on the line, else the main thread has it, else
\* the table has it.
NewestInv ==
    losses = 0 =>
        /\ uart # <<>> => uart[Len(uart)] = board
        /\ uart = <<>> /\ main.at = "store" => main.v = board
        /\ uart = <<>> /\ ~ get /\ main.at # "store" => table = board

LEMMA NewestStep == Types /\ NewestInv /\ [Next]_vars => NewestInv'
<1> SUFFICES ASSUME BoardOK, HandsOK, NewestInv, [Next]_vars PROVE NewestInv'
  BY DEF Types
<1> USE DEF NewestInv, BoardOK
<1>1. ASSUME NEW v \in Values
      PROVE  Append(uart, v) # <<>> /\ Append(uart, v)[Len(Append(uart, v))] = v
  BY AppendProperties, EmptySeq DEF BoardOK
<1>2. ASSUME NEW v \in Values, BoardChanges(v) PROVE NewestInv'
  BY <1>1, <1>2 DEF BoardChanges
<1>3. CASE AnswerGet
  BY <1>1, <1>3 DEF AnswerGet
<1>4. CASE LoseFrame
  <2>1. losses' # 0
    BY <1>4, AttrAssumption DEF LoseFrame, AttrAssumption
  <2> QED
    BY <2>1
<1>5. CASE TakeReport
  <2>1. main'.at = "store" /\ main'.v = uart[1]
    BY <1>5 DEF TakeReport
  <2>2. uart' = Tail(uart) /\ UNCHANGED <<losses, board>>
    BY <1>5 DEF TakeReport
  <2>3. /\ Len(uart) \in Nat \ {0}
        /\ Tail(uart) \in Seq(Values) /\ Len(Tail(uart)) = Len(uart) - 1
        /\ \A i \in 1..Len(Tail(uart)) : Tail(uart)[i] = uart[i+1]
    BY <1>5, HeadTailProperties, EmptySeq DEF TakeReport
  <2>4. CASE Tail(uart) = <<>>
    <3>1. Len(uart) = 1
      BY <2>3, <2>4
    <3> QED
      BY <1>5, <2>1, <2>2, <2>4, <3>1 DEF TakeReport
  <2>5. CASE Tail(uart) # <<>>
    <3>1. Len(Tail(uart)) \in 1..Len(Tail(uart))
      BY <2>3, <2>5, EmptySeq
    <3>2. Tail(uart)[Len(Tail(uart))] = uart[Len(uart)]
      BY <2>3, <3>1
    <3> QED
      BY <1>5, <2>2, <2>5, <3>2 DEF TakeReport
  <2> QED
    BY <2>4, <2>5
<1>6. CASE StoreValue
  <2>1. UNCHANGED <<uart, losses, board, get>> /\ table' = main.v
    BY <1>6 DEF StoreValue, board_vars
  <2>2. main'.at = "post" /\ main.at = "store"
    BY <1>6 DEF StoreValue, HandsOK, Idle
  <2> QED
    BY <2>1, <2>2
<1>7. CASE PostValue \/ SendEvent
  <2>1. UNCHANGED <<uart, losses, board, get, table>>
    BY <1>7 DEF PostValue, SendEvent, board_vars
  <2>2. main'.at # "store" /\ main.at # "store"
    BY <1>7 DEF PostValue, SendEvent, HandsOK, Idle
  <2> QED
    BY <2>1, <2>2
<1>8. CASE Poll
  BY <1>8 DEF Poll
<1>9. CASE \/ ReadForScreen \/ AnswerScreen
           \/ Connected \/ CollectAll \/ PostAll \/ Disconnected
           \/ LinkUp \/ LinkDown \/ CloudReceives \/ Download \/ UNCHANGED vars
  <2>1. UNCHANGED <<uart, losses, board, get, table, main>>
    BY <1>9 DEF ReadForScreen, AnswerScreen, Connected, CollectAll, PostAll,
       Disconnected, LinkUp, LinkDown, CloudReceives, Download, board_vars, vars
  <2> QED
    BY <2>1
<1> QED
  BY <1>2, <1>3, <1>4, <1>5, <1>6, <1>7, <1>8, <1>9 DEF Next, Main, Cloud

\* The table keeps up with the board, whatever the threads have in hand
\* (cloud_platform_task.c:475).
THEOREM TableCorrect == Spec => []TableFollowsBoard
<1>1. Init => NewestInv
  BY DEF Init, NewestInv, Idle
<1>2. Types /\ NewestInv /\ [Next]_vars => Types' /\ NewestInv'
  BY BoardStep, HandsStep, CloudStep, NewestStep DEF Types
<1>3. NewestInv => TableFollowsBoard
  BY DEF NewestInv, TableFollowsBoard
<1> QED
  BY <1>1, <1>2, <1>3, TypeInit, PTL DEF Spec

-----------------------------------------------------------------------------
(***************************************************************************)
(* The event at the end of cooking                                         *)
(***************************************************************************)
\* An event that nobody pushed waits for a connection or for the thread that has
\* just made one.
PushInv ==
    ~ excused /\ ~ pushed =>
        /\ table = Finished => ~ cloud_connected \/ cloud.at = "collect"
        /\ main.at = "store" /\ main.v = Finished /\ table # Finished
           => ~ cloud_connected

LEMMA PushStep == Types /\ PushInv /\ [Next]_vars => PushInv'
<1> SUFFICES ASSUME HandsOK, CloudOK, PushInv, [Next]_vars PROVE PushInv'
  BY DEF Types
<1> USE DEF PushInv
<1>1. CASE TakeReport
  <2>1. main' = [at |-> "store", v |-> Head(uart)]
        /\ UNCHANGED <<table, cloud_connected, cloud, download>>
    BY <1>1 DEF TakeReport, cloud_vars
  <2>2. CASE Head(uart) = Finished /\ table # Finished
    BY <1>1, <2>1, <2>2 DEF TakeReport, MayPost, CloudOK
  <2>3. CASE ~ (Head(uart) = Finished /\ table # Finished)
    BY <1>1, <2>1, <2>3 DEF TakeReport, history
  <2> QED
    BY <2>2, <2>3
<1>2. CASE StoreValue
  BY <1>2 DEF StoreValue, HandsOK, Idle, cloud_vars, history
<1>3. CASE PostValue \/ SendEvent
  BY <1>3 DEF PostValue, SendEvent, HandsOK, Idle, cloud_vars, history
<1>4. CASE Connected
  BY <1>4 DEF Connected
<1>5. CASE CollectAll
  BY <1>5 DEF CollectAll, MayPost, CloudOK, history
<1>6. CASE PostAll
  BY <1>6 DEF PostAll, history
<1>7. CASE Disconnected
  BY <1>7 DEF Disconnected, history
<1>8. CASE \/ (\E v \in Values : BoardChanges(v)) \/ AnswerGet \/ LoseFrame \/ Poll
           \/ ReadForScreen \/ AnswerScreen
           \/ LinkUp \/ LinkDown \/ CloudReceives \/ Download \/ UNCHANGED vars
  <2>1. UNCHANGED <<table, main, cloud_connected, cloud, pushed, excused>>
    BY <1>8 DEF BoardChanges, AnswerGet, LoseFrame, Poll, ReadForScreen,
       AnswerScreen, LinkUp, LinkDown, CloudReceives, Download, cloud_vars,
       history, vars
  <2> QED
    BY <2>1
<1> QED
  BY <1>1, <1>2, <1>3, <1>4, <1>5, <1>6, <1>7, <1>8 DEF Next, Main, Cloud

\* The end of cooking is pushed by the main thread or by the cloud's
\* (cloud_platform_task.c:188, :508).
THEOREM PushCorrect == Spec => []PushedWhenDone
<1>1. Init => PushInv
  BY AttrAssumption DEF Init, PushInv, Idle, AttrAssumption
<1>2. Types /\ PushInv /\ [Next]_vars => Types' /\ PushInv'
  BY BoardStep, HandsStep, CloudStep, PushStep DEF Types
<1>3. PushInv => PushedWhenDone
  BY DEF PushInv, PushedWhenDone, Idle
<1> QED
  BY <1>1, <1>2, <1>3, TypeInit, PTL DEF Spec
=============================================================================
