----------------------------- MODULE Attributes -----------------------------
(***************************************************************************)
(* One attribute of the stove as the power board, the attribute table, the *)
(* screen and the cloud see it.                                            *)
(*                                                                         *)
(* send_data_to_cloud, on the main thread, takes a value from a frame of   *)
(* the board: it pushes an event when cooking has finished, stores the     *)
(* value in the table, posts it to the cloud and sends it to the screen.   *)
(* The uds thread answers GET and GETALL from the table, and the cloud's   *)
(* thread posts the whole table at each connection.  Neither takes a lock  *)
(* the main thread takes, and each has the value in hand while the others  *)
(* go on.  Posts are dropped, not delayed, without a connection and during *)
(* a download of firmware.                                                 *)
(*                                                                         *)
(* The board is external: it reports every change and answers every GET.   *)
(* So are the line, which may lose a frame, the cloud, the SDK's           *)
(* connection and the downloads (OtaUpdate shows that they end).           *)
(***************************************************************************)
EXTENDS Naturals, Sequences

CONSTANTS
    Values,      \* of the attribute
    Finished,    \* the value of LStOvState that is pushed: 4
    Zero,        \* what the table is filled with at the start
    NoValue,     \* nothing in hand or under way
    MaxChanges,  \* bound: changes at the board
    MaxLosses,   \* bound: frames lost on the serial line
    MaxQueue     \* bound: frames of the board under way

ASSUME AttrAssumption ==
    /\ Finished \in Values /\ Zero \in Values /\ Finished # Zero
    /\ NoValue \notin Values
    /\ MaxChanges \in Nat /\ MaxLosses \in Nat /\ MaxQueue \in Nat \ {0}

VARIABLES
    board,      \* the value at the board
    changes,    \* how often it changed
    uart,       \* values in EVENT and GETACK frames not handled yet
    get,        \* is a GET on its way?
    losses,     \* frames lost
    table,      \* attr->value
    main,       \* where send_data_to_cloud is, and the value it took
    screen,     \* what the screen shows
    uds,        \* the value read for a GET that is not answered yet
    link,       \* is the connection to the cloud up?
    cloud_connected, \* ... as the handlers of linkkit_solo.c have it
    cloud,      \* where the cloud's thread is, and the value it took
    net,        \* the latest post on its way to the cloud: they arrive in order
    shadow,     \* what the cloud has
    download,   \* is g_ota_state DOWNLOAD_START?
    pushed,     \* history: was the event pushed since the table has Finished?
    excused     \* history: why it may not have been

board_vars == <<board, changes, uart, get, losses>>
cloud_vars == <<link, cloud_connected, cloud, net, shadow>>
history == <<pushed, excused>>
vars == <<board, changes, uart, get, losses, table, main, screen, uds, link,
          cloud_connected, cloud, net, shadow, download, pushed, excused>>

Idle == [at |-> "idle", v |-> NoValue]

Init ==
    /\ board \in Values /\ changes = 0
    /\ uart = <<>> /\ get = TRUE /\ losses = 0
    /\ table = Zero /\ screen = Zero /\ shadow = Zero
    /\ main = Idle /\ cloud = Idle /\ uds = NoValue
    /\ link = FALSE /\ cloud_connected = FALSE /\ net = NoValue
    /\ download = FALSE
    /\ pushed = FALSE /\ excused = FALSE

(***************************************************************************)
(* The board and the line                                                  *)
(***************************************************************************)
BoardChanges(v) ==
    /\ changes < MaxChanges /\ v # board /\ Len(uart) < MaxQueue
    /\ board' = v /\ changes' = changes + 1
    /\ uart' = Append(uart, v)
    /\ UNCHANGED <<get, losses, table, main, screen, uds, cloud_vars, download,
                   history>>

AnswerGet ==
    /\ get /\ Len(uart) < MaxQueue
    /\ get' = FALSE
    /\ uart' = Append(uart, board)
    /\ UNCHANGED <<board, changes, losses, table, main, screen, uds, cloud_vars,
                   download, history>>

LoseFrame ==
    /\ losses < MaxLosses /\ losses' = losses + 1
    /\ \/ get /\ get' = FALSE /\ UNCHANGED uart
       \/ uart # <<>> /\ uart' = Tail(uart) /\ UNCHANGED get
    /\ UNCHANGED <<board, changes, table, main, screen, uds, cloud_vars,
                   download, history>>

(***************************************************************************)
(* linkkit_user_post_property and linkkit_user_post_event, on any thread   *)
(***************************************************************************)
MayPost == cloud_connected /\ ~ download

Post(v) ==
    net' = IF MayPost /\ link THEN v ELSE net

(***************************************************************************)
(* Main thread: send_data_to_cloud                                         *)
(***************************************************************************)
\* nothing to say when the value is the old one
TakeReport_OnlyChanges ==
    /\ main = Idle /\ uart # <<>>
    /\ uart' = Tail(uart)
    /\ main' = IF Head(uart) = table THEN Idle
                                     ELSE [at |-> "store", v |-> Head(uart)]
    /\ IF Head(uart) = Finished /\ table # Finished
       THEN pushed' = MayPost /\ excused' = download
       ELSE UNCHANGED history
    /\ UNCHANGED <<board, changes, get, losses, table, screen, uds, cloud_vars,
                   download>>

\* get_attr_report_event compares with the value before
TakeReport ==
    /\ main = Idle /\ uart # <<>>
    /\ uart' = Tail(uart)
    /\ main' = [at |-> "store", v |-> Head(uart)]
    /\ IF Head(uart) = Finished /\ table # Finished
       THEN pushed' = MayPost /\ excused' = download
       ELSE UNCHANGED history
    /\ UNCHANGED <<board, changes, get, losses, table, screen, uds, cloud_vars,
                   download>>

\* an attribute that the cloud cannot have is left alone
StoreValue_Connected ==
    /\ main.at = "store"
    /\ table' = IF MayPost THEN main.v ELSE table
    /\ main' = [main EXCEPT !.at = "post"]
    /\ UNCHANGED <<board_vars, screen, uds, cloud_vars, download, history>>

StoreValue ==
    /\ main.at = "store"
    /\ table' = main.v
    /\ main' = [main EXCEPT !.at = "post"]
    /\ UNCHANGED <<board_vars, screen, uds, cloud_vars, download, history>>

PostValue ==
    /\ main.at = "post"
    /\ Post(main.v)
    /\ main' = [main EXCEPT !.at = "event"]
    /\ UNCHANGED <<board_vars, table, screen, uds, link, cloud_connected, cloud,
                   shadow, download, history>>

SendEvent ==
    /\ main.at = "event"
    /\ screen' = main.v
    /\ main' = Idle
    /\ UNCHANGED <<board_vars, table, uds, cloud_vars, download, history>>

\* the timeout of select, when the polling interval is over
Poll ==
    /\ main = Idle /\ ~ get
    /\ get' = TRUE
    /\ UNCHANGED <<board, changes, uart, losses, table, main, screen, uds,
                   cloud_vars, download, history>>

(***************************************************************************)
(* uds thread: cloud_resp_get, cloud_resp_getall, uds_event_all            *)
(***************************************************************************)
ReadForScreen ==
    /\ uds = NoValue
    /\ uds' = table
    /\ UNCHANGED <<board_vars, table, main, screen, cloud_vars, download, history>>

AnswerScreen ==
    /\ uds # NoValue
    /\ screen' = uds
    /\ uds' = NoValue
    /\ UNCHANGED <<board_vars, table, main, cloud_vars, download, history>>

(***************************************************************************)
(* Cloud thread: connection, user_connected_event_handler and              *)
(* user_disconnected_event_handler                                         *)
(***************************************************************************)
LinkUp ==
    /\ ~ link /\ ~ cloud_connected /\ cloud = Idle
    /\ link' = TRUE
    /\ UNCHANGED <<board_vars, table, main, screen, uds, cloud_connected, cloud,
                   net, shadow, download, history>>

\* if the main thread has just decided that it cannot push, nobody will
Connected ==
    /\ link /\ ~ cloud_connected /\ cloud = Idle
    /\ cloud_connected' = TRUE
    /\ cloud' = [at |-> "collect", v |-> NoValue]
    /\ excused' = (excused \/ main.at = "store")
    /\ UNCHANGED <<board_vars, table, main, screen, uds, link, net, shadow,
                   download, pushed>>

\* send_all_to_cloud: events first, with event_all set
CollectAll_NoEvents ==
    /\ cloud.at = "collect"
    /\ cloud' = [at |-> "post", v |-> table]
    /\ UNCHANGED <<board_vars, table, main, screen, uds, link, cloud_connected,
                   net, shadow, download, history>>

CollectAll ==
    /\ cloud.at = "collect"
    /\ cloud' = [at |-> "post", v |-> table]
    /\ IF table = Finished
       THEN pushed' = (pushed \/ MayPost) /\ excused' = (excused \/ download)
       ELSE UNCHANGED history
    /\ UNCHANGED <<board_vars, table, main, screen, uds, link, cloud_connected,
                   net, shadow, download>>

PostAll ==
    /\ cloud.at = "post"
    /\ Post(cloud.v)
    /\ cloud' = Idle
    /\ UNCHANGED <<board_vars, table, main, screen, uds, link, cloud_connected,
                   shadow, download, history>>

LinkDown ==
    /\ link
    /\ link' = FALSE /\ net' = NoValue
    /\ UNCHANGED <<board_vars, table, main, screen, uds, cloud_connected, cloud,
                   shadow, download, history>>

Disconnected ==
    /\ ~ link /\ cloud_connected /\ cloud = Idle
    /\ cloud_connected' = FALSE
    /\ UNCHANGED <<board_vars, table, main, screen, uds, link, cloud, net,
                   shadow, download, history>>

CloudReceives ==
    /\ net # NoValue
    /\ shadow' = net /\ net' = NoValue
    /\ UNCHANGED <<board_vars, table, main, screen, uds, link, cloud_connected,
                   cloud, download, history>>

Download ==
    /\ download' = ~ download
    /\ UNCHANGED <<board_vars, table, main, screen, uds, cloud_vars, history>>

Main == TakeReport \/ StoreValue \/ PostValue \/ SendEvent
Cloud == Connected \/ CollectAll \/ PostAll \/ Disconnected

Next ==
    \/ \E v \in Values : BoardChanges(v)
    \/ AnswerGet \/ LoseFrame
    \/ Main \/ Poll \/ ReadForScreen \/ AnswerScreen
    \/ Cloud \/ LinkUp \/ LinkDown \/ CloudReceives \/ Download

Spec == Init /\ [][Next]_vars

\* Threads run and the line, the network and the board answer.  The poll takes
\* its turn between frames.  Nobody has to connect or to download.
Fairness ==
    /\ WF_vars(Main) /\ SF_vars(Poll) /\ WF_vars(AnswerGet)
    /\ WF_vars(AnswerScreen) /\ WF_vars(Cloud) /\ WF_vars(CloudReceives)

FairSpec == Spec /\ Fairness

(***************************************************************************)
(* Properties                                                              *)
(***************************************************************************)
\* Each thread has a value in hand exactly while it is under way with it.
TypeOK ==
    /\ {board, table, screen, shadow} \subseteq Values
    /\ changes \in 0..MaxChanges /\ losses \in 0..MaxLosses
    /\ uart \in Seq(Values) /\ net \in Values \cup {NoValue}
    /\ main \in {Idle} \cup [at : {"store", "post", "event"}, v : Values]
    /\ cloud \in {Idle} \cup [at : {"post"}, v : Values]
                 \cup [at : {"collect"}, v : {NoValue}]
    /\ uds \in Values \cup {NoValue}
    /\ {get, link, cloud_connected, download, pushed, excused} \subseteq BOOLEAN

\* The table keeps up with the board (cloud_platform_task.c:475): as long as no
\* frame was lost, it has the board's value when no frame and no GET is left.
TableFollowsBoard ==
    losses = 0 /\ uart = <<>> /\ ~ get /\ main.at # "store" => table = board

\* The user hears that cooking has finished (cloud_platform_task.c:188, :508): of
\* main thread and cloud thread, one pushes the event, whatever the order of
\* report and connection.  Excused are a download and a connection made just
\* between the comparison and the store, which neither thread notices.
PushedWhenDone ==
    cloud = Idle /\ cloud_connected /\ table = Finished /\ ~ excused => pushed

\* Stale values pass (cloud_platform_task.c:472): a thread may answer or post
\* what another has just replaced, but GET asks for every attribute again and
\* each answer goes to everybody.  So when the board rests, and the connection
\* lasts without a download, all of them get to see the board's value and keep
\* it.
Converges ==
    /\ <>[](table = board /\ screen = board)
    /\ <>[](link /\ cloud_connected /\ ~ download) => <>[](shadow = board)
=============================================================================
