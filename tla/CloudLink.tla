------------------------------ MODULE CloudLink ------------------------------
(***************************************************************************)
(* The connection to the cloud and what hangs on it: unbinding the stove   *)
(* from an account, and the WifiState that the screen shows.               *)
(*                                                                         *)
(* An unbind request sets the flag awss.rst in flash and reports.  Any     *)
(* reply clears the flag; at each connection the report is repeated while  *)
(* it is set.  WifiState reaches the screen from three threads: the Wi-Fi  *)
(* driver's callback, which keeps CONNECTED back until the cloud is        *)
(* connected, the SDK's thread with its handlers, and the uds thread,      *)
(* which reads the driver's state for a GET or when a connection cannot be *)
(* made.                                                                   *)
(*                                                                         *)
(* The cloud, the driver and the SDK are external: the connection may drop *)
(* at any time and takes what is under way with it; replies come in order. *)
(***************************************************************************)
EXTENDS Naturals, Sequences

CONSTANTS
    OtherStates,  \* WifiState besides "connected" and "disconnected": idle,
                  \* connecting, connect failed, wrong password
    MaxRequests   \* bound: unbind requests

ASSUME CloudLinkAssumption ==
    /\ MaxRequests \in Nat
    /\ OtherStates \cap {"connected", "disconnected", "none"} = {}

WifiStates == {"connected", "disconnected"} \cup OtherStates
Askers == {"uds", "main"}

VARIABLES
    wifi,       \* the driver's state
    link,       \* is the connection to the cloud up?
    cloud_connected, \* ... as the handlers of linkkit_solo.c have it
    sdk,        \* where the SDK's thread is in a handler
    requests,   \* unbind requests made
    rst,        \* the flag awss.rst
    asking,     \* threads between setting the flag and reporting
    reports,    \* reports on their way to the cloud
    replies,    \* on their way back: the requests made when the cloud replied
    unbound,    \* the requests made when the cloud last unbound the stove
    early,      \* history: was the flag cleared by an earlier request's reply?
    event,      \* a change that the driver has not called back for
    driver,     \* the state that wiFiCallback is about to report
    uds,        \* the state that the uds thread read and is about to pass on
    shown,      \* WifiState on the screen
    overtaken   \* history: had it changed before the uds thread showed it?

conn_vars == <<link, cloud_connected, sdk>>
unbind_vars == <<requests, rst, asking, reports, replies, unbound, early>>
wifi_vars == <<wifi, event, driver, uds, shown, overtaken>>
vars == <<wifi, link, cloud_connected, sdk, requests, rst, asking, reports,
          replies, unbound, early, event, driver, uds, shown, overtaken>>

Nothing == [at |-> "idle", state |-> "none"]

Init ==
    /\ wifi \in WifiStates /\ link = FALSE
    /\ cloud_connected = FALSE /\ sdk = "idle"
    /\ requests = 0 /\ rst = FALSE /\ asking = {}
    /\ reports = 0 /\ replies = <<>> /\ unbound = 0 /\ early = FALSE
    /\ event = "none" /\ driver = "none" /\ uds = Nothing
    /\ shown = "disconnected" /\ overtaken = FALSE

(***************************************************************************)
(* Unbinding: Reset_cb on the uds thread, the key FT_RESET on the main one *)
(***************************************************************************)
\* IOT_DevReset_Report: one publication of QoS 0.  The SDK's subscription to the
\* reply before the first one is local (MQTT_AUTO_SUBSCRIBE): it neither waits
\* nor needs the network.
linkkit_dev_reset == reports' = IF link THEN reports + 1 ELSE reports

SetFlag(t) ==
    /\ t \notin asking /\ requests < MaxRequests
    /\ requests' = requests + 1
    /\ rst' = TRUE /\ asking' = asking \cup {t}
    /\ early' = FALSE
    /\ UNCHANGED <<reports, replies, unbound, conn_vars, wifi_vars>>

\* the report is left to the check at the next connection
ReportReset_Later(t) ==
    /\ t \in asking /\ asking' = asking \ {t}
    /\ UNCHANGED <<requests, rst, reports, replies, unbound, early, conn_vars,
                   wifi_vars>>

ReportReset(t) ==
    /\ t \in asking /\ asking' = asking \ {t}
    /\ linkkit_dev_reset
    /\ UNCHANGED <<requests, rst, replies, unbound, early, conn_vars, wifi_vars>>

CloudUnbinds ==
    /\ reports > 0 /\ reports' = reports - 1
    /\ unbound' = requests
    /\ replies' = Append(replies, requests)
    /\ UNCHANGED <<requests, rst, asking, early, conn_vars, wifi_vars>>

\* linkkit_devrst_evt_handle asks for no message id
ReplyArrives ==
    /\ sdk = "idle" /\ replies # <<>>
    /\ replies' = Tail(replies)
    /\ rst' = FALSE
    /\ early' = IF rst THEN Head(replies) < requests ELSE early
    /\ UNCHANGED <<requests, asking, reports, unbound, conn_vars, wifi_vars>>

(***************************************************************************)
(* The SDK's thread: user_connected_event_handler and                      *)
(* user_disconnected_event_handler                                         *)
(***************************************************************************)
\* wiFiReport
Show(state) == shown' = state /\ overtaken' = FALSE

Connected ==
    /\ link /\ ~ cloud_connected /\ sdk = "idle"
    /\ cloud_connected' = TRUE /\ sdk' = "check"
    /\ UNCHANGED <<link, unbind_vars, wifi_vars>>

\* only the request itself reports
linkkit_unbind_check_Reads ==
    /\ sdk = "check" /\ sdk' = "tell"
    /\ UNCHANGED <<link, cloud_connected, unbind_vars, wifi_vars>>

\* a flag that has been reported is done with
linkkit_unbind_check_Clears ==
    /\ sdk = "check" /\ sdk' = "tell"
    /\ IF rst THEN linkkit_dev_reset ELSE UNCHANGED reports
    /\ rst' = FALSE
    /\ UNCHANGED <<link, cloud_connected, requests, asking, replies, unbound,
                   early, wifi_vars>>

linkkit_unbind_check ==
    /\ sdk = "check" /\ sdk' = "tell"
    /\ IF rst THEN linkkit_dev_reset ELSE UNCHANGED reports
    /\ UNCHANGED <<link, cloud_connected, requests, rst, asking, replies,
                   unbound, early, wifi_vars>>

\* the driver has reported CONNECTED already
linkkit_connected_cb_OnlyDown ==
    /\ sdk = "tell" /\ sdk' = "idle"
    /\ IF cloud_connected THEN UNCHANGED <<shown, overtaken>>
                          ELSE Show("disconnected")
    /\ UNCHANGED <<link, cloud_connected, unbind_vars, wifi, event, driver, uds>>

\* connect is what the handler that calls it has just written to the flag
linkkit_connected_cb ==
    /\ sdk = "tell" /\ sdk' = "idle"
    /\ Show(IF cloud_connected THEN "connected" ELSE "disconnected")
    /\ UNCHANGED <<link, cloud_connected, unbind_vars, wifi, event, driver, uds>>

Disconnected ==
    /\ ~ link /\ cloud_connected /\ sdk = "idle"
    /\ cloud_connected' = FALSE /\ sdk' = "tell"
    /\ UNCHANGED <<link, unbind_vars, wifi_vars>>

LinkUp ==
    /\ wifi = "connected" /\ ~ link /\ ~ cloud_connected /\ sdk = "idle"
    /\ link' = TRUE
    /\ UNCHANGED <<cloud_connected, sdk, unbind_vars, wifi_vars>>

LinkDown ==
    /\ link /\ link' = FALSE
    /\ reports' = 0 /\ replies' = <<>>
    /\ UNCHANGED <<cloud_connected, sdk, requests, rst, asking, unbound, early,
                   wifi_vars>>

(***************************************************************************)
(* The driver's thread: wiFiCallback                                       *)
(***************************************************************************)
WifiChanges ==
    /\ event = "none"
    /\ wifi' \in WifiStates \ {wifi}
    /\ event' = wifi'
    /\ UNCHANGED <<driver, uds, shown, overtaken, conn_vars, unbind_vars>>

KeptBack(state) == state = "connected" /\ ~ cloud_connected

wiFiCallback ==
    /\ event # "none" /\ driver = "none"
    /\ event' = "none"
    /\ driver' = IF KeptBack(event) THEN "none" ELSE event
    /\ UNCHANGED <<wifi, uds, shown, overtaken, conn_vars, unbind_vars>>

wiFiReport ==
    /\ driver # "none" /\ driver' = "none"
    /\ Show(driver)
    /\ UNCHANGED <<wifi, event, uds, conn_vars, unbind_vars>>

(***************************************************************************)
(* The uds thread: GET or GETALL of WifiState, and wifiConnect that fails  *)
(***************************************************************************)
WifiState_cb ==
    /\ uds = Nothing
    /\ uds' = [at |-> "answer", state |-> wifi]
    /\ UNCHANGED <<wifi, event, driver, shown, overtaken, conn_vars, unbind_vars>>

wifiConnect ==
    /\ uds = Nothing
    /\ uds' = IF KeptBack(wifi) THEN Nothing
                                ELSE [at |-> "report", state |-> wifi]
    /\ UNCHANGED <<wifi, event, driver, shown, overtaken, conn_vars, unbind_vars>>

AnswerScreen ==
    /\ uds # Nothing /\ uds' = Nothing
    /\ shown' = uds.state /\ overtaken' = (uds.state # wifi)
    /\ UNCHANGED <<wifi, event, driver, conn_vars, unbind_vars>>

(***************************************************************************)
(* The communication board loses power, or KEYPRESS_LOCAL_RESET restarts   *)
(* it: the flag is in flash                                                *)
(***************************************************************************)
Restart ==
    /\ link' = FALSE /\ cloud_connected' = FALSE /\ sdk' = "idle"
    /\ asking' = {} /\ reports' = 0 /\ replies' = <<>>
    /\ event' = "none" /\ driver' = "none" /\ uds' = Nothing
    /\ shown' = "disconnected" /\ overtaken' = FALSE
    /\ UNCHANGED <<requests, rst, unbound, early, wifi>>

Handler == Connected \/ linkkit_unbind_check \/ linkkit_connected_cb \/ Disconnected

Next ==
    \/ \E t \in Askers : SetFlag(t) \/ ReportReset(t)
    \/ CloudUnbinds \/ ReplyArrives
    \/ Handler \/ LinkUp \/ LinkDown
    \/ WifiChanges \/ wiFiCallback \/ wiFiReport
    \/ WifiState_cb \/ wifiConnect \/ AnswerScreen
    \/ Restart

Spec == Init /\ [][Next]_vars

\* Threads run, the driver calls back, the SDK handles what arrives while the
\* connection lasts, and notices when there is no network.
Fairness ==
    /\ \A t \in Askers : WF_vars(ReportReset(t))
    /\ WF_vars(CloudUnbinds) /\ WF_vars(ReplyArrives)
    /\ WF_vars(Handler) /\ WF_vars(wifi # "connected" /\ LinkDown)
    /\ WF_vars(wiFiCallback) /\ WF_vars(wiFiReport) /\ WF_vars(AnswerScreen)

FairSpec == Spec /\ Fairness

(***************************************************************************)
(* Properties                                                              *)
(***************************************************************************)
\* The handlers run with the flag cloud_connected already set (linkkit_solo.c:77):
\* the reports they make are made to a cloud that counts as connected.
TypeOK ==
    /\ wifi \in WifiStates /\ shown \in WifiStates
    /\ {link, cloud_connected, rst, early, overtaken} \subseteq BOOLEAN
    /\ asking \subseteq Askers
    /\ sdk \in {"idle", "check", "tell"} /\ (sdk = "check" => cloud_connected)
    /\ requests \in 0..MaxRequests /\ unbound \in 0..requests
    /\ reports \in Nat /\ replies \in Seq(0..requests)
    /\ event \in WifiStates \cup {"none"} /\ driver \in WifiStates \cup {"none"}
    /\ uds \in {Nothing} \cup [at : {"answer", "report"}, state : WifiStates]

\* A request to unbind is not forgotten (linkkit_reset.c:58): through restarts and
\* lost reports, either the cloud has unbound the stove since, or the flag is still
\* set -- unless the reply to an earlier request cleared it.
RequestKept == unbound = requests \/ rst \/ early

\* A set flag is never left to itself while the connection lasts
\* (linkkit_solo.c:78): a report or its reply is on its way, or a thread is about
\* to report.  There is no other retry.
NeverStranded ==
    rst /\ link /\ cloud_connected
    => asking # {} \/ sdk = "check" \/ reports > 0 \/ replies # <<>>

\* So the stove is unbound once a connection lasts (linkkit_reset.c:66).
CarriedOut == <>[]link => (unbound < requests ~> unbound = requests \/ early)

\* The last of the reporters is right (wifi_task.c:196): the screen ends up with
\* "connected" when network and cloud stay, and when the network stays away with
\* the driver's last state or, if the cloud's end was noticed after it, with
\* "disconnected" -- unless the uds thread showed what it had read before.
ShownSettles ==
    /\ <>[](wifi = "connected" /\ link) => <>[](shown = "connected" \/ overtaken)
    /\ \A state \in WifiStates \ {"connected"} :
          <>[](wifi = state) => <>[](shown \in {state, "disconnected"} \/ overtaken)
=============================================================================
