---------------------------- MODULE CloudProofs ----------------------------
(***************************************************************************)
(* Proofs about the two components that wait for the cloud.  CloudLink,    *)
(* for any number of unbind requests: a request is kept through restarts   *)
(* and lost reports, and is never left without a report under way while    *)
(* the connection lasts.  OtaUpdate, for any number of recipes, versions   *)
(* and offers: reporting is silenced only during downloads, and the recipe *)
(* table is the one of the installed firmware unless power, or a           *)
(* statement, failed where the table suffers.                              *)
(***************************************************************************)
EXTENDS CloudLink, OtaUpdate, SequenceTheorems, TLAPS

(***************************************************************************)
(* CloudLink: types                                                        *)
(***************************************************************************)

UnbindOK ==
    /\ requests \in 0..MaxRequests /\ unbound \in 0..requests
    /\ reports \in Nat /\ replies \in Seq(0..requests)
    /\ rst \in BOOLEAN /\ asking \subseteq Askers /\ early \in BOOLEAN

ConnOK ==
    /\ link \in BOOLEAN /\ cloud_connected \in BOOLEAN
    /\ sdk \in {"idle", "check", "tell"} /\ (sdk = "check" => cloud_connected)

WifiOK ==
    /\ wifi \in WifiStates /\ shown \in WifiStates /\ overtaken \in BOOLEAN
    /\ event \in WifiStates \cup {"none"} /\ driver \in WifiStates \cup {"none"}
    /\ uds \in {Nothing} \cup [at : {"answer", "report"}, state : WifiStates]

Types == UnbindOK /\ ConnOK /\ WifiOK

\* Together they are the type invariant.
LEMMA TypeParts == TypeOK <=> Types
  BY DEF TypeOK, Types, UnbindOK, ConnOK, WifiOK

LEMMA TypeInit == Init => Types
<1> SUFFICES ASSUME Init PROVE Types
  OBVIOUS
<1>1. <<>> \in Seq(0..0) /\ 0 \in 0..MaxRequests
  BY CloudLinkAssumption DEF CloudLinkAssumption
<1>2. UnbindOK
  <2>1. /\ requests \in 0..MaxRequests /\ unbound \in 0..requests
        /\ reports \in Nat /\ replies \in Seq(0..requests)
    BY <1>1 DEF Init
  <2>2. rst \in BOOLEAN /\ asking \subseteq Askers /\ early \in BOOLEAN
    BY DEF Init
  <2> QED
    BY <2>1, <2>2 DEF UnbindOK
<1>3. ConnOK /\ WifiOK
  BY DEF Init, ConnOK, WifiOK, WifiStates
<1> QED
  BY <1>2, <1>3 DEF Types

\* Requests, reports and replies.
LEMMA UnbindStep == Types /\ [Next]_vars => UnbindOK'
<1> SUFFICES ASSUME UnbindOK, [Next]_vars PROVE UnbindOK'
  BY DEF Types
<1> USE CloudLinkAssumption DEF CloudLinkAssumption, UnbindOK
<1>1. ASSUME NEW t \in Askers, SetFlag(t) PROVE UnbindOK'
  <2>1. requests' = requests + 1 /\ requests' \in 0..MaxRequests
        /\ UNCHANGED <<reports, replies, unbound>>
    BY <1>1 DEF SetFlag
  <2>2. replies \in Seq(0..requests + 1)
    <3>1. Len(replies) \in Nat /\ \A i \in 1..Len(replies) : replies[i] \in 0..requests
      OBVIOUS
    <3>2. \A i \in 1..Len(replies) : replies[i] \in 0..requests + 1
      BY <3>1
    <3>3. replies = [i \in 1..Len(replies) |-> replies[i]]
      OBVIOUS
    <3> QED
      BY <3>1, <3>2, <3>3, IsASeq
  <2>3. rst' \in BOOLEAN /\ asking' \subseteq Askers /\ early' \in BOOLEAN
    BY <1>1 DEF SetFlag
  <2>4. unbound' \in 0..requests' /\ reports' \in Nat /\ replies' \in Seq(0..requests')
    BY <2>1, <2>2
  <2> QED
    BY <2>1, <2>3, <2>4
<1>2. CASE CloudUnbinds
  <2>1. Append(replies, requests) \in Seq(0..requests)
    BY AppendProperties
  <2> QED
    BY <1>2, <2>1 DEF CloudUnbinds
<1>3. CASE ReplyArrives
  <2>1. replies' \in Seq(0..requests)
    BY <1>3, HeadTailProperties DEF ReplyArrives
  <2>2. early' \in BOOLEAN
    <3>1. (Head(replies) < requests) \in BOOLEAN
      OBVIOUS
    <3> QED
      BY <1>3, <3>1, Zenon DEF ReplyArrives
  <2> QED
    BY <1>3, <2>1, <2>2 DEF ReplyArrives
<1>4. CASE (\E t \in Askers : ReportReset(t)) \/ linkkit_unbind_check
  <2>1. reports' \in Nat /\ UNCHANGED <<requests, unbound, replies>>
    BY <1>4 DEF ReportReset, linkkit_unbind_check, linkkit_dev_reset
  <2>2. rst' \in BOOLEAN /\ asking' \subseteq Askers /\ early' \in BOOLEAN
    BY <1>4 DEF ReportReset, linkkit_unbind_check
  <2> QED
    BY <2>1, <2>2
<1>5. CASE LinkDown \/ Restart
  <2>1. <<>> \in Seq(0..requests)
    OBVIOUS
  <2>2. /\ reports' = 0 /\ replies' = <<>> /\ UNCHANGED <<requests, unbound>>
    BY <1>5 DEF LinkDown, Restart
  <2>3. rst' \in BOOLEAN /\ asking' \subseteq Askers /\ early' \in BOOLEAN
    BY <1>5 DEF LinkDown, Restart
  <2> QED
    BY <2>1, <2>2, <2>3
<1>6. CASE \/ Connected \/ Disconnected \/ linkkit_connected_cb \/ LinkUp
           \/ WifiChanges \/ wiFiCallback \/ wiFiReport
           \/ WifiState_cb \/ wifiConnect \/ AnswerScreen \/ UNCHANGED vars
  BY <1>6 DEF Connected, Disconnected, linkkit_connected_cb, LinkUp, WifiChanges,
     wiFiCallback, wiFiReport, WifiState_cb, wifiConnect, AnswerScreen,
     unbind_vars, vars
<1> QED
  BY <1>1, <1>2, <1>3, <1>4, <1>5, <1>6 DEF Next, Handler

\* The connection, and what is shown of it.
LEMMA ConnStep == Types /\ [Next]_vars => ConnOK' /\ WifiOK'
<1> SUFFICES ASSUME ConnOK, WifiOK, [Next]_vars PROVE ConnOK' /\ WifiOK'
  BY DEF Types
<1>1. CASE \/ \E t \in Askers : SetFlag(t) \/ ReportReset(t)
           \/ CloudUnbinds \/ ReplyArrives \/ UNCHANGED vars
  <2>1. UNCHANGED conn_vars /\ UNCHANGED wifi_vars
    BY <1>1 DEF SetFlag, ReportReset, CloudUnbinds, ReplyArrives, conn_vars,
       wifi_vars, vars
  <2> QED
    BY <2>1 DEF conn_vars, wifi_vars, ConnOK, WifiOK
<1>2. CASE Connected \/ linkkit_unbind_check \/ Disconnected \/ LinkUp \/ LinkDown
  BY <1>2 DEF Connected, linkkit_unbind_check, Disconnected, LinkUp, LinkDown,
     wifi_vars, ConnOK, WifiOK
<1>3. CASE linkkit_connected_cb
  BY <1>3 DEF linkkit_connected_cb, Show, ConnOK, WifiOK, WifiStates
<1>4. CASE WifiChanges \/ wiFiCallback \/ wiFiReport
  BY <1>4 DEF WifiChanges, wiFiCallback, wiFiReport, Show, conn_vars, ConnOK,
     WifiOK, WifiStates
<1>5. CASE WifiState_cb \/ wifiConnect
  BY <1>5 DEF WifiState_cb, wifiConnect, conn_vars, ConnOK, WifiOK
<1>6. CASE AnswerScreen
  <2>1. overtaken' \in BOOLEAN
    BY <1>6, Zenon DEF AnswerScreen
  <2>2. shown' \in WifiStates
    BY <1>6 DEF AnswerScreen, WifiOK
  <2> QED
    BY <1>6, <2>1, <2>2 DEF AnswerScreen, conn_vars, ConnOK, WifiOK
<1>7. CASE Restart
  BY <1>7 DEF Restart, ConnOK, WifiOK, WifiStates
<1> QED
  BY <1>1, <1>2, <1>3, <1>4, <1>5, <1>6, <1>7 DEF Next, Handler

\* Every handler runs to its end under the flag it has set (linkkit_solo.c:77).
THEOREM TypeCorrect == Spec => []TypeOK
<1>1. Types /\ [Next]_vars => Types'
  BY UnbindStep, ConnStep DEF Types
<1> QED
  BY <1>1, TypeInit, TypeParts, PTL DEF Spec

-----------------------------------------------------------------------------
\* A reply speaks of requests that the cloud has carried out.
RepliesInv == \A i \in 1..Len(replies) : replies[i] <= unbound

LEMMA KeptStep ==
    Types /\ RepliesInv /\ RequestKept /\ [Next]_vars => RepliesInv' /\ RequestKept'
<1> SUFFICES ASSUME UnbindOK, RepliesInv, RequestKept, [Next]_vars
             PROVE  RepliesInv' /\ RequestKept'
  BY DEF Types
<1> USE DEF UnbindOK
<1>1. CASE \E t \in Askers : SetFlag(t)
  BY <1>1 DEF SetFlag, RepliesInv, RequestKept
<1>2. CASE CloudUnbinds
  <2>1. /\ Len(replies') = Len(replies) + 1 /\ Len(replies) \in Nat
        /\ replies'[Len(replies) + 1] = requests
        /\ \A i \in 1..Len(replies) : replies'[i] = replies[i]
                                      /\ replies[i] \in 0..requests
    BY <1>2, AppendProperties DEF CloudUnbinds
  <2>2. unbound' = requests /\ requests' = requests
    BY <1>2 DEF CloudUnbinds
  <2>3. RepliesInv'
    <3> SUFFICES ASSUME NEW i \in 1..Len(replies') PROVE replies'[i] <= requests
      BY <2>2 DEF RepliesInv
    <3>1. CASE i = Len(replies) + 1
      BY <2>1, <3>1
    <3>2. CASE i \in 1..Len(replies)
      BY <2>1, <3>2
    <3> QED
      BY <2>1, <3>1, <3>2
  <2> QED
    BY <2>2, <2>3 DEF RequestKept
<1>3. CASE ReplyArrives
  <2>1. /\ Len(replies') = Len(replies) - 1 /\ Len(replies) \in Nat \ {0}
        /\ Head(replies) = replies[1]
        /\ \A i \in 1..Len(replies') : replies'[i] = replies[i + 1]
    BY <1>3, HeadTailProperties, EmptySeq DEF ReplyArrives
  <2>2. UNCHANGED <<unbound, requests>>
    BY <1>3 DEF ReplyArrives
  <2>3. RepliesInv'
    <3> SUFFICES ASSUME NEW i \in 1..Len(replies') PROVE replies'[i] <= unbound
      BY <2>2 DEF RepliesInv
    <3>1. i + 1 \in 1..Len(replies) /\ replies'[i] = replies[i + 1]
      BY <2>1
    <3> QED
      BY <3>1 DEF RepliesInv
  <2>4. Head(replies) <= unbound
    BY <2>1 DEF RepliesInv
  <2>5. CASE rst /\ Head(replies) < requests
    <3>1. early'
      BY <1>3, <2>5 DEF ReplyArrives
    <3> QED
      BY <2>3, <3>1 DEF RequestKept
  <2>6. CASE rst /\ ~ (Head(replies) < requests)
    <3>1. Head(replies) \in 0..requests
      BY <2>1
    <3>2. unbound = requests
      BY <2>4, <2>6, <3>1
    <3> QED
      BY <2>2, <2>3, <3>2 DEF RequestKept
  <2>7. CASE ~ rst
    BY <1>3, <2>2, <2>3, <2>7 DEF ReplyArrives, RequestKept
  <2> QED
    BY <2>5, <2>6, <2>7
<1>4. CASE LinkDown \/ Restart
  BY <1>4 DEF LinkDown, Restart, RepliesInv, RequestKept
<1>5. ASSUME ~ \E t \in Askers : SetFlag(t), ~ CloudUnbinds, ~ ReplyArrives, ~ LinkDown, ~ Restart
      PROVE  UNCHANGED <<requests, unbound, rst, early, replies>>
  BY <1>5 DEF Next, ReportReset, Handler, Connected, linkkit_unbind_check,
     linkkit_connected_cb, Disconnected, LinkUp, WifiChanges, wiFiCallback,
     wiFiReport, WifiState_cb, wifiConnect, AnswerScreen, unbind_vars, vars
<1>6. CASE UNCHANGED <<requests, unbound, rst, early, replies>>
  BY <1>6 DEF RepliesInv, RequestKept
<1> QED
  BY <1>1, <1>2, <1>3, <1>4, <1>5, <1>6

\* A request to unbind is forgotten only by the reply to an earlier one
\* (linkkit_reset.c:31).
THEOREM RequestsAreKept == Spec => []RequestKept
<1>1. Init => RepliesInv /\ RequestKept
  BY DEF Init, RepliesInv, RequestKept
<1>2. TypeOK => Types
  BY TypeParts
<1> QED
  BY <1>1, <1>2, KeptStep, TypeCorrect, PTL DEF Spec

\* While a connection lasts a set flag has a report or a reply under way
\* (linkkit_solo.c:78).
THEOREM FlagIsAttended == Spec => []NeverStranded
<1>1. Init => NeverStranded
  BY DEF Init, NeverStranded
<1>2. TypeOK /\ NeverStranded /\ [Next]_vars => NeverStranded'
  <2> SUFFICES ASSUME Types, NeverStranded, [Next]_vars PROVE NeverStranded'
    BY TypeParts
  <2> USE DEF Types, UnbindOK
  <2>1. CASE \/ \E t \in Askers : SetFlag(t)
             \/ ReplyArrives \/ Connected \/ Disconnected \/ LinkDown \/ Restart
    BY <2>1 DEF SetFlag, ReplyArrives, Connected, Disconnected, LinkDown, Restart,
       NeverStranded
  <2>2. CASE LinkUp
    BY <2>2 DEF LinkUp, NeverStranded
  <2>3. CASE \E t \in Askers : ReportReset(t)
    BY <2>3 DEF ReportReset, linkkit_dev_reset, conn_vars, NeverStranded
  <2>4. CASE linkkit_unbind_check
    BY <2>4 DEF linkkit_unbind_check, linkkit_dev_reset, NeverStranded
  <2>5. CASE CloudUnbinds
    <3>1. replies' # <<>>
      BY <2>5, AppendProperties DEF CloudUnbinds
    <3> QED
      BY <3>1 DEF NeverStranded
  <2>6. CASE linkkit_connected_cb
    BY <2>6 DEF linkkit_connected_cb, unbind_vars, NeverStranded
  <2>7. CASE \/ WifiChanges \/ wiFiCallback \/ wiFiReport
             \/ WifiState_cb \/ wifiConnect \/ AnswerScreen \/ UNCHANGED vars
    <3>1. UNCHANGED <<rst, link, cloud_connected, asking, sdk, reports, replies>>
      BY <2>7 DEF WifiChanges, wiFiCallback, wiFiReport, WifiState_cb, wifiConnect,
         AnswerScreen, conn_vars, unbind_vars, vars
    <3> QED
      BY <3>1 DEF NeverStranded
  <2> QED
    BY <2>1, <2>2, <2>3, <2>4, <2>5, <2>6, <2>7 DEF Next, Handler
<1> QED
  BY <1>1, <1>2, TypeCorrect, PTL DEF Spec

-----------------------------------------------------------------------------
(***************************************************************************)
(* OtaUpdate: what is known of the recipe table                            *)
(***************************************************************************)
Whole == [version |-> firmware, rows |-> ROWS]

\* While the process starts, the table is missing, whole or being filled.
StartInv ==
    /\ boot = "create" /\ ~ torn => table \in {NoTable, Whole}
    /\ boot = "load" /\ ~ torn => table.version = firmware

\* Afterwards it is whole until a thread has run the installer.  From there no
\* thread comes back to anything but a restart, so a table that differs shows
\* a thread that has still to drop it, or one that has dropped it.
InstallInv ==
    boot = "done" /\ ~ torn =>
        \/ table = Whole
        \/ \E t \in Threads : pc[t] = "complete"
        \/ table = NoTable /\ \E t \in Threads : pc[t] \in {"success", "reboot"}

-----------------------------------------------------------------------------
(***************************************************************************)
(* OtaUpdate: types                                                        *)
(***************************************************************************)
\* The initial state is well typed.
LEMMA OtaTypeInit == OtaInit => OtaTypeOK
<1> SUFFICES ASSUME OtaInit PROVE OtaTypeOK
  OBVIOUS
<1>1. pc = [t \in Threads |-> "off"] /\ boot = "create"
  BY DEF OtaInit
<1>2. /\ \A t \in Threads : (pc[t] = "off") = (boot # "done")
      /\ pc["cloud"] = "off" /\ pc["uds"] = "off"
  BY <1>1 DEF Threads
<1>3. table \in [version : 0 .. MaxVersion, rows : 0 .. ROWS]
  BY OtaAssumption DEF OtaAssumption, OtaInit, NoTable
<1>4. timer \in BOOLEAN /\ torn \in BOOLEAN
  BY DEF OtaInit
<1>5. firmware \in 1 .. MaxVersion /\ offers \in 0 .. MaxOffers
  BY OtaAssumption DEF OtaAssumption, OtaInit
<1>6. g_ota_state \in OtaStates
  BY DEF OtaInit, OtaStates
<1>7. /\ boot \in {"create", "load", "done"}
      /\ pc \in [Threads -> {"off", "idle", "query", "arm", "accepted",
                             "download", "downloaded", "install", "complete",
                             "success", "reboot"}]
      /\ pc["cloud"] \notin {"query", "arm"} /\ pc["uds"] # "accepted"
  BY <1>1, <1>2
<1> QED
  BY <1>2, <1>3, <1>4, <1>5, <1>6, <1>7, Zenon DEF OtaTypeOK

\* Every step keeps the types.
LEMMA OtaTypeStep == OtaTypeOK /\ [OtaNext]_ota_vars => OtaTypeOK'
<1> SUFFICES ASSUME OtaTypeOK, [OtaNext]_ota_vars PROVE OtaTypeOK'
  OBVIOUS
<1> USE OtaAssumption DEF OtaAssumption, OtaTypeOK, Threads, OtaStates, disk
<1>1. CASE CreateTable
  BY <1>1 DEF CreateTable, NoTable
<1>2. CASE TableExists
  BY <1>2 DEF TableExists
<1>14. CASE CreateFails
  <2>1. torn' \in BOOLEAN
    BY <1>14, Zenon DEF CreateFails
  <2>2. /\ boot = "create" /\ boot' = "done" /\ pc' = [t \in Threads |-> "idle"]
        /\ UNCHANGED <<g_ota_state, timer, firmware, table, offers>>
    BY <1>14 DEF CreateFails
  <2> QED
    BY <2>1, <2>2
<1>3. CASE LoadRow
  BY <1>3 DEF LoadRow
<1>4. CASE LoadEnds
  <2>1. torn' \in BOOLEAN
    BY <1>4, Zenon DEF LoadEnds
  <2> QED
    BY <1>4, <2>1 DEF LoadEnds
<1>5. CASE RequestImage \/ QueryFails \/ RequestDownload \/ StartDownload
  BY <1>5 DEF RequestImage, QueryFails, RequestDownload, StartDownload, Become
<1>6. CASE QuerySent
  BY <1>6 DEF QuerySent
<1>7. CASE ArmTimer
  BY <1>7 DEF ArmTimer
<1>8. CASE TimerFires
  <2>1. timer' \in BOOLEAN /\ g_ota_state' \in OtaStates
    BY <1>8 DEF TimerFires
  <2>2. UNCHANGED <<pc, boot, firmware, table, offers, torn>>
    BY <1>8 DEF TimerFires
  <2> QED
    BY <2>1, <2>2
<1>9. CASE CloudOffers
  BY <1>9 DEF CloudOffers
<1>10. CASE HandleOffer
  BY <1>10 DEF HandleOffer
<1>11. ASSUME NEW t \in Threads, Download(t) PROVE OtaTypeOK'
  <2>1. CASE DownloadFails(t) \/ DownloadEnds(t) \/ InstallStarts(t) \/ InstallSucceeds(t)
    BY <2>1 DEF DownloadFails, DownloadEnds, InstallStarts, InstallSucceeds, Become
  <2>2. CASE Install(t)
    BY <2>2 DEF Install
  <2>3. CASE Complete(t)
    <3>1. torn' \in BOOLEAN
      BY <2>3, Zenon DEF Complete
    <3>2. /\ pc[t] = "complete" /\ pc' = [pc EXCEPT ![t] = "success"]
          /\ table' = NoTable \/ table' = table
          /\ UNCHANGED <<g_ota_state, timer, boot, firmware, offers>>
      BY <2>3 DEF Complete
    <3> QED
      BY <3>1, <3>2 DEF NoTable
  <2>4. CASE Reboot(t)
    BY <2>4 DEF Reboot, BackToStart, TornNow
  <2> QED
    BY <1>11, <2>1, <2>2, <2>3, <2>4 DEF Download
<1>12. CASE PowerFails
  BY <1>12 DEF PowerFails, BackToStart, TornNow
<1>13. CASE UNCHANGED ota_vars
  BY <1>13 DEF ota_vars
<1> QED
  BY <1>1, <1>2, <1>3, <1>4, <1>5, <1>6, <1>7, <1>8, <1>9, <1>10, <1>11, <1>12, <1>13, <1>14 DEF OtaNext

\* The variables stay in their ranges: g_ota_state, the table, the places of
\* both threads and what the start has reached.
THEOREM OtaTypeCorrect == OtaSpec => []OtaTypeOK
  BY OtaTypeInit, OtaTypeStep, PTL DEF OtaSpec

-----------------------------------------------------------------------------
(***************************************************************************)
(* OtaUpdate: reporting                                                    *)
(***************************************************************************)
\* Whoever leaves a download writes g_ota_state in the same step.
LEMMA SuppressedStep ==
    OtaTypeOK /\ SuppressedOnlyWhileDownloading /\ [OtaNext]_ota_vars
        => SuppressedOnlyWhileDownloading'
<1> SUFFICES ASSUME OtaTypeOK, SuppressedOnlyWhileDownloading, [OtaNext]_ota_vars
             PROVE  SuppressedOnlyWhileDownloading'
  OBVIOUS
<1> USE DEF OtaTypeOK, SuppressedOnlyWhileDownloading, Threads
<1>1. CASE CreateTable \/ CreateFails \/ TableExists \/ LoadRow \/ LoadEnds
  BY <1>1 DEF CreateTable, CreateFails, TableExists, LoadRow, LoadEnds
<1>2. CASE RequestImage \/ QueryFails \/ RequestDownload \/ StartDownload
  BY <1>2 DEF RequestImage, QueryFails, RequestDownload, StartDownload, Become
<1>3. CASE QuerySent \/ ArmTimer \/ TimerFires
  BY <1>3 DEF QuerySent, ArmTimer, TimerFires
<1>4. CASE CloudOffers \/ HandleOffer
  BY <1>4 DEF CloudOffers, HandleOffer
<1>5. ASSUME NEW t \in Threads, Download(t)
      PROVE  SuppressedOnlyWhileDownloading'
  <2>1. CASE DownloadFails(t) \/ DownloadEnds(t) \/ InstallStarts(t) \/ InstallSucceeds(t)
    BY <2>1 DEF DownloadFails, DownloadEnds, InstallStarts, InstallSucceeds, Become
  <2>2. CASE Install(t) \/ Complete(t)
    BY <2>2 DEF Install, Complete
  <2>3. CASE Reboot(t)
    BY <2>3 DEF Reboot, BackToStart
  <2> QED
    BY <1>5, <2>1, <2>2, <2>3 DEF Download
<1>6. CASE PowerFails
  BY <1>6 DEF PowerFails, BackToStart
<1>7. CASE UNCHANGED ota_vars
  BY <1>7 DEF ota_vars
<1> QED
  BY <1>1, <1>2, <1>3, <1>4, <1>5, <1>6, <1>7 DEF OtaNext

\* send_all_to_cloud is silenced by DOWNLOAD_START only while a thread is in
\* download_fota_image, whatever the threads and the timer overwrite; that a
\* download ends is not claimed.
THEOREM ReportingResumes == OtaSpec => []SuppressedOnlyWhileDownloading
<1>1. OtaInit => SuppressedOnlyWhileDownloading
  BY DEF OtaInit, SuppressedOnlyWhileDownloading
<1> QED
  BY <1>1, OtaTypeCorrect, SuppressedStep, PTL DEF OtaSpec

-----------------------------------------------------------------------------
(***************************************************************************)
(* OtaUpdate: the recipe table                                             *)
(***************************************************************************)
\* The first start finds no table.
LEMMA TableInit == OtaInit => StartInv /\ InstallInv
  BY DEF OtaInit, StartInv, InstallInv

\* A restart finds the table missing or whole unless TornNow noted otherwise.
LEMMA AfterRestart ==
    ASSUME OtaTypeOK, StartInv, InstallInv, BackToStart, torn' = TornNow
    PROVE  StartInv' /\ InstallInv'
<1>1. boot' = "create" /\ table' = table /\ firmware' = firmware
  BY DEF BackToStart, disk
<1>2. ASSUME ~ TornNow PROVE table \in {NoTable, Whole}
  <2>1. /\ boot # "load"
        /\ \A t \in Threads : pc[t] # "complete"
        /\ ~ torn \/ table = NoTable
    BY <1>2 DEF TornNow
  <2>2. CASE boot = "create"
    BY <2>1, <2>2 DEF StartInv
  <2>3. CASE boot = "done"
    BY <2>1, <2>3 DEF InstallInv
  <2> QED
    BY <2>1, <2>2, <2>3 DEF OtaTypeOK
<1>3. Whole' = Whole
  BY <1>1 DEF Whole
<1> QED
  BY <1>1, <1>2, <1>3 DEF StartInv, InstallInv

\* The steps of one thread's download keep what is known of the table.
LEMMA DownloadStep ==
    ASSUME OtaTypeOK, StartInv, InstallInv, NEW t \in Threads, Download(t)
    PROVE  StartInv' /\ InstallInv'
<1>0. ASSUME pc[t] # "off" PROVE boot = "done"
  BY <1>0 DEF OtaTypeOK
<1>1. CASE DownloadFails(t) \/ DownloadEnds(t) \/ InstallStarts(t) \/ InstallSucceeds(t)
  <2>1. /\ UNCHANGED <<boot, firmware, table, torn>>
        /\ pc[t] \notin {"complete", "reboot"}
        /\ pc[t] = "success" => pc'[t] = "reboot"
        /\ \A u \in Threads \ {t} : pc'[u] = pc[u]
    BY <1>1 DEF DownloadFails, DownloadEnds, InstallStarts, InstallSucceeds,
                Become, disk, OtaTypeOK
  <2>2. StartInv'
    BY <2>1 DEF StartInv, Whole
  <2>3. InstallInv'
    BY <2>1 DEF InstallInv, Whole
  <2> QED
    BY <2>2, <2>3
<1>2. CASE Install(t)
  <2>1. pc'[t] = "complete" /\ boot' = "done"
    BY <1>0, <1>2 DEF Install, OtaTypeOK
  <2> QED
    BY <2>1 DEF StartInv, InstallInv
<1>3. CASE Complete(t)
  <2>1. pc'[t] = "success" /\ boot' = "done" /\ (torn' \/ table' = NoTable)
    BY <1>0, <1>3 DEF Complete, OtaTypeOK
  <2> QED
    BY <2>1 DEF StartInv, InstallInv
<1>4. CASE Reboot(t)
  BY <1>4, AfterRestart DEF Reboot
<1> QED
  BY <1>1, <1>2, <1>3, <1>4 DEF Download

\* So do the start, the questions, the offers and the loss of power.
LEMMA TableStep ==
    OtaTypeOK /\ StartInv /\ InstallInv /\ [OtaNext]_ota_vars => StartInv' /\ InstallInv'
<1> SUFFICES ASSUME OtaTypeOK, StartInv, InstallInv, [OtaNext]_ota_vars
             PROVE  StartInv' /\ InstallInv'
  OBVIOUS
<1>1. CASE CreateTable
  BY <1>1 DEF CreateTable, StartInv, InstallInv
<1>9. CASE CreateFails
  BY <1>9 DEF CreateFails, StartInv, InstallInv
<1>2. CASE TableExists
  <2>1. /\ boot = "create" /\ table # NoTable /\ boot' = "done"
        /\ UNCHANGED <<firmware, table, torn>>
    BY <1>2 DEF TableExists, disk
  <2> QED
    BY <2>1 DEF StartInv, InstallInv, Whole
<1>3. CASE LoadRow
  <2>1. /\ boot = "load" /\ boot' = "load" /\ table'.version = table.version
        /\ UNCHANGED <<firmware, torn>>
    BY <1>3 DEF LoadRow, OtaTypeOK
  <2> QED
    BY <2>1 DEF StartInv, InstallInv
<1>4. CASE LoadEnds
  <2>1. /\ boot = "load" /\ boot' = "done" /\ torn' = (torn \/ table.rows < ROWS)
        /\ UNCHANGED <<firmware, table>>
    BY <1>4 DEF LoadEnds, disk
  <2>3. ~ torn' => ~ torn /\ ~ (table.rows < ROWS)
    BY <2>1, Zenon
  <2>4. ~ (table.rows < ROWS) => table.rows = ROWS
    BY OtaAssumption DEF OtaTypeOK, OtaAssumption
  <2>2. ~ torn' => table = Whole
    BY <2>1, <2>3, <2>4 DEF StartInv, Whole, OtaTypeOK
  <2> QED
    BY <2>1, <2>2 DEF StartInv, InstallInv, Whole
<1>5. CASE \/ RequestImage \/ QueryFails \/ QuerySent \/ ArmTimer \/ TimerFires
           \/ RequestDownload \/ CloudOffers \/ HandleOffer \/ StartDownload
  <2>1. UNCHANGED <<boot, firmware, table, torn>>
    BY <1>5 DEF RequestImage, QueryFails, QuerySent, ArmTimer, TimerFires,
                RequestDownload, CloudOffers, HandleOffer, StartDownload, Become, disk
  <2>2. \A t \in Threads :
           pc[t] \in {"complete", "success", "reboot"} => pc'[t] = pc[t]
    BY <1>5 DEF RequestImage, QueryFails, QuerySent, ArmTimer, TimerFires,
                RequestDownload, CloudOffers, HandleOffer, StartDownload, Become,
                OtaTypeOK, Threads
  <2> QED
    BY <2>1, <2>2 DEF StartInv, InstallInv, Whole
<1>6. ASSUME NEW t \in Threads, Download(t) PROVE StartInv' /\ InstallInv'
  BY <1>6, DownloadStep
<1>7. CASE PowerFails
  BY <1>7, AfterRestart DEF PowerFails
<1>8. CASE UNCHANGED ota_vars
  BY <1>8 DEF ota_vars, StartInv, InstallInv, Whole
<1> QED
  BY <1>1, <1>2, <1>3, <1>4, <1>5, <1>6, <1>7, <1>8, <1>9 DEF OtaNext

\* A process that is not installing has the whole recipe table of its own
\* firmware, unless power failed between the installer and the drop of the
\* table or while recipes_parse_json was filling it, or one of the statements
\* that create, fill and drop the table failed (database.c:48, database.c:476).
THEOREM RecipesComplete == OtaSpec => []RecipesFollowFirmware
<1>1. OtaSpec => [](StartInv /\ InstallInv)
  BY TableInit, OtaTypeCorrect, TableStep, PTL DEF OtaSpec
<1>2. InstallInv => RecipesFollowFirmware
  BY DEF InstallInv, RecipesFollowFirmware, Busy, Whole
<1> QED
  BY <1>1, <1>2, PTL
=============================================================================
