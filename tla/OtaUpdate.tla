----------------------------- MODULE OtaUpdate -----------------------------
(***************************************************************************)
(* Firmware update and the recipe table.                                   *)
(*                                                                         *)
(* The screen asks on the uds thread whether there is a new firmware, or   *)
(* for its download; the cloud offers firmware on its own thread.  Either  *)
(* thread then runs download_fota_image to the end: download, install,     *)
(* drop the recipe table, reboot.  A timer armed by the question says "no  *)
(* firmware" ten seconds later.  All of them write g_ota_state without a   *)
(* lock.  At the next start the recipe table is filled from Recipes.json,  *)
(* row by row, if it does not exist.  Power may fail at any step.          *)
(*                                                                         *)
(* The cloud is external: it offers firmware in answer to a question or of *)
(* its own accord.                                                         *)
(***************************************************************************)
EXTENDS Naturals

CONSTANTS
    ROWS,         \* rows of Recipes.json
    MaxVersion,   \* bound: firmware versions
    MaxOffers     \* bound: offers under way

ASSUME OtaAssumption ==
    ROWS \in Nat \ {0} /\ MaxVersion \in Nat \ {0} /\ MaxOffers \in Nat

Threads == {"uds", "cloud"}

OtaStates == {"IDLE", "NO_FIRMWARE", "NEW_FIRMWARE", "DOWNLOAD_START",
              "DOWNLOAD_FAIL", "DOWNLOAD_SUCCESS", "INSTALL_START",
              "INSTALL_FAIL", "INSTALL_SUCCESS"}

VARIABLES
    g_ota_state,
    timer,       \* is g_ota_timer armed?
    pc,          \* what each thread is doing; "off" before the start is over
    boot,        \* "create", "load" or "done"
    firmware,    \* version on the flash
    table,       \* recipe table: [version, rows], version 0 if there is none
    offers,      \* offers on their way from the cloud
    torn         \* history: has power, or a statement, failed where the table
                 \* suffers?

ota_vars == <<g_ota_state, timer, pc, boot, firmware, table, offers, torn>>
disk == <<firmware, table>>

NoTable == [version |-> 0, rows |-> 0]

OtaInit ==
    /\ g_ota_state = "IDLE" /\ timer = FALSE
    /\ pc = [t \in Threads |-> "off"]
    /\ boot = "create"
    /\ firmware = 1 /\ table = NoTable
    /\ offers = 0
    /\ torn = FALSE

Become(t, p, s) ==
    /\ pc' = [pc EXCEPT ![t] = p]
    /\ g_ota_state' = s

(***************************************************************************)
(* Start: database_init, recipes_parse_json                                *)
(***************************************************************************)
CreateTable ==
    /\ boot = "create" /\ table = NoTable
    /\ table' = [version |-> firmware, rows |-> 0]
    /\ boot' = "load"
    /\ UNCHANGED <<g_ota_state, timer, pc, firmware, offers, torn>>

\* the result is only looked at for the rows
CreateFails ==
    /\ boot = "create" /\ table = NoTable
    /\ boot' = "done" /\ pc' = [t \in Threads |-> "idle"]
    /\ torn' = TRUE
    /\ UNCHANGED <<g_ota_state, timer, disk, offers>>

TableExists ==
    /\ boot = "create" /\ table # NoTable
    /\ boot' = "done" /\ pc' = [t \in Threads |-> "idle"]
    /\ UNCHANGED <<g_ota_state, timer, disk, offers, torn>>

\* one autocommitted insert
LoadRow ==
    /\ boot = "load" /\ table.rows < ROWS
    /\ table' = [table EXCEPT !.rows = @ + 1]
    /\ UNCHANGED <<g_ota_state, timer, pc, boot, firmware, offers, torn>>

\* with fewer rows if the file is not there or not as it should be, or an
\* insert fails: nobody looks
LoadEnds ==
    /\ boot = "load"
    /\ boot' = "done" /\ pc' = [t \in Threads |-> "idle"]
    /\ torn' = (torn \/ table.rows < ROWS)
    /\ UNCHANGED <<g_ota_state, timer, disk, offers>>

(***************************************************************************)
(* OTARquest from the screen                                               *)
(***************************************************************************)
RequestImage ==
    /\ pc["uds"] = "idle"
    /\ Become("uds", "query", "IDLE")
    /\ UNCHANGED <<timer, boot, disk, offers, torn>>

QueryFails ==
    /\ pc["uds"] = "query"
    /\ Become("uds", "idle", "NO_FIRMWARE")
    /\ UNCHANGED <<timer, boot, disk, offers, torn>>

\* the answer may come before the timer is armed
QuerySent ==
    /\ pc["uds"] = "query"
    /\ pc' = [pc EXCEPT !["uds"] = "arm"]
    /\ \/ offers < MaxOffers /\ firmware < MaxVersion /\ offers' = offers + 1
       \/ UNCHANGED offers
    /\ UNCHANGED <<g_ota_state, timer, boot, disk, torn>>

ArmTimer ==
    /\ pc["uds"] = "arm"
    /\ timer' = TRUE
    /\ pc' = [pc EXCEPT !["uds"] = "idle"]
    /\ UNCHANGED <<g_ota_state, boot, disk, offers, torn>>

TimerFires ==
    /\ timer
    /\ timer' = FALSE
    /\ g_ota_state' = "NO_FIRMWARE"
    /\ UNCHANGED <<pc, boot, disk, offers, torn>>

RequestDownload ==
    /\ pc["uds"] = "idle"
    /\ Become("uds", "download", "DOWNLOAD_START")
    /\ UNCHANGED <<timer, boot, disk, offers, torn>>

(***************************************************************************)
(* user_fota_event_handler on the cloud thread                             *)
(***************************************************************************)
CloudOffers ==
    /\ boot = "done" /\ offers < MaxOffers /\ firmware < MaxVersion
    /\ offers' = offers + 1
    /\ UNCHANGED <<g_ota_state, timer, pc, boot, disk, torn>>

AcceptsOffer ==
    g_ota_state \in {"IDLE", "NO_FIRMWARE", "DOWNLOAD_FAIL", "INSTALL_FAIL"}

HandleOffer ==
    /\ pc["cloud"] = "idle" /\ offers > 0
    /\ offers' = offers - 1
    /\ IF AcceptsOffer THEN pc' = [pc EXCEPT !["cloud"] = "accepted"]
                       ELSE UNCHANGED pc
    /\ UNCHANGED <<g_ota_state, timer, boot, disk, torn>>

\* the state may have changed since it was looked at
StartDownload ==
    /\ pc["cloud"] = "accepted"
    /\ Become("cloud", "download", "DOWNLOAD_START")
    /\ UNCHANGED <<timer, boot, disk, offers, torn>>

(***************************************************************************)
(* download_fota_image, on either thread                                   *)
(***************************************************************************)
DownloadFails_Silently(t) ==
    /\ pc[t] = "download"
    /\ pc' = [pc EXCEPT ![t] = "idle"]
    /\ UNCHANGED <<g_ota_state, timer, boot, disk, offers, torn>>

DownloadFails(t) ==
    /\ pc[t] = "download"
    /\ Become(t, "idle", "DOWNLOAD_FAIL")
    /\ UNCHANGED <<timer, boot, disk, offers, torn>>

DownloadEnds(t) ==
    /\ pc[t] = "download"
    /\ Become(t, "downloaded", "DOWNLOAD_SUCCESS")
    /\ UNCHANGED <<timer, boot, disk, offers, torn>>

InstallStarts(t) ==
    /\ pc[t] = "downloaded"
    /\ Become(t, "install", "INSTALL_START")
    /\ UNCHANGED <<timer, boot, disk, offers, torn>>

\* system() runs the installer; its exit status is not looked at
Install(t) ==
    /\ pc[t] = "install"
    /\ \/ firmware < MaxVersion /\ firmware' = firmware + 1
       \/ UNCHANGED firmware
    /\ pc' = [pc EXCEPT ![t] = "complete"]
    /\ UNCHANGED <<g_ota_state, timer, boot, table, offers, torn>>

Complete_KeepsTable(t) ==
    /\ pc[t] = "complete"
    /\ pc' = [pc EXCEPT ![t] = "success"]
    /\ UNCHANGED <<g_ota_state, timer, boot, disk, offers, torn>>

\* ota_complete_cb drops the recipe table; if it cannot, the update goes on
Complete(t) ==
    /\ pc[t] = "complete"
    /\ \/ table' = NoTable /\ UNCHANGED torn
       \/ table # NoTable /\ torn' = TRUE /\ UNCHANGED table
    /\ pc' = [pc EXCEPT ![t] = "success"]
    /\ UNCHANGED <<g_ota_state, timer, boot, firmware, offers>>

InstallSucceeds(t) ==
    /\ pc[t] = "success"
    /\ Become(t, "reboot", "INSTALL_SUCCESS")
    /\ UNCHANGED <<timer, boot, disk, offers, torn>>

BackToStart ==
    /\ g_ota_state' = "IDLE" /\ timer' = FALSE
    /\ pc' = [t \in Threads |-> "off"]
    /\ boot' = "create"
    /\ UNCHANGED <<disk, offers>>

\* what a restart now leaves of the table
TornNow ==
    \/ boot = "load"
    \/ \E t \in Threads : pc[t] = "complete"
    \/ torn /\ table # NoTable

Reboot(t) ==
    /\ pc[t] = "reboot"
    /\ torn' = TornNow
    /\ BackToStart

PowerFails ==
    /\ torn' = TornNow
    /\ BackToStart

Download(t) ==
    \/ DownloadFails(t) \/ DownloadEnds(t) \/ InstallStarts(t) \/ Install(t)
    \/ Complete(t) \/ InstallSucceeds(t) \/ Reboot(t)

OtaNext ==
    \/ CreateTable \/ CreateFails \/ TableExists \/ LoadRow \/ LoadEnds
    \/ RequestImage \/ QueryFails \/ QuerySent \/ ArmTimer \/ TimerFires
    \/ RequestDownload \/ CloudOffers \/ HandleOffer \/ StartDownload
    \/ \E t \in Threads : Download(t)
    \/ PowerFails

OtaSpec == OtaInit /\ [][OtaNext]_ota_vars

(***************************************************************************)
(* Properties                                                              *)
(***************************************************************************)
\* The variables stay in their ranges, and threads run only after the start.
OtaTypeOK ==
    /\ g_ota_state \in OtaStates /\ timer \in BOOLEAN
    /\ pc \in [Threads -> {"off", "idle", "query", "arm", "accepted",
                           "download", "downloaded", "install", "complete",
                           "success", "reboot"}]
    /\ pc["cloud"] \notin {"query", "arm"} /\ pc["uds"] # "accepted"
    /\ boot \in {"create", "load", "done"}
    /\ \A t \in Threads : (pc[t] = "off") = (boot # "done")
    /\ firmware \in 1 .. MaxVersion
    /\ table \in [version : 0 .. MaxVersion, rows : 0 .. ROWS]
    /\ offers \in 0 .. MaxOffers
    /\ torn \in BOOLEAN

Busy(t) == pc[t] \in {"install", "complete", "success", "reboot"}

\* A running process that is not installing has the whole recipe table of its
\* firmware, unless power failed between the installation and the drop or
\* while the table was being filled, or creating, filling or dropping it failed:
\* then it may be wrong until the table has been dropped and made anew.
RecipesFollowFirmware ==
    boot = "done" /\ ~ torn /\ (\A t \in Threads : ~ Busy(t)) =>
        table = [version |-> firmware, rows |-> ROWS]

\* While g_ota_state says DOWNLOAD_START nothing is reported to the cloud; it
\* says so only while a download runs, however the threads and the timer
\* overwrite each other's states: reporting resumes when the downloads are over.
SuppressedOnlyWhileDownloading ==
    g_ota_state = "DOWNLOAD_START" => \E t \in Threads : pc[t] = "download"
=============================================================================
