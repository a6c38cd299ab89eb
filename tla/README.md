# The X50BCZ server process in TLA+

X50BCZ is the communication board of an integrated stove.  The program modelled
here is its server process, `src/x50`: it connects the power board (called ECB,
on a serial line), a gesture module (a second serial line), the touch screen (a
unix socket), the Aliyun cloud (the linkkit SDK), the Wi-Fi driver and a local
SQLite database.  There are no unit tests in the repository; what the parts
promise one another is written in the tables under `src/x50UI协议` and in the
comments of the code.

Paths below are relative to `src/x50/src` unless they begin with `src/`.

1. [The system](#1-the-system) -- threads, components, hard behaviours
2. [Modules](#2-modules) -- which module models what, and how
3. [Runs](#3-runs) -- what each shows, bounds, fairness
4. [Proofs](#4-proofs)
5. [Disagreements between the code and its documents](#5-disagreements-between-the-code-and-its-documents)
6. [What is not modelled](#6-what-is-not-modelled)
7. [Plan](#7-plan)

## 1. The system

### Threads

| thread | started in | runs |
| --- | --- | --- |
| main | `main.c:57` | `uart_task`: a select loop over both serial lines, 200 ms timeout |
| uds | `main.c:54` | `uds_tcp_server_task`: a select loop over the screen's socket |
| cloud | `main.c:51` | `cloud_task`: `linkkit_main`, whose callbacks deliver cloud messages, OTA and reset replies |
| timers | `POSIXTimer*` | SIGEV_THREAD callbacks: OTA timeout, cook name, gesture clock |
| Wi-Fi | RK driver | `wiFiCallback` |
| signal | `signalQuit.c` | `main_quit`, then `exit` |

Three mutexes protect shared state, and none covers another's:

- that of `cloud_platform_task.c`: one SET at a time, from the screen or the
  cloud (`cloud_resp_set`);
- that of `ecb_uart.c`: a write to the serial line together with the `list_add`
  of its frame;
- that of `uds_protocol.c`: an event sent to both screen clients.

What the main thread does with frames from the power board takes none of the
first two, and the factory reset runs on the uds thread without the first.

### Components

**Cooking history** (`src/x50/libhistory`, `databse/database_task.c`,
`databse/database.c`).  *State*: the table `history` (every statement commits by
itself), the `std::list` `historyList` that mirrors it, the counter
`g_history_seqid` from which sort numbers are drawn.  *Operations*: cook
(insert, or refresh a collected dish), UpdateHistory (collect, uncollect,
rename), DeleteHistory, factory reset, look-up of a recipe's name by id, load at
start.  *Called from*: SET jobs (uds or cloud thread, mutex held); reset (uds
thread, no mutex); look-up (main thread while a report is being put together, no
mutex).  *Hard*: a job is several statements and several list operations; a
crash may fall between any two; the counter is written by a thread without the
mutex; eviction decides on the list and deletes from the table.  *Correct when*:
list and table agree between jobs, no cooking record is lost, ids are never used
again, eviction takes the oldest, the limits hold.

**Resend list** (`uart/ecb_uart.c`, `uart/uart_resend.c`,
`src/liblinktool/tool/list.h`).  *State*: `ecb_seq_id`, the list of frames that
have not been answered, with retransmissions left and time of the next.
*Operations*: send (draw a number, write, `list_add`), answer (`list_del` by
number), tick (retransmit or give up).  *Hard*: senders on several threads; the
number is drawn without the lock; the main thread scans, unlinks and frees
without the lock the adders hold; an answer may come before the frame is listed;
frames and answers get lost.  *Correct when*: a frame goes out at most three
times, never after its answer, and is given up only after the last; every frame
is settled; the list stays a list.

**Supervision of the power board** (`uart/ecb_uart.c`,
`uart/ecb_uart_parse_msg.c`).  *State*: poll interval and counters, heart-beat
counter, attributes ErrorCode and ErrorCodeShow.  *Operations*: timeout of
select (poll, count), HEART, GETACK, EVENT.  *Hard*: it counts timeouts of
select and not seconds; three writers of the error attributes.  *Correct when*:
error 9 is raised for outages only and once for each, a lost board is noticed
and polled often, a board that returns is noticed, and the error attributes come
to show what the board reports.

**Frame parser of the power board** (`uart/ecb_uart_parse_msg.c`,
`uart/uart_task.c`).  *State*: a 512-byte buffer with what is left of earlier
reads.  *Operations*: find header, check length and tailer, hand the payload on,
keep the rest.  *Hard*: frames split over reads and run together, garbage
between them, lengths at the limit of the buffer.  *Correct when*: frames are
handed on once, in order and as soon as they are complete, however reads split
them; a good frame after garbage is found; only an accepted length that cannot
fit fills the buffer for good.

**Gesture link** (`uart/gesture_uart.c`).  *State*: the last frame's alarm,
swipe and error flags.  *Operations*: parse a 10-byte frame, hood speed
up or down, light, alarm, synchronise the time.  *Hard*: everything is reported
on the edge between two frames; it writes ErrorCode beside two others.

**Attribute table** (`cloud_platform_task.c`).  *State*: the value of each
attribute in serial form.  *Operations*: report from serial bytes to screen and
cloud, SET from JSON to serial bytes, GET and GETALL, conversions.  *Hard*: main
thread writes while others read; a SET's values take effect only when the board
reports them back; reports are dropped during a download or without a
connection.  *Correct when*: the table follows the board, screen and cloud come
to have the table's value, and the event at the end of cooking is pushed by one
of the two threads that may have to.

**Screen socket** (`uds/uds_tcp_server.c`, `src/liblinktool/tcp/select`).
*State*: two client slots, the event list and the fd set of `select_server`, the
descriptors.  *Operations*: accept, receive, hang-up in three steps, send to
both clients on any thread.  *Hard*: descriptors are closed and taken again
while another thread is about to send to them; `send` blocks with the mutex
held.  *Correct when*: the tables agree, `recv` never blocks, who is there gets
each event once, who has gone is cleared away, requests are read.

**Screen protocol** (`uds/uds_protocol.c`).  No state of its own but its mutex:
frames with header, length, checksum around JSON; SET, GET, GETALL dispatched to
the attribute, device, Wi-Fi, database and OTA tables.

**Firmware update** (`aliyun/linkkit_ota.c`, `ota/ota_task.c`,
`aliyun/linkkit_solo.c:170-190`, `databse/database.c`).  *State*: `g_ota_state`,
a timer, the installed firmware, the table `recipe`.  *Operations*: question and
its timeout, download and install on two threads, drop of the recipe table,
refill at the next start.  *Hard*: three threads write the state without a lock;
power may fail anywhere.  *Correct when*: the recipe table is that of the
firmware, and reporting to the cloud is silenced only while a download runs.

**Unbinding** (`aliyun/linkkit_reset.c`).  *State*: the flag `awss.rst`, in
flash.  *Operations*: request (set, report), reply (clear), check at each
connection (report again if set).  *Hard*: replies late or never, restarts.
*Correct when*: a request is kept until it is carried out, and never waits with
nothing under way while the connection lasts.

**Wi-Fi and cloud link** (`wifi/wifi_task.c`, `wifi/rkwifi.c`,
`aliyun/linkkit_solo.c`).  *State*: driver state, cloud connection, WifiState as
reported.  *Operations*: scan, connect, the driver's callback (which keeps
CONNECTED back until the cloud is connected), the cloud's callbacks.  *Hard*:
three threads report the same attribute.  *Correct when*: the screen ends with
the state that lasts.

**Device attributes** (`device/device_task.c`): versions, QR code, and Reset,
which empties the history and asks for unbinding.  **Start and shutdown**
(`main.c`, `signalQuit.c`): start order, and `main_quit`, which frees what the
other threads use. **liblinktool**: timers, files and sockets.  **Third party**:
`src/alinksdk`, cJSON, klib, base64, zlog.

PROJECT.json lists every component with its status, and under "hazards" what is
hard to test in each, at its line.

## 2. Modules

| module | models | state → code |
| --- | --- | --- |
| `CookHistory` | cooking history | `db`, `nextId` → table and AUTOINCREMENT; `historyList`; `g_history_seqid`; `job` → the thread in `cloud_resp_set`, between two statements; `reset`, `lookup` → the threads without the mutex; `spoilt`: history |
| `FrameDelivery` | abstract: what the resend list promises of a frame | a state and a count per request |
| `EcbResend` | sending, resending, answers | variables of `ecb_uart.c` under their names; `pc` → where each thread is; `list`, `stamp` → ECB_LIST_RESEND and its order; `wire`, `answers` → the line |
| `StackList` | abstract: a sequence with push and delete, which a race may spoil until it is renewed | -- |
| `ResendList` | `list_add`, `list_del`, the scan, store by store | `next`, `prev` → the pointers; `freed` nodes; `raced`: history |
| `EcbLink` | supervision | counters under their names; `uplink` → bytes that wait to be read |
| `OtaUpdate` | firmware update, recipe table | `g_ota_state`, `timer`; `pc` → uds and cloud thread in `download_fota_image`; `firmware`, `table` → flash |
| `UdsServer` | screen socket | `slot`, `event`, `watched`, `ready` → client slots, `select_client_event`, `r_copy_fds`, `rfds`; `file` → the process's descriptors; `sender`, `next`, `target` → a thread in `send_event_uds` |
| `UartFrame` | frame parser of the power board | `buf` → `uart_read_buf`; `parsing` → in the loop of `uart_parse_msg`; `line`, `out` → bytes waiting and still to come |
| `Attributes` | one attribute from the board to screen and cloud | `table` → `attr->value`; `main`, `uds`, `cloud` → what each thread has in hand; `uart`, `net` → what is under way; `screen`, `shadow` → what arrived |
| `CloudLink` | cloud connection, unbinding, WifiState | `rst` → `awss.rst`; `cloud_connected`; `sdk`, `driver`, `uds`, `asking` → the threads; `reports`, `replies` → what is under way |
| `CookHistoryProofs`, `EcbResendProofs`, `ResendListProofs`, `UartFrameProofs`, `EcbLinkProofs`, `CloudProofs` (of `CloudLink` and `OtaUpdate`), `AttributesProofs`, `UdsServerProofs` | the theorems | -- |
| `MCCookHistory`, `MCEcbResend`, `MCResendList`, `MCUartFrame` | values of the constants | -- |

`FrameDelivery` and `EcbResend` are connected by `ImplementsDelivery`
(INSTANCE with a mapping from the list, the counters and the threads' positions
to the abstract state), `StackList` and `ResendList` by `ImplementsStack`.
`EcbResend` takes a list operation as one step, `ResendList` shows when that is
right; it takes frames as wholes, `UartFrame` shows when they are.  `Attributes`
and `OtaUpdate` meet in `g_ota_state`: the first lets a download begin and end at
any moment, the second shows that reports are silenced only while one runs.

An operator named `X_Y` is the definition `X` with the mistake `Y`, such as
`CollectionFull_OffByOne`.  No behaviour uses one; they are the mistakes that the
properties have been seen to notice, and PROJECT.json lists which notices which.

### Abstractions, module by module

**CookHistory.** A dish is a value that stands for name, picture, details and
steps together, which is what `compareHistoryCollect` compares; `NoDish` is an
UpdateHistory without a name.  The list is read only after it has been sorted by
(collect, seqid), so it is the set of its entries, and equal keys leave the order
open.  `insertHistory` refreshes a collected dish in the list but sends a zeroed
`history_t` with the timestamp only to the table, under id 0 (`history.cpp:62`),
so the model does that too, and `ListMirrorsTable` is about everything but
timestamps.  List operations are one step each; the statements between them are
the steps at which other threads and crashes come in.  A looked-up recipe is
listed again only when its entry has changed (in the code it may be listed many
times, which adds copies and no new values).  `collect` in an UpdateHistory is -1
(absent), 0 or 1. Reset and look-up fall between any two steps of a job.
`spoilt` is a history variable that records what they have spoilt: "counter",
when the late store of a look-up has set `g_history_seqid` back; "list", when a
recipe was listed or a reset fell into a job, so that list and table differ;
"limits", when room may have been made on such a list.  A start reads list and
counter back from the table and clears the first two; a reset while nothing else
runs clears all.

**EcbResend.** A request is a value of its own; what is in the frames is left
out.  Sequence numbers are taken modulo `SEQ_SPACE` (2^16 in the code, 8 in the
runs: three numbers are ever drawn) and are read and stored in two steps, as
`ecb_seq_id++` without a lock is.  Requests are sent once each.  `last` is the
request the board took last, which is the one whose setting it has if both set
the same attribute.

**ResendList.** Each store to `next` and `prev` is a step, in program order; the
freed node's pointers are poison, as `list_del` leaves them.  The compiler's and
the processor's reorderings are left out.  The two threads overlap at every
store; `raced` is a history variable that records that the first node was
unlinked during a `list_add`.  From then on a thread may follow a freed node or a
poisoned link.  The latter ends the process and the former may (`Fault`); the
next start has an empty list.

**EcbLink.** Intervals are scaled down with their order kept (section 3).
ErrorCode is a number of 32 bits and `Bytes` does what the shifts of
`send_error_to_cloud` do, the third of which is by 6.  A board that runs beats
within `BeatEvery` timeouts.

**OtaUpdate.** A version is a number.  An offer may come in answer to a question
or without one.  Progress reports and the version string change nothing else and
are left out.  Making the recipe table, each insert into it and its DROP may fail,
the file may be missing or broken, and the code goes on all the same.  `torn` is a
history variable: power failed between installation and drop or while the table
was filled, or one of those statements failed; it is cleared at a start
that finds no table and makes it anew.

**UdsServer.** Descriptors are numbers that `accept` takes lowest first; those
that other files of the process would take are left out.  Requests are counted,
bytes are not modelled.  GETALL answers with one event here and two in the code.
Only one client at a time reads nothing.

**UartFrame.**  A call of `ecb_uart_parse_msg` is a step, in the order of its
returns: too short, no header, fields missing, length refused, frame given up,
rest missing, wrong tailer, frame handed on.  The check sum is not modelled: the
code compares it, says so in the log, and hands the frame on all the same
(`ecb_uart_parse_msg.c:215`).  Consumed bytes are cut off at once instead of by
the `memmove` after the loop.  Bytes that arrive while the loop runs are taken to
arrive just after it.  The line may lose, alter or insert `MaxNoise` bytes.
`cut` records that a frame was given up because what had been read of it
happened to end in TT.

**Attributes.**  One attribute that is reported, settable by nobody, with the
value that is pushed.  SET reaches it as a change at the board (the frames of a
SET are `EcbResend`'s); conversions and the other attributes are left out.  A
post on its way to the cloud may be overtaken by a later one of the same
connection, so only the latest is kept.  A push counts as done once it has been
handed to the SDK under `cloud_connected`, although the link may just have gone:
the code learns nothing more of it, and a reconnect pushes again.  `excused`
records why an event may not have been pushed: a download, or a connection made
between the comparison with the old value and the store of the new one.

**CloudLink.**  Requests are numbered and a reply carries the number of requests
made when the cloud unbound the stove, which the code does not know: it clears the
flag for any reply.  A restart (the key, or power) loses everything but the flag.
`user_connect_fail_event_handler` is left out, as the SDK in the repository never
raises ITE_CONNECT_FAIL.  Both threads that ask for unbinding, uds for Reset and
main for the key, may be between flag and report at once.  The report needs no
answer to a subscription first: the SDK's subscription is local
(`src/alinksdk/output/eng/infra/infra_config.h:33`, MQTT_AUTO_SUBSCRIBE) and
returns at once.

The driver is not in the repository.  Its states are `connected`, `disconnected`
and the constant `OtherStates`, which are those of
`src/x50UI协议/WIFI/X50 WIFI属性表.md:8` (idle, connecting, connect failed, wrong
password); it moves between any two, is without a network in all but the first,
and calls back for the last change, as `wiFiCallback` expects.  `overtaken` records
that the uds thread showed a state that had changed since it read it.

## 3. Runs

| run | result | distinct states | question |
| --- | --- | --- | --- |
| `history_jobs` | holds | 860,392 | jobs, evictions, resets and crashes: do list and table stay together, within the limits, and what does a reset inside a job spoil? |
| `history_threads` | holds | 4,472,974 | reset and look-up overlap jobs: what can put the counter behind? |
| `history_lookup_race` | violated | | does every INSERT add a row, as documented? |
| `resend` | holds | 66,304 | two senders, a receiver, a loss: do frames go out, settle and arrive as they should, and in order? |
| `list_threads` | holds | 22,810 | which overlap of the unlocked list accesses does harm? |
| `list_race` | violated | | is a deleted node off the list? |
| `link` | holds | 30,294 | alarms, polls and error attributes through outages and returns |
| `ota` | holds | 23,473 | recipes and reporting through downloads, timers, failures of power and of statements |
| `uds` | holds | 157,739 | tables, events and hang-ups while clients come, go and block |
| `frame` | holds | 347,208 | frames split, joined and disturbed: are they handed on, does the parser recover? |
| `attributes` | holds | 526,636 | three threads pass a value on: who has it in the end, who pushes? |
| `cloud` | holds | 274,835 | unbind requests and WifiState through lost connections and restarts |

### What they show, and why the bounds are enough

**history_jobs.**  `ListMirrorsTable`, `EvictsOldest`, `LimitsKept`.  Two
dishes, two uncollected and one collected entry, four rows ever inserted, and
`g_history_seqid` up to five when the last job starts.  Both limits are reached
and passed, both in one history, an evicted row's id can still be named, and a
dish is collected, uncollected and cooked again.  The limits hold in the form
the code keeps them: the collection never outgrows its limit, the history alone
may (rows that leave the collection are not counted), both together never do.
A reset may fall between any two steps of a job; what it breaks is recorded in
`spoilt`, and the run shows that nothing else breaks list, order or limits, and
that they are right again after the next start or the next reset.

**history_threads.**  Reset and look-up at any step of a job, limits 1 and 1 and
one recipe, whose id and seqid meet those of history rows.  `SeqidFresh`,
`InsertKeepsRows` and `IdNeverReused` are claimed here rather than in
`history_jobs`, where no recipe is looked up.  The first two end when a look-up
stores its number after a job has moved on, and begin again with the next start
or reset; the third holds throughout.

**history_lookup_race.**  `InsertAdds` is `InsertKeepsRows` without that
exception, as the document has it.

**resend.**  Two requests on two threads (one of them the main thread, which
also receives), one retransmission, one loss, one GET.  One of each is the least
at which a frame can be lost and arrive, or arrive and lose its answer; two
requests are the least at which numbers collide and one frame overtakes the
other, and one GET lets the main thread draw a number in between.
`AnsweredWasReceived` says an answer takes off a frame the board has received or
one that shares its number with such a frame.  `OlderOnlyByResend` is about the
order of settings: the code may well bring back an older SET after a newer one,
by a retransmission (`list_add` puts the newest frame first, so one scan resends
newest first), but in no other way.  Fairness: each thread runs; WAIT_TICK
passes; the board serves its line; and select's timeout comes again and again
(`SF_vars(SelectTimeout)`).  The last is an assumption on the environment: the
timeout comes only when neither line has brought a byte for 200 ms, and a gesture
module that never stops sending would starve it.  `SF_vars(ReceiveAnswer)`: a
byte that has arrived makes select return at once, whatever the timeout would do.

**list_threads, list_race.**  Three nodes: a first, a middle and a last one, and
one being added.  In the first run the race happens too, and the type invariant
is checked through what follows it; the other properties end with the race and
begin again when the process has been restarted.  `DeletedIsOff`, checked in the
second, makes no exception.

**link.**  Short interval 2, long 5, heart-beat time 3, four
unanswered polls scaled to 2, beats at least every 2 timeouts, one board fault,
two frames waiting.  The constants in the code are 15, 450, 75 and 4.  The order
short < long, and beat < heart-beat time, is what the properties depend on, and
is an ASSUME of the module.  The heart-beat time lies between the short and the
long interval as it does in the code.  Liveness is
stated under `LinesFallSilent`, for the reason given above, and with it
`SF_vars(Timeout)`.

**ota.**  Two recipes, three versions, two offers under way:
both threads install at once, and a second update follows a torn first.  No
liveness is claimed: how long a download takes is up to the SDK and the network.

**uds.**  Three connections over two slots, one waiting to be accepted, one
request unread.  Three are the least at which a slot and a descriptor are taken
again while the other client is still there, and at which a third client finds
no slot.  Fairness: the uds thread runs its loop; a thread in `send_event_uds`
runs; a `send` that blocks is woken when its client reads (`SF_vars(Send)`) and
a client that stops reading reads again or hangs up (`WF_vars(ReadAgain)`: a
screen that hung for good would hold up everything, in the code as in the
model); the mutex, which the other threads take a few times a second, is not
kept from the uds thread for ever (`SF_vars(Answer)`).

**frame.**  A byte has 10 values instead of 256, with header and tailer bytes 9
and 8; the buffer has 22 bytes instead of 512, and payloads up to 22 are accepted
as those up to 512 are there, so that lengths 12 to 22 stand for 502 to 512:
accepted, and too long for the buffer.  The board sends a frame without payload
and one whose payload begins like a frame and whose check sum ends like a tailer,
both well formed as the theorems assume (`BoardFramesFit`, an ASSUME that TLC
evaluates); twelve bytes wait at most, so that reads end anywhere and span
frames. One byte is disturbed: the one that makes a length too long is among
them. `FullOnlyForLongFrame` says that nothing else fills the buffer for good.
That case is real: from then on `read` has no room and returns 0, and as `select`
returns at once for the unread bytes its timeout never comes, so neither polling,
retransmission nor watchdog runs on. `Recovers` is about what the parser does
after a disturbance.  Two accidents of timing may each cost another frame: a read
that ends in half a header behind rubbish, and one that ends in a TT inside a
frame; its premise is that they end.  Fairness: the main thread runs, bytes
arrive, the board repeats each frame.

**attributes.**  Two values (the one that is pushed, and the table's first),
two changes at the board, one lost frame, two frames waiting.  Two changes are
the least at which the pushed value comes, goes and comes, and at which each
thread can hold a value that has been replaced twice.  `Converges` is about both
ends: GET asks for all attributes again, so whatever was lost, dropped or
overtaken is repaired by a later poll as long as the connection lasts
and no download runs.  Fairness: the threads run, the line, the network and the
board answer.  The poll needs `SF_vars(Poll)` for the reason given under
*resend*.  Nobody has to connect or to download.

**cloud.**  Two requests, an earlier one to be confused with a newer one, which
two threads may make at once.  One driver state besides connected and
disconnected: the code compares with CONNECTED only, so others differ from it
in name.  `ShownSettles` says of each state that lasts that the screen comes to
show it; for the states without a network it may show `disconnected` instead,
which is what the SDK's handler reports when the cloud is lost.  Fairness: the
threads and handlers run, the driver calls back, the cloud answers what reaches
it while the connection lasts, and the SDK notices when there is no network.
Nobody has to connect: the properties have a lasting state as a premise.

**What is excused.**  Some windows in the code do lose something, and the models
lose it with the code.  Six history variables record that such a window was met:
`spoilt` (`CookHistory`), `raced` (`ResendList`), `torn` (`OtaUpdate`), `excused`
(`Attributes`), `early` and `overtaken` (`CloudLink`).  The properties that name
one do not say that the window is harmless, but that it is the only one, and,
where the code repairs the damage (a start, a reset, an update), that it is
repaired.  Two of the windows contradict a document or a comment and have a run
that shows them, `history_lookup_race` and `list_race`; the others are in section
5.  What a looked-up recipe does in the history list has no property at all.

Deadlock is checked in every run.

The type invariants of the modules are proved (section 4), so the runs do not
check them again; `list_threads` still does, as what is left of a torn list is the
point there.

PROJECT.json also lists, for every property of a run that holds, a mistake in
the code's behaviour (an `X_Y` operator) under which that run fails.

## 4. Proofs

The theorems hold for every value of the constants that satisfies the ASSUME of
the module.  Each module's argument is an inductive invariant, checked by TLC
before it was proved.

**CookHistoryProofs** (`TypeCorrect`, `CounterAhead`, `NoRowReplaced`,
`IdsHandedOutOnce`, `ListMirrors`, `OldestEvicted`, `LimitsCorrect`). `FreshInv`
is `SeqidFresh` with two facts it needs: each row id is below the next one, so
that an insert takes an unused one (`RowsHaveIds`); and what is spoilt is
recorded in order, "counter" only with "list" and "list" only with "limits", so
that clearing some of it leaves no gap (`HarmsFollow`).  No theorem has a
hypothesis on the threads: reset and look-up overlap jobs in every way, and
`spoilt` says what they have done.  `TypeCorrect` and `IdsHandedOutOnce` hold
whatever it says, as ids come from AUTOINCREMENT.

`ListMirrorsTable` speaks of idle moments; `MirrorInv` says in between which of
row and entry is missing and which columns the row has that the entry has not yet,
statement by statement.  It is asked for while "list" is not in `spoilt` only, so
the proof has two more cases: what spoils the list says so, and what mends it, a
start or a reset with nothing else running, makes `MirrorInv` true from any state
(`MirrorCrash`, `MirrorReset`).  `VictimInv` says that the row chosen on the list
is still the oldest of the table when its DELETE runs.  `CountInv` bounds the
collected rows and all rows: while a job is about to insert or to collect there is
room for one more, and the delete of another row than the one looked up
(`history.cpp:166`) takes none of that away.  Dishes and limits of at least one
are arbitrary (40 and 40 in `history.h:14`).

**EcbResendProofs** (`TypeCorrect`, `WritersExclude`, `CountsCorrect`,
`ResendImplementsDelivery`, `AnswersCorrect`, `OrderCorrect`).  The invariant
has five parts: types; `LockCovers` (the thread between its write and its
`list_add` holds the lock); `SendersInv` (which thread a request is in the hands
of, and that one not yet called has not been sent); `ScanInv` (which requests
the main thread's scan has still to visit, and that the one it is at is listed);
`CountsAddUp` (transmissions made and left).  Refinement is proved step by step:
`WriteFrame` implements `First`, `Resend` implements `Again`, `ReceiveAnswer`
`Answered`, `CheckCount` `GiveUp`, and every other step leaves the abstract
state as it is.  `AnswersCorrect` rests on every answer under way being for a
number the board has seen.  `OrderCorrect` rests on `OrderInv`: a frame on the
line that is older than one ahead of it, or than one the board has had, is a
retransmission, and a frame between its write and its `list_add` is the last
that was written.

**ResendListProofs** (`TypeCorrect`, `NothingDangles`, `ListCorrect`,
`ListIsStack`).  `TypeCorrect` holds whatever the two threads do to the links;
its invariant `TypeInv` adds that a node not handed out yet is on no link.  The
others hold until `raced`, and again from the next start.  `RingInv` says that
all links agree with a sequence of distinct nodes: `next` goes through it and
back to the head (`NextRing`); `prev` goes back through it, except at the one
place where a `list_add` or a `list_del` has stored one link of its pair
(`PrevRing`); each node is new, freed, on it, or in the hands of one thread
(`Population`); and what each thread has read of the links is still so
(`AdderStands`, `MainStands`).  Before the race the two threads never store to
the same links, as `list_add` works at the first position and `list_del`
elsewhere.  For the refinement the mapping `Forward`, which follows `next` from
the head, is shown to be that sequence; then the store `LinkInFront` is `Push`,
`UnlinkPrev` is `Delete`, and every other store leaves the sequence alone.

**UartFrameProofs** (`TypeCorrect`, `FullCorrect`, `StreamCorrect`,
`DeliveryCorrect`).  The first two assume nothing of frames or disturbances: every
way out of the loop but one leaves a buffer with room in it, and that one leaves
what `FullOnlyForLongFrame` says.  The other two assume `FramesWellFormed`: what
the board sends has header, tailer, the length it states, and fits.  `StreamInv`
joins them, as each is needed for the other: that no complete frame is left in the
buffer makes room for the bytes behind it, and that the stream is a sequence of
frames is what the parser finds at its front.  Nothing is assumed of where reads
end; the properties themselves except streams that have been disturbed or in
which a frame was given up at a read that ended in TT.

**EcbLinkProofs** (`TypeCorrect`, `AlarmedOnce`, `AlarmsAreTrue`,
`LostIsPolledOften`).  `HeartInv`: while the board beats, the watchdog's counter
is at most the timeouts since its last HEART was read, less than the threshold
by the assumption that beats come more often; a HEART that waits to be read
keeps the timeout away.  `AlarmsInv`: as long as the counter is below its
threshold this outage has raised no alarm.

**CloudProofs** (of `CloudLink`: `TypeCorrect`, `RequestsAreKept`,
`FlagIsAttended`).  `RepliesInv`: no reply under way is for a request newer than
what the cloud has unbound; so the reply that clears the flag is either for the
newest request, which was carried out, or recorded as early.  `NeverStranded` is
inductive.  (Of `OtaUpdate`: `OtaTypeCorrect`, `ReportingResumes`,
`RecipesComplete`.)  `RecipesFollowFirmware` is about idle moments only and says
nothing of how they are left.  `StartInv` ties the table to how far the start has
come: none or whole before, of this firmware while it is filled.  `InstallInv`
says that afterwards the table is whole, or a thread has still to drop it, or one
has dropped it and goes on to the restart -- unless `torn` records a failure.

**AttributesProofs** (`TypeCorrect`, `TableCorrect`, `PushCorrect`).
`NewestInv`: the board's value is the last on the line, else in the main thread's
hands, else in the table.  `PushInv`: an event that neither thread pushed waits
for a connection, or for the thread that has just made one and has still to
collect.

**UdsServerProofs** (`TypeCorrect`, `TablesCorrect`, `RecvNeverBlocks`,
`EventsReachTheServed`).  `TablesAgree` holds at select only.  `ListInv` says what
holds at every step: the events are the slots except the one being cleared, each
once, and their descriptors are open, distinct and watched.  `ConnInv` says that a
connection is in the backlog or behind one descriptor, so reading one client takes
nothing from another; `ReadyInv`, that the clients select found ready and the loop
has not come to have still something to read.  For sending, `LeavingInv` says
that a client is cleared away only after it hung up and that nobody takes its
descriptor before its slot is cleared; `CopiesInv`, that a client served since
the loop began stands at its slot still, and has as many copies as the loop's
position says.

**Not proved: liveness** (`ListDrains`, `Delivered`, `OutageReported`,
`StatusFollows`, `ErrorsSettle`, `EndedAreReleased`, `RequestsRead`, `Recovers`,
`Converges`, `CarriedOut`, `ShownSettles`), which the prover cannot do under
fairness.  Every invariant and every action property that a run finds to hold is
also stated by a theorem.  Where an argument goes by induction over data (the
frames that are expected, the steps from the head of the list) it is carried out
in first-order form, on the set of numbers for which the claim holds (`Induct` in
`UartFrameProofs` and `ResendListProofs`).

## 5. Disagreements between the code and its documents

Shown by a run:

- `history_lookup_race` (`databse/database_task.c:70`): a look-up on the uart
  thread assigns `g_history_seqid` after a job has moved it on; the next INSERT
  OR REPLACE then deletes a row.
- `list_race` (`uart/ecb_uart_parse_msg.c:259`): the first node of the resend
  list is unlinked and freed while another thread is in `list_add`, and stays
  reachable.
Met while modelling; the models do what the code does:

- `libhistory/src/history.cpp:149`: when an update changes `collect` only the
  collection's limit is tested, in either direction, so dishes taken out of the
  collection may overfill the history; `数据库/X50菜谱和历史属性表.md:10` says 40
  history entries.  It also says 80 collected ones; `history.h:14` says 40.
- `history.cpp:166` deletes the entry being updated, not the one looked up.
- `history.cpp:106` reports an update of id 0.
- `databse/database_task.c:80`: a recipe that was looked up enters the history
  list.
- `databse/database.c:70`: the second statement of `databse_clear_table` always
  fails; that ids are not handed out again after a reset depends on it.
- `uart/gesture_uart.c:142` clears ErrorCode and leaves ErrorCodeShow;
  `gesture_uart.c:127` asks for an attribute with a function that looks at the
  first one only (`cloud_platform_task.c:81-87`).
- `aliyun/linkkit_solo.c:185` downloads and installs whatever the cloud offers;
  the OTA table (`云平台/X50 OTA属性表.md:10`) has a request of the user for it.
- `aliyun/linkkit_ota.c:111` does not look at the installer's status and never
  reports INSTALL_FAIL; NEW_FIRMWARE is never reported either, since
  `fota_event_handler` is not called.
- `uart/ecb_uart_parse_msg.c:23`: the third byte of the error word is shifted by
  6, so error 9 is shown while the bit of error 11 is set;
  `云平台/X50飞燕属性表.md:9-10` has ErrorCodeShow the number of a fault that
  ErrorCode lists.
- `aliyun/linkkit_ota.c:84`: the ten-second timer of a question is not stopped and
  may write "no new version" over a download that is under way
  (`云平台/X50 OTA属性表.md:9`).
- `aliyun/linkkit_reset.c:31`: the reply to an earlier report clears the flag of
  a newer request.
- `cloud_platform_task.c:188`: the end of cooking is not pushed if the connection
  is made between the comparison and the store.
- `wifi/wifi_task.c:15`: the answer to a GET of WifiState may be older than what
  the screen was told before.
- `uart/ecb_uart_parse_msg.c:177`: a length of 502 to 512 is accepted and can
  never fit; `ecb_uart_parse_msg.c:215`: a frame with a wrong check sum is carried
  out; `ecb_uart_parse_msg.c:188`: a frame is given up if a read ends in a TT
  inside it.
- `cloud_platform_task.c:411`: the reminder texts of a SET of
  MultiStageContent are cleared right after they were stored.
- `uds/uds_tcp_server.c:78`: a third client is accepted, never served and never
  closed.  `uds_tcp_server.c:7` and `通讯流程.md:12` name different sockets.

## 6. What is not modelled

- Attribute values in JSON and in serial form and the conversions between them;
  the frames and check sums of the screen's protocol.  They keep no state and
  concern one call each.
- The gesture module's own parser, hood, light and alarm commands and clock;
  its error frames, the part that shares state with others, are in `EcbLink`.
- Scanning for access points, the access point's key, provisioning of secrets.
- Shutdown: `main_quit` frees what running threads use, and the process exits.
  What it may do in between is undefined; what survives it is the flash, and
  `CookHistory`, `OtaUpdate` and `CloudLink` let the process stop between any two
  steps.
- Memory that is never freed, clocks that jump (`uart_resend.c:95` reads the wall
  clock), weak memory order, the vendored SDK and libraries, the boot logo and the
  packaging scripts.

## 7. Plan

Done: the modules of section 2 and the proofs of section 4.  Worth adding next:

1. A SET through all parts: `EcbResend` with the values of `Attributes`, so that
   the order of settings is seen on the screen and in the cloud.
2. The gesture module: hood speed up or down from a table the board has not
   updated yet, the alarm's edges, the clock.
3. The screen's frames in `UdsServer`, where a request split over two reads is
   lost (`uds_protocol.c:185`).
4. Proofs: the mirror of list and table in the presence of recipes, with the
   entries that recipes have put on the list named; the bound on how far a
   disturbance reaches into the stream of `UartFrame`, now only seen by
   `Recovers`; that a post overtaken in `Attributes` is replaced by a newer one
   (the safety part of `Converges`).
