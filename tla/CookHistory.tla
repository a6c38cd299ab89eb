---------------------------- MODULE CookHistory ----------------------------
(***************************************************************************)
(* The cooking history of the X50 server process.                          *)
(*                                                                         *)
(* Three pieces of state have to agree: the SQLite table `history` (every  *)
(* statement commits on its own), the std::list that CookHistory keeps of  *)
(* it in memory, and the counter g_history_seqid from which new sort       *)
(* numbers are drawn.  A SET message from the screen or from the cloud     *)
(* runs as a job under the mutex of cloud_resp_set; the factory reset and  *)
(* the look-up of a recipe's name run on other threads without that mutex. *)
(* A crash may fall between any two statements.                            *)
(*                                                                         *)
(* The list is always sorted by (collect, seqid) when it is read, so it is *)
(* modelled by the set of its entries; equal keys leave the order open.    *)
(*                                                                         *)
(* An operator named X_Y is X with the mistake Y: no behaviour uses it, it *)
(* is there to show that the properties below would notice the mistake.    *)
(***************************************************************************)
EXTENDS Integers, FiniteSets

CONSTANTS
    Dishes,        \* contents of a dish: what compareHistoryCollect compares
    NoDish,        \* an empty dishName in an UpdateHistory
    Times,         \* what time() may return
    MAX_HISTORY,   \* limit on uncollected entries
    MAX_COLLECT,   \* limit on collected entries
    Recipes,       \* rows [id, seqid, dish] of the table `recipe`
    MaxId,         \* bound: rows ever inserted
    MaxSeqid       \* bound: jobs stop being started at this g_history_seqid

ASSUME HistoryAssumption ==
    /\ NoDish \notin Dishes
    /\ Times \subseteq Nat \ {0}
    /\ MAX_HISTORY \in Nat \ {0} /\ MAX_COLLECT \in Nat \ {0}
    /\ Recipes \subseteq [id : Nat \ {0}, seqid : Nat, dish : Dishes]
    /\ MaxId \in Nat /\ MaxSeqid \in Nat

VARIABLES
    db,               \* table history: ID -> the other columns
    nextId,           \* the value AUTOINCREMENT hands out next
    historyList,      \* CookHistory::historyList, as a set of entries
    g_history_seqid,  \* highest sort number handed out
    job,              \* the thread inside cloud_resp_set
    reset,            \* database_task_reinit: between its two halves?
    lookup,           \* select_for_cookbookID on a thread without the mutex
    spoilt            \* history: what calls without the mutex have spoilt

vars == <<db, nextId, historyList, g_history_seqid, job, reset, lookup, spoilt>>
disk == <<db, nextId>>

Columns == {"collect", "timestamp", "dishName"}

Row == [seqid : Nat, dish : Dishes, collect : {0, 1}, timestamp : Times]
Entry == [id : Nat \ {0}, seqid : Nat, dish : Dishes, collect : {0, 1},
          timestamp : Times \cup {0}]

(* A job carries the history_t it works on; `victim' is the row that       *)
(* history_delete_cb removes and `after' where the job goes on from there. *)
Job == [pc : {"idle", "delete row", "delete entry", "insert", "select",
              "columns", "seqid", "increment", "entry"},
        after : {"idle", "insert", "columns"},
        victim : Nat, id : Nat, seqid : Nat, dish : Dishes \cup {NoDish},
        collect : {-1, 0, 1}, timestamp : Times \cup {0}, todo : SUBSET Columns]

NoJob == [pc |-> "idle", after |-> "idle", victim |-> 0, id |-> 0, seqid |-> 0,
          dish |-> NoDish, collect |-> -1, timestamp |-> 0, todo |-> {}]

Lookup == [pc : {"idle", "compare", "assign"}, seqid : Nat]
NoLookup == [pc |-> "idle", seqid |-> 0]

(* What has gone wrong so far: the counter was set back by the late store  *)
(* of a look-up; the list took in a recipe, or a reset fell into a job; and *)
(* since then room was made, or not, by what is on that list.              *)
Harms == {"counter", "list", "limits"}

\* the list has parted from the table, if it has done so
SpoilsList(parted) ==
    spoilt' = IF parted THEN spoilt \cup {"list", "limits"} ELSE spoilt

EntryOf(i, row) == [id |-> i, seqid |-> row.seqid, dish |-> row.dish,
                    collect |-> row.collect, timestamp |-> row.timestamp]

(***************************************************************************)
(* Reading the list                                                        *)
(***************************************************************************)
Before(a, b) ==     \* recipes_t::operator<
    IF a.collect = b.collect THEN a.seqid > b.seqid ELSE a.collect > 0

historyCount == Cardinality({e \in historyList : e.collect = 0})

HistoryFull == historyCount >= MAX_HISTORY

CollectionFull_OffByOne == Cardinality(historyList) - historyCount > MAX_COLLECT
CollectionFull == Cardinality(historyList) - historyCount >= MAX_COLLECT

\* compareHistoryCollect stops at the first collected entry with this content
FirstCollected(d) ==
    {e \in historyList :
        /\ e.collect = 1 /\ e.dish = d
        /\ \A f \in historyList :
              f.collect = 1 /\ f.dish = d => ~Before(f, e)}

LastEntries_WalksForwards(c) ==
    {e \in historyList :
        /\ e.collect = c
        /\ \A f \in historyList : f.collect = c => ~Before(f, e)}

\* lastHistoryId walks the list backwards
LastEntries(c) ==
    {e \in historyList :
        /\ e.collect = c
        /\ \A f \in historyList : f.collect = c => ~Before(e, f)}

\* find_if, and the loop of reportUpdateHistory
FirstWithId(i) ==
    {e \in historyList :
        /\ e.id = i
        /\ \A f \in historyList : f.id = i => ~Before(f, e)}

(***************************************************************************)
(* The statements on the table                                             *)
(***************************************************************************)
DeleteRow(i) == [k \in DOMAIN db \ {i} |-> db[k]]

\* INSERT OR REPLACE: a row that has the seqid gives way to the new one
InsertOrReplace(row) ==
    [k \in {n \in DOMAIN db : db[n].seqid # row.seqid} \cup {nextId} |->
        IF k = nextId THEN row ELSE db[k]]

SetColumn(row, h, c) ==
    [row EXCEPT !.collect = IF c = "collect" THEN h.collect ELSE @,
                !.timestamp = IF c = "timestamp" THEN h.timestamp ELSE @,
                !.dish = IF c = "dishName" THEN h.dish ELSE @]

\* UPDATE without a matching row changes nothing
UpdateRow(i, row) == [k \in DOMAIN db |-> IF k = i THEN row ELSE db[k]]

\* the columns that history_update_cb writes, in the order of its ifs
ColumnsOf(c, t, d) ==
    (IF c >= 0 THEN {"collect"} ELSE {}) \cup
    (IF t > 0 THEN {"timestamp"} ELSE {}) \cup
    (IF d # NoDish THEN {"dishName"} ELSE {})

FirstColumn(todo) ==
    IF "collect" \in todo THEN "collect"
    ELSE IF "timestamp" \in todo THEN "timestamp" ELSE "dishName"

(***************************************************************************)
(* Start: database_task_init loads the table before any thread runs        *)
(***************************************************************************)

LoadInto(list, seqid) ==
    /\ list = {EntryOf(i, db[i]) : i \in DOMAIN db}
    /\ seqid \in {0} \cup {db[i].seqid : i \in DOMAIN db}
    /\ \A i \in DOMAIN db : db[i].seqid <= seqid

Init ==
    /\ db = [i \in {} |-> {}]
    /\ nextId = 1
    /\ historyList = {}
    /\ g_history_seqid = 0
    /\ job = NoJob
    /\ reset = "idle"
    /\ lookup = NoLookup
    /\ spoilt = {}

\* The process dies and is started again; only the table survives
Crash ==
    /\ \E s \in {0} \cup {db[i].seqid : i \in DOMAIN db} :
          LoadInto(historyList', s) /\ g_history_seqid' = s
    /\ job' = NoJob
    /\ reset' = "idle"
    /\ lookup' = NoLookup
    /\ spoilt' = spoilt \cap {"limits"}
    /\ UNCHANGED disk

(***************************************************************************)
(* Jobs: one SET message at a time, under the mutex of cloud_resp_set      *)
(***************************************************************************)
\* The mutex keeps jobs apart; it does not keep the reset out.
TakesMutex ==
    /\ job.pc = "idle"
    /\ SpoilsList(reset # "idle")

MaxReached == nextId > MaxId \/ g_history_seqid >= MaxSeqid

\* cook_history and insertHistory: the dish is already collected.  The
\* history_t handed to history_update_cb is zeroed but for the timestamp.
CookCollected(d, t) ==
    /\ TakesMutex
    /\ ~MaxReached
    /\ \E e \in FirstCollected(d) :
          historyList' = (historyList \ {e}) \cup {[e EXCEPT !.timestamp = t]}
    /\ job' = [NoJob EXCEPT !.pc = "columns", !.id = 0, !.collect = 0,
                            !.timestamp = t, !.todo = ColumnsOf(0, t, NoDish)]
    /\ UNCHANGED <<disk, g_history_seqid, reset, lookup>>

\* cook_history and insertHistory: a new row, after making room for it
CookNew(d, t) ==
    /\ TakesMutex
    /\ ~MaxReached
    /\ FirstCollected(d) = {}
    /\ LET new == [NoJob EXCEPT !.pc = "insert", !.dish = d, !.collect = 0,
                                !.timestamp = t]
       IN  IF HistoryFull /\ LastEntries(0) # {}
           THEN \E e \in LastEntries(0) :
                   job' = [new EXCEPT !.pc = "delete row", !.victim = e.id,
                                      !.after = "insert"]
           ELSE job' = new
    /\ UNCHANGED <<disk, historyList, g_history_seqid, reset, lookup>>

\* UpdateHistory_cb and updateHistory up to its call of history_update_cb.
\* An id the list does not hold changes nothing.
UpdateHistory(i, c, d) ==
    /\ TakesMutex
    /\ ~MaxReached
    /\ \E single \in FirstWithId(i) :
          LET upd == [NoJob EXCEPT !.pc = "columns", !.id = i, !.collect = c,
                                   !.dish = d, !.todo = ColumnsOf(c, 0, d)]
              last == IF c # single.collect
                      THEN IF CollectionFull THEN LastEntries(1) ELSE {}
                      ELSE IF HistoryFull THEN LastEntries(0) ELSE {}
          IN  IF c >= 0 /\ \E e \in last : e.id # i
              THEN job' = [upd EXCEPT !.pc = "delete row", !.victim = i,
                                      !.after = "columns"]
              ELSE job' = upd
    /\ UNCHANGED <<disk, historyList, g_history_seqid, reset, lookup>>

\* DeleteHistory_cb for one id of its array, which need not exist
DeleteHistory(i) ==
    /\ TakesMutex
    /\ job' = [NoJob EXCEPT !.pc = "delete row", !.victim = i]
    /\ UNCHANGED <<disk, historyList, g_history_seqid, reset, lookup>>

\* delete_row_from_table, in DeleteHistory_cb and in history_delete_cb
DeleteFromTable ==
    /\ job.pc = "delete row"
    /\ db' = DeleteRow(job.victim)
    /\ job' = [job EXCEPT !.pc = "delete entry"]
    /\ UNCHANGED <<nextId, historyList, g_history_seqid, reset, lookup, spoilt>>

\* reportDeleteHistory
DeleteFromList ==
    /\ job.pc = "delete entry"
    /\ historyList' = {e \in historyList : e.id # job.victim}
    /\ job' = IF job.after = "idle" THEN NoJob
              ELSE [job EXCEPT !.pc = job.after]
    /\ UNCHANGED <<disk, g_history_seqid, reset, lookup, spoilt>>

\* history_insert_cb, first half: the statement
InsertRow ==
    /\ job.pc = "insert"
    /\ db' = InsertOrReplace([seqid |-> g_history_seqid + 1, dish |-> job.dish,
                              collect |-> job.collect,
                              timestamp |-> job.timestamp])
    /\ nextId' = nextId + 1
    /\ job' = [job EXCEPT !.pc = "select"]
    /\ UNCHANGED <<historyList, g_history_seqid, reset, lookup, spoilt>>

SelectRow_CounterKept ==
    /\ job.pc = "select"
    /\ LET rows == {i \in DOMAIN db : db[i].seqid = g_history_seqid + 1}
       IN  historyList' = historyList \cup {EntryOf(i, db[i]) : i \in rows}
    /\ job' = NoJob
    /\ UNCHANGED <<disk, g_history_seqid, reset, lookup, spoilt>>

\* history_insert_cb, second half: read the row back by its seqid and list it
SelectRow ==
    /\ job.pc = "select"
    /\ LET rows == {i \in DOMAIN db : db[i].seqid = g_history_seqid + 1}
       IN  /\ historyList' = historyList \cup {EntryOf(i, db[i]) : i \in rows}
           /\ g_history_seqid' = IF rows # {} THEN g_history_seqid + 1
                                 ELSE g_history_seqid
    /\ job' = NoJob
    /\ UNCHANGED <<disk, reset, lookup, spoilt>>

\* history_update_cb: one UPDATE per column that is present
UpdateColumn ==
    /\ job.pc = "columns"
    /\ job.todo # {}
    /\ LET c == FirstColumn(job.todo)
       IN  /\ db' = IF job.id \in DOMAIN db
                    THEN UpdateRow(job.id, SetColumn(db[job.id], job, c))
                    ELSE db
           /\ job' = [job EXCEPT !.todo = @ \ {c}]
    /\ UNCHANGED <<nextId, historyList, g_history_seqid, reset, lookup, spoilt>>

\* history_update_cb: the row moves to the front.  SEQID is UNIQUE: the
\* statement fails, unnoticed, when another row has the number.
UpdateSeqid ==
    /\ job.pc = "columns"
    /\ job.todo = {}
    /\ db' = IF /\ job.id \in DOMAIN db
                /\ \A k \in DOMAIN db : db[k].seqid # g_history_seqid + 1
             THEN UpdateRow(job.id, [db[job.id] EXCEPT !.seqid = g_history_seqid + 1])
             ELSE db
    /\ job' = [job EXCEPT !.pc = "increment"]
    /\ UNCHANGED <<nextId, historyList, g_history_seqid, reset, lookup, spoilt>>

IncrementSeqid_Lost ==
    /\ job.pc = "increment"
    /\ job' = [job EXCEPT !.pc = "entry", !.seqid = g_history_seqid + 1]
    /\ UNCHANGED <<disk, g_history_seqid, historyList, reset, lookup, spoilt>>

\* history_update_cb: ++g_history_seqid
IncrementSeqid ==
    /\ job.pc = "increment"
    /\ g_history_seqid' = g_history_seqid + 1
    /\ job' = [job EXCEPT !.pc = "entry", !.seqid = g_history_seqid + 1]
    /\ UNCHANGED <<disk, historyList, reset, lookup, spoilt>>

UpdateEntry_KeepsSeqid ==
    /\ job.pc = "entry"
    /\ \/ /\ FirstWithId(job.id) = {}
          /\ UNCHANGED historyList
       \/ \E e \in FirstWithId(job.id) :
             historyList' = (historyList \ {e}) \cup
                {[e EXCEPT !.collect = IF job.collect >= 0 THEN job.collect ELSE @,
                           !.dish = IF job.dish # NoDish THEN job.dish ELSE @]}
    /\ job' = NoJob
    /\ UNCHANGED <<disk, g_history_seqid, reset, lookup, spoilt>>

\* reportUpdateHistory on the first entry with the id, if there is one
UpdateEntry ==
    /\ job.pc = "entry"
    /\ \/ /\ FirstWithId(job.id) = {}
          /\ UNCHANGED historyList
       \/ \E e \in FirstWithId(job.id) :
             historyList' = (historyList \ {e}) \cup
                {[e EXCEPT !.seqid = job.seqid,
                           !.collect = IF job.collect >= 0 THEN job.collect ELSE @,
                           !.timestamp = IF job.timestamp > 0 THEN job.timestamp ELSE @,
                           !.dish = IF job.dish # NoDish THEN job.dish ELSE @]}
    /\ job' = NoJob
    /\ UNCHANGED <<disk, g_history_seqid, reset, lookup, spoilt>>

(***************************************************************************)
(* Calls that do not take the mutex                                        *)
(***************************************************************************)
\* Reset_cb, database_task_reinit: the list first ...
ResetList ==
    /\ reset = "idle"
    /\ historyList' = {}
    /\ reset' = "table"
    /\ SpoilsList(job.pc # "idle")
    /\ UNCHANGED <<disk, g_history_seqid, job, lookup>>

\* An empty table is behind every counter, and the mirror of an empty list.
AfterReset ==
    IF job.pc = "idle" /\ lookup.pc = "idle" /\ historyList = {} THEN {}
    ELSE spoilt \ {"counter"}

ResetTable_RestartsIds ==
    /\ reset = "table"
    /\ db' = [i \in {} |-> {}]
    /\ nextId' = 1
    /\ reset' = "idle"
    /\ spoilt' = AfterReset
    /\ UNCHANGED <<historyList, g_history_seqid, job, lookup>>

\* ... then the table.  The statement on sqlite_sequence names the table
\* without quotes and fails, so AUTOINCREMENT goes on counting.
ResetTable ==
    /\ reset = "table"
    /\ db' = [i \in {} |-> {}]
    /\ reset' = "idle"
    /\ spoilt' = AfterReset
    /\ UNCHANGED <<nextId, historyList, g_history_seqid, job, lookup>>

\* select_for_cookbookID: the row it finds in the table `recipe` is listed as
\* if it were history.  Bound: once per recipe until the entry changes.
LookupList(r) ==
    /\ lookup.pc = "idle"
    /\ LET e == [id |-> r.id, seqid |-> r.seqid, dish |-> r.dish,
                 collect |-> 0, timestamp |-> 0]
       IN  e \notin historyList /\ historyList' = historyList \cup {e}
    /\ lookup' = [pc |-> "compare", seqid |-> r.seqid]
    /\ SpoilsList(TRUE)
    /\ UNCHANGED <<disk, g_history_seqid, job, reset>>

LookupCompare ==
    /\ lookup.pc = "compare"
    /\ lookup' = IF lookup.seqid > g_history_seqid
                 THEN [lookup EXCEPT !.pc = "assign"] ELSE NoLookup
    /\ UNCHANGED <<disk, historyList, g_history_seqid, job, reset, spoilt>>

LookupAssign ==
    /\ lookup.pc = "assign"
    /\ g_history_seqid' = lookup.seqid
    /\ lookup' = NoLookup
    /\ spoilt' = IF lookup.seqid < g_history_seqid THEN spoilt \cup {"counter"}
                 ELSE spoilt
    /\ UNCHANGED <<disk, historyList, job, reset>>

(***************************************************************************)
(* Specifications                                                          *)
(***************************************************************************)
Ids == 0 .. MaxId + 1    \* ids a client may name: stale ones and none at all

Begin ==
    \/ \E d \in Dishes, t \in Times : CookCollected(d, t) \/ CookNew(d, t)
    \/ \E i \in Ids, c \in {-1, 0, 1}, d \in Dishes \cup {NoDish} :
          UpdateHistory(i, c, d)
    \/ \E i \in Ids : DeleteHistory(i)

Continue ==
    \/ DeleteFromTable \/ DeleteFromList
    \/ InsertRow \/ SelectRow
    \/ UpdateColumn \/ UpdateSeqid \/ IncrementSeqid \/ UpdateEntry

WithoutMutex ==
    \/ ResetList \/ ResetTable
    \/ \E r \in Recipes : LookupList(r)
    \/ LookupCompare \/ LookupAssign

Next == Begin \/ Continue \/ WithoutMutex \/ Crash

Spec == Init /\ [][Next]_vars

(***************************************************************************)
(* Properties                                                              *)
(***************************************************************************)
\* A job writes only columns it has a value for, and inserts whole rows.
JobOK ==
    /\ "collect" \in job.todo => job.collect >= 0
    /\ "timestamp" \in job.todo => job.timestamp > 0
    /\ "dishName" \in job.todo => job.dish # NoDish
    /\ "insert" \in {job.pc, job.after} =>
          job.dish \in Dishes /\ job.collect = 0 /\ job.timestamp > 0

\* The shape of the table, the list, the counter and the threads' positions,
\* and of what a job is about to write.
TypeOK ==
    /\ DOMAIN db \subseteq Nat \ {0}
    /\ \A i \in DOMAIN db : db[i] \in Row
    /\ nextId \in Nat \ {0}
    /\ historyList \subseteq Entry
    /\ g_history_seqid \in Nat
    /\ job \in Job /\ JobOK
    /\ reset \in {"idle", "table"}
    /\ lookup \in Lookup
    /\ spoilt \subseteq Harms

Quiet == job.pc = "idle" /\ reset = "idle"

WithoutTime(e) == [id |-> e.id, seqid |-> e.seqid, dish |-> e.dish, collect |-> e.collect]
Table == {EntryOf(i, db[i]) : i \in DOMAIN db}

\* What the clients are shown is what survives: between jobs the list that
\* CookHistory_cb reports has exactly the rows of the table, whatever sequence
\* of jobs, evictions, resets and crashes came before (timestamps aside).  A
\* listed recipe or a reset inside a job ends that until the next start, which
\* reads the table, or the next reset between jobs.
ListMirrorsTable ==
    Quiet /\ "list" \notin spoilt =>
        {WithoutTime(e) : e \in historyList} = {WithoutTime(e) : e \in Table}

\* No row is ahead of g_history_seqid, except while history_insert_cb or
\* history_update_cb has written seqid + 1 and not yet raised the counter.
\* However jobs, resets and look-ups overlap, only one thing puts it behind: a
\* look-up that stores its number after a job has moved on (database_task.c:70),
\* until the next start or reset.
SeqidFresh ==
    "counter" \notin spoilt =>
        \A i \in DOMAIN db :
            \/ db[i].seqid <= g_history_seqid
            \/ /\ job.pc \in {"select", "increment"}
               /\ db[i].seqid = g_history_seqid + 1

KeepsRows == \A i \in DOMAIN db : i \in DOMAIN db' /\ db'[i] = db[i]

\* INSERT OR REPLACE in history_insert_cb adds a row and replaces none, whatever
\* overlaps, unless a look-up has set the counter back: a dish that was cooked is
\* not lost because another one is recorded.
InsertKeepsRows == [][InsertRow /\ "counter" \notin spoilt => KeepsRows]_vars

\* What InsertHistory is documented to do: it adds to the history.
InsertAdds == [][InsertRow => KeepsRows]_vars

\* A client that holds ids from before a reset or a crash can only name the
\* dish it saw: an id once handed out never comes to mean another row.
IdNeverReused ==
    [][/\ nextId' >= nextId
       /\ \A i \in DOMAIN db' \ DOMAIN db : i >= nextId /\ i < nextId']_vars

\* insertHistory makes room by removing the oldest uncollected row: the
\* decision is taken on the list, the statement hits the table, while the list
\* is that of the table.
EvictsOldest ==
    [][DeleteFromTable /\ job.after = "insert" /\ "list" \notin spoilt =>
         \A i \in DOMAIN db :
            db[i].collect = 0 =>
               /\ job.victim \in DOMAIN db
               /\ db[job.victim].collect = 0
               /\ db[job.victim].seqid <= db[i].seqid]_vars

Collected == {i \in DOMAIN db : db[i].collect = 1}

\* updateHistory never lets the collection outgrow MAX_COLLECT, although it
\* deletes another row than the one it looked up.  Rows that it takes out of the
\* collection may overfill the history, but never the table.  Room is made by
\* what the list holds, so once that is spoilt the limits are too, for longer
\* than the list: a start reads back as many rows as there are.
LimitsKept ==
    "limits" \notin spoilt =>
        /\ Cardinality(Collected) <= MAX_COLLECT
        /\ Cardinality(DOMAIN db) <= MAX_HISTORY + MAX_COLLECT
=============================================================================
