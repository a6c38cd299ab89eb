------------------------- MODULE CookHistoryProofs -------------------------
(***************************************************************************)
(* What holds of the cooking history for all dishes, recipes and limits.   *)
(***************************************************************************)
EXTENDS CookHistory, FiniteSetTheorems, FunctionTheorems, WellFoundedInduction, TLAPS

(***************************************************************************)
(* Type correctness                                                        *)
(***************************************************************************)
LEMMA InitType == Init => TypeOK
  BY HistoryAssumption
  DEF Init, TypeOK, NoJob, NoLookup, Job, Lookup, Entry, Columns, Row, JobOK, Harms

\* Whatever entries the list holds, those of rows and recipes are well typed.
LEMMA EntryType ==
  ASSUME TypeOK, NEW i \in DOMAIN db
  PROVE  EntryOf(i, db[i]) \in Entry
  BY DEF TypeOK, EntryOf, Entry, Row

\* The fields of a job, one by one.
LEMMA JobFields ==
  ASSUME TypeOK
  PROVE  /\ job.victim \in Nat /\ job.id \in Nat /\ job.seqid \in Nat
         /\ job.dish \in Dishes \cup {NoDish} /\ job.collect \in {-1, 0, 1}
         /\ job.timestamp \in Times \cup {0} /\ job.todo \subseteq Columns
         /\ job.timestamp \in Nat
<1>1. /\ job.victim \in Nat /\ job.id \in Nat /\ job.seqid \in Nat
      /\ job.dish \in Dishes \cup {NoDish} /\ job.collect \in {-1, 0, 1}
      /\ job.timestamp \in Times \cup {0} /\ job.todo \in SUBSET Columns
  BY DEF TypeOK, Job
<1>2. job.timestamp \in Nat
  BY <1>1, HistoryAssumption
<1> QED BY <1>1, <1>2

\* A job begins without touching table, list (but for a timestamp) or counter.
LEMMA BeginType == TypeOK /\ Begin => TypeOK'
<1> SUFFICES ASSUME TypeOK, Begin PROVE TypeOK'
  OBVIOUS
<1> USE HistoryAssumption DEF TakesMutex, SpoilsList, Harms
<1>1. ASSUME NEW d \in Dishes, NEW t \in Times, CookCollected(d, t)
      PROVE  TypeOK'
  <2>1. historyList' \subseteq Entry
    BY <1>1 DEF CookCollected, FirstCollected, TypeOK, Entry
  <2>2. job' \in Job /\ JobOK'
    BY <1>1 DEF CookCollected, Job, NoJob, ColumnsOf, Columns, JobOK
  <2> QED BY <1>1, <2>1, <2>2 DEF CookCollected, TypeOK, disk
<1>2. ASSUME NEW d \in Dishes, NEW t \in Times, CookNew(d, t)
      PROVE  TypeOK'
  <2> DEFINE new == [NoJob EXCEPT !.pc = "insert", !.dish = d, !.collect = 0,
                                  !.timestamp = t]
  <2>1. new \in Job /\ new.todo = {} /\ new.dish = d /\ new.collect = 0
        /\ new.timestamp = t /\ new.after = "idle" /\ new.pc = "insert"
    BY DEF Job, NoJob
  <2>2. CASE job' = new
    <3>1. JobOK'
      BY <2>1, <2>2 DEF JobOK
    <3> QED BY <1>2, <2>1, <2>2, <3>1 DEF CookNew, TypeOK, disk
  <2>3. ASSUME NEW e \in historyList,
               job' = [new EXCEPT !.pc = "delete row", !.victim = e.id,
                                  !.after = "insert"]
        PROVE  TypeOK'
    <3>1. e.id \in Nat
      BY DEF TypeOK, Entry
    <3>2. job' \in Job
      BY <2>1, <2>3, <3>1 DEF Job
    <3>3. JobOK'
      <4>1. job'.todo = {} /\ job'.dish = d /\ job'.collect = 0 /\ job'.timestamp = t
        BY <2>1, <2>3 DEF Job
      <4> QED BY <4>1 DEF JobOK
    <3> QED BY <1>2, <3>2, <3>3 DEF CookNew, TypeOK, disk
  <2> QED BY <1>2, <2>2, <2>3 DEF CookNew, LastEntries
<1>3. ASSUME NEW i \in Ids, NEW c \in {-1, 0, 1}, NEW d \in Dishes \cup {NoDish},
             UpdateHistory(i, c, d)
      PROVE  TypeOK'
  <2>1. i \in Nat
    BY DEF Ids
  <2> DEFINE upd == [NoJob EXCEPT !.pc = "columns", !.id = i, !.collect = c,
                                  !.dish = d, !.todo = ColumnsOf(c, 0, d)]
  <2>2. upd \in Job
    BY <2>1 DEF Job, NoJob, ColumnsOf, Columns
  <2>3. upd.collect = c /\ upd.dish = d /\ upd.todo = ColumnsOf(c, 0, d)
        /\ upd.pc = "columns" /\ upd.after = "idle"
    BY DEF NoJob
  <2>4. \/ job' = upd
        \/ job' = [upd EXCEPT !.pc = "delete row", !.victim = i, !.after = "columns"]
    BY <1>3 DEF UpdateHistory
  <2>5. job' \in Job
    BY <2>1, <2>2, <2>4 DEF Job
  <2>6. /\ job'.collect = c /\ job'.dish = d /\ job'.todo = ColumnsOf(c, 0, d)
        /\ job'.pc # "insert" /\ job'.after # "insert"
    BY <2>2, <2>3, <2>4 DEF Job
  <2>7. JobOK'
    BY <2>6 DEF JobOK, ColumnsOf
  <2> QED BY <1>3, <2>5, <2>7 DEF UpdateHistory, TypeOK, disk
<1>4. ASSUME NEW i \in Ids, DeleteHistory(i)
      PROVE  TypeOK'
  <2>1. i \in Nat
    BY DEF Ids
  <2>2. job' \in Job /\ JobOK'
    BY <1>4, <2>1 DEF DeleteHistory, Job, NoJob, JobOK
  <2> QED BY <1>4, <2>2 DEF DeleteHistory, TypeOK, disk
<1> QED BY <1>1, <1>2, <1>3, <1>4 DEF Begin

\* The steps of a job write well-typed rows and entries.
LEMMA ContinueType == TypeOK /\ Continue => TypeOK'
<1> SUFFICES ASSUME TypeOK, Continue PROVE TypeOK'
  OBVIOUS
<1> USE HistoryAssumption
<1>1. CASE DeleteFromTable
  <2>1. job' \in Job /\ JobOK'
    BY <1>1 DEF DeleteFromTable, TypeOK, Job, JobOK
  <2> QED BY <1>1, <2>1 DEF DeleteFromTable, DeleteRow, TypeOK
<1>2. CASE DeleteFromList
  <2>1. job' \in Job /\ JobOK'
    BY <1>2 DEF DeleteFromList, TypeOK, Job, NoJob, JobOK
  <2> QED BY <1>2, <2>1 DEF DeleteFromList, TypeOK, disk
<1>3. CASE InsertRow
  <2>1. job' \in Job /\ JobOK'
    BY <1>3 DEF InsertRow, TypeOK, Job, JobOK
  <2>2. [seqid |-> g_history_seqid + 1, dish |-> job.dish,
         collect |-> job.collect, timestamp |-> job.timestamp] \in Row
    <3>1. g_history_seqid + 1 \in Nat
      BY DEF TypeOK
    <3>2. job.dish \in Dishes /\ job.collect \in {0, 1} /\ job.timestamp \in Times
      BY <1>3, JobFields DEF InsertRow, TypeOK, JobOK
    <3> QED BY <3>1, <3>2 DEF Row
  <2>3. DOMAIN db' \subseteq Nat \ {0} /\ \A i \in DOMAIN db' : db'[i] \in Row
    BY <1>3, <2>2 DEF InsertRow, InsertOrReplace, TypeOK
  <2> QED BY <1>3, <2>1, <2>3 DEF InsertRow, TypeOK
<1>4. CASE SelectRow
  <2>1. historyList' \subseteq Entry
    BY <1>4, EntryType DEF SelectRow, TypeOK
  <2>2. job' \in Job /\ JobOK'
    BY <1>4 DEF SelectRow, Job, NoJob, JobOK
  <2> QED BY <1>4, <2>1, <2>2 DEF SelectRow, TypeOK, disk
<1>5. CASE UpdateColumn
  <2> DEFINE c == FirstColumn(job.todo)
  <2>1. job' \in Job /\ JobOK'
    BY <1>5 DEF UpdateColumn, TypeOK, Job, JobOK
  <2>2. c \in job.todo
    BY <1>5 DEF UpdateColumn, FirstColumn, TypeOK, Job, Columns
  <2>3. ASSUME job.id \in DOMAIN db
        PROVE  SetColumn(db[job.id], job, c) \in Row
    <3>1. /\ (IF c = "collect" THEN job.collect ELSE db[job.id].collect) \in {0, 1}
          /\ (IF c = "timestamp" THEN job.timestamp ELSE db[job.id].timestamp) \in Times
          /\ (IF c = "dishName" THEN job.dish ELSE db[job.id].dish) \in Dishes
      BY <2>2, <2>3, JobFields DEF TypeOK, JobOK, Row
    <3>2. db[job.id] \in Row
      BY <2>3 DEF TypeOK
    <3> QED BY <3>1, <3>2 DEF SetColumn, Row
  <2>4. DOMAIN db' \subseteq Nat \ {0} /\ \A i \in DOMAIN db' : db'[i] \in Row
    BY <1>5, <2>3 DEF UpdateColumn, UpdateRow, TypeOK
  <2> QED BY <1>5, <2>1, <2>4 DEF UpdateColumn, TypeOK
<1>6. CASE UpdateSeqid
  <2>1. job' \in Job /\ JobOK'
    BY <1>6 DEF UpdateSeqid, TypeOK, Job, JobOK
  <2> QED BY <1>6, <2>1 DEF UpdateSeqid, UpdateRow, TypeOK, Row
<1>7. CASE IncrementSeqid
  <2>0. g_history_seqid + 1 \in Nat
    BY DEF TypeOK
  <2>1. job' \in Job
    BY <1>7, <2>0 DEF IncrementSeqid, TypeOK, Job
  <2>2. /\ job'.todo = job.todo /\ job'.collect = job.collect /\ job'.pc = "entry"
        /\ job'.dish = job.dish /\ job'.timestamp = job.timestamp
        /\ job'.after = job.after
    BY <1>7 DEF IncrementSeqid, TypeOK, Job
  <2>3. JobOK'
    BY <2>2 DEF TypeOK, JobOK
  <2> QED BY <1>7, <2>1, <2>3 DEF IncrementSeqid, TypeOK, disk
<1>8. CASE UpdateEntry
  <2>1. job' \in Job /\ JobOK'
    BY <1>8 DEF UpdateEntry, Job, NoJob, JobOK
  <2>2. ASSUME NEW e \in historyList
        PROVE  [e EXCEPT !.seqid = job.seqid,
                         !.collect = IF job.collect >= 0 THEN job.collect ELSE @,
                         !.timestamp = IF job.timestamp > 0 THEN job.timestamp ELSE @,
                         !.dish = IF job.dish # NoDish THEN job.dish ELSE @] \in Entry
    <3>1. /\ job.seqid \in Nat
          /\ (IF job.collect >= 0 THEN job.collect ELSE e.collect) \in {0, 1}
          /\ (IF job.timestamp > 0 THEN job.timestamp ELSE e.timestamp) \in Times \cup {0}
          /\ (IF job.dish # NoDish THEN job.dish ELSE e.dish) \in Dishes
      BY JobFields DEF TypeOK, Entry
    <3>2. e \in Entry
      BY DEF TypeOK
    <3> QED BY <3>1, <3>2 DEF Entry
  <2>3. historyList' \subseteq Entry
    <3>1. CASE UNCHANGED historyList
      BY <3>1 DEF TypeOK
    <3>2. CASE ~UNCHANGED historyList
      <4>1. PICK e \in FirstWithId(job.id) : historyList' = (historyList \ {e}) \cup
                {[e EXCEPT !.seqid = job.seqid,
                           !.collect = IF job.collect >= 0 THEN job.collect ELSE @,
                           !.timestamp = IF job.timestamp > 0 THEN job.timestamp ELSE @,
                           !.dish = IF job.dish # NoDish THEN job.dish ELSE @]}
        BY <1>8, <3>2 DEF UpdateEntry
      <4>2. e \in historyList
        BY DEF FirstWithId
      <4> QED BY <2>2, <4>1, <4>2 DEF TypeOK
    <3> QED BY <3>1, <3>2
  <2> QED BY <1>8, <2>1, <2>3 DEF UpdateEntry, TypeOK, disk
<1> QED BY <1>1, <1>2, <1>3, <1>4, <1>5, <1>6, <1>7, <1>8 DEF Continue

\* Reset and look-up only empty, list a recipe or copy its seqid.
LEMMA WithoutMutexType == TypeOK /\ WithoutMutex => TypeOK'
<1> SUFFICES ASSUME TypeOK, WithoutMutex PROVE TypeOK'
  OBVIOUS
<1>1. CASE ResetList
  BY <1>1 DEF ResetList, SpoilsList, Harms, TypeOK, JobOK, disk
<1>2. CASE ResetTable
  BY <1>2 DEF ResetTable, AfterReset, TypeOK, JobOK
<1>3. ASSUME NEW r \in Recipes, LookupList(r)
      PROVE  TypeOK'
  <2>1. r.id \in Nat \ {0} /\ r.seqid \in Nat /\ r.dish \in Dishes
    BY HistoryAssumption
  <2>2. historyList' \subseteq Entry /\ lookup' \in Lookup
    BY <1>3, <2>1 DEF LookupList, TypeOK, Entry, Lookup
  <2> QED BY <1>3, <2>2 DEF LookupList, SpoilsList, Harms, TypeOK, JobOK, disk
<1>4. CASE LookupCompare
  <2>1. lookup' \in Lookup
    BY <1>4 DEF LookupCompare, TypeOK, Lookup, NoLookup
  <2> QED BY <1>4, <2>1 DEF LookupCompare, TypeOK, JobOK, disk
<1>5. CASE LookupAssign
  <2>1. lookup' \in Lookup /\ g_history_seqid' \in Nat
    BY <1>5 DEF LookupAssign, TypeOK, Lookup, NoLookup
  <2> QED BY <1>5, <2>1 DEF LookupAssign, Harms, TypeOK, JobOK, disk
<1> QED BY <1>1, <1>2, <1>3, <1>4, <1>5 DEF WithoutMutex

\* What is loaded at a start comes from well-typed rows.
LEMMA CrashType == TypeOK /\ Crash => TypeOK'
<1> SUFFICES ASSUME TypeOK, Crash PROVE TypeOK'
  OBVIOUS
<1>1. historyList' = {EntryOf(i, db[i]) : i \in DOMAIN db}
  BY DEF Crash, LoadInto
<1>2. historyList' \subseteq Entry
  BY <1>1, EntryType
<1>3. g_history_seqid' \in Nat
  BY DEF Crash, TypeOK, Row
<1>4. job' \in Job /\ JobOK' /\ lookup' \in Lookup
  BY DEF Crash, Job, NoJob, JobOK, Lookup, NoLookup
<1> QED BY <1>2, <1>3, <1>4 DEF Crash, TypeOK, disk

\* Every step keeps the types.
LEMMA NextType == TypeOK /\ [Next]_vars => TypeOK'
<1> SUFFICES ASSUME TypeOK, [Next]_vars PROVE TypeOK'
  OBVIOUS
<1>1. CASE UNCHANGED vars
  BY <1>1 DEF vars, TypeOK, JobOK
<1> QED BY <1>1, BeginType, ContinueType, WithoutMutexType, CrashType DEF Next

\* Type correctness, for all values of the constants.
THEOREM TypeCorrect == Spec => []TypeOK
  BY InitType, NextType, PTL DEF Spec

(***************************************************************************)
(* The counter is not behind the table                                     *)
(*                                                                         *)
(* SeqidFresh alone is not inductive: that an insert adds a row asks for   *)
(* its id to be free (RowsHaveIds), and that the counter was set back is   *)
(* never without a recipe on the list, nor that without the limits being   *)
(* in question (HarmsFollow).                                              *)
(***************************************************************************)
RowsHaveIds == \A i \in DOMAIN db : i < nextId
HarmsFollow ==
  /\ lookup.pc # "idle" => "list" \in spoilt
  /\ "counter" \in spoilt => "list" \in spoilt
  /\ "list" \in spoilt => "limits" \in spoilt
FreshParts == SeqidFresh /\ RowsHaveIds /\ HarmsFollow
FreshInv == TypeOK /\ FreshParts

\* After the load no row is ahead of the counter.
LEMMA InitFresh == Init => FreshInv
  BY InitType
  DEF Init, FreshInv, FreshParts, SeqidFresh, RowsHaveIds, HarmsFollow, NoLookup

\* Beginning a job and everything but the table and the counter's steps.
LEMMA BeginFresh == FreshInv /\ Begin => FreshParts'
<1> SUFFICES ASSUME FreshInv, Begin PROVE FreshParts'
  OBVIOUS
<1>1. /\ job.pc = "idle" /\ UNCHANGED <<db, nextId, g_history_seqid, lookup>>
      /\ spoilt' = spoilt \/ spoilt' = spoilt \cup {"list", "limits"}
  BY DEF Begin, CookCollected, CookNew, UpdateHistory, DeleteHistory, TakesMutex,
         SpoilsList, disk
<1> QED BY <1>1 DEF FreshInv, FreshParts, SeqidFresh, RowsHaveIds, HarmsFollow

\* The steps of a job: only its insert and its update write a row ahead, by one,
\* and the step that raises the counter follows.
LEMMA ContinueFresh == FreshInv /\ Continue => FreshParts'
<1> SUFFICES ASSUME FreshInv, Continue PROVE FreshParts'
  OBVIOUS
<1>t. /\ DOMAIN db \subseteq Nat \ {0} /\ nextId \in Nat /\ g_history_seqid \in Nat
      /\ \A i \in DOMAIN db : db[i].seqid \in Nat
  BY DEF FreshInv, TypeOK, Row
<1> USE DEF FreshInv, FreshParts, SeqidFresh, RowsHaveIds, HarmsFollow
<1>pc. ASSUME NEW p, job' = [job EXCEPT !.pc = p]
       PROVE  job'.pc = p
  BY <1>pc DEF TypeOK, Job
<1>1. CASE DeleteFromTable
  BY <1>1 DEF DeleteFromTable, DeleteRow
<1>2. CASE DeleteFromList
  BY <1>2 DEF DeleteFromList, disk
<1>3. CASE InsertRow
  <2>1. job'.pc = "select" /\ job.pc = "insert"
    BY <1>3, <1>pc DEF InsertRow
  <2>2. /\ DOMAIN db' \subseteq DOMAIN db \cup {nextId}
        /\ \A i \in DOMAIN db' :
              db'[i].seqid = IF i = nextId THEN g_history_seqid + 1 ELSE db[i].seqid
    BY <1>3 DEF InsertRow, InsertOrReplace
  <2>3. SeqidFresh'
    BY <1>3, <1>t, <2>1, <2>2 DEF InsertRow
  <2>4. RowsHaveIds'
    BY <1>3, <1>t, <2>2 DEF InsertRow
  <2> QED BY <1>3, <2>3, <2>4 DEF InsertRow
<1>4. CASE SelectRow
  <2>1. "counter" \notin spoilt => \A i \in DOMAIN db : db[i].seqid <= g_history_seqid'
    BY <1>4, <1>t DEF SelectRow
  <2> QED BY <1>4, <2>1 DEF SelectRow, disk
<1>5. CASE UpdateColumn
  <2>1. DOMAIN db' = DOMAIN db /\ \A i \in DOMAIN db : db'[i].seqid = db[i].seqid
    <3>1. CASE job.id \notin DOMAIN db
      BY <1>5, <3>1 DEF UpdateColumn
    <3>2. CASE job.id \in DOMAIN db
      <4>1. SetColumn(db[job.id], job, FirstColumn(job.todo)).seqid = db[job.id].seqid
        BY <3>2 DEF SetColumn, TypeOK, Row
      <4> QED BY <1>5, <3>2, <4>1 DEF UpdateColumn, UpdateRow
    <3> QED BY <3>1, <3>2
  <2>2. job.pc = "columns"
    BY <1>5 DEF UpdateColumn
  <2> QED BY <1>5, <2>1, <2>2 DEF UpdateColumn
<1>6. CASE UpdateSeqid
  <2>1. /\ DOMAIN db' = DOMAIN db
        /\ \A i \in DOMAIN db :
              db'[i].seqid = db[i].seqid \/ db'[i].seqid = g_history_seqid + 1
    BY <1>6 DEF UpdateSeqid, UpdateRow, TypeOK, Row
  <2>2. job.pc = "columns" /\ job'.pc = "increment"
    BY <1>6, <1>pc DEF UpdateSeqid
  <2> QED BY <1>6, <2>1, <2>2 DEF UpdateSeqid
<1>7. CASE IncrementSeqid
  <2>1. "counter" \notin spoilt => \A i \in DOMAIN db : db[i].seqid <= g_history_seqid'
    BY <1>7, <1>t DEF IncrementSeqid
  <2> QED BY <1>7, <2>1 DEF IncrementSeqid, disk
<1>8. CASE UpdateEntry
  BY <1>8 DEF UpdateEntry, disk
<1> QED BY <1>1, <1>2, <1>3, <1>4, <1>5, <1>6, <1>7, <1>8 DEF Continue

\* Reset and look-up: a look-up that does not raise the counter spoils it.
LEMMA WithoutMutexFresh ==
  FreshInv /\ WithoutMutex => FreshParts'
<1> SUFFICES ASSUME FreshInv, WithoutMutex
             PROVE  FreshParts'
  OBVIOUS
<1> USE DEF FreshInv, FreshParts, SeqidFresh, RowsHaveIds, HarmsFollow
<1>1. CASE ResetList
  BY <1>1 DEF ResetList, SpoilsList, disk
<1>2. CASE ResetTable
  BY <1>2 DEF ResetTable, AfterReset
<1>3. ASSUME NEW r \in Recipes, LookupList(r)
      PROVE  FreshParts'
  BY <1>3 DEF LookupList, SpoilsList, disk
<1>4. CASE LookupCompare
  BY <1>4 DEF LookupCompare, NoLookup, TypeOK, Lookup, disk
<1>5. CASE LookupAssign
  <2>1. /\ g_history_seqid' \in Nat /\ g_history_seqid \in Nat /\ lookup'.pc = "idle"
        /\ lookup.pc = "assign" /\ UNCHANGED <<db, nextId, job>>
        /\ \A i \in DOMAIN db : db[i].seqid \in Nat
    BY <1>5 DEF LookupAssign, NoLookup, TypeOK, Lookup, Row, disk
  <2>2. \/ spoilt' = spoilt /\ g_history_seqid' >= g_history_seqid
        \/ spoilt' = spoilt \cup {"counter"}
    BY <1>5, <2>1 DEF LookupAssign
  <2>3. SeqidFresh'
    BY <2>1, <2>2
  <2> QED BY <2>1, <2>2, <2>3
<1> QED BY <1>1, <1>2, <1>3, <1>4, <1>5 DEF WithoutMutex

\* A start reads the counter back from the table.
LEMMA CrashFresh == FreshInv /\ Crash => FreshParts'
  BY DEF FreshInv, FreshParts, Crash, LoadInto, SeqidFresh, RowsHaveIds, HarmsFollow,
         NoLookup, disk

\* Together: every step keeps the invariant.
LEMMA NextFresh == FreshInv /\ [Next]_vars => FreshInv'
<1> SUFFICES ASSUME FreshInv, [Next]_vars PROVE FreshInv'
  OBVIOUS
<1>1. TypeOK'
  BY NextType DEF FreshInv
<1>2. CASE UNCHANGED vars
  BY <1>1, <1>2 DEF vars, FreshInv, FreshParts, SeqidFresh, RowsHaveIds, HarmsFollow
<1> QED BY <1>1, <1>2, BeginFresh, ContinueFresh, WithoutMutexFresh, CrashFresh
        DEF Next, FreshInv

\* However jobs, resets, look-ups and crashes overlap, no row is ahead of
\* g_history_seqid unless a look-up has stored a number below it: what INSERT OR
\* REPLACE draws is unused.
THEOREM CounterAhead == Spec => []SeqidFresh
<1>1. FreshInv => SeqidFresh
  BY DEF FreshInv, FreshParts
<1> QED BY <1>1, InitFresh, NextFresh, PTL DEF Spec

\* Hence recording a dish never replaces the row of another one before a look-up
\* has set the counter back.
THEOREM NoRowReplaced == Spec => InsertKeepsRows
<1>1. FreshInv /\ [Next]_vars => [InsertRow /\ "counter" \notin spoilt => KeepsRows]_vars
  <2> SUFFICES ASSUME FreshInv, InsertRow, "counter" \notin spoilt, NEW i \in DOMAIN db
               PROVE  i \in DOMAIN db' /\ db'[i] = db[i]
    BY DEF KeepsRows
  <2>1. job.pc = "insert"
    BY DEF InsertRow
  <2>2. db[i].seqid # g_history_seqid + 1 /\ i # nextId
    BY <2>1 DEF FreshInv, FreshParts, SeqidFresh, RowsHaveIds, TypeOK, Row
  <2> QED BY <2>2 DEF InsertRow, InsertOrReplace
<1> QED BY <1>1, InitFresh, NextFresh, PTL DEF Spec, InsertKeepsRows

(***************************************************************************)
(* Ids are handed out once, whatever overlaps                              *)
(***************************************************************************)
\* A step adds no row but the one numbered nextId.
LEMMA StepIds ==
  ASSUME TypeOK, [Next]_vars
  PROVE  /\ nextId' >= nextId
         /\ \A i \in DOMAIN db' \ DOMAIN db : i >= nextId /\ i < nextId'
<1>0. nextId \in Nat
  BY DEF TypeOK
<1>1. CASE InsertRow
  <2>1. DOMAIN db' \subseteq DOMAIN db \cup {nextId} /\ nextId' = nextId + 1
    BY <1>1 DEF InsertRow, InsertOrReplace
  <2> QED BY <1>0, <2>1
<1>2. CASE ~InsertRow
  <2>1. nextId' = nextId /\ DOMAIN db' \subseteq DOMAIN db
    <3>1. CASE Begin
      BY <3>1 DEF Begin, CookCollected, CookNew, UpdateHistory, DeleteHistory, disk
    <3>2. CASE Continue
      BY <1>2, <3>2 DEF Continue, DeleteFromTable, DeleteRow, DeleteFromList,
         SelectRow, UpdateColumn, UpdateSeqid, UpdateRow, IncrementSeqid,
         UpdateEntry, disk
    <3>3. CASE WithoutMutex
      BY <3>3 DEF WithoutMutex, ResetList, ResetTable, LookupList, LookupCompare,
         LookupAssign, disk
    <3>4. CASE Crash \/ UNCHANGED vars
      BY <3>4 DEF Crash, vars, disk
    <3> QED BY <3>1, <3>2, <3>3, <3>4 DEF Next
  <2> QED BY <1>0, <2>1
<1> QED BY <1>1, <1>2

\* An id that a client has seen never comes to name another row, across
\* resets, crashes and every overlap of threads.
THEOREM IdsHandedOutOnce == Spec => IdNeverReused
<1>1. TypeOK /\ [Next]_vars =>
        [/\ nextId' >= nextId
         /\ \A i \in DOMAIN db' \ DOMAIN db : i >= nextId /\ i < nextId']_vars
  BY StepIds
<1> QED BY <1>1, TypeCorrect, PTL DEF Spec, IdNeverReused

(***************************************************************************)
(* The list mirrors the table                                              *)
(*                                                                         *)
(* ListMirrorsTable speaks of idle moments only.  In between, a job has    *)
(* made row and entry of one id differ, and MirrorInv says by how much:    *)
(* which of them is missing (IdsAgree), and which columns the row has that *)
(* the entry has not (Reads).  That no UPDATE of SEQID fails rests on the  *)
(* free number: StrictlyFresh says which row alone may be ahead.           *)
(*                                                                         *)
(* All of this holds while the list is not spoilt (ListInv); a start, and  *)
(* a reset that finds no job, no look-up and an empty list, establish it   *)
(* anew.                                                                   *)
(***************************************************************************)
Listed == {e.id : e \in historyList}

\* The UPDATE of this column is behind the job.
Written(e, c) ==
  /\ job.pc \in {"columns", "increment", "entry"}
  /\ e.id = job.id /\ c \notin job.todo

SeqidRead(e) ==
  IF e.id = job.id /\ job.pc = "increment" THEN g_history_seqid + 1
  ELSE IF e.id = job.id /\ job.pc = "entry" THEN job.seqid ELSE e.seqid
CollectRead(e) ==
  IF Written(e, "collect") /\ job.collect >= 0 THEN job.collect ELSE e.collect
DishRead(e) ==
  IF Written(e, "dishName") /\ job.dish # NoDish THEN job.dish ELSE e.dish

UniqueIds == \A e, f \in historyList : e.id = f.id => e = f

IdsAgree ==
  /\ job.pc = "delete entry" => DOMAIN db = Listed \ {job.victim}
  /\ job.pc = "select" => Listed = DOMAIN db \ {nextId - 1}
  /\ job.pc \notin {"delete entry", "select"} => Listed = DOMAIN db

EntriesRead ==
  \A e \in historyList : e.id \in DOMAIN db =>
    /\ db[e.id].seqid = SeqidRead(e)
    /\ db[e.id].collect = CollectRead(e)
    /\ db[e.id].dish = DishRead(e)

StrictlyFresh ==
  \A i \in DOMAIN db :
    \/ db[i].seqid <= g_history_seqid
    \/ /\ db[i].seqid = g_history_seqid + 1
       /\ (job.pc = "select" /\ i = nextId - 1) \/ (job.pc = "increment" /\ i = job.id)

JobStands ==
  /\ job.pc = "select" =>
       nextId - 1 \in DOMAIN db /\ db[nextId - 1].seqid = g_history_seqid + 1
  /\ job.pc \in {"increment", "entry"} => job.todo = {}
  /\ job.pc \in {"delete row", "delete entry"} /\ job.after = "columns" =>
       job.victim = job.id

Mirrors == UniqueIds /\ IdsAgree /\ EntriesRead /\ StrictlyFresh /\ JobStands

MirrorInv ==
  /\ FreshInv
  /\ "list" \notin spoilt
  /\ reset = "table" => job.pc = "idle" /\ historyList = {}
  /\ reset = "idle" => Mirrors

ListInv == FreshInv /\ ("list" \notin spoilt => MirrorInv)

\* What a step may rely on: types, and that it runs alone.
LEMMA MirrorContext ==
  ASSUME MirrorInv
  PROVE  /\ TypeOK /\ RowsHaveIds
         /\ DOMAIN db \subseteq Nat \ {0} /\ nextId \in Nat \ {0}
         /\ g_history_seqid \in Nat
         /\ \A i \in DOMAIN db : /\ i < nextId /\ db[i].seqid \in Nat
                                 /\ db[i].collect \in {0, 1} /\ db[i].dish \in Dishes
         /\ \A e \in historyList : /\ e \in Entry /\ e.id \in Nat \ {0} /\ e.seqid \in Nat
                                   /\ e.collect \in {0, 1} /\ e.dish \in Dishes
         /\ job.pc # "idle" => reset = "idle" /\ Mirrors
         /\ lookup.pc = "idle"
<1>1. TypeOK /\ RowsHaveIds /\ lookup.pc = "idle"
  BY DEF MirrorInv, FreshInv, FreshParts, HarmsFollow
<1>2. job.pc # "idle" => reset = "idle" /\ Mirrors
  BY <1>1 DEF MirrorInv, TypeOK
<1>3. \A i \in DOMAIN db : /\ i < nextId /\ db[i].seqid \in Nat
                           /\ db[i].collect \in {0, 1} /\ db[i].dish \in Dishes
  BY <1>1 DEF TypeOK, Row, RowsHaveIds
<1>4. \A e \in historyList : /\ e \in Entry /\ e.id \in Nat \ {0} /\ e.seqid \in Nat
                             /\ e.collect \in {0, 1} /\ e.dish \in Dishes
  BY <1>1 DEF TypeOK, Entry
<1> QED BY <1>1, <1>2, <1>3, <1>4 DEF TypeOK

\* A job that moves on keeps what it carries.
LEMMA JobMoves ==
  ASSUME TypeOK, NEW p, job' = [job EXCEPT !.pc = p]
  PROVE  /\ job'.pc = p /\ job'.after = job.after /\ job'.victim = job.victim
         /\ job'.id = job.id /\ job'.seqid = job.seqid /\ job'.dish = job.dish
         /\ job'.collect = job.collect /\ job'.todo = job.todo
  BY DEF TypeOK, Job

\* While no job runs list and table agree, whatever job is begun: between the
\* halves of a reset it would spoil the list.
LEMMA MirrorBegin ==
  ASSUME MirrorInv, Begin, "list" \notin spoilt'
  PROVE  reset' = "idle" /\ Mirrors'
<1>0. /\ job.pc = "idle" /\ reset = "idle" /\ Mirrors
      /\ UNCHANGED <<db, nextId, g_history_seqid, reset>>
  BY MirrorContext
     DEF Begin, CookCollected, CookNew, UpdateHistory, DeleteHistory, TakesMutex,
         SpoilsList, MirrorInv, disk
<1>1. ASSUME NEW d \in Dishes, NEW t \in Times, CookCollected(d, t)
      PROVE  Mirrors'
  <2>1. PICK e \in historyList :
          historyList' = (historyList \ {e}) \cup {[e EXCEPT !.timestamp = t]}
    BY <1>1 DEF CookCollected, FirstCollected
  <2> DEFINE new == [e EXCEPT !.timestamp = t]
  <2>2. /\ new.id = e.id /\ new.seqid = e.seqid /\ new.collect = e.collect
        /\ new.dish = e.dish
    BY MirrorContext DEF Entry
  <2>3. /\ job'.pc = "columns" /\ job'.id = 0 /\ job'.after = "idle"
    BY <1>1 DEF CookCollected, NoJob
  <2>4. UniqueIds' /\ Listed' = Listed
    <3>1. UniqueIds'
      <4>1. \A f \in historyList' : f = new \/ (f \in historyList /\ f # e)
        BY <2>1
      <4>2. \A f \in historyList : f # e => f.id # e.id
        BY <1>0 DEF UniqueIds, Mirrors
      <4>3. UniqueIds
        BY <1>0 DEF Mirrors
      <4> HIDE DEF new
      <4> QED BY <2>2, <4>1, <4>2, <4>3 DEF UniqueIds
    <3>2. \A i : (\E f \in historyList' : f.id = i) <=> (\E f \in historyList : f.id = i)
      BY <2>1, <2>2
    <3> QED BY <3>1, <3>2 DEF Listed
  <2>5. \A f \in historyList' : \E g \in historyList :
           f.id = g.id /\ f.seqid = g.seqid /\ f.collect = g.collect /\ f.dish = g.dish
    BY <2>1, <2>2
  <2>6. EntriesRead'
    <3> SUFFICES ASSUME NEW f \in historyList', f.id \in DOMAIN db
                 PROVE  /\ db[f.id].seqid = SeqidRead(f)'
                        /\ db[f.id].collect = CollectRead(f)'
                        /\ db[f.id].dish = DishRead(f)'
      BY <1>0 DEF EntriesRead
    <3>1. PICK g \in historyList :
            f.id = g.id /\ f.seqid = g.seqid /\ f.collect = g.collect /\ f.dish = g.dish
      BY <2>5
    <3>2. f.id # 0
      BY <3>1, MirrorContext
    <3>3. /\ db[f.id].seqid = f.seqid /\ db[f.id].collect = f.collect
          /\ db[f.id].dish = f.dish
      BY <1>0, <3>1 DEF Mirrors, EntriesRead, SeqidRead, CollectRead, DishRead, Written
    <3> QED BY <2>3, <3>2, <3>3 DEF SeqidRead, CollectRead, DishRead, Written
  <2>7. IdsAgree' /\ StrictlyFresh' /\ JobStands'
    BY <1>0, <2>3, <2>4 DEF Mirrors, IdsAgree, StrictlyFresh, JobStands
  <2> QED BY <2>4, <2>6, <2>7 DEF Mirrors
<1>2. ASSUME UNCHANGED historyList, job'.pc \in {"insert", "delete row", "columns"},
             job'.pc = "columns" => "collect" \in job'.todo \/ ~(job'.collect >= 0),
             job'.pc = "columns" => "dishName" \in job'.todo \/ job'.dish = NoDish,
             job'.pc = "delete row" /\ job'.after = "columns" => job'.victim = job'.id
      PROVE  Mirrors'
  <2>1. UniqueIds' /\ Listed' = Listed
    BY <1>0, <1>2 DEF UniqueIds, Listed, Mirrors
  <2>2. EntriesRead'
    <3> SUFFICES ASSUME NEW f \in historyList, f.id \in DOMAIN db
                 PROVE  /\ db[f.id].seqid = SeqidRead(f)'
                        /\ db[f.id].collect = CollectRead(f)'
                        /\ db[f.id].dish = DishRead(f)'
      BY <1>0, <1>2 DEF EntriesRead
    <3>1. /\ db[f.id].seqid = f.seqid /\ db[f.id].collect = f.collect
          /\ db[f.id].dish = f.dish
      BY <1>0 DEF Mirrors, EntriesRead, SeqidRead, CollectRead, DishRead, Written
    <3> QED BY <1>2, <3>1 DEF SeqidRead, CollectRead, DishRead, Written
  <2>3. IdsAgree' /\ StrictlyFresh' /\ JobStands'
    BY <1>0, <1>2, <2>1 DEF Mirrors, IdsAgree, StrictlyFresh, JobStands
  <2> QED BY <2>1, <2>2, <2>3 DEF Mirrors
<1>3. ASSUME NEW d \in Dishes, NEW t \in Times, CookNew(d, t)
      PROVE  Mirrors'
  <2>1. UNCHANGED historyList
    BY <1>3 DEF CookNew
  <2>2. \/ job'.pc = "insert"
        \/ job'.pc = "delete row" /\ job'.after = "insert"
    BY <1>3 DEF CookNew, NoJob
  <2> QED BY <1>2, <2>1, <2>2
<1>4. ASSUME NEW i \in Ids, NEW c \in {-1, 0, 1}, NEW d \in Dishes \cup {NoDish},
             UpdateHistory(i, c, d)
      PROVE  Mirrors'
  <2>1. UNCHANGED historyList
    BY <1>4 DEF UpdateHistory
  <2>2. \/ job'.pc = "columns"
        \/ job'.pc = "delete row" /\ job'.victim = job'.id
    BY <1>4 DEF UpdateHistory, NoJob
  <2>3. job'.collect = c /\ job'.dish = d /\ job'.todo = ColumnsOf(c, 0, d)
    BY <1>4 DEF UpdateHistory, NoJob
  <2>4. /\ "collect" \in job'.todo \/ ~(job'.collect >= 0)
        /\ "dishName" \in job'.todo \/ job'.dish = NoDish
    BY <2>3 DEF ColumnsOf
  <2> QED BY <1>2, <2>1, <2>2, <2>4
<1>5. ASSUME NEW i \in Ids, DeleteHistory(i)
      PROVE  Mirrors'
  <2>1. UNCHANGED historyList /\ job'.pc = "delete row" /\ job'.after = "idle"
    BY <1>5 DEF DeleteHistory, NoJob
  <2> QED BY <1>2, <2>1
<1> QED BY <1>0, <1>1, <1>3, <1>4, <1>5 DEF Begin

\* The steps of a job: each makes or mends the one difference that its place in
\* the job allows.
LEMMA MirrorDelete ==
  ASSUME MirrorInv, DeleteFromTable \/ DeleteFromList
  PROVE  Mirrors'
<1>0. Mirrors /\ TypeOK
  BY MirrorContext DEF DeleteFromTable, DeleteFromList
<1> USE <1>0 DEF Mirrors
<1>1. CASE DeleteFromTable
  <2>1. /\ job.pc = "delete row" /\ UNCHANGED <<historyList, g_history_seqid, nextId>>
        /\ job'.pc = "delete entry" /\ job'.victim = job.victim /\ job'.id = job.id
        /\ job'.after = job.after
    BY <1>1, JobMoves DEF DeleteFromTable
  <2>2. /\ DOMAIN db' = DOMAIN db \ {job.victim}
        /\ \A i \in DOMAIN db' : db'[i] = db[i]
    BY <1>1 DEF DeleteFromTable, DeleteRow
  <2>3. UniqueIds' /\ IdsAgree'
    BY <2>1, <2>2 DEF UniqueIds, IdsAgree, Listed
  <2>4. EntriesRead'
    BY <2>1, <2>2 DEF EntriesRead, SeqidRead, CollectRead, DishRead, Written
  <2>5. StrictlyFresh' /\ JobStands'
    BY <2>1, <2>2 DEF StrictlyFresh, JobStands
  <2> QED BY <2>3, <2>4, <2>5
<1>2. CASE DeleteFromList
  <2>1. /\ job.pc = "delete entry" /\ UNCHANGED <<db, g_history_seqid, nextId>>
        /\ historyList' = {e \in historyList : e.id # job.victim}
    BY <1>2 DEF DeleteFromList, disk
  <2>2. /\ job'.pc \in {"idle", "insert", "columns"}
        /\ job'.pc = "columns" => job'.id = job.victim
    <3>1. job.after = "columns" => job.id = job.victim
      BY <2>1 DEF JobStands
    <3> QED BY <1>2, <3>1, JobMoves DEF DeleteFromList, NoJob, TypeOK, Job
  <2>3. Listed' = Listed \ {job.victim}
    BY <2>1 DEF Listed
  <2>4. UniqueIds' /\ IdsAgree'
    BY <2>1, <2>2, <2>3 DEF UniqueIds, IdsAgree
  <2>5. EntriesRead'
    BY <2>1, <2>2 DEF EntriesRead, SeqidRead, CollectRead, DishRead, Written
  <2>6. StrictlyFresh' /\ JobStands'
    BY <2>1, <2>2 DEF StrictlyFresh, JobStands
  <2> QED BY <2>4, <2>5, <2>6
<1> QED BY <1>1, <1>2

\* The number that an insert draws is free, so the row it reads back is the one
\* it has just written.
LEMMA MirrorInsert ==
  ASSUME MirrorInv, InsertRow \/ SelectRow
  PROVE  Mirrors'
<1>0. Mirrors /\ TypeOK
  BY MirrorContext DEF InsertRow, SelectRow
<1> USE <1>0 DEF Mirrors
<1>1. CASE InsertRow
  <2>1. /\ job.pc = "insert" /\ UNCHANGED <<historyList, g_history_seqid>>
        /\ nextId' = nextId + 1 /\ job'.pc = "select"
    BY <1>1, JobMoves DEF InsertRow
  <2>2. \A i \in DOMAIN db : db[i].seqid # g_history_seqid + 1 /\ i # nextId
    BY <2>1, MirrorContext DEF StrictlyFresh
  <2>3. /\ DOMAIN db' = DOMAIN db \cup {nextId}
        /\ \A i \in DOMAIN db : db'[i] = db[i]
        /\ db'[nextId].seqid = g_history_seqid + 1
    BY <1>1, <2>2 DEF InsertRow, InsertOrReplace
  <2>4. nextId' - 1 = nextId /\ nextId \notin DOMAIN db
    BY <2>1, <2>2, MirrorContext
  <2>5. Listed = DOMAIN db
    BY <2>1 DEF IdsAgree
  <2>6. UniqueIds' /\ IdsAgree' /\ JobStands'
    BY <2>1, <2>3, <2>4, <2>5 DEF UniqueIds, IdsAgree, Listed, JobStands
  <2>7. EntriesRead'
    <3> SUFFICES ASSUME NEW e \in historyList, e.id \in DOMAIN db'
                 PROVE  /\ db'[e.id].seqid = SeqidRead(e)'
                        /\ db'[e.id].collect = CollectRead(e)'
                        /\ db'[e.id].dish = DishRead(e)'
      BY <2>1 DEF EntriesRead
    <3>1. e.id \in DOMAIN db
      BY <2>5 DEF Listed
    <3> QED BY <2>1, <2>3, <3>1 DEF EntriesRead, SeqidRead, CollectRead, DishRead, Written
  <2>8. StrictlyFresh'
    BY <2>1, <2>3, <2>4 DEF StrictlyFresh
  <2> QED BY <2>6, <2>7, <2>8
<1>2. CASE SelectRow
  <2> DEFINE n == nextId - 1
  <2> DEFINE new == EntryOf(n, db[n])
  <2>1. /\ job.pc = "select" /\ UNCHANGED disk /\ job' = NoJob
        /\ n \in DOMAIN db /\ db[n].seqid = g_history_seqid + 1
        /\ Listed = DOMAIN db \ {n}
    BY <1>2 DEF SelectRow, JobStands, IdsAgree
  <2>2. \A i \in DOMAIN db : i = n \/ db[i].seqid <= g_history_seqid
    BY <2>1 DEF StrictlyFresh
  <2>3. {i \in DOMAIN db : db[i].seqid = g_history_seqid + 1} = {n}
    BY <2>1, <2>2, MirrorContext
  <2>4. historyList' = historyList \cup {new} /\ g_history_seqid' = g_history_seqid + 1
    BY <1>2, <2>3 DEF SelectRow
  <2>5. /\ new.id = n /\ new.seqid = db[n].seqid /\ new.collect = db[n].collect
        /\ new.dish = db[n].dish
    BY DEF EntryOf
  <2>6. \A e \in historyList : e.id \in DOMAIN db /\ e.id # n
    BY <2>1 DEF Listed
  <2>7. job'.pc = "idle" /\ job'.id = 0 /\ db' = db /\ nextId' = nextId
    BY <2>1 DEF NoJob, disk
  <2> HIDE DEF new, n
  <2>8. UniqueIds'
    BY <2>4, <2>5, <2>6 DEF UniqueIds
  <2>9. Listed' = DOMAIN db
    <3>1. Listed' = Listed \cup {n}
      BY <2>4, <2>5 DEF Listed
    <3> QED BY <2>1, <3>1
  <2>10. EntriesRead'
    BY <2>1, <2>4, <2>5, <2>6, <2>7
    DEF EntriesRead, SeqidRead, CollectRead, DishRead, Written
  <2>11. IdsAgree' /\ StrictlyFresh' /\ JobStands'
    BY <2>1, <2>2, <2>4, <2>7, <2>9, MirrorContext
    DEF IdsAgree, StrictlyFresh, JobStands
  <2> QED BY <2>8, <2>10, <2>11
<1> QED BY <1>1, <1>2

\* An update writes the columns it has one by one, then the free number; the
\* entry follows with all of them at once.
LEMMA MirrorUpdateRow ==
  ASSUME MirrorInv, UpdateColumn \/ UpdateSeqid
  PROVE  Mirrors'
<1>0. Mirrors /\ TypeOK /\ job.pc = "columns" /\ UNCHANGED <<historyList, g_history_seqid, nextId>>
  BY MirrorContext DEF UpdateColumn, UpdateSeqid
<1>t. /\ job.dish \in Dishes \cup {NoDish} /\ job.collect \in {-1, 0, 1}
      /\ job.todo \subseteq Columns
  BY <1>0, JobFields
<1>d. DOMAIN db' = DOMAIN db
  BY DEF UpdateColumn, UpdateSeqid, UpdateRow
<1> USE <1>0, <1>d DEF Mirrors
<1>1. CASE UpdateColumn
  <2> DEFINE c == FirstColumn(job.todo)
  <2>1. /\ c \in job.todo /\ c \in Columns
        /\ "collect" = c => job.collect >= 0
        /\ "dishName" = c => job.dish # NoDish
    BY <1>1, <1>t DEF UpdateColumn, FirstColumn, Columns, TypeOK, JobOK
  <2>2. /\ job'.pc = "columns" /\ job'.id = job.id /\ job'.todo = job.todo \ {c}
        /\ job'.collect = job.collect /\ job'.dish = job.dish
    BY <1>1 DEF UpdateColumn, TypeOK, Job
  <2>3. \A i \in DOMAIN db : i # job.id => db'[i] = db[i]
    BY <1>1 DEF UpdateColumn, UpdateRow
  <2>4. job.id \in DOMAIN db =>
          /\ db'[job.id].seqid = db[job.id].seqid
          /\ db'[job.id].collect = IF c = "collect" THEN job.collect ELSE db[job.id].collect
          /\ db'[job.id].dish = IF c = "dishName" THEN job.dish ELSE db[job.id].dish
    BY <1>1 DEF UpdateColumn, UpdateRow, SetColumn, TypeOK, Row
  <2> HIDE DEF c
  <2>5. UniqueIds' /\ IdsAgree' /\ JobStands'
    BY <2>2 DEF UniqueIds, IdsAgree, Listed, JobStands
  <2>6. StrictlyFresh'
    BY <2>2, <2>3, <2>4 DEF StrictlyFresh
  <2>7. EntriesRead'
    <3> SUFFICES ASSUME NEW e \in historyList, e.id \in DOMAIN db
                 PROVE  /\ db'[e.id].seqid = SeqidRead(e)'
                        /\ db'[e.id].collect = CollectRead(e)'
                        /\ db'[e.id].dish = DishRead(e)'
      BY DEF EntriesRead
    <3>1. CASE e.id # job.id
      BY <2>2, <2>3, <3>1 DEF EntriesRead, SeqidRead, CollectRead, DishRead, Written
    <3>2. CASE e.id = job.id
      <4>1. /\ db[job.id].seqid = SeqidRead(e) /\ db[job.id].collect = CollectRead(e)
            /\ db[job.id].dish = DishRead(e)
        BY <3>2 DEF EntriesRead
      <4>2. db'[e.id].seqid = SeqidRead(e)'
        BY <2>2, <2>4, <3>2, <4>1 DEF SeqidRead
      <4>3. db'[e.id].collect = CollectRead(e)'
        BY <2>1, <2>2, <2>4, <3>2, <4>1 DEF CollectRead, Written
      <4>4. db'[e.id].dish = DishRead(e)'
        BY <2>1, <2>2, <2>4, <3>2, <4>1 DEF DishRead, Written
      <4> QED BY <4>2, <4>3, <4>4
    <3> QED BY <3>1, <3>2
  <2> QED BY <2>5, <2>6, <2>7
<1>2. CASE UpdateSeqid
  <2>1. job'.pc = "increment" /\ job.todo = {} /\ job'.todo = {} /\ job'.id = job.id
        /\ job'.collect = job.collect /\ job'.dish = job.dish
    BY <1>2, JobMoves DEF UpdateSeqid
  <2>2. \A k \in DOMAIN db : db[k].seqid <= g_history_seqid
    BY DEF StrictlyFresh
  <2>3. /\ \A i \in DOMAIN db : i # job.id => db'[i] = db[i]
        /\ job.id \in DOMAIN db =>
             /\ db'[job.id].seqid = g_history_seqid + 1
             /\ db'[job.id].collect = db[job.id].collect
             /\ db'[job.id].dish = db[job.id].dish
    <3>1. \A k \in DOMAIN db : db[k].seqid # g_history_seqid + 1
      BY <2>2, MirrorContext
    <3> QED BY <1>2, <3>1 DEF UpdateSeqid, UpdateRow, TypeOK, Row
  <2>4. UniqueIds' /\ IdsAgree' /\ JobStands'
    BY <2>1 DEF UniqueIds, IdsAgree, Listed, JobStands
  <2>5. StrictlyFresh'
    BY <2>1, <2>2, <2>3 DEF StrictlyFresh
  <2>6. EntriesRead'
    <3> SUFFICES ASSUME NEW e \in historyList, e.id \in DOMAIN db
                 PROVE  /\ db'[e.id].seqid = SeqidRead(e)'
                        /\ db'[e.id].collect = CollectRead(e)'
                        /\ db'[e.id].dish = DishRead(e)'
      BY DEF EntriesRead
    <3>1. CASE e.id # job.id
      BY <2>1, <2>3, <3>1 DEF EntriesRead, SeqidRead, CollectRead, DishRead, Written
    <3>2. CASE e.id = job.id
      BY <2>1, <2>3, <3>2 DEF EntriesRead, SeqidRead, CollectRead, DishRead, Written
    <3> QED BY <3>1, <3>2
  <2> QED BY <2>4, <2>5, <2>6
<1> QED BY <1>1, <1>2

LEMMA MirrorUpdateEntry ==
  ASSUME MirrorInv, IncrementSeqid \/ UpdateEntry
  PROVE  Mirrors'
<1>0. Mirrors /\ TypeOK /\ UNCHANGED <<db, nextId>>
  BY MirrorContext DEF IncrementSeqid, UpdateEntry, disk
<1> USE <1>0 DEF Mirrors
<1>1. CASE IncrementSeqid
  <2>1. /\ job.pc = "increment" /\ UNCHANGED historyList
        /\ g_history_seqid' = g_history_seqid + 1
        /\ job.todo = {}
    BY <1>1 DEF IncrementSeqid, JobStands
  <2>2. /\ job'.pc = "entry" /\ job'.seqid = g_history_seqid + 1 /\ job'.todo = {}
        /\ job'.id = job.id /\ job'.collect = job.collect /\ job'.dish = job.dish
    BY <1>1, <2>1 DEF IncrementSeqid, TypeOK, Job
  <2>3. UniqueIds' /\ IdsAgree' /\ JobStands'
    BY <2>1, <2>2 DEF UniqueIds, IdsAgree, Listed, JobStands
  <2>4. StrictlyFresh'
    BY <2>1, <2>2, MirrorContext DEF StrictlyFresh
  <2>5. EntriesRead'
    BY <2>1, <2>2 DEF EntriesRead, SeqidRead, CollectRead, DishRead, Written
  <2> QED BY <2>3, <2>4, <2>5
<1>2. CASE UpdateEntry
  <2>1. /\ job.pc = "entry" /\ UNCHANGED g_history_seqid /\ job.todo = {}
        /\ job'.pc = "idle" /\ job'.id = 0
    BY <1>2 DEF UpdateEntry, NoJob, JobStands
  <2>2. \A e \in historyList : e.id = job.id => e \in FirstWithId(job.id)
    <3> SUFFICES ASSUME NEW e \in historyList, e.id = job.id
                 PROVE  e \in FirstWithId(job.id)
      OBVIOUS
    <3>1. \A f \in historyList : f.id = job.id => f = e
      BY DEF UniqueIds
    <3>2. ~Before(e, e)
      BY MirrorContext DEF Before
    <3> QED BY <3>1, <3>2 DEF FirstWithId
  <2>3. StrictlyFresh' /\ JobStands'
    BY <2>1 DEF StrictlyFresh, JobStands
  <2>4. Listed = DOMAIN db
    BY <2>1 DEF IdsAgree
  <2>5. CASE FirstWithId(job.id) = {}
    <3>1. UNCHANGED historyList
      BY <1>2, <2>5 DEF UpdateEntry
    <3>2. \A e \in historyList : e.id # job.id
      BY <2>2, <2>5
    <3>3. UniqueIds' /\ IdsAgree'
      BY <2>1, <3>1 DEF UniqueIds, IdsAgree, Listed
    <3>4. EntriesRead'
      BY <2>1, <3>1, <3>2, MirrorContext
      DEF EntriesRead, SeqidRead, CollectRead, DishRead, Written
    <3> QED BY <2>3, <3>3, <3>4
  <2>6. CASE FirstWithId(job.id) # {}
    <3>1. PICK e \in FirstWithId(job.id) : historyList' = (historyList \ {e}) \cup
             {[e EXCEPT !.seqid = job.seqid,
                        !.collect = IF job.collect >= 0 THEN job.collect ELSE @,
                        !.timestamp = IF job.timestamp > 0 THEN job.timestamp ELSE @,
                        !.dish = IF job.dish # NoDish THEN job.dish ELSE @]}
      BY <1>2, <2>6 DEF UpdateEntry
    <3> DEFINE new == [e EXCEPT !.seqid = job.seqid,
                        !.collect = IF job.collect >= 0 THEN job.collect ELSE @,
                        !.timestamp = IF job.timestamp > 0 THEN job.timestamp ELSE @,
                        !.dish = IF job.dish # NoDish THEN job.dish ELSE @]
    <3>2. e \in historyList /\ e.id = job.id
      BY DEF FirstWithId
    <3>3. /\ new.id = e.id /\ new.seqid = job.seqid
          /\ new.collect = IF job.collect >= 0 THEN job.collect ELSE e.collect
          /\ new.dish = IF job.dish # NoDish THEN job.dish ELSE e.dish
      BY <3>2, MirrorContext DEF Entry
    <3>4. historyList' = (historyList \ {e}) \cup {new}
      BY <3>1
    <3> HIDE DEF new
    <3>5. \A f \in historyList' : f = new \/ (f \in historyList /\ f # e /\ f.id # e.id)
      BY <3>2, <3>4 DEF UniqueIds
    <3>6. UniqueIds'
      BY <3>3, <3>5 DEF UniqueIds
    <3>7. Listed' = Listed
      <4>1. \A i : (\E f \in historyList' : f.id = i) <=> (\E f \in historyList : f.id = i)
        BY <3>2, <3>3, <3>4
      <4> QED BY <4>1 DEF Listed
    <3>8. IdsAgree'
      BY <2>1, <2>4, <3>7 DEF IdsAgree
    <3>9. e.id \in DOMAIN db
      BY <2>4, <3>2 DEF Listed
    <3>10. /\ db[e.id].seqid = new.seqid /\ db[e.id].collect = new.collect
           /\ db[e.id].dish = new.dish
      BY <2>1, <3>2, <3>3, <3>9 DEF EntriesRead, SeqidRead, CollectRead, DishRead, Written
    <3>11. EntriesRead'
      <4> SUFFICES ASSUME NEW f \in historyList', f.id \in DOMAIN db
                   PROVE  /\ db[f.id].seqid = SeqidRead(f)'
                          /\ db[f.id].collect = CollectRead(f)'
                          /\ db[f.id].dish = DishRead(f)'
        BY DEF EntriesRead
      <4>1. /\ db[f.id].seqid = f.seqid /\ db[f.id].collect = f.collect
            /\ db[f.id].dish = f.dish
        <5>1. CASE f = new
          BY <3>3, <3>10, <5>1
        <5>2. CASE f # new
          BY <3>2, <3>5, <5>2
          DEF EntriesRead, SeqidRead, CollectRead, DishRead, Written
        <5> QED BY <5>1, <5>2
      <4> QED BY <2>1, <4>1 DEF SeqidRead, CollectRead, DishRead, Written
    <3> QED BY <2>3, <3>6, <3>8, <3>11
  <2> QED BY <2>5, <2>6
<1> QED BY <1>1, <1>2

\* A reset outside a job empties the list, then the table.
LEMMA MirrorReset ==
  ASSUME ResetTable, job.pc = "idle", historyList = {}
  PROVE  reset' = "idle" /\ Mirrors'
<1>1. job'.pc = "idle" /\ historyList' = {} /\ DOMAIN db' = {}
  BY DEF ResetTable
<1> QED BY <1>1
    DEF ResetTable, Mirrors, UniqueIds, IdsAgree, Listed, EntriesRead, StrictlyFresh,
        JobStands

\* A look-up spoils the list, and so does a reset inside a job.
LEMMA MirrorOutside ==
  ASSUME MirrorInv, WithoutMutex, "list" \notin spoilt'
  PROVE  /\ reset' = "table" => job'.pc = "idle" /\ historyList' = {}
         /\ reset' = "idle" => Mirrors'
<1>1. CASE ResetList
  BY <1>1 DEF ResetList, SpoilsList
<1>2. CASE ResetTable
  BY <1>2, MirrorReset DEF ResetTable, MirrorInv
<1>3. ASSUME NEW r \in Recipes, LookupList(r) PROVE FALSE
  BY <1>3 DEF LookupList, SpoilsList
<1>4. ~LookupCompare /\ ~LookupAssign
  BY MirrorContext DEF LookupCompare, LookupAssign
<1> QED BY <1>1, <1>2, <1>3, <1>4 DEF WithoutMutex

\* A start loads the list from the table, whatever was listed before.
LEMMA MirrorCrash ==
  ASSUME TypeOK, Crash
  PROVE  reset' = "idle" /\ Mirrors'
<1>1. /\ UNCHANGED <<db, nextId>> /\ job' = NoJob /\ reset' = "idle"
      /\ historyList' = {EntryOf(i, db[i]) : i \in DOMAIN db}
      /\ \A i \in DOMAIN db : db[i].seqid <= g_history_seqid'
  BY DEF Crash, LoadInto, disk
<1>2. job'.pc = "idle" /\ job'.id = 0
  BY <1>1 DEF NoJob
<1>3. \A i \in DOMAIN db : /\ EntryOf(i, db[i]).id = i
                           /\ EntryOf(i, db[i]).seqid = db[i].seqid
                           /\ EntryOf(i, db[i]).collect = db[i].collect
                           /\ EntryOf(i, db[i]).dish = db[i].dish
  BY DEF EntryOf
<1>4. UniqueIds'
  BY <1>1, <1>3 DEF UniqueIds
<1>5. Listed' = DOMAIN db
  <2>1. \A i : (\E e \in historyList' : e.id = i) <=> i \in DOMAIN db
    BY <1>1, <1>3
  <2> QED BY <2>1 DEF Listed
<1>6. EntriesRead'
  BY <1>1, <1>2, <1>3
  DEF EntriesRead, SeqidRead, CollectRead, DishRead, Written
<1> QED BY <1>1, <1>2, <1>4, <1>5, <1>6
    DEF Mirrors, IdsAgree, StrictlyFresh, JobStands

\* What was spoilt is sound again after a start, or a reset that found no job.
LEMMA Mended ==
  ASSUME FreshInv, [Next]_vars, NEW h \in {"list", "limits"},
         h \in spoilt, h \notin spoilt'
  PROVE  \/ Crash /\ h = "list"
         \/ ResetTable /\ job.pc = "idle" /\ historyList = {}
<1>1. ~Begin
  BY DEF Begin, CookCollected, CookNew, UpdateHistory, DeleteHistory, TakesMutex,
         SpoilsList
<1>2. ~Continue /\ ~UNCHANGED vars
  BY DEF Continue, DeleteFromTable, DeleteFromList, InsertRow, SelectRow, UpdateColumn,
         UpdateSeqid, IncrementSeqid, UpdateEntry, vars
<1>3. CASE WithoutMutex
  BY <1>3 DEF WithoutMutex, ResetList, ResetTable, AfterReset, LookupList, LookupCompare,
              LookupAssign, SpoilsList
<1>4. CASE Crash
  BY <1>4 DEF Crash
<1> QED BY <1>1, <1>2, <1>3, <1>4 DEF Next

\* Every step of a list that mirrors the table keeps it so, or spoils it.
LEMMA MirrorNext ==
  ASSUME MirrorInv, [Next]_vars, "list" \notin spoilt'
  PROVE  MirrorInv'
<1>1. FreshInv'
  BY NextFresh DEF MirrorInv
<1>2. CASE Continue
  <2>1. reset = "idle" /\ UNCHANGED reset
    BY <1>2, MirrorContext
    DEF Continue, DeleteFromTable, DeleteFromList, InsertRow, SelectRow,
        UpdateColumn, UpdateSeqid, IncrementSeqid, UpdateEntry
  <2>2. Mirrors'
    BY <1>2, MirrorDelete, MirrorInsert, MirrorUpdateRow, MirrorUpdateEntry
    DEF Continue
  <2> QED BY <1>1, <2>1, <2>2 DEF MirrorInv
<1>3. CASE UNCHANGED vars
  BY <1>1, <1>3
  DEF vars, MirrorInv, Mirrors, UniqueIds, IdsAgree, Listed, EntriesRead, SeqidRead,
      CollectRead, DishRead, Written, StrictlyFresh, JobStands
<1>4. CASE Begin
  BY <1>1, <1>4, MirrorBegin DEF MirrorInv
<1>5. CASE WithoutMutex
  BY <1>1, <1>5, MirrorOutside DEF MirrorInv
<1>6. CASE Crash
  BY <1>1, <1>6, MirrorContext, MirrorCrash DEF MirrorInv
<1> QED BY <1>2, <1>3, <1>4, <1>5, <1>6 DEF Next

LEMMA ListNext == ListInv /\ [Next]_vars => ListInv'
<1> SUFFICES ASSUME ListInv, [Next]_vars PROVE ListInv'
  OBVIOUS
<1>1. FreshInv'
  BY NextFresh DEF ListInv
<1>2. CASE "list" \in spoilt'
  BY <1>1, <1>2 DEF ListInv
<1>3. CASE "list" \notin spoilt' /\ "list" \notin spoilt
  BY <1>1, <1>3, MirrorNext DEF ListInv
<1>4. CASE "list" \notin spoilt' /\ "list" \in spoilt
  <2>1. Crash \/ (ResetTable /\ job.pc = "idle" /\ historyList = {})
    BY <1>4, Mended DEF ListInv
  <2>2. reset' = "idle" /\ Mirrors'
    BY <2>1, MirrorCrash, MirrorReset DEF ListInv, FreshInv
  <2> QED BY <1>1, <1>4, <2>2 DEF ListInv, MirrorInv
<1> QED BY <1>2, <1>3, <1>4

LEMMA ListInit == Init => ListInv
<1> SUFFICES ASSUME Init PROVE ListInv
  OBVIOUS
<1>1. /\ DOMAIN db = {} /\ historyList = {} /\ job.pc = "idle" /\ reset = "idle"
      /\ spoilt = {}
  BY DEF Init, NoJob
<1> QED BY <1>1, InitFresh
    DEF ListInv, MirrorInv, Mirrors, UniqueIds, IdsAgree, Listed, EntriesRead,
        StrictlyFresh, JobStands

\* What clients are shown is what survives: list and table have the same rows
\* between jobs, after any sequence of cooking, evictions, updates, deletions,
\* resets and crashes, unless a recipe was listed or a reset fell into a job
\* since the last start.
THEOREM ListMirrors == Spec => []ListMirrorsTable
<1>1. ListInv => ListMirrorsTable
  <2> SUFFICES ASSUME MirrorInv, Quiet
               PROVE  {WithoutTime(e) : e \in historyList} = {WithoutTime(e) : e \in Table}
    BY DEF ListMirrorsTable, ListInv
  <2>1. Mirrors /\ job.pc = "idle"
    BY DEF MirrorInv, Quiet
  <2>2. Listed = DOMAIN db
    BY <2>1 DEF Mirrors, IdsAgree
  <2>3. \A e \in historyList :
          /\ e.id \in DOMAIN db
          /\ WithoutTime(e) = WithoutTime(EntryOf(e.id, db[e.id]))
    <3> SUFFICES ASSUME NEW e \in historyList
                 PROVE  /\ e.id \in DOMAIN db
                        /\ WithoutTime(e) = WithoutTime(EntryOf(e.id, db[e.id]))
      OBVIOUS
    <3>1. e.id \in DOMAIN db
      BY <2>2 DEF Listed
    <3>2. /\ db[e.id].seqid = e.seqid /\ db[e.id].collect = e.collect
          /\ db[e.id].dish = e.dish
      BY <2>1, <3>1 DEF Mirrors, EntriesRead, SeqidRead, CollectRead, DishRead, Written
    <3> QED BY <3>1, <3>2 DEF WithoutTime, EntryOf
  <2>4. \A i \in DOMAIN db : \E e \in historyList : e.id = i
    BY <2>2 DEF Listed
  <2> QED BY <2>3, <2>4 DEF Table
<1> QED BY <1>1, ListInit, ListNext, PTL DEF Spec

(***************************************************************************)
(* The oldest goes first                                                   *)
(***************************************************************************)
\* Between the decision, taken on the list, and the statement nothing changes
\* the table.
VictimInv ==
  job.pc = "delete row" /\ job.after = "insert" =>
    /\ job.victim \in DOMAIN db /\ db[job.victim].collect = 0
    /\ \A i \in DOMAIN db : db[i].collect = 0 => db[job.victim].seqid <= db[i].seqid

\* Between jobs each entry is its row, and each row has its entry.
LEMMA QuietMirror ==
  ASSUME MirrorInv, job.pc = "idle", reset = "idle"
  PROVE  /\ \A e \in historyList : /\ e.id \in DOMAIN db
                                   /\ db[e.id].seqid = e.seqid
                                   /\ db[e.id].collect = e.collect
         /\ \A i \in DOMAIN db : \E e \in historyList : e.id = i
         /\ UniqueIds
<1>1. Mirrors
  BY DEF MirrorInv
<1>2. Listed = DOMAIN db
  BY <1>1 DEF Mirrors, IdsAgree
<1>3. \A e \in historyList : e.id \in DOMAIN db
  BY <1>2 DEF Listed
<1> QED BY <1>1, <1>2, <1>3
    DEF Mirrors, Listed, EntriesRead, SeqidRead, CollectRead, Written

\* Only CookNew sends a job to delete a row on behalf of an insert.
LEMMA VictimNext ==
  ASSUME MirrorInv, VictimInv, [Next]_vars, "list" \notin spoilt'
  PROVE  VictimInv'
<1>1. ASSUME NEW d \in Dishes, NEW t \in Times, CookNew(d, t),
             job'.pc = "delete row"
      PROVE  VictimInv'
  <2>1. job.pc = "idle" /\ reset = "idle" /\ UNCHANGED db
    BY <1>1, MirrorContext DEF CookNew, TakesMutex, SpoilsList, TypeOK, disk
  <2>2. PICK e \in LastEntries(0) : job'.victim = e.id
    BY <1>1 DEF CookNew, NoJob
  <2>3. /\ e \in historyList /\ e.collect = 0
        /\ \A f \in historyList : f.collect = 0 => e.seqid <= f.seqid
    BY <2>2, MirrorContext DEF LastEntries, Before
  <2>4. /\ e.id \in DOMAIN db /\ db[e.id].collect = 0 /\ db[e.id].seqid = e.seqid
        /\ \A i \in DOMAIN db : db[i].collect = 0 => e.seqid <= db[i].seqid
    BY <2>1, <2>3, QuietMirror
  <2> QED BY <2>1, <2>2, <2>4 DEF VictimInv
<1>2. ASSUME job'.pc # "delete row" \/ job'.after # "insert" PROVE VictimInv'
  BY <1>2 DEF VictimInv
<1>3. ASSUME UNCHANGED <<db, job>> PROVE VictimInv'
  BY <1>3 DEF VictimInv
<1>4. CASE Begin
  <2>1. ASSUME NEW d \in Dishes, NEW t \in Times, CookCollected(d, t) \/ CookNew(d, t)
        PROVE  VictimInv'
    BY <1>1, <1>2, <2>1 DEF CookCollected, NoJob
  <2>2. ASSUME NEW i \in Ids, NEW c \in {-1, 0, 1}, NEW d \in Dishes \cup {NoDish},
               UpdateHistory(i, c, d)
        PROVE  VictimInv'
    BY <1>2, <2>2 DEF UpdateHistory, NoJob
  <2>3. ASSUME NEW i \in Ids, DeleteHistory(i) PROVE VictimInv'
    BY <1>2, <2>3 DEF DeleteHistory, NoJob
  <2> QED BY <1>4, <2>1, <2>2, <2>3 DEF Begin
<1>5. CASE Continue
  <2>1. job'.pc # "delete row"
    <3>0. NoJob.pc = "idle"
      BY DEF NoJob
    <3>1. TypeOK /\ job.after # "delete row"
      BY MirrorContext DEF TypeOK, Job
    <3>2. CASE DeleteFromTable \/ InsertRow \/ UpdateSeqid
      BY <3>1, <3>2, JobMoves DEF DeleteFromTable, InsertRow, UpdateSeqid
    <3>3. CASE DeleteFromList
      <4>1. job' = NoJob \/ job' = [job EXCEPT !.pc = job.after]
        BY <3>3 DEF DeleteFromList
      <4>2. job' = [job EXCEPT !.pc = job.after] => job'.pc = job.after
        BY <3>1, JobMoves
      <4> QED BY <3>0, <3>1, <4>1, <4>2
    <3>4. CASE SelectRow \/ UpdateEntry
      BY <3>0, <3>4 DEF SelectRow, UpdateEntry
    <3>5. CASE UpdateColumn
      BY <3>1, <3>5 DEF UpdateColumn, TypeOK, Job
    <3>6. CASE IncrementSeqid
      BY <3>1, <3>6 DEF IncrementSeqid, TypeOK, Job
    <3> QED BY <1>5, <3>2, <3>3, <3>4, <3>5, <3>6 DEF Continue
  <2> QED BY <1>2, <2>1
<1>6. CASE WithoutMutex \/ Crash
  <2>1. UNCHANGED <<db, job>> \/ job'.pc # "delete row"
    <3>1. CASE WithoutMutex
      BY <3>1, MirrorContext
      DEF WithoutMutex, ResetList, ResetTable, LookupList, LookupCompare,
          LookupAssign, MirrorInv, disk
    <3>2. CASE Crash
      BY <3>2 DEF Crash, NoJob
    <3> QED BY <1>6, <3>1, <3>2
  <2> QED BY <1>2, <1>3, <2>1
<1> QED BY <1>3, <1>4, <1>5, <1>6 DEF Next, vars

\* The victim of a list that is not spoilt is the oldest row.
VictimOK == "list" \notin spoilt => VictimInv

LEMMA VictimStep == ListInv /\ VictimOK /\ [Next]_vars => VictimOK'
<1> SUFFICES ASSUME ListInv, VictimOK, [Next]_vars, "list" \notin spoilt' PROVE VictimInv'
  BY DEF VictimOK
<1>1. CASE "list" \notin spoilt
  BY <1>1, VictimNext DEF ListInv, VictimOK
<1>2. CASE "list" \in spoilt
  <2>1. Crash \/ (ResetTable /\ job.pc = "idle")
    BY <1>2, Mended DEF ListInv
  <2>2. job'.pc = "idle"
    BY <2>1 DEF Crash, NoJob, ResetTable
  <2> QED BY <2>2 DEF VictimInv
<1> QED BY <1>1, <1>2

\* What insertHistory removes to make room is the oldest uncollected row of the
\* table, although it was chosen on the list, as long as that is not spoilt.
THEOREM OldestEvicted == Spec => EvictsOldest
<1>1. Init => VictimOK
  BY DEF Init, NoJob, VictimInv, VictimOK
<1>2. VictimOK /\ [Next]_vars =>
        [DeleteFromTable /\ job.after = "insert" /\ "list" \notin spoilt =>
           \A i \in DOMAIN db :
              db[i].collect = 0 =>
                 /\ job.victim \in DOMAIN db
                 /\ db[job.victim].collect = 0
                 /\ db[job.victim].seqid <= db[i].seqid]_vars
  BY DEF VictimInv, VictimOK, DeleteFromTable
<1> QED BY <1>1, <1>2, VictimStep, ListInit, ListNext, PTL DEF Spec, EvictsOldest

(***************************************************************************)
(* The limits                                                              *)
(*                                                                         *)
(* They are kept because room is made before a row is written: CountInv    *)
(* says that a job about to insert, or to collect, has left room for one.  *)
(***************************************************************************)
LEMMA SmallestInSet ==
  ASSUME NEW S \in SUBSET Nat, S # {}
  PROVE  \E m \in S : \A k \in S : m <= k
<1> DEFINE R == {ss \in Nat \X Nat : ss[1] < ss[2]}
<1>1. \A x, y \in Nat : y < x => <<y, x>> \in R
  OBVIOUS
<1>2. IsWellFoundedOn(R, Nat)
  <2>1. OpToRel(<, Nat) = R
    BY DEF OpToRel
  <2> QED BY <2>1, NatLessThanWellFounded
<1> HIDE DEF R
<1>3. PICK m \in S : \A k \in S : ~ (<<k, m>> \in R)
  BY <1>2, WFMin
<1>4. S \subseteq Nat
  OBVIOUS
<1>5. \A k \in S : ~(k < m)
  BY <1>1, <1>3, <1>4
<1> QED BY <1>4, <1>5

\* Entries with distinct ids are as many as their ids.
LEMMA AsManyAsIds ==
  ASSUME NEW D, NEW S, IsFiniteSet(D),
         \A e \in S : e.id \in D, \A i \in D : \E e \in S : e.id = i,
         \A e, f \in S : e.id = f.id => e = f
  PROVE  IsFiniteSet(S) /\ Cardinality(S) = Cardinality(D)
<1> DEFINE g == [e \in S |-> e.id]
<1>0. /\ g \in [S -> D] /\ \A e, f \in S : g[e] = g[f] => e = f
      /\ \A i \in D : \E e \in S : g[e] = i
  OBVIOUS
<1>1. g \in Injection(S, D) /\ g \in Surjection(S, D)
  BY <1>0, Fun_IsInj, Fun_IsSurj
<1> HIDE DEF g
<1> QED BY <1>1, FS_Injection

\* A set splits in two.
LEMMA SplitCount ==
  ASSUME NEW A, NEW B, NEW C, IsFiniteSet(C), C = A \cup B, A \cap B = {}
  PROVE  /\ IsFiniteSet(A) /\ IsFiniteSet(B)
         /\ Cardinality(A) \in Nat /\ Cardinality(B) \in Nat
         /\ Cardinality(C) = Cardinality(A) + Cardinality(B)
<1>1. IsFiniteSet(A) /\ IsFiniteSet(B)
  BY FS_Subset
<1>2. /\ Cardinality(A) \in Nat /\ Cardinality(B) \in Nat
      /\ Cardinality(A \cup B) = Cardinality(A) + Cardinality(B) - Cardinality(A \cap B)
  BY <1>1, FS_Union, FS_CardinalityType
<1>3. Cardinality(A \cap B) = 0
  BY FS_EmptySet
<1> QED BY <1>1, <1>2, <1>3

Uncollected == {i \in DOMAIN db : db[i].collect = 0}
EntriesWith(c) == {e \in historyList : e.collect = c}

MakesRoom == job.pc = "insert" \/ (job.pc = "delete entry" /\ job.after = "insert")
Collects == job.pc = "columns" /\ "collect" \in job.todo /\ job.collect = 1

CountInv ==
  /\ IsFiniteSet(DOMAIN db)
  /\ Cardinality(Collected) <= MAX_COLLECT
  /\ Cardinality(DOMAIN db) <= MAX_HISTORY + MAX_COLLECT
  /\ MakesRoom => Cardinality(DOMAIN db) < MAX_HISTORY + MAX_COLLECT
  /\ Collects /\ job.id \in DOMAIN db =>
       db[job.id].collect = 1 \/ Cardinality(Collected) < MAX_COLLECT

\* What the limits are tested on: between jobs the list counts the table's rows.
LEMMA ListCounts ==
  ASSUME MirrorInv, CountInv, job.pc = "idle", reset = "idle"
  PROVE  /\ historyCount = Cardinality(Uncollected)
         /\ Cardinality(historyList) - historyCount = Cardinality(Collected)
         /\ Cardinality(DOMAIN db) = Cardinality(Uncollected) + Cardinality(Collected)
         /\ Cardinality(Uncollected) \in Nat /\ Cardinality(Collected) \in Nat
         /\ IsFiniteSet(Collected)
<1>1. /\ \A i \in DOMAIN db : db[i].collect \in {0, 1}
      /\ \A e \in historyList : e.collect \in {0, 1}
  BY MirrorContext
<1>2. /\ IsFiniteSet(Uncollected) /\ IsFiniteSet(Collected)
      /\ Cardinality(Uncollected) \in Nat /\ Cardinality(Collected) \in Nat
      /\ Cardinality(DOMAIN db) = Cardinality(Uncollected) + Cardinality(Collected)
  <2>1. DOMAIN db = Uncollected \cup Collected
    BY <1>1 DEF Uncollected, Collected
  <2>2. Uncollected \cap Collected = {}
    BY DEF Uncollected, Collected
  <2> QED BY <2>1, <2>2, SplitCount DEF CountInv
<1>3. Cardinality(EntriesWith(0)) = Cardinality(Uncollected)
  <2>1. /\ \A e \in EntriesWith(0) : e.id \in Uncollected
        /\ \A i \in Uncollected : \E e \in EntriesWith(0) : e.id = i
        /\ \A e, f \in EntriesWith(0) : e.id = f.id => e = f
    BY QuietMirror DEF EntriesWith, Uncollected, UniqueIds
  <2> QED BY <1>2, <2>1, AsManyAsIds
<1>4. Cardinality(EntriesWith(1)) = Cardinality(Collected)
  <2>1. /\ \A e \in EntriesWith(1) : e.id \in Collected
        /\ \A i \in Collected : \E e \in EntriesWith(1) : e.id = i
        /\ \A e, f \in EntriesWith(1) : e.id = f.id => e = f
    BY QuietMirror DEF EntriesWith, Collected, UniqueIds
  <2> QED BY <1>2, <2>1, AsManyAsIds
<1>5. Cardinality(historyList) = Cardinality(EntriesWith(0)) + Cardinality(EntriesWith(1))
  <2>1. IsFiniteSet(historyList)
    <3>1. /\ \A e \in historyList : e.id \in DOMAIN db
          /\ \A i \in DOMAIN db : \E e \in historyList : e.id = i
          /\ \A e, f \in historyList : e.id = f.id => e = f
      BY QuietMirror DEF UniqueIds
    <3> QED BY <3>1, AsManyAsIds DEF CountInv
  <2>2. /\ historyList = EntriesWith(0) \cup EntriesWith(1)
        /\ EntriesWith(0) \cap EntriesWith(1) = {}
    BY <1>1 DEF EntriesWith
  <2> QED BY <2>1, <2>2, SplitCount
<1>6. historyCount = Cardinality(EntriesWith(0))
  BY DEF historyCount, EntriesWith
<1> QED BY <1>2, <1>3, <1>4, <1>5, <1>6

\* A category that is full has a last entry.
LEMMA LastExists ==
  ASSUME MirrorInv, NEW c \in {0, 1}, EntriesWith(c) # {}
  PROVE  LastEntries(c) # {}
<1> DEFINE Q == {e.seqid : e \in EntriesWith(c)}
<1>1. Q \in SUBSET Nat /\ Q # {}
  BY MirrorContext DEF EntriesWith
<1>2. PICK m \in Q : \A k \in Q : m <= k
  BY <1>1, SmallestInSet
<1>3. PICK e \in EntriesWith(c) : e.seqid = m
  BY <1>2
<1>4. \A f \in EntriesWith(c) : e.seqid <= f.seqid
  BY <1>2, <1>3
<1>5. e \in LastEntries(c)
  BY <1>3, <1>4, MirrorContext DEF LastEntries, Before, EntriesWith
<1> QED BY <1>5

\* Nothing is counted anew when neither table nor job claim anything new.
LEMMA CountKept ==
  ASSUME CountInv, UNCHANGED db, MakesRoom' => MakesRoom,
         Collects' => Collects /\ job'.id = job.id
  PROVE  CountInv'
  BY DEF CountInv, Collected

\* A job begins: the limits are tested here.
LEMMA CountBegin ==
  ASSUME MirrorInv, CountInv, Begin, "list" \notin spoilt'
  PROVE  CountInv'
<1>0. job.pc = "idle" /\ reset = "idle" /\ UNCHANGED db
  BY MirrorContext
     DEF Begin, CookCollected, CookNew, UpdateHistory, DeleteHistory, TakesMutex,
         SpoilsList, TypeOK, disk
<1>h. MAX_HISTORY \in Nat \ {0} /\ MAX_COLLECT \in Nat \ {0}
  BY HistoryAssumption
<1>1. ASSUME NEW d \in Dishes, NEW t \in Times, CookCollected(d, t)
      PROVE  CountInv'
  <2>1. job'.pc = "columns" /\ job'.collect = 0
    BY <1>1 DEF CookCollected, NoJob
  <2> QED BY <1>0, <2>1, CountKept DEF MakesRoom, Collects
<1>2. ASSUME NEW d \in Dishes, NEW t \in Times, CookNew(d, t)
      PROVE  CountInv'
  <2>1. CASE job'.pc = "delete row"
    BY <1>0, <2>1, CountKept DEF MakesRoom, Collects
  <2>2. CASE job'.pc # "delete row"
    <3>1. ~(HistoryFull /\ LastEntries(0) # {}) /\ job'.pc = "insert"
      BY <1>2, <2>2 DEF CookNew, NoJob
    <3>2. historyCount < MAX_HISTORY
      <4>1. historyCount \in Nat
        BY <1>0, ListCounts
      <4>2. CASE EntriesWith(0) = {}
        <5>1. historyCount = 0
          BY <4>2, FS_EmptySet DEF historyCount, EntriesWith
        <5> QED BY <1>h, <5>1
      <4>3. CASE EntriesWith(0) # {}
        BY <1>h, <3>1, <4>1, <4>3, LastExists DEF HistoryFull
      <4> QED BY <4>2, <4>3
    <3>3. Cardinality(DOMAIN db) < MAX_HISTORY + MAX_COLLECT
      BY <1>0, <1>h, <3>2, ListCounts DEF CountInv
    <3> QED BY <1>0, <3>1, <3>3 DEF CountInv, Collected, Collects
  <2> QED BY <2>1, <2>2
<1>3. ASSUME NEW i \in Ids, NEW c \in {-1, 0, 1}, NEW d \in Dishes \cup {NoDish},
             UpdateHistory(i, c, d)
      PROVE  CountInv'
  <2>1. PICK single \in FirstWithId(i) :
          LET upd == [NoJob EXCEPT !.pc = "columns", !.id = i, !.collect = c,
                                   !.dish = d, !.todo = ColumnsOf(c, 0, d)]
              last == IF c # single.collect
                      THEN IF CollectionFull THEN LastEntries(1) ELSE {}
                      ELSE IF HistoryFull THEN LastEntries(0) ELSE {}
          IN  IF c >= 0 /\ \E e \in last : e.id # i
              THEN job' = [upd EXCEPT !.pc = "delete row", !.victim = i,
                                      !.after = "columns"]
              ELSE job' = upd
    BY <1>3 DEF UpdateHistory
  <2>2. single \in historyList /\ single.id = i
    BY DEF FirstWithId
  <2>3. job'.pc \in {"columns", "delete row"} /\ job'.after # "insert"
    BY <2>1 DEF NoJob
  <2>4. ASSUME Collects'
        PROVE  /\ job'.id = i
               /\ db[i].collect = 1 \/ Cardinality(Collected) < MAX_COLLECT
    <3>1. /\ c = 1 /\ job'.id = i
          /\ \A e \in IF c # single.collect
                     THEN IF CollectionFull THEN LastEntries(1) ELSE {}
                     ELSE IF HistoryFull THEN LastEntries(0) ELSE {} : e.id = i
      <4>1. job'.collect = c /\ job'.id = i
        BY <2>1 DEF NoJob
      <4>2. c = 1 /\ job'.pc = "columns"
        BY <2>4, <4>1 DEF Collects
      <4>3. (\E e \in IF c # single.collect
                     THEN IF CollectionFull THEN LastEntries(1) ELSE {}
                     ELSE IF HistoryFull THEN LastEntries(0) ELSE {} : e.id # i)
            => job'.pc = "delete row"
        <5> DEFINE upd == [NoJob EXCEPT !.pc = "columns", !.id = i, !.collect = c,
                                        !.dish = d, !.todo = ColumnsOf(c, 0, d)]
                   gone == [upd EXCEPT !.pc = "delete row", !.victim = i,
                                       !.after = "columns"]
                   last == IF c # single.collect
                           THEN IF CollectionFull THEN LastEntries(1) ELSE {}
                           ELSE IF HistoryFull THEN LastEntries(0) ELSE {}
        <5>1. IF c >= 0 /\ \E e \in last : e.id # i THEN job' = gone ELSE job' = upd
          BY <2>1
        <5>2. gone.pc = "delete row"
          BY DEF NoJob
        <5>3. c >= 0
          BY <4>2
        <5> HIDE DEF gone, upd, last
        <5>4. (\E e \in last : e.id # i) => job'.pc = "delete row"
          BY <5>1, <5>2, <5>3
        <5> QED BY <5>4 DEF last
      <4> QED BY <4>1, <4>2, <4>3
    <3>2. single.collect \in {0, 1} /\ db[i].collect = single.collect
      BY <1>0, <2>2, QuietMirror, MirrorContext
    <3>3. CASE single.collect = 0 /\ CollectionFull
      <4>1. \A e \in LastEntries(1) : e.id = i
        BY <3>1, <3>3
      <4>2. \A e \in LastEntries(1) : e.id # i
        BY <1>0, <2>2, <3>3, QuietMirror DEF LastEntries, UniqueIds
      <4>3. EntriesWith(1) = {}
        BY <4>1, <4>2, LastExists
      <4>4. Cardinality(Collected) = 0
        <5>1. Collected = {}
          BY <1>0, <4>3, QuietMirror DEF EntriesWith, Collected
        <5> QED BY <5>1, FS_EmptySet
      <4>5. Cardinality(Collected) < MAX_COLLECT
        BY <1>h, <4>4
      <4> QED BY <3>1, <4>5
    <3>4. CASE ~CollectionFull
      <4>1. Cardinality(Collected) < MAX_COLLECT
        <5>1. /\ Cardinality(historyList) - historyCount = Cardinality(Collected)
              /\ Cardinality(Collected) \in Nat
          BY <1>0, ListCounts
        <5> QED BY <1>h, <3>4, <5>1 DEF CollectionFull
      <4> QED BY <3>1, <4>1
    <3> QED BY <3>1, <3>2, <3>3, <3>4
  <2>5. ~MakesRoom'
    BY <2>3 DEF MakesRoom
  <2> QED BY <1>0, <2>4, <2>5 DEF CountInv, Collected
<1>4. ASSUME NEW i \in Ids, DeleteHistory(i)
      PROVE  CountInv'
  <2>1. job'.pc = "delete row"
    BY <1>4 DEF DeleteHistory, NoJob
  <2> QED BY <1>0, <2>1, CountKept DEF MakesRoom, Collects
<1> QED BY <1>1, <1>2, <1>3, <1>4 DEF Begin

\* A row that goes leaves room, a row that comes takes it.
LEMMA CountContinue ==
  ASSUME MirrorInv, VictimInv, CountInv, Continue
  PROVE  CountInv'
<1>h. MAX_HISTORY \in Nat \ {0} /\ MAX_COLLECT \in Nat \ {0}
  BY HistoryAssumption
<1>0. TypeOK /\ Mirrors
  BY MirrorContext
  DEF Continue, DeleteFromTable, DeleteFromList, InsertRow, SelectRow, UpdateColumn,
      UpdateSeqid, IncrementSeqid, UpdateEntry
<1>f. /\ IsFiniteSet(DOMAIN db)
      /\ IsFiniteSet(Collected) /\ Cardinality(Collected) \in Nat
      /\ Cardinality(DOMAIN db) \in Nat
  <2>1. Collected \in SUBSET DOMAIN db
    BY DEF Collected
  <2> QED BY <2>1, FS_Subset, FS_CardinalityType DEF CountInv
<1>k. ASSUME DOMAIN db' = DOMAIN db, Collected' \subseteq Collected,
             ~MakesRoom', ~Collects' \/ (job'.id \in DOMAIN db' => db'[job'.id].collect = 1)
      PROVE  CountInv'
  <2>1. Cardinality(Collected') <= Cardinality(Collected)
    BY <1>f, <1>k, FS_Subset
  <2>2. Cardinality(Collected') \in Nat
    BY <1>f, <1>k, FS_Subset, FS_CardinalityType
  <2> QED BY <1>f, <1>h, <1>k, <2>1, <2>2 DEF CountInv
<1>1. CASE DeleteFromTable
  <2>1. /\ DOMAIN db' = DOMAIN db \ {job.victim}
        /\ \A i \in DOMAIN db' : db'[i] = db[i]
        /\ job.pc = "delete row" /\ job'.pc = "delete entry"
        /\ job'.after = job.after
    BY <1>0, <1>1, JobMoves DEF DeleteFromTable, DeleteRow
  <2>2. /\ Collected' \subseteq Collected
        /\ IsFiniteSet(DOMAIN db') /\ Cardinality(DOMAIN db') \in Nat
        /\ Cardinality(DOMAIN db') = IF job.victim \in DOMAIN db
                                     THEN Cardinality(DOMAIN db) - 1
                                     ELSE Cardinality(DOMAIN db)
    <3>1. Collected' \subseteq Collected
      BY <2>1 DEF Collected
    <3>2. /\ IsFiniteSet(DOMAIN db \ {job.victim})
          /\ Cardinality(DOMAIN db \ {job.victim}) = IF job.victim \in DOMAIN db
                                                   THEN Cardinality(DOMAIN db) - 1
                                                   ELSE Cardinality(DOMAIN db)
      BY <1>f, FS_RemoveElement
    <3> QED BY <2>1, <3>1, <3>2, FS_CardinalityType
  <2>3. Cardinality(Collected') <= Cardinality(Collected)
        /\ Cardinality(Collected') \in Nat
    BY <1>f, <2>2, FS_Subset, FS_CardinalityType
  <2>4. MakesRoom' => job.victim \in DOMAIN db
    BY <2>1 DEF MakesRoom, VictimInv
  <2>5. ~Collects'
    BY <2>1 DEF Collects
  <2> QED BY <1>f, <1>h, <2>2, <2>3, <2>4, <2>5 DEF CountInv
<1>2. CASE DeleteFromList
  <2>1. job.pc = "delete entry" /\ UNCHANGED db
        /\ DOMAIN db = Listed \ {job.victim}
    BY <1>0, <1>2 DEF DeleteFromList, disk, Mirrors, IdsAgree
  <2>2. job' = NoJob \/ (job'.pc = job.after /\ job'.id = job.id /\ job'.after = job.after)
    <3>1. job' = NoJob \/ job' = [job EXCEPT !.pc = job.after]
      BY <1>2 DEF DeleteFromList
    <3> QED BY <1>0, <3>1, JobMoves
  <2>3. NoJob.pc = "idle"
    BY DEF NoJob
  <2>4. MakesRoom' => MakesRoom
    BY <1>0, <2>1, <2>2, <2>3 DEF MakesRoom, TypeOK, Job
  <2>5. Collects' => job'.id \notin DOMAIN db
    BY <1>0, <2>1, <2>2, <2>3 DEF Collects, Mirrors, JobStands
  <2> QED BY <2>1, <2>4, <2>5 DEF CountInv, Collected
<1>3. CASE InsertRow
  <2>1. job.pc = "insert" /\ job'.pc = "select" /\ job.collect = 0
    BY <1>0, <1>3, JobMoves DEF InsertRow, TypeOK, JobOK
  <2>2. \A i \in DOMAIN db : db[i].seqid # g_history_seqid + 1 /\ i # nextId
    BY <1>0, <2>1, MirrorContext DEF Mirrors, StrictlyFresh
  <2>3. /\ DOMAIN db' = DOMAIN db \cup {nextId}
        /\ \A i \in DOMAIN db : db'[i] = db[i]
        /\ db'[nextId].collect = 0
    BY <1>3, <2>1, <2>2 DEF InsertRow, InsertOrReplace
  <2>4. Collected' = Collected
    BY <2>2, <2>3 DEF Collected
  <2>5. IsFiniteSet(DOMAIN db') /\ Cardinality(DOMAIN db') = Cardinality(DOMAIN db) + 1
    <3>1. nextId \notin DOMAIN db
      BY <2>2
    <3>2. /\ IsFiniteSet(DOMAIN db \cup {nextId})
          /\ Cardinality(DOMAIN db \cup {nextId}) = Cardinality(DOMAIN db) + 1
      BY <1>f, <3>1, FS_AddElement
    <3> QED BY <2>3, <3>2
  <2> QED BY <1>f, <1>h, <2>1, <2>4, <2>5 DEF CountInv, MakesRoom, Collects
<1>4. CASE SelectRow \/ UpdateEntry
  <2>1. NoJob.pc = "idle"
    BY DEF NoJob
  <2>2. job' = NoJob /\ UNCHANGED db
    BY <1>4 DEF SelectRow, UpdateEntry, disk
  <2> QED BY <2>1, <2>2, CountKept DEF MakesRoom, Collects
<1>5. CASE IncrementSeqid
  <2>1. UNCHANGED db /\ job'.pc = "entry"
    BY <1>0, <1>5 DEF IncrementSeqid, TypeOK, Job, disk
  <2> QED BY <2>1, CountKept DEF MakesRoom, Collects
<1>6. CASE UpdateSeqid
  <2>1. job'.pc = "increment"
    BY <1>0, <1>6, JobMoves DEF UpdateSeqid
  <2>2. DOMAIN db' = DOMAIN db /\ \A i \in DOMAIN db : db'[i].collect = db[i].collect
    BY <1>0, <1>6 DEF UpdateSeqid, UpdateRow, TypeOK, Row
  <2> QED BY <1>k, <2>1, <2>2 DEF Collected, MakesRoom, Collects
<1>7. CASE UpdateColumn
  <2> DEFINE c == FirstColumn(job.todo)
  <2>1. /\ job.pc = "columns" /\ job'.pc = "columns" /\ job'.id = job.id
        /\ job'.todo = job.todo \ {c} /\ job'.collect = job.collect
    BY <1>0, <1>7 DEF UpdateColumn, TypeOK, Job
  <2>2. /\ DOMAIN db' = DOMAIN db
        /\ \A i \in DOMAIN db : db'[i].collect =
             IF i = job.id /\ c = "collect" THEN job.collect ELSE db[i].collect
    BY <1>0, <1>7 DEF UpdateColumn, UpdateRow, SetColumn, TypeOK, Row
  <2>3. c = "collect" <=> "collect" \in job.todo
    BY DEF FirstColumn
  <2> HIDE DEF c
  <2>4. ~MakesRoom' /\ ~Collects'
    BY <2>1, <2>3 DEF MakesRoom, Collects
  <2>5. CASE Collects /\ job.id \in DOMAIN db /\ db[job.id].collect # 1
    <3>1. c = "collect" /\ job.collect = 1 /\ Cardinality(Collected) < MAX_COLLECT
      BY <2>3, <2>5 DEF Collects, CountInv
    <3>2. Collected' = Collected \cup {job.id} /\ job.id \notin Collected
      BY <2>2, <2>5, <3>1 DEF Collected
    <3>3. Cardinality(Collected') = Cardinality(Collected) + 1
      BY <1>f, <3>2, FS_AddElement
    <3> QED BY <1>f, <1>h, <2>2, <2>4, <3>1, <3>3 DEF CountInv
  <2>6. CASE ~(Collects /\ job.id \in DOMAIN db /\ db[job.id].collect # 1)
    <3>1. Collected' \subseteq Collected
      BY <2>1, <2>2, <2>3, <2>6 DEF Collected, Collects
    <3> QED BY <1>k, <2>2, <2>4, <3>1
  <2> QED BY <2>5, <2>6
<1> QED BY <1>1, <1>2, <1>3, <1>4, <1>5, <1>6, <1>7 DEF Continue

\* An emptied table is within every limit.
LEMMA CountReset ==
  ASSUME ResetTable, job.pc = "idle"
  PROVE  CountInv'
<1>1. DOMAIN db' = {} /\ Collected' = {} /\ job'.pc = "idle"
  BY DEF ResetTable, Collected
<1>2. IsFiniteSet({}) /\ Cardinality({}) = 0
  BY FS_EmptySet
<1>3. MAX_HISTORY \in Nat /\ MAX_COLLECT \in Nat
  BY HistoryAssumption
<1>4. ~MakesRoom' /\ ~Collects'
  BY <1>1 DEF MakesRoom, Collects
<1> QED BY <1>1, <1>2, <1>3, <1>4 DEF CountInv

LEMMA CountNext ==
  ASSUME MirrorInv, VictimInv, CountInv, [Next]_vars, "list" \notin spoilt'
  PROVE  CountInv'
<1>1. ASSUME UNCHANGED <<db, job>> PROVE CountInv'
  BY <1>1, CountKept DEF MakesRoom, Collects
<1>2. CASE WithoutMutex
  <2>1. CASE ResetTable
    BY <2>1, CountReset DEF ResetTable, MirrorInv
  <2>2. CASE ~ResetTable
    BY <1>1, <1>2, <2>2
    DEF WithoutMutex, ResetList, LookupList, LookupCompare, LookupAssign, disk
  <2> QED BY <2>1, <2>2
<1>3. CASE Crash
  <2>1. NoJob.pc = "idle"
    BY DEF NoJob
  <2>2. job' = NoJob /\ UNCHANGED db
    BY <1>3 DEF Crash, disk
  <2> QED BY <2>1, <2>2, CountKept DEF MakesRoom, Collects
<1> QED BY <1>1, <1>2, <1>3, CountBegin, CountContinue DEF Next, vars

\* The limits are in question from the moment the list is.
CountOK == "limits" \notin spoilt => CountInv

LEMMA CountStep == ListInv /\ VictimOK /\ CountOK /\ [Next]_vars => CountOK'
<1> SUFFICES ASSUME ListInv, VictimOK, CountOK, [Next]_vars, "limits" \notin spoilt'
             PROVE  CountInv'
  BY DEF CountOK
<1>1. FreshInv' /\ "list" \notin spoilt'
  BY NextFresh DEF ListInv, FreshInv, FreshParts, HarmsFollow
<1>2. CASE "limits" \notin spoilt
  <2>1. "list" \notin spoilt
    BY <1>2 DEF ListInv, FreshInv, FreshParts, HarmsFollow
  <2> QED BY <1>1, <1>2, <2>1, CountNext DEF ListInv, VictimOK, CountOK
<1>3. CASE "limits" \in spoilt
  BY <1>3, Mended, CountReset DEF ListInv
<1> QED BY <1>2, <1>3

\* The collection never outgrows its limit, nor the table the sum of both, for
\* any limits, dishes and sequences of jobs, resets and crashes, until room is
\* made on a list that is spoilt.
THEOREM LimitsCorrect == Spec => []LimitsKept
<1>1. Init => VictimOK /\ CountOK
  <2> SUFFICES ASSUME Init PROVE VictimInv /\ CountInv
    BY DEF VictimOK, CountOK
  <2>1. job.pc = "idle" /\ DOMAIN db = {} /\ Collected = {}
    BY DEF Init, NoJob, Collected
  <2>2. IsFiniteSet({}) /\ Cardinality({}) = 0
    BY FS_EmptySet
  <2> QED BY <2>1, <2>2, HistoryAssumption
      DEF VictimInv, CountInv, MakesRoom, Collects
<1>2. CountOK => LimitsKept
  BY DEF CountInv, CountOK, LimitsKept
<1> QED BY <1>1, <1>2, VictimStep, CountStep, ListInit, ListNext, PTL DEF Spec
=============================================================================
