----------------------------- MODULE ResendList -----------------------------
(***************************************************************************)
(* ECB_LIST_RESEND pointer by pointer.                                     *)
(*                                                                         *)
(* The list is the kernel's circular doubly linked list.  Threads that     *)
(* send frames add nodes under the mutex of ecb_uart_send; the main thread *)
(* walks it and unlinks nodes (an answer arrived, or the count ran out)    *)
(* without the mutex.  Every store to a pointer is a step, in the order of *)
(* list.h.  EcbResend treats add, find-and-unlink and visit as one step    *)
(* each; this module shows up to which race it may.                        *)
(*                                                                         *)
(* A node that was freed keeps the poison that list_del left in it, until  *)
(* the process dies of going there.                                        *)
(***************************************************************************)
EXTENDS FiniteSets, Integers, SequencesExt

CONSTANTS
    Nodes,        \* the uart_resend_t that are ever allocated
    HEAD,         \* ECB_LIST_RESEND itself
    POISON        \* LIST_POISON1 and LIST_POISON2

ASSUME ListAssumption ==
    /\ IsFiniteSet(Nodes)
    /\ HEAD \notin Nodes /\ POISON \notin Nodes \cup {HEAD}

VARIABLES
    next, prev,   \* the links of the head and of every node
    fresh,        \* nodes not yet allocated
    freed,        \* nodes given back
    adder,        \* the thread that holds the mutex inside list_add
    main,         \* the main thread: walking, visiting or unlinking
    raced         \* history: was the first node unlinked during a list_add?

vars == <<next, prev, fresh, freed, adder, main, raced>>

Places == Nodes \cup {HEAD}
Links == Places \cup {POISON}

Adder == [pc : {"idle", "next->prev", "new->next", "new->prev", "prev->next"},
          new : Links, at : Links]
MainThread == [pc : {"idle", "adding", "find", "save", "visit", "unlink",
                     "next->prev", "prev->next", "free"},
               ptr : Links, saved : Links, before : Links, after : Links,
               goal : Links]

NoAdder == [pc |-> "idle", new |-> POISON, at |-> POISON]
IdleMain == [pc |-> "idle", ptr |-> POISON, saved |-> POISON,
             before |-> POISON, after |-> POISON, goal |-> POISON]

HeadAlone == [p \in Places |-> IF p = HEAD THEN HEAD ELSE POISON]

Init ==
    /\ next = HeadAlone /\ prev = HeadAlone
    /\ fresh = Nodes /\ freed = {}
    /\ adder = NoAdder
    /\ main = IdleMain
    /\ raced = FALSE

\* what the next step of the adding thread and of the main thread goes through
\* or frees
Dereferenced ==
    (IF adder.pc = "next->prev" THEN {adder.at} ELSE {}) \cup
    (CASE main.pc \in {"find", "save", "visit", "unlink", "free"} -> {main.ptr}
       [] main.pc = "next->prev" -> {main.after}
       [] main.pc = "prev->next" -> {main.before}
       [] OTHER -> {})

\* Going through a poisoned link ends the process, going through a freed node or
\* freeing it again may; the next start begins with an empty list.
Fault ==
    /\ Dereferenced \cap (freed \cup {POISON}) # {}
    /\ next' = HeadAlone /\ prev' = HeadAlone
    /\ fresh' = Nodes /\ freed' = {}
    /\ adder' = NoAdder
    /\ main' = IdleMain
    /\ raced' = FALSE

(***************************************************************************)
(* list_add(new, head), under the mutex, on another thread or on `main'    *)
(***************************************************************************)
Unlinking == main.pc \in {"next->prev", "prev->next", "free"}

\* list_add keeps head->next; the node it finds there may be on its way out
TakesLeaving == Unlinking /\ next[HEAD] = main.ptr

AddBegins_Reused(n, byMain) ==
    /\ adder.pc = "idle"
    /\ n \in fresh
    /\ adder' = [pc |-> "next->prev", new |-> n, at |-> next[HEAD]]
    /\ IF byMain THEN main.pc = "idle" /\ main' = [main EXCEPT !.pc = "adding"]
                 ELSE UNCHANGED main
    /\ raced' = (raced \/ TakesLeaving)
    /\ UNCHANGED <<next, prev, fresh, freed>>

AddBegins(n, byMain) ==
    /\ adder.pc = "idle"
    /\ n \in fresh
    /\ fresh' = fresh \ {n}
    /\ adder' = [pc |-> "next->prev", new |-> n, at |-> next[HEAD]]
    /\ IF byMain THEN main.pc = "idle" /\ main' = [main EXCEPT !.pc = "adding"]
                 ELSE UNCHANGED main
    /\ raced' = (raced \/ TakesLeaving)
    /\ UNCHANGED <<next, prev, freed>>

LinkBehind ==
    /\ adder.pc = "next->prev" /\ adder.at \in Places
    /\ prev' = [prev EXCEPT ![adder.at] = adder.new]
    /\ adder' = [adder EXCEPT !.pc = "new->next"]
    /\ UNCHANGED <<next, fresh, freed, main, raced>>

PointToNext_SkipsOne ==
    /\ adder.pc = "new->next"
    /\ next' = [next EXCEPT ![adder.new] = next[adder.at]]
    /\ adder' = [adder EXCEPT !.pc = "new->prev"]
    /\ UNCHANGED <<prev, fresh, freed, main, raced>>

PointToNext ==
    /\ adder.pc = "new->next"
    /\ next' = [next EXCEPT ![adder.new] = adder.at]
    /\ adder' = [adder EXCEPT !.pc = "new->prev"]
    /\ UNCHANGED <<prev, fresh, freed, main, raced>>

PointToHead ==
    /\ adder.pc = "new->prev"
    /\ prev' = [prev EXCEPT ![adder.new] = HEAD]
    /\ adder' = [adder EXCEPT !.pc = "prev->next"]
    /\ UNCHANGED <<next, fresh, freed, main, raced>>

LinkInFront ==
    /\ adder.pc = "prev->next"
    /\ next' = [next EXCEPT ![HEAD] = adder.new]
    /\ adder' = NoAdder
    /\ main' = IF main.pc = "adding" THEN IdleMain ELSE main
    /\ UNCHANGED <<prev, fresh, freed, raced>>

(***************************************************************************)
(* resend_list_del_by_id: look for the node an answer names                *)
(***************************************************************************)
FindBegins(n) ==
    /\ main.pc = "idle"
    /\ main' = [main EXCEPT !.pc = "find", !.ptr = next[HEAD], !.goal = n]
    /\ UNCHANGED <<next, prev, fresh, freed, adder, raced>>

Find ==
    /\ main.pc = "find" /\ main.ptr \in Places
    /\ main' = CASE main.ptr = HEAD      -> IdleMain
                 [] main.ptr = main.goal -> [main EXCEPT !.pc = "unlink"]
                 [] OTHER                -> [main EXCEPT !.ptr = next[@]]
    /\ UNCHANGED <<next, prev, fresh, freed, adder, raced>>

(***************************************************************************)
(* resend_list_each: list_for_each_entry_safe keeps the next node, because *)
(* the visited one may be freed                                            *)
(***************************************************************************)
EachBegins ==
    /\ main.pc = "idle"
    /\ main' = [main EXCEPT !.pc = "save", !.ptr = next[HEAD]]
    /\ UNCHANGED <<next, prev, fresh, freed, adder, raced>>

SaveNext ==
    /\ main.pc = "save" /\ main.ptr \in Places
    /\ main' = [main EXCEPT !.pc = "visit", !.saved = next[main.ptr]]
    /\ UNCHANGED <<next, prev, fresh, freed, adder, raced>>

Visit ==
    /\ main.pc = "visit"
    /\ \/ /\ main.ptr = HEAD
          /\ main' = IdleMain
       \/ /\ main.ptr # HEAD        \* transmissions are left
          /\ main' = [main EXCEPT !.pc = "save", !.ptr = main.saved]
       \/ /\ main.ptr # HEAD        \* resend_cnt is 0
          /\ main' = [main EXCEPT !.pc = "unlink"]
    /\ UNCHANGED <<next, prev, fresh, freed, adder, raced>>

(***************************************************************************)
(* list_del(ptr) and free(ptr)                                             *)
(***************************************************************************)
\* the node a list_add is linking to, head->next as it was when it began
LeavesTaken == adder.pc # "idle" /\ main.ptr = adder.at

Unlink ==
    /\ main.pc = "unlink"
    /\ main' = [main EXCEPT !.pc = "next->prev", !.before = prev[main.ptr],
                            !.after = next[main.ptr]]
    /\ raced' = (raced \/ LeavesTaken)
    /\ UNCHANGED <<next, prev, fresh, freed, adder>>

UnlinkNext_Skipped ==
    /\ main.pc = "next->prev"
    /\ main' = [main EXCEPT !.pc = "prev->next"]
    /\ UNCHANGED <<next, prev, fresh, freed, adder, raced>>

UnlinkNext ==
    /\ main.pc = "next->prev" /\ main.after \in Places
    /\ prev' = [prev EXCEPT ![main.after] = main.before]
    /\ main' = [main EXCEPT !.pc = "prev->next"]
    /\ UNCHANGED <<next, fresh, freed, adder, raced>>

UnlinkPrev ==
    /\ main.pc = "prev->next" /\ main.before \in Places
    /\ next' = [next EXCEPT ![main.before] = main.after]
    /\ main' = [main EXCEPT !.pc = "free"]
    /\ UNCHANGED <<prev, fresh, freed, adder, raced>>

Free_Unsafe ==   \* list_for_each_entry instead of its _safe form
    /\ main.pc = "free"
    /\ next' = [next EXCEPT ![main.ptr] = POISON]
    /\ prev' = [prev EXCEPT ![main.ptr] = POISON]
    /\ freed' = freed \cup {main.ptr}
    /\ main' = IF main.goal # POISON THEN IdleMain
               ELSE [main EXCEPT !.pc = "save"]
    /\ UNCHANGED <<fresh, adder, raced>>

Free ==
    /\ main.pc = "free"
    /\ next' = [next EXCEPT ![main.ptr] = POISON]
    /\ prev' = [prev EXCEPT ![main.ptr] = POISON]
    /\ freed' = freed \cup {main.ptr}
    /\ main' = IF main.goal # POISON THEN IdleMain
               ELSE [main EXCEPT !.pc = "save", !.ptr = main.saved]
    /\ UNCHANGED <<fresh, adder, raced>>

Next ==
    \/ \E n \in Nodes : AddBegins(n, TRUE) \/ AddBegins(n, FALSE)
    \/ LinkBehind \/ PointToNext \/ PointToHead \/ LinkInFront
    \/ \E n \in Nodes : FindBegins(n)
    \/ Find \/ EachBegins \/ SaveNext \/ Visit
    \/ Unlink \/ UnlinkNext \/ UnlinkPrev \/ Free
    \/ Fault

Spec == Init /\ [][Next]_vars
(***************************************************************************)
(* Properties                                                              *)
(***************************************************************************)
\* Links lead to nodes, to the head or to the poison, and a node is handed out
\* once: no link, however torn, leads the main thread to free a fresh one.
TypeOK ==
    /\ next \in [Places -> Links] /\ prev \in [Places -> Links]
    /\ fresh \subseteq Nodes /\ freed \subseteq Nodes /\ fresh \cap freed = {}
    /\ adder \in Adder /\ main \in MainThread
    /\ raced \in BOOLEAN

\* where next leads after k more nodes from the head, if no other place stops it
Step[k \in 0 .. Cardinality(Nodes)] ==
    IF k = 0 THEN next[HEAD]
    ELSE IF Step[k - 1] \in Nodes THEN next[Step[k - 1]] ELSE Step[k - 1]

\* the nodes met by following next from the head
Forward ==
    LET ends == {k \in 0 .. Cardinality(Nodes) :
                    Step[k] \in Nodes => k = Cardinality(Nodes)}
    IN  [k \in 1 .. Min(ends) |-> Step[k - 1]]

\* Until the first node is unlinked during a list_add, neither thread goes
\* through a freed node or a poisoned link, and none is freed twice.
NoDangling == ~ raced => Dereferenced \cap (freed \cup {POISON}) = {}

\* When no thread is inside an operation the list is a circle in both
\* directions, of exactly the nodes that were added and not freed, unless that
\* race has torn it.
WellLinked ==
    ~ raced /\ adder.pc = "idle" /\ ~ Unlinking =>
        /\ ToSet(Forward) = Nodes \ (fresh \cup freed)
        /\ \A p \in ToSet(Forward) \cup {HEAD} :
              prev[next[p]] = p /\ next[prev[p]] = p

Stack == INSTANCE StackList WITH items <- Forward, sound <- ~ raced

\* Seen along its next links the list only ever gains a node in front or loses
\* the one that was to be deleted, until that race; and it is empty again once
\* the process has been restarted.
ImplementsStack == Stack!Spec

\* A node that was deleted and freed is not on the list any more.
DeletedIsOff == \A n \in freed : n \notin ToSet(Forward)
=============================================================================
