------------------------------ MODULE UdsServer ------------------------------
(***************************************************************************)
(* The unix socket the screen connects to.                                 *)
(*                                                                         *)
(* The uds thread runs a select loop over the listening socket and at most *)
(* two clients: it accepts at most one client a turn, reads from each that *)
(* is ready, answers, and clears away those that have hung up.  Any thread *)
(* sends events to both clients under the mutex of send_event_uds, reading *)
(* the clients' descriptors while the uds thread changes them.             *)
(*                                                                         *)
(* Clients are external: a connection is made, writes requests, reads or   *)
(* stops reading what it is sent, and hangs up.  Descriptors are numbers   *)
(* that accept takes lowest first and that close gives back; those of the  *)
(* process's other files are left out.                                     *)
(***************************************************************************)
EXTENDS FiniteSets, Integers, Sequences

CONSTANTS
    MaxConns,       \* bound: connections ever made
    Fds,            \* descriptors for clients
    BACKLOG,        \* connections that may wait to be accepted
    MaxUnread       \* bound: requests of one connection not yet read

ASSUME UdsAssumption ==
    /\ MaxConns \in Nat /\ BACKLOG \in Nat /\ MaxUnread \in Nat
    /\ Fds \subseteq Nat \ {0} /\ IsFiniteSet(Fds)
    /\ Cardinality(Fds) >= MaxConns

Conns == 1 .. MaxConns      \* in the order they are made
Slots == 1 .. 2      \* app_select_client_Tcp_Client, SELECT_TCP_MAX_CLIENT

VARIABLES
    backlog,        \* connections not yet accepted
    peer,           \* "none" before, "up" while and "down" after it is open
    unread,         \* requests waiting in each connection
    full,           \* connections with no room for what they are sent
    file,           \* the connection behind each descriptor, 0 if it is free
    slot,           \* fd of each client slot, 0 if it is free
    event,          \* select_client_event[1 .. 2]: a slot, or 0
    watched,        \* r_copy_fds without the listening socket
    ready,          \* rfds of this turn; 0 stands for the listening socket
    at,             \* where the uds thread is
    index,          \* the event it is at
    leaving,        \* slot of the client it clears away, 0 if none
    answers,        \* events it has still to answer with
    sender,         \* holder of the mutex: "uds", "other" or "none"
    next,           \* slot it sends to next
    target,         \* fd it is about to send to, 0 if none
    held,           \* history: connections served and up since the sending began
    got             \* history: copies of the event each of them has got

client_vars == <<backlog, peer, unread, full>>
table_vars == <<file, slot, event, watched>>
loop_vars == <<ready, at, index, leaving, answers>>
send_vars == <<sender, next, target, held, got>>
vars == <<client_vars, table_vars, loop_vars, send_vars>>

Init ==
    /\ backlog = <<>> /\ full = {}
    /\ peer = [c \in Conns |-> "none"] /\ unread = [c \in Conns |-> 0]
    /\ file = [f \in Fds |-> 0]
    /\ slot = [i \in Slots |-> 0] /\ event = [e \in Slots |-> 0]
    /\ watched = {} /\ ready = {}
    /\ at = "select" /\ index = 1 /\ leaving = 0 /\ answers = 0
    /\ sender = "none" /\ next = 1 /\ target = 0
    /\ got = [c \in Conns |-> 0] /\ held = {}

Served == {file[slot[i]] : i \in {j \in Slots : slot[j] # 0}} \ {0}

(***************************************************************************)
(* The clients                                                             *)
(***************************************************************************)
Connect(c) ==
    /\ peer[c] = "none" /\ \A d \in Conns : d < c => peer[d] # "none"
    /\ Len(backlog) < BACKLOG
    /\ peer' = [peer EXCEPT ![c] = "up"]
    /\ backlog' = Append(backlog, c)
    /\ UNCHANGED <<unread, full, table_vars, loop_vars, send_vars>>

Request(c) ==
    /\ peer[c] = "up" /\ unread[c] < MaxUnread
    /\ unread' = [unread EXCEPT ![c] = @ + 1]
    /\ UNCHANGED <<backlog, peer, full, table_vars, loop_vars, send_vars>>

HangUp(c) ==
    /\ peer[c] = "up"
    /\ peer' = [peer EXCEPT ![c] = "down"]
    /\ full' = full \ {c}
    /\ held' = held \ {c} /\ got' = [got EXCEPT ![c] = 0]
    /\ UNCHANGED <<backlog, unread, table_vars, loop_vars, sender, next, target>>

\* Bound: one client at a time reads nothing.
StopReading(c) ==
    /\ peer[c] = "up" /\ full = {}
    /\ full' = full \cup {c}
    /\ UNCHANGED <<backlog, peer, unread, table_vars, loop_vars, send_vars>>

ReadAgain(c) ==
    /\ c \in full
    /\ full' = full \ {c}
    /\ UNCHANGED <<backlog, peer, unread, table_vars, loop_vars, send_vars>>

(***************************************************************************)
(* select_server_task                                                      *)
(***************************************************************************)
Readable(f) == unread[file[f]] > 0 \/ peer[file[f]] = "down"

\* A descriptor that is watched and closed makes every select fail.
Select ==
    /\ at = "select"
    /\ \A f \in watched : file[f] # 0
    /\ ready' = {f \in watched : Readable(f)} \cup (IF backlog = <<>> THEN {} ELSE {0})
    /\ ready' # {}
    /\ at' = IF 0 \in ready' THEN "accept" ELSE "visit"
    /\ UNCHANGED <<index, leaving, answers, client_vars, table_vars, send_vars>>

\* rfds means nothing after the turn.
GoTo(place, e) ==
    /\ at' = place /\ index' = e
    /\ ready' = IF place = "select" THEN {} ELSE ready

FreeSlot == {i \in Slots : slot[i] = 0 /\ \A j \in Slots : slot[j] = 0 => i <= j}
FreeEvent == {e \in Slots : event[e] = 0 /\ \A d \in Slots : event[d] = 0 => e <= d}
FreeFd == {f \in Fds : file[f] = 0 /\ \A g \in Fds : file[g] = 0 => f <= g}

AddClient_WithoutBreak(f) ==
    IF FreeSlot = {} THEN UNCHANGED <<slot, event, watched>>
    ELSE /\ slot' = [i \in Slots |-> IF slot[i] = 0 THEN f ELSE slot[i]]
         /\ event' = [e \in Slots |-> IF event[e] = 0 THEN e ELSE event[e]]
         /\ watched' = watched \cup {f}

\* app_add_tcp_select_client_event.  With both slots taken its loop ends
\* without a slot, and the test for that compares with SELECT_MAX_CLIENT,
\* which the loop never reaches: 0 is returned and the descriptor stays open.
AddClient(f) ==
    IF FreeSlot = {} THEN UNCHANGED <<slot, event, watched>>
    ELSE \E i \in FreeSlot, e \in FreeEvent :
            /\ slot' = [slot EXCEPT ![i] = f]
            /\ event' = [event EXCEPT ![e] = i]
            /\ watched' = watched \cup {f}

\* The listening socket is the first event: it is visited before the clients.
Accept ==
    /\ at = "accept"
    /\ \E f \in FreeFd :
          /\ file' = [file EXCEPT ![f] = Head(backlog)]
          /\ AddClient(f)
    /\ backlog' = Tail(backlog)
    /\ GoTo("visit", 1)
    /\ UNCHANGED <<leaving, answers, peer, unread, full, send_vars>>

IsReady_Always(e) == event[e] # 0

\* select_client_fd_check
IsReady(e) == event[e] # 0 /\ slot[event[e]] \in ready

VisitNext_AfterIdleOnly ==
    IF index = 2 \/ IsReady(index) THEN GoTo("select", 1) ELSE GoTo("visit", index + 1)

VisitNext == IF index = 2 THEN GoTo("select", 1) ELSE GoTo("visit", index + 1)

VisitIdle ==
    /\ at = "visit" /\ ~ IsReady(index)
    /\ VisitNext
    /\ UNCHANGED <<leaving, answers, client_vars, table_vars, send_vars>>

Visiting == at = "visit" /\ IsReady(index)
ReadFrom == file[slot[event[index]]]

\* recv takes what is there and uds_recv answers each request by an event,
\* except those that do not parse.  The second event of a GETALL is left out.
Receive ==
    /\ Visiting /\ unread[ReadFrom] > 0
    /\ answers' \in 0 .. unread[ReadFrom]
    /\ unread' = [unread EXCEPT ![ReadFrom] = 0]
    /\ GoTo("answer", index)
    /\ UNCHANGED <<leaving, backlog, peer, full, table_vars, send_vars>>

DeleteEvent_KeepsWatching ==
    /\ Visiting /\ unread[ReadFrom] = 0 /\ peer[ReadFrom] = "down"
    /\ event' = [event EXCEPT ![index] = 0]
    /\ leaving' = event[index]
    /\ GoTo("close", index)
    /\ UNCHANGED <<answers, client_vars, file, slot, watched, send_vars>>

\* recv returns 0: delete_select_client_event, ...
DeleteEvent ==
    /\ Visiting /\ unread[ReadFrom] = 0 /\ peer[ReadFrom] = "down"
    /\ event' = [event EXCEPT ![index] = 0]
    /\ watched' = watched \ {slot[event[index]]}
    /\ leaving' = event[index]
    /\ GoTo("close", index)
    /\ UNCHANGED <<answers, client_vars, file, slot, send_vars>>

\* ... close(fd), ...
CloseClient ==
    /\ at = "close"
    /\ file' = [file EXCEPT ![slot[leaving]] = 0]
    /\ GoTo("clear", index)
    /\ UNCHANGED <<leaving, answers, client_vars, slot, event, watched, send_vars>>

ClearSlot_Forgotten ==
    /\ at = "clear"
    /\ leaving' = 0
    /\ VisitNext
    /\ UNCHANGED <<answers, client_vars, table_vars, send_vars>>

\* ... and only then the slot, which a sender may have read before.
ClearSlot ==
    /\ at = "clear"
    /\ slot' = [slot EXCEPT ![leaving] = 0]
    /\ leaving' = 0
    /\ VisitNext
    /\ UNCHANGED <<answers, client_vars, file, event, watched, send_vars>>

Answered ==
    /\ at = "answer" /\ answers = 0
    /\ VisitNext
    /\ UNCHANGED <<leaving, answers, client_vars, table_vars, send_vars>>

(***************************************************************************)
(* send_event_uds, on the uds thread to answer or on any other to report   *)
(***************************************************************************)
Lock(t) ==
    /\ sender = "none" /\ sender' = t
    /\ held' = {c \in Served : peer[c] = "up"}
    /\ UNCHANGED <<next, target, got, client_vars, table_vars>>

Answer ==
    /\ at = "answer" /\ answers > 0
    /\ Lock("uds")
    /\ answers' = answers - 1
    /\ UNCHANGED <<ready, at, index, leaving>>

Report == Lock("other") /\ UNCHANGED loop_vars

\* app_select_client_tcp_server_send reads the slot; send on the 0 of a free
\* one fails at once; ...
ReadSlot ==
    /\ sender # "none" /\ target = 0 /\ next <= 2
    /\ target' = slot[next]
    /\ next' = next + 1
    /\ UNCHANGED <<sender, got, held, client_vars, table_vars, loop_vars>>

\* ... and send blocks while the client behind the descriptor reads nothing.
Send ==
    /\ target # 0
    /\ LET c == file[target]
       IN /\ c \notin full
          /\ got' = IF c \in held THEN [got EXCEPT ![c] = @ + 1] ELSE got
    /\ target' = 0
    /\ UNCHANGED <<sender, next, held, client_vars, table_vars, loop_vars>>

AllSent == target = 0 /\ next = 3

Unlock ==
    /\ sender # "none" /\ AllSent
    /\ sender' = "none" /\ next' = 1
    /\ got' = [c \in Conns |-> 0] /\ held' = {}
    /\ UNCHANGED <<target, client_vars, table_vars, loop_vars>>

(***************************************************************************)
(* Specifications                                                          *)
(***************************************************************************)
Client ==
    \E c \in Conns :
        Connect(c) \/ Request(c) \/ HangUp(c) \/ StopReading(c) \/ ReadAgain(c)

\* The uds thread runs its loop unless it is itself sending.
Turn ==
    /\ sender # "uds"
    /\ \/ Select \/ Accept \/ VisitIdle
       \/ Receive \/ DeleteEvent \/ CloseClient \/ ClearSlot \/ Answered

Sending == ReadSlot \/ Send \/ Unlock

Next == Client \/ Turn \/ Answer \/ Report \/ Sending

Spec == Init /\ [][Next]_vars

\* The threads run; a blocked send is woken when its client reads, which each
\* client does sooner or later unless it hangs up; the mutex, which the other
\* threads take a few times a second, is not kept from the uds thread for ever.
Fairness ==
    /\ WF_vars(Turn) /\ SF_vars(Answer)
    /\ WF_vars(ReadSlot \/ Unlock) /\ SF_vars(Send)
    /\ WF_vars(\E c \in Conns : ReadAgain(c))

FairSpec == Spec /\ Fairness

(***************************************************************************)
(* Properties                                                              *)
(***************************************************************************)
\* The shape of the tables and of both threads' positions.
TypeOK ==
    /\ backlog \in Seq(Conns) /\ full \subseteq Conns
    /\ peer \in [Conns -> {"none", "up", "down"}] /\ unread \in [Conns -> 0 .. MaxUnread]
    /\ file \in [Fds -> Conns \cup {0}]
    /\ slot \in [Slots -> Fds \cup {0}] /\ event \in [Slots -> Slots \cup {0}]
    /\ watched \subseteq Fds /\ ready \subseteq Fds \cup {0}
    /\ at \in {"select", "accept", "visit", "close", "clear", "answer"}
    /\ (at = "accept" => backlog # <<>>)
    /\ index \in Slots /\ answers \in 0 .. MaxUnread
    /\ leaving \in Slots \cup {0} /\ (leaving # 0 <=> at \in {"close", "clear"})
    /\ sender \in {"none", "uds", "other"} /\ next \in 1 .. 3
    /\ target \in Fds \cup {0} /\ held \subseteq Conns /\ got \in [Conns -> Nat]

TakenSlots == {i \in Slots : slot[i] # 0}
TakenEvents == {e \in Slots : event[e] # 0}

\* Whatever clients came and went, the three tables of the server agree at
\* each select: slots, listed events and watched descriptors are the same
\* clients, each once, and none is a descriptor that has been closed.
TablesAgree ==
    at = "select" =>
       /\ {event[e] : e \in TakenEvents} = TakenSlots
       /\ \A d, e \in TakenEvents : event[d] = event[e] => d = e
       /\ {slot[i] : i \in TakenSlots} = watched
       /\ \A i, j \in TakenSlots : slot[i] = slot[j] => i = j
       /\ \A f \in watched : file[f] # 0

\* recv on a blocking socket is called only when there is something to read:
\* a descriptor closed and taken again, or accepted within the turn, is not
\* mistaken for one that select found ready.
NeverBlocksInRecv == Visiting => Readable(slot[event[index]])

\* A client that is served and up from the start of send_event_uds to its end
\* gets the event, and gets it once, although the other slot may be cleared
\* and taken by another client in between.
EventReachesServed == [][Unlock => \A c \in held : got[c] = 1]_vars

Ended(i) == slot[i] # 0 /\ (file[slot[i]] = 0 \/ peer[file[slot[i]]] = "down")

\* A client that has hung up gives its slot back, even while a send to the
\* other client is blocked for a time.
EndedAreReleased == \A i \in Slots : Ended(i) ~> slot[i] = 0

\* A client that is served has its requests read, however busy the other is.
RequestsRead ==
    \A c \in Conns :
        (c \in Served /\ unread[c] > 0) ~> (unread[c] = 0 \/ peer[c] = "down")
=============================================================================
