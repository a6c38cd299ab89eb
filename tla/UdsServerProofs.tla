--------------------------- MODULE UdsServerProofs ---------------------------
(***************************************************************************)
(* Proofs about UdsServer for any number of connections, descriptors and   *)
(* requests: the server's tables agree at each select, recv is called only *)
(* on a client that has something to read, and every client that is served *)
(* throughout a sending gets the event once.                               *)
(***************************************************************************)
EXTENDS UdsServer, SequenceTheorems, TLAPS

ClientOK ==
    /\ backlog \in Seq(Conns) /\ full \subseteq Conns
    /\ peer \in [Conns -> {"none", "up", "down"}] /\ unread \in [Conns -> 0 .. MaxUnread]
    /\ (at = "accept" => backlog # <<>>)

TableOK ==
    /\ file \in [Fds -> Conns \cup {0}]
    /\ slot \in [Slots -> Fds \cup {0}] /\ event \in [Slots -> Slots \cup {0}]
    /\ watched \subseteq Fds

LoopOK ==
    /\ ready \subseteq Fds \cup {0}
    /\ at \in {"select", "accept", "visit", "close", "clear", "answer"}
    /\ index \in Slots
    /\ leaving \in Slots \cup {0} /\ (leaving # 0 <=> at \in {"close", "clear"})

SendOK ==
    /\ sender \in {"none", "uds", "other"} /\ next \in 1 .. 3
    /\ target \in Fds \cup {0} /\ held \subseteq Conns /\ got \in [Conns -> Nat]

Types == ClientOK /\ TableOK /\ LoopOK /\ SendOK

AnswersOK == answers \in 0 .. MaxUnread

\* Together they are the type invariant.
LEMMA TypeParts == TypeOK <=> Types /\ AnswersOK
  BY DEF TypeOK, Types, AnswersOK, ClientOK, TableOK, LoopOK, SendOK

LEMMA TypeInit == Init => Types /\ AnswersOK
<1> SUFFICES ASSUME Init PROVE Types /\ AnswersOK
  OBVIOUS
<1> USE UdsAssumption DEF UdsAssumption, Init
<1>1. ClientOK
  BY DEF ClientOK
<1>2. TableOK
  BY DEF TableOK, Slots
<1>3. LoopOK
  BY DEF LoopOK, Slots
<1>4. SendOK
  BY DEF SendOK
<1> QED
  BY <1>1, <1>2, <1>3, <1>4 DEF Types, AnswersOK

\* The steps that leave the server's tables and its loop alone.
LEMMA Elsewhere ==
    ASSUME Client \/ Answer \/ Report \/ Sending \/ UNCHANGED vars
    PROVE  UNCHANGED <<table_vars, ready, at, index, leaving>>
  BY DEF Client, Connect, Request, HangUp, StopReading, ReadAgain, Answer, Report,
     Sending, ReadSlot, Send, Unlock, Lock, loop_vars, vars

\* The steps that leave the clients alone.
LEMMA NoClient ==
    ASSUME Select \/ VisitIdle \/ DeleteEvent \/ CloseClient \/ ClearSlot \/ Answered
           \/ Answer \/ Report \/ Sending \/ UNCHANGED vars
    PROVE  UNCHANGED <<backlog, peer, unread, full>>
  BY DEF Select, VisitIdle, DeleteEvent, CloseClient, ClearSlot, Answered, Answer,
     Report, Sending, ReadSlot, Send, Unlock, Lock, client_vars, vars

LEMMA ClientStep == Types /\ [Next]_vars => ClientOK'
<1> SUFFICES ASSUME ClientOK, watched \subseteq Fds, [Next]_vars PROVE ClientOK'
  BY DEF Types, TableOK
<1> USE UdsAssumption DEF UdsAssumption, ClientOK
<1>1. ASSUME NEW c \in Conns, Connect(c) PROVE ClientOK'
  BY <1>1, AppendProperties, EmptySeq DEF Connect, loop_vars
<1>2. ASSUME NEW c \in Conns, Request(c) PROVE ClientOK'
  BY <1>2 DEF Request, loop_vars
<1>3. ASSUME NEW c \in Conns, HangUp(c) PROVE ClientOK'
  BY <1>3 DEF HangUp, loop_vars
<1>4. ASSUME NEW c \in Conns, StopReading(c) \/ ReadAgain(c) PROVE ClientOK'
  BY <1>4 DEF StopReading, ReadAgain, loop_vars
<1>5. CASE Accept
  BY <1>5, HeadTailProperties DEF Accept, GoTo
<1>6. CASE Receive
  <2>1. unread' = [unread EXCEPT ![ReadFrom] = 0]
        /\ UNCHANGED <<backlog, peer, full>> /\ at' = "answer"
    BY <1>6 DEF Receive, GoTo
  <2>2. ASSUME NEW c PROVE [unread EXCEPT ![c] = 0] \in [Conns -> 0 .. MaxUnread]
    <3>1. 0 \in 0 .. MaxUnread
      OBVIOUS
    <3> QED
      BY <3>1, Zenon DEF ClientOK
  <2>3. unread' \in [Conns -> 0 .. MaxUnread]
    BY <2>1, <2>2
  <2> QED
    BY <2>1, <2>3
<1>7. CASE Select \/ VisitIdle \/ DeleteEvent \/ CloseClient \/ ClearSlot \/ Answered
           \/ Answer \/ Report \/ Sending \/ UNCHANGED vars
  <2>1. at' = "accept" => backlog # <<>>
    <3>1. CASE Select
      <4>1. backlog = <<>> => 0 \notin ready'
        BY <3>1 DEF Select
      <4> QED
        BY <3>1, <4>1 DEF Select
    <3>2. CASE VisitIdle \/ DeleteEvent \/ CloseClient \/ ClearSlot \/ Answered
      BY <3>2 DEF VisitIdle, DeleteEvent, CloseClient, ClearSlot, Answered, VisitNext,
         GoTo
    <3>3. CASE Answer \/ Report \/ Sending \/ UNCHANGED vars
      BY <3>3, Elsewhere
    <3> QED
      BY <1>7, <3>1, <3>2, <3>3
  <2> QED
    BY <1>7, <2>1, NoClient
<1> QED
  BY <1>1, <1>2, <1>3, <1>4, <1>5, <1>6, <1>7 DEF Next, Client, Turn

LEMMA TableStep == Types /\ [Next]_vars => TableOK'
<1> SUFFICES ASSUME ClientOK, TableOK, LoopOK, [Next]_vars PROVE TableOK'
  BY DEF Types
<1> USE DEF TableOK
<1>1. CASE Accept
  <2>1. Head(backlog) \in Conns
    BY <1>1, HeadTailProperties DEF Accept, ClientOK
  <2>2. PICK f \in FreeFd : file' = [file EXCEPT ![f] = Head(backlog)] /\ AddClient(f)
    BY <1>1 DEF Accept
  <2>3. file' \in [Fds -> Conns \cup {0}] /\ f \in Fds
    BY <2>1, <2>2 DEF FreeFd
  <2> QED
    BY <2>2, <2>3 DEF AddClient, FreeSlot, FreeEvent
<1>2. CASE DeleteEvent \/ CloseClient \/ ClearSlot
  BY <1>2 DEF DeleteEvent, CloseClient, ClearSlot
<1>3. CASE Select \/ VisitIdle \/ Receive \/ Answered
  BY <1>3 DEF Select, VisitIdle, Receive, Answered, table_vars
<1>4. CASE Client \/ Answer \/ Report \/ Sending \/ UNCHANGED vars
  BY <1>4, Elsewhere DEF table_vars
<1> QED
  BY <1>1, <1>2, <1>3, <1>4 DEF Next, Turn

LEMMA LoopStep == Types /\ [Next]_vars => LoopOK'
<1> SUFFICES ASSUME TableOK, LoopOK, [Next]_vars PROVE LoopOK'
  BY DEF Types
<1> USE DEF LoopOK
<1>0. ASSUME VisitNext
      PROVE  ready' \subseteq Fds \cup {0} /\ at' \in {"select", "visit"} /\ index' \in Slots
  BY <1>0 DEF VisitNext, GoTo, Slots
<1>1. CASE Select
  <2>1. ready' \subseteq Fds \cup {0}
    BY <1>1 DEF Select, TableOK
  <2> QED
    BY <1>1, <2>1 DEF Select
<1>2. CASE Accept
  BY <1>2 DEF Accept, GoTo, Slots
<1>3. CASE VisitIdle
  BY <1>0, <1>3 DEF VisitIdle
<1>4. CASE Receive
  BY <1>4 DEF Receive, Visiting, GoTo
<1>5. CASE DeleteEvent
  BY <1>5 DEF DeleteEvent, GoTo, Visiting, IsReady, TableOK
<1>6. CASE CloseClient
  BY <1>6 DEF CloseClient, GoTo
<1>7. CASE ClearSlot
  BY <1>0, <1>7 DEF ClearSlot
<1>8. CASE Answered
  BY <1>0, <1>8 DEF Answered
<1>9. CASE Client \/ Answer \/ Report \/ Sending \/ UNCHANGED vars
  BY <1>9, Elsewhere
<1> QED
  BY <1>1, <1>2, <1>3, <1>4, <1>5, <1>6, <1>7, <1>8, <1>9 DEF Next, Turn

LEMMA SendStep == Types /\ [Next]_vars => SendOK'
<1> SUFFICES ASSUME ClientOK, TableOK, SendOK, [Next]_vars PROVE SendOK'
  BY DEF Types
<1> USE DEF SendOK
<1>1. ASSUME NEW c \in Conns, HangUp(c) PROVE SendOK'
  BY <1>1 DEF HangUp
<1>2. ASSUME NEW t \in {"uds", "other"}, Lock(t) PROVE SendOK'
  <2>1. Served \subseteq Conns
    BY DEF Served, TableOK
  <2> QED
    BY <1>2, <2>1 DEF Lock
<1>3. CASE ReadSlot
  BY <1>3 DEF ReadSlot, TableOK, Slots
<1>4. CASE Send
  BY <1>4 DEF Send
<1>5. CASE Unlock
  BY <1>5 DEF Unlock
<1>6. CASE Turn \/ UNCHANGED vars
  <2>1. UNCHANGED send_vars
    BY <1>6 DEF Turn, Select, Accept, VisitIdle, Receive, DeleteEvent, CloseClient,
       ClearSlot, Answered, vars
  <2> QED
    BY <2>1 DEF send_vars
<1>7. ASSUME NEW c \in Conns, Connect(c) \/ Request(c) \/ StopReading(c) \/ ReadAgain(c)
      PROVE  SendOK'
  <2>1. UNCHANGED send_vars
    BY <1>7 DEF Connect, Request, StopReading, ReadAgain
  <2> QED
    BY <2>1 DEF send_vars
<1> QED
  BY <1>1, <1>2, <1>3, <1>4, <1>5, <1>6, <1>7
  DEF Next, Client, Answer, Report, Sending

-----------------------------------------------------------------------------
(***************************************************************************)
(* The tables                                                              *)
(***************************************************************************)
\* At every moment the events are the slots but the one that is being cleared,
\* each once, and their descriptors are open, distinct and watched.
ListInv ==
    /\ \A e \in Slots : event[e] # 0 =>
          event[e] # leaving /\ slot[event[e]] # 0 /\ file[slot[event[e]]] # 0
    /\ \A d, e \in Slots : event[d] # 0 /\ event[d] = event[e] => d = e
    /\ \A i \in Slots : slot[i] # 0 => i = leaving \/ \E e \in Slots : event[e] = i
    /\ \A i, j \in Slots : slot[i] # 0 /\ slot[i] = slot[j] => i = j
    /\ \A f : f \in watched <=> \E e \in Slots : event[e] # 0 /\ slot[event[e]] = f
    /\ leaving # 0 => slot[leaving] # 0

LEMMA ListStep == Types /\ ListInv /\ [Next]_vars => ListInv'
<1> SUFFICES ASSUME ClientOK, TableOK, LoopOK, ListInv, [Next]_vars PROVE ListInv'
  BY DEF Types
<1> USE DEF ListInv
<1>1. CASE Accept
  <2>1. leaving = 0 /\ leaving' = 0
    BY <1>1 DEF Accept, LoopOK
  <2>2. PICK f \in FreeFd : file' = [file EXCEPT ![f] = Head(backlog)] /\ AddClient(f)
    BY <1>1 DEF Accept
  <2>3. f \in Fds /\ f # 0 /\ file[f] = 0
    BY UdsAssumption DEF FreeFd, UdsAssumption
  <2>4. ASSUME NEW i \in Slots PROVE slot[i] # f
    <3>1. slot[i] = 0 \/ file[slot[i]] # 0
      BY <2>1 DEF Slots
    <3> QED
      BY <2>3, <3>1
  <2>5. \A g \in Fds : g # f => file'[g] = file[g]
    BY <2>2 DEF TableOK
  <2>6. file'[f] # 0
    <3>1. Head(backlog) \in Conns
      BY <1>1, HeadTailProperties DEF Accept, ClientOK
    <3> QED
      BY <2>2, <2>3, <3>1, UdsAssumption DEF TableOK, Conns, UdsAssumption
  <2>7. \A e \in Slots : event[e] # 0 =>
           event[e] \in Slots /\ slot[event[e]] \in Fds /\ slot[event[e]] # f
    BY <2>4 DEF TableOK
  <2>8. CASE FreeSlot = {}
    <3>1. UNCHANGED <<slot, event, watched>>
      BY <2>2, <2>8 DEF AddClient
    <3> QED
      BY <2>1, <2>5, <2>7, <3>1
  <2>9. CASE FreeSlot # {}
    <3>1. PICK i \in FreeSlot, d \in FreeEvent :
             /\ slot' = [slot EXCEPT ![i] = f]
             /\ event' = [event EXCEPT ![d] = i]
             /\ watched' = watched \cup {f}
      BY <2>2, <2>9 DEF AddClient
    <3>2. i \in Slots /\ slot[i] = 0 /\ i # 0 /\ d \in Slots /\ event[d] = 0
      BY DEF FreeSlot, FreeEvent, Slots
    <3>3. \A j \in Slots : slot'[j] = IF j = i THEN f ELSE slot[j]
      BY <3>1 DEF TableOK
    <3>4. \A e \in Slots : event'[e] = IF e = d THEN i ELSE event[e]
      BY <3>1 DEF TableOK
    <3>5. \A e \in Slots : event[e] # i
      BY <3>2
    <3>6. \A e \in Slots : event'[e] # 0 =>
             IF e = d THEN slot'[event'[e]] = f
                      ELSE event[e] # 0 /\ slot'[event'[e]] = slot[event[e]]
      BY <2>7, <3>2, <3>3, <3>4, <3>5
    <3>7. /\ \A e \in Slots : event'[e] # 0 =>
                event'[e] # leaving' /\ slot'[event'[e]] # 0
                                     /\ file'[slot'[event'[e]]] # 0
          /\ \A b, e \in Slots : event'[b] # 0 /\ event'[b] = event'[e] => b = e
      BY <2>1, <2>3, <2>5, <2>6, <2>7, <3>4, <3>5, <3>6
    <3>8. /\ \A j \in Slots : slot'[j] # 0 =>
                j = leaving' \/ \E e \in Slots : event'[e] = j
          /\ \A j, k \in Slots : slot'[j] # 0 /\ slot'[j] = slot'[k] => j = k
      BY <2>1, <2>4, <3>2, <3>3, <3>4
    <3>9. \A g : g \in watched' <=> \E e \in Slots : event'[e] # 0 /\ slot'[event'[e]] = g
      <4>1. ASSUME NEW g \in watched
            PROVE  \E e \in Slots : event'[e] # 0 /\ slot'[event'[e]] = g
        <5>1. PICK e \in Slots : event[e] # 0 /\ slot[event[e]] = g
          OBVIOUS
        <5>2. e # d /\ event'[e] # 0
          BY <3>2, <3>4, <5>1
        <5> QED
          BY <3>6, <5>1, <5>2
      <4>2. event'[d] # 0 /\ slot'[event'[d]] = f
        BY <3>2, <3>3, <3>4
      <4>3. ASSUME NEW e \in Slots, event'[e] # 0 PROVE slot'[event'[e]] \in watched'
        BY <3>1, <3>6, <4>3
      <4> QED
        BY <3>1, <3>2, <4>1, <4>2, <4>3
    <3> QED
      BY <2>1, <3>7, <3>8, <3>9
  <2> QED
    BY <2>8, <2>9
<1>2. CASE DeleteEvent
  <2>1. leaving = 0 /\ event[index] # 0 /\ leaving' = event[index]
        /\ index \in Slots
    BY <1>2 DEF DeleteEvent, Visiting, IsReady, LoopOK
  <2>2. event' = [event EXCEPT ![index] = 0] /\ UNCHANGED <<file, slot>>
        /\ watched' = watched \ {slot[event[index]]}
    BY <1>2 DEF DeleteEvent
  <2>3. \A e \in Slots : event[e] # 0 => event[e] \in Slots
    BY DEF TableOK
  <2>4. \A e \in Slots : event'[e] = IF e = index THEN 0 ELSE event[e]
    BY <2>2 DEF TableOK
  <2> QED
    BY <2>1, <2>2, <2>3, <2>4
<1>3. CASE CloseClient
  <2>1. leaving' = leaving /\ leaving \in Slots /\ slot[leaving] # 0
    BY <1>3 DEF CloseClient, LoopOK
  <2>2. file' = [file EXCEPT ![slot[leaving]] = 0] /\ UNCHANGED <<slot, event, watched>>
    BY <1>3 DEF CloseClient
  <2>3. \A e \in Slots : event[e] # 0 => slot[event[e]] # slot[leaving]
    BY <2>1 DEF TableOK
  <2>4. \A e \in Slots : event[e] # 0 => file'[slot[event[e]]] = file[slot[event[e]]]
    BY <2>2, <2>3 DEF TableOK
  <2> QED
    BY <2>1, <2>2, <2>4
<1>4. CASE ClearSlot
  <2>1. leaving' = 0 /\ leaving \in Slots /\ slot[leaving] # 0
    BY <1>4 DEF ClearSlot, LoopOK
  <2>2. slot' = [slot EXCEPT ![leaving] = 0] /\ UNCHANGED <<file, event, watched>>
    BY <1>4 DEF ClearSlot
  <2>3. \A e \in Slots : event[e] # 0 => slot'[event[e]] = slot[event[e]]
    BY <2>2 DEF TableOK
  <2>4. \A i \in Slots : slot'[i] = IF i = leaving THEN 0 ELSE slot[i]
    BY <2>2 DEF TableOK
  <2>5. \A e \in Slots : event[e] # 0 => event[e] \in Slots
    BY DEF TableOK
  <2> QED
    BY <2>1, <2>2, <2>3, <2>4, <2>5
<1>5. CASE Select \/ VisitIdle \/ Receive \/ Answered
  <2>1. UNCHANGED <<file, slot, event, watched, leaving>>
    BY <1>5 DEF Select, VisitIdle, Receive, Answered, table_vars
  <2> QED
    BY <2>1
<1>6. CASE Client \/ Answer \/ Report \/ Sending \/ UNCHANGED vars
  <2>1. UNCHANGED <<file, slot, event, watched, leaving>>
    BY <1>6, Elsewhere DEF table_vars
  <2> QED
    BY <2>1
<1> QED
  BY <1>1, <1>2, <1>3, <1>4, <1>5, <1>6 DEF Next, Turn

\* A request is answered only once: there are no more answers than requests.
LEMMA AnswersStep == Types /\ ListInv /\ AnswersOK /\ [Next]_vars => AnswersOK'
<1> SUFFICES ASSUME ClientOK, TableOK, LoopOK, ListInv, AnswersOK, [Next]_vars
             PROVE  AnswersOK'
  BY DEF Types
<1> USE DEF AnswersOK
<1>1. CASE Receive
  <2>1. event[index] # 0 /\ index \in Slots
    BY <1>1 DEF Receive, Visiting, IsReady, LoopOK
  <2>2. event[index] \in Slots
    BY <2>1 DEF TableOK
  <2>3. slot[event[index]] \in Fds /\ file[slot[event[index]]] # 0
    BY <2>1, <2>2 DEF ListInv, TableOK
  <2>4. ReadFrom \in Conns
    BY <2>3 DEF ReadFrom, TableOK
  <2>5. unread[ReadFrom] \in 0 .. MaxUnread
    BY <2>4 DEF ClientOK
  <2> QED
    BY <1>1, <2>5, UdsAssumption DEF Receive, UdsAssumption
<1>2. CASE Answer
  BY <1>2, UdsAssumption DEF Answer, UdsAssumption
<1>3. CASE \/ Select \/ Accept \/ VisitIdle \/ DeleteEvent \/ CloseClient \/ ClearSlot
           \/ Answered \/ Client \/ Report \/ Sending \/ UNCHANGED vars
  <2>1. UNCHANGED answers
    BY <1>3 DEF Select, Accept, VisitIdle, DeleteEvent, CloseClient, ClearSlot,
       Answered, Client, Connect, Request, HangUp, StopReading, ReadAgain, Report,
       Sending, ReadSlot, Send, Unlock, loop_vars, vars
  <2> QED
    BY <2>1
<1> QED
  BY <1>1, <1>2, <1>3 DEF Next, Turn

ServerInv == Types /\ AnswersOK /\ ListInv

LEMMA ServerInit == Init => ServerInv
<1> SUFFICES ASSUME Init PROVE ListInv
  BY TypeInit DEF ServerInv
<1> QED
  BY DEF Init, ListInv

LEMMA ServerStep == ServerInv /\ [Next]_vars => ServerInv'
<1> SUFFICES ASSUME ServerInv, [Next]_vars PROVE ServerInv'
  OBVIOUS
<1>1. ClientOK' /\ TableOK' /\ LoopOK' /\ SendOK'
  BY ClientStep, TableStep, LoopStep, SendStep DEF ServerInv
<1>2. ListInv' /\ AnswersOK'
  BY ListStep, AnswersStep DEF ServerInv
<1> QED
  BY <1>1, <1>2 DEF ServerInv, Types

\* The tables hold slots, descriptors and connections, and each thread is
\* somewhere in its loop.
THEOREM TypeCorrect == Spec => []TypeOK
<1>1. ServerInv => Types /\ AnswersOK
  BY DEF ServerInv
<1> QED
  BY <1>1, ServerInit, ServerStep, TypeParts, PTL DEF Spec

\* Slots, events and watched descriptors are the same clients at each select
\* (select_server.c:61-78, uds_tcp_server.c:31-35).
THEOREM TablesCorrect == Spec => []TablesAgree
<1>1. ServerInv => TablesAgree
  <2> SUFFICES ASSUME TableOK, LoopOK, ListInv, at = "select" PROVE TablesAgree
    BY DEF ServerInv, Types, TablesAgree
  <2> USE DEF ListInv, TakenSlots, TakenEvents
  <2>1. leaving = 0
    BY DEF LoopOK
  <2>2. \A e \in TakenEvents : event[e] \in Slots
    BY DEF TableOK
  <2>3. \A i \in TakenSlots : \E e \in TakenEvents : event[e] = i
    BY <2>1 DEF Slots
  <2>4. {event[e] : e \in TakenEvents} = TakenSlots
    BY <2>2, <2>3
  <2>5. \A i \in TakenSlots : slot[i] \in watched
    BY <2>3
  <2>6. \A f \in watched : file[f] # 0 /\ \E i \in TakenSlots : slot[i] = f
    BY <2>2
  <2>7. {slot[i] : i \in TakenSlots} = watched
    BY <2>5, <2>6
  <2> QED
    BY <2>4, <2>6, <2>7 DEF TablesAgree
<1> QED
  BY <1>1, ServerInit, ServerStep, PTL DEF Spec

-----------------------------------------------------------------------------
(***************************************************************************)
(* Reading                                                                 *)
(***************************************************************************)
\* Each connection is in one place only, the backlog or a descriptor.
ConnInv ==
    /\ \A i, j \in 1 .. Len(backlog) : backlog[i] = backlog[j] => i = j
    /\ \A i \in 1 .. Len(backlog) :
          peer[backlog[i]] # "none" /\ \A f \in Fds : file[f] # backlog[i]
    /\ \A f \in Fds : file[f] # 0 => peer[file[f]] # "none"
    /\ \A f, g \in Fds : file[f] # 0 /\ file[f] = file[g] => f = g

LEMMA ConnStep == Types /\ ConnInv /\ [Next]_vars => ConnInv'
<1> SUFFICES ASSUME ClientOK, TableOK, LoopOK, ConnInv, [Next]_vars PROVE ConnInv'
  BY DEF Types
<1> USE DEF ConnInv
<1>1. ASSUME NEW c \in Conns, Connect(c) PROVE ConnInv'
  <2>1. /\ Len(backlog) \in Nat
        /\ backlog' = Append(backlog, c) /\ Len(backlog') = Len(backlog) + 1
        /\ \A i \in 1 .. Len(backlog) : backlog'[i] = backlog[i] /\ backlog[i] \in Conns
        /\ backlog'[Len(backlog) + 1] = c
    BY <1>1, AppendProperties DEF Connect, ClientOK
  <2>2. file' = file /\ peer[c] = "none"
        /\ \A d \in Conns : peer'[d] = IF d = c THEN "up" ELSE peer[d]
    BY <1>1 DEF Connect, ClientOK, table_vars
  <2>3. \A i \in 1 .. Len(backlog) : backlog[i] # c
    BY <2>2
  <2>4. \A f \in Fds : file[f] # c /\ (file[f] # 0 => file[f] \in Conns)
    BY <2>2, UdsAssumption DEF TableOK, Conns, UdsAssumption
  <2>5. \A i \in 1 .. Len(backlog') : i \in 1 .. Len(backlog) \/ i = Len(backlog) + 1
    BY <2>1
  <2>6. \A i, j \in 1 .. Len(backlog') : backlog'[i] = backlog'[j] => i = j
    BY <2>1, <2>3, <2>5
  <2>7. \A i \in 1 .. Len(backlog') :
           peer'[backlog'[i]] # "none" /\ \A f \in Fds : file[f] # backlog'[i]
    BY <2>1, <2>2, <2>4, <2>5
  <2>8. \A f \in Fds : file[f] # 0 => peer'[file[f]] # "none"
    BY <2>2, <2>4
  <2> QED
    BY <2>2, <2>6, <2>7, <2>8
<1>2. ASSUME NEW c \in Conns, HangUp(c) PROVE ConnInv'
  <2>1. backlog' = backlog /\ file' = file /\ \A d : peer[d] # "none" => peer'[d] # "none"
    BY <1>2 DEF HangUp, ClientOK, table_vars
  <2> QED
    BY <2>1
<1>3. CASE Accept
  <2>1. PICK f \in Fds : file[f] = 0 /\ file' = [file EXCEPT ![f] = Head(backlog)]
    BY <1>3 DEF Accept, FreeFd
  <2>2. \A g \in Fds : file'[g] = IF g = f THEN backlog[1] ELSE file[g]
    BY <2>1 DEF TableOK
  <2>3. /\ backlog' = Tail(backlog) /\ peer' = peer
        /\ Len(backlog) \in Nat \ {0} /\ Len(Tail(backlog)) = Len(backlog) - 1
        /\ \A i \in 1 .. Len(Tail(backlog)) : Tail(backlog)[i] = backlog[i + 1]
    BY <1>3, HeadTailProperties, EmptySeq DEF Accept, ClientOK
  <2>4. \A i \in 1 .. Len(backlog') :
           i + 1 \in 1 .. Len(backlog) /\ i + 1 # 1 /\ backlog'[i] = backlog[i + 1]
    BY <2>3
  <2>5. 1 \in 1 .. Len(backlog)
    BY <2>3
  <2>6. \A i, j \in 1 .. Len(backlog') : backlog'[i] = backlog'[j] => i = j
    <3> SUFFICES ASSUME NEW i \in 1 .. Len(backlog'), NEW j \in 1 .. Len(backlog'),
                        backlog'[i] = backlog'[j]
                 PROVE  i = j
      OBVIOUS
    <3>1. i + 1 = j + 1
      BY <2>4
    <3> QED
      BY <2>3, <3>1
  <2>7. \A i \in 1 .. Len(backlog') :
           peer[backlog'[i]] # "none" /\ \A g \in Fds : file'[g] # backlog'[i]
    BY <2>2, <2>4, <2>5
  <2>8. \A g \in Fds : file'[g] # 0 => peer[file'[g]] # "none"
    BY <2>2, <2>5
  <2>9. \A g, h \in Fds : file'[g] # 0 /\ file'[g] = file'[h] => g = h
    BY <2>2, <2>5
  <2> QED
    BY <2>3, <2>6, <2>7, <2>8, <2>9
<1>4. CASE CloseClient
  <2>1. backlog' = backlog /\ peer' = peer
    BY <1>4 DEF CloseClient, client_vars
  <2>2. \A g \in Fds : file'[g] = file[g] \/ file'[g] = 0
    BY <1>4 DEF CloseClient, TableOK
  <2>3. \A i \in 1 .. Len(backlog) : backlog[i] # 0
    <3>1. \A i \in 1 .. Len(backlog) : backlog[i] \in Conns
      BY DEF ClientOK
    <3> QED
      BY <3>1, UdsAssumption DEF Conns, UdsAssumption
  <2> QED
    BY <2>1, <2>2, <2>3
<1>5. CASE \/ Select \/ VisitIdle \/ Receive \/ DeleteEvent \/ ClearSlot \/ Answered
           \/ (\E c \in Conns : Request(c) \/ StopReading(c) \/ ReadAgain(c))
           \/ Answer \/ Report \/ Sending \/ UNCHANGED vars
  <2>1. UNCHANGED <<backlog, peer, file>>
    <3>1. CASE \/ Select \/ VisitIdle \/ Receive \/ DeleteEvent \/ ClearSlot \/ Answered
               \/ (\E c \in Conns : Request(c) \/ StopReading(c) \/ ReadAgain(c))
      BY <3>1 DEF Select, VisitIdle, Receive, DeleteEvent, ClearSlot, Answered,
         Request, StopReading, ReadAgain, client_vars, table_vars
    <3>2. CASE Answer \/ Report \/ Sending \/ UNCHANGED vars
      BY <3>2, Elsewhere, NoClient DEF table_vars
    <3> QED
      BY <1>5, <3>1, <3>2
  <2> QED
    BY <2>1
<1> QED
  BY <1>1, <1>2, <1>3, <1>4, <1>5 DEF Next, Client, Turn

\* The clients select found ready and the loop has not come to have still
\* something to read.
ToVisit(e) == e > index \/ (e = index /\ at \in {"accept", "visit"})
ReadyEvent(e) ==
    event[e] # 0 /\ slot[event[e]] \in ready /\ ToVisit(e) => Readable(slot[event[e]])

ReadyInv ==
    /\ at \in {"select", "accept"} => index = 1
    /\ at = "accept" => ready \subseteq watched \cup {0}
    /\ at # "select" => \A e \in Slots : ReadyEvent(e)

\* Going on leaves fewer events to visit.
LEMMA VisitKeepsReady ==
    ASSUME VisitNext, ReadyInv, index \in Slots, at \notin {"select", "accept"},
           \A e \in Slots : e > index =>
               /\ event'[e] = event[e]
               /\ event[e] # 0 => slot'[event[e]] = slot[event[e]]
               /\ event[e] # 0 /\ Readable(slot[event[e]]) => Readable(slot[event[e]])'
    PROVE  ReadyInv'
<1>1. CASE index = 2
  BY <1>1 DEF VisitNext, GoTo, ReadyInv
<1>2. CASE index # 2
  <2>1. at' = "visit" /\ index' = index + 1 /\ ready' = ready
    BY <1>2 DEF VisitNext, GoTo
  <2> SUFFICES ASSUME NEW e \in Slots, event'[e] # 0, slot'[event'[e]] \in ready, e >= index + 1
               PROVE  Readable(slot[event[e]])'
    BY <2>1 DEF ReadyInv, ReadyEvent, ToVisit, Slots
  <2>2. e > index
    BY DEF Slots
  <2>3. ReadyEvent(e)
    BY DEF ReadyInv
  <2> QED
    BY <2>2, <2>3 DEF ReadyEvent, ToVisit
<1> QED
  BY <1>1, <1>2

LEMMA ReadyStep == Types /\ ListInv /\ ConnInv /\ ReadyInv /\ [Next]_vars => ReadyInv'
<1> SUFFICES ASSUME ClientOK, TableOK, LoopOK, ListInv, ConnInv, ReadyInv, [Next]_vars
             PROVE  ReadyInv'
  BY DEF Types
<1>0. \A e \in Slots : event[e] # 0 =>
         event[e] \in Slots /\ slot[event[e]] \in Fds /\ file[slot[event[e]]] \in Conns
  <2>1. ASSUME NEW e \in Slots, event[e] # 0
        PROVE  event[e] \in Slots /\ slot[event[e]] \in Fds
    BY <2>1 DEF ListInv, TableOK
  <2>2. ASSUME NEW e \in Slots, event[e] # 0 PROVE file[slot[event[e]]] \in Conns
    BY <2>1, <2>2 DEF ListInv, TableOK
  <2> QED
    BY <2>1, <2>2
<1>1. CASE Select
  <2>1. UNCHANGED <<index, event, slot, file, unread, peer, watched>> /\ index = 1
    BY <1>1 DEF Select, client_vars, table_vars, ReadyInv
  <2>2. \A f \in ready' : f = 0 \/ (f \in watched /\ Readable(f))
    BY <1>1 DEF Select
  <2>3. at' \in {"accept", "visit"}
    BY <1>1 DEF Select
  <2>4. \A e \in Slots : event[e] # 0 => slot[event[e]] # 0
    BY <1>0, UdsAssumption DEF UdsAssumption
  <2>5. \A e \in Slots : event[e] # 0 /\ slot[event[e]] \in ready' => Readable(slot[event[e]])
    BY <2>2, <2>4
  <2>6. ready' \subseteq watched \cup {0}
    BY <2>2
  <2> QED
    BY <2>1, <2>3, <2>5, <2>6 DEF ReadyInv, ReadyEvent, Readable
<1>2. CASE Accept
  <2>1. leaving = 0 /\ ready \subseteq watched \cup {0}
    BY <1>2 DEF Accept, LoopOK, ReadyInv
  <2>2. PICK f \in FreeFd : file' = [file EXCEPT ![f] = Head(backlog)] /\ AddClient(f)
    BY <1>2 DEF Accept
  <2>3. f \in Fds /\ f # 0 /\ file[f] = 0
    BY UdsAssumption DEF FreeFd, UdsAssumption
  <2>4. f \notin ready
    BY <2>1, <2>3 DEF ListInv
  <2>5. \A e \in Slots : event[e] # 0 => slot[event[e]] # f
    BY <2>3 DEF ListInv
  <2>6. ASSUME NEW e \in Slots, event'[e] # 0
        PROVE  \/ slot'[event'[e]] = f
               \/ event[e] # 0 /\ slot'[event'[e]] = slot[event[e]]
    <3>1. CASE FreeSlot = {}
      BY <2>2, <2>6, <3>1 DEF AddClient
    <3>2. CASE FreeSlot # {}
      <4>1. PICK i \in FreeSlot, d \in FreeEvent :
               slot' = [slot EXCEPT ![i] = f] /\ event' = [event EXCEPT ![d] = i]
        BY <2>2, <3>2 DEF AddClient
      <4>2. i \in Slots /\ d \in Slots
        BY DEF FreeSlot, FreeEvent
      <4>3. CASE e = d
        BY <4>1, <4>2, <4>3 DEF TableOK
      <4>4. CASE e # d
        BY <1>0, <2>6, <4>1, <4>2, <4>4 DEF TableOK
      <4> QED
        BY <4>3, <4>4
    <3> QED
      BY <3>1, <3>2
  <2>7. ASSUME NEW e \in Slots, event[e] # 0, slot[event[e]] \in ready
        PROVE  Readable(slot[event[e]])
    <3>1. ToVisit(e)
      BY <1>2 DEF Accept, ReadyInv, ToVisit, Slots
    <3> QED
      BY <1>2, <2>7, <3>1 DEF Accept, ReadyInv, ReadyEvent
  <2>8. \A g \in Fds : g # f => file'[g] = file[g]
    BY <2>2 DEF TableOK
  <2>9. at' = "visit" /\ ready' = ready /\ UNCHANGED <<unread, peer>>
    BY <1>2 DEF Accept, GoTo
  <2>10. ASSUME NEW e \in Slots, event'[e] # 0, slot'[event'[e]] \in ready
         PROVE  unread[file'[slot'[event'[e]]]] > 0 \/ peer[file'[slot'[event'[e]]]] = "down"
    BY <1>0, <2>4, <2>5, <2>6, <2>7, <2>8, <2>10 DEF Readable
  <2> QED
    BY <2>9, <2>10 DEF ReadyInv, ReadyEvent, Readable
<1>3. CASE VisitIdle \/ Answered
  <2>1. VisitNext /\ at \notin {"select", "accept"}
        /\ UNCHANGED <<event, slot, file, unread, peer>>
    BY <1>3 DEF VisitIdle, Answered, client_vars, table_vars
  <2> QED
    BY <2>1, VisitKeepsReady DEF LoopOK, Readable
<1>4. CASE Receive
  <2>1. event[index] # 0 /\ index \in Slots /\ ReadFrom = file[slot[event[index]]]
        /\ at = "visit"
    BY <1>4 DEF Receive, Visiting, IsReady, ReadFrom, LoopOK
  <2>2. at' = "answer" /\ index' = index /\ ready' = ready
        /\ unread' = [unread EXCEPT ![ReadFrom] = 0]
        /\ UNCHANGED <<event, slot, file, peer>>
    BY <1>4 DEF Receive, GoTo, table_vars
  <2>3. ASSUME NEW e \in Slots, event[e] # 0, e > index
        PROVE  file[slot[event[e]]] # ReadFrom
    <3>1. event[e] # event[index]
      BY <2>1, <2>3 DEF ListInv, Slots
    <3>2. slot[event[e]] # slot[event[index]]
      BY <1>0, <2>1, <2>3, <3>1 DEF ListInv
    <3> QED
      BY <1>0, <2>1, <2>3, <3>2 DEF ConnInv, ListInv
  <2>4. ASSUME NEW e \in Slots, event[e] # 0, e > index
        PROVE  unread'[file[slot[event[e]]]] = unread[file[slot[event[e]]]]
    BY <1>0, <2>2, <2>3, <2>4 DEF ClientOK
  <2>5. ASSUME NEW e \in Slots, event[e] # 0, e > index, slot[event[e]] \in ready
        PROVE  Readable(slot[event[e]])
    BY <2>1, <2>5 DEF ReadyInv, ReadyEvent, ToVisit
  <2> QED
    BY <2>2, <2>4, <2>5 DEF ReadyInv, ReadyEvent, ToVisit, Readable
<1>5. CASE DeleteEvent
  <2>1. at' = "close" /\ index' = index /\ ready' = ready /\ at = "visit"
        /\ event' = [event EXCEPT ![index] = 0]
        /\ UNCHANGED <<slot, file, unread, peer>>
    BY <1>5 DEF DeleteEvent, Visiting, GoTo, client_vars
  <2>2. \A e \in Slots : e > index => event'[e] = event[e]
    BY <2>1 DEF TableOK, LoopOK, Slots
  <2> QED
    BY <2>1, <2>2 DEF ReadyInv, ReadyEvent, ToVisit, Readable
<1>6. CASE CloseClient
  <2>1. at' = "clear" /\ index' = index /\ ready' = ready /\ at = "close"
        /\ file' = [file EXCEPT ![slot[leaving]] = 0]
        /\ UNCHANGED <<slot, event, unread, peer>>
    BY <1>6 DEF CloseClient, GoTo, client_vars
  <2>2. leaving \in Slots /\ leaving # 0
    BY <2>1 DEF LoopOK
  <2>3. ASSUME NEW e \in Slots, event[e] # 0
        PROVE  file'[slot[event[e]]] = file[slot[event[e]]]
    <3>1. slot[event[e]] # slot[leaving]
      BY <1>0, <2>2, <2>3 DEF ListInv
    <3> QED
      BY <1>0, <2>1, <2>3, <3>1 DEF TableOK
  <2> QED
    BY <2>1, <2>3 DEF ReadyInv, ReadyEvent, ToVisit, Readable
<1>7. CASE ClearSlot
  <2>1. VisitNext /\ at \notin {"select", "accept"}
        /\ slot' = [slot EXCEPT ![leaving] = 0]
        /\ UNCHANGED <<event, file, unread, peer>>
    BY <1>7 DEF ClearSlot, client_vars
  <2>2. \A e \in Slots : event[e] # 0 => slot'[event[e]] = slot[event[e]]
    BY <1>0, <2>1 DEF ListInv, TableOK
  <2>3. \A e \in Slots : event[e] # 0 /\ Readable(slot[event[e]])
                          => Readable(slot[event[e]])'
    BY <2>1, <2>2 DEF Readable
  <2> QED
    BY <2>1, <2>2, <2>3, VisitKeepsReady DEF LoopOK
<1>8. ASSUME NEW c \in Conns,
             Connect(c) \/ Request(c) \/ HangUp(c) \/ StopReading(c) \/ ReadAgain(c)
      PROVE  ReadyInv'
  <2>1. UNCHANGED <<table_vars, at, index, ready>>
    BY <1>8, Elsewhere DEF Client
  <2>2. \A d \in Conns : unread[d] > 0 => unread'[d] > 0
    BY <1>8 DEF Connect, Request, HangUp, StopReading, ReadAgain, ClientOK
  <2>3. \A d \in Conns : peer[d] = "down" => peer'[d] = "down"
    BY <1>8 DEF Connect, Request, HangUp, StopReading, ReadAgain, ClientOK
  <2>4. \A e \in Slots : event[e] # 0 /\ Readable(slot[event[e]]) =>
           unread'[file[slot[event[e]]]] > 0 \/ peer'[file[slot[event[e]]]] = "down"
    BY <1>0, <2>2, <2>3 DEF Readable
  <2> QED
    BY <2>1, <2>4 DEF table_vars, ReadyInv, ReadyEvent, ToVisit, Readable
<1>9. CASE Answer \/ Report \/ Sending \/ UNCHANGED vars
  <2>1. UNCHANGED <<at, index, ready, event, slot, file, watched, unread, peer>>
    BY <1>9, Elsewhere, NoClient DEF table_vars
  <2> QED
    BY <2>1 DEF ReadyInv, ReadyEvent, ToVisit, Readable
<1> QED
  BY <1>1, <1>2, <1>3, <1>4, <1>5, <1>6, <1>7, <1>8, <1>9 DEF Next, Client, Turn

\* recv never blocks: a client is visited when select found it ready and it has
\* been visited by nobody since (select_server.c:80-98).
THEOREM RecvNeverBlocks == Spec => []NeverBlocksInRecv
<1>1. Init => ConnInv /\ ReadyInv
  <2>1. ASSUME Init PROVE ConnInv
    BY <2>1, EmptySeq DEF Init, ConnInv
  <2> QED
    BY <2>1 DEF Init, ReadyInv
<1>2. ServerInv /\ ConnInv /\ ReadyInv /\ [Next]_vars => ConnInv' /\ ReadyInv'
  BY ConnStep, ReadyStep DEF ServerInv
<1>3. ServerInv /\ ReadyInv => NeverBlocksInRecv
  BY DEF ServerInv, Types, LoopOK, ReadyInv, ReadyEvent, ToVisit, NeverBlocksInRecv,
     Visiting, IsReady
<1> QED
  BY <1>1, <1>2, <1>3, ServerInit, ServerStep, PTL DEF Spec

-----------------------------------------------------------------------------
(***************************************************************************)
(* Sending                                                                 *)
(***************************************************************************)
\* A client is cleared away only after it hung up, and nobody has taken its
\* descriptor when its slot is cleared: the thread that would is clearing it.
LeavingInv ==
    /\ at = "close" => file[slot[leaving]] \in Conns /\ peer[file[slot[leaving]]] = "down"
    /\ at = "clear" => file[slot[leaving]] = 0

LEMMA LeavingStep == Types /\ ListInv /\ LeavingInv /\ [Next]_vars => LeavingInv'
<1> SUFFICES ASSUME ClientOK, TableOK, LoopOK, ListInv, LeavingInv, [Next]_vars
             PROVE  LeavingInv'
  BY DEF Types
<1>1. CASE Select \/ Accept \/ VisitIdle \/ Receive \/ ClearSlot \/ Answered
  <2>1. at' \notin {"close", "clear"}
    BY <1>1 DEF Select, Accept, VisitIdle, Receive, ClearSlot, Answered, VisitNext, GoTo
  <2> QED
    BY <2>1 DEF LeavingInv
<1>2. CASE DeleteEvent
  <2>1. /\ at' = "close" /\ leaving' = event[index] /\ peer[ReadFrom] = "down"
        /\ UNCHANGED <<file, slot, peer>> /\ event[index] # 0
    BY <1>2 DEF DeleteEvent, GoTo, client_vars, Visiting, IsReady
  <2>2. index \in Slots /\ slot[event[index]] \in Fds /\ file[slot[event[index]]] \in Conns
    <3>1. index \in Slots /\ event[index] \in Slots
      BY <2>1 DEF LoopOK, TableOK
    <3>2. slot[event[index]] # 0 /\ file[slot[event[index]]] # 0
      BY <2>1, <3>1 DEF ListInv
    <3> QED
      BY <3>1, <3>2 DEF TableOK
  <2> QED
    BY <2>1, <2>2 DEF LeavingInv, ReadFrom
<1>3. CASE CloseClient
  <2>1. /\ at' = "clear" /\ leaving' = leaving /\ slot' = slot
        /\ file' = [file EXCEPT ![slot[leaving]] = 0]
    BY <1>3 DEF CloseClient, GoTo
  <2>2. slot[leaving] \in Fds
    BY <1>3 DEF CloseClient, ListInv, LoopOK, TableOK
  <2> QED
    BY <2>1, <2>2 DEF LeavingInv, TableOK
<1>4. CASE Client \/ Answer \/ Report \/ Sending \/ UNCHANGED vars
  <2>1. UNCHANGED <<file, slot, at, leaving>>
    BY <1>4, Elsewhere DEF table_vars
  <2>2. \A c \in Conns : peer[c] = "down" => peer'[c] = "down"
    <3>1. CASE Client
      BY <3>1 DEF Client, Connect, Request, HangUp, StopReading, ReadAgain, ClientOK
    <3>2. CASE Answer \/ Report \/ Sending \/ UNCHANGED vars
      BY <3>2, NoClient
    <3> QED
      BY <1>4, <3>1, <3>2
  <2> QED
    BY <2>1, <2>2 DEF LeavingInv
<1> QED
  BY <1>1, <1>2, <1>3, <1>4 DEF Next, Turn

\* A client that was served when the sending began and has been up since stands
\* at its slot still, and has got the event once when the loop is past the slot
\* and the descriptor read from it has been used.
StandsAt(c, i) ==
    /\ slot[i] # 0 /\ file[slot[i]] = c /\ peer[c] = "up"
    /\ target = slot[i] => next = i + 1
    /\ got[c] = IF next > i /\ target # slot[i] THEN 1 ELSE 0

CopiesInv ==
    /\ \A c \in held : \E i \in Slots : StandsAt(c, i)
    /\ sender = "none" =>
          held = {} /\ target = 0 /\ next = 1 /\ \A c \in Conns : got[c] = 0

\* The uds thread does not touch the slot of a client that is up, nor its
\* descriptor.
LEMMA LoopKeepsUp ==
    ASSUME Types, ListInv, LeavingInv, Turn, NEW i \in Slots,
           slot[i] # 0, file[slot[i]] # 0, peer[file[slot[i]]] = "up"
    PROVE  slot'[i] = slot[i] /\ file'[slot[i]] = file[slot[i]] /\ peer' = peer
<1>1. TableOK /\ LoopOK
  BY DEF Types
<1>2. CASE Select \/ VisitIdle \/ Receive \/ DeleteEvent \/ Answered
  BY <1>2 DEF Select, VisitIdle, Receive, DeleteEvent, Answered, client_vars, table_vars
<1>3. CASE Accept
  <2>1. PICK f \in Fds : file[f] = 0 /\ file' = [file EXCEPT ![f] = Head(backlog)]
                           /\ AddClient(f)
    BY <1>3 DEF Accept, FreeFd
  <2>2. f # slot[i] /\ slot[i] \in Fds
    BY <1>1, <2>1 DEF TableOK
  <2>3. file'[slot[i]] = file[slot[i]]
    BY <1>1, <2>1, <2>2 DEF TableOK
  <2>4. slot'[i] = slot[i]
    BY <1>1, <2>1 DEF AddClient, FreeSlot, TableOK
  <2> QED
    BY <1>3, <2>3, <2>4 DEF Accept
<1>4. CASE CloseClient
  <2>1. file' = [file EXCEPT ![slot[leaving]] = 0] /\ UNCHANGED <<slot, peer>>
    BY <1>4 DEF CloseClient, client_vars
  <2>2. slot[leaving] # slot[i]
    BY <1>4 DEF CloseClient, LeavingInv
  <2> QED
    BY <1>1, <2>1, <2>2 DEF TableOK
<1>5. CASE ClearSlot
  <2>1. slot' = [slot EXCEPT ![leaving] = 0] /\ UNCHANGED <<file, peer>>
    BY <1>5 DEF ClearSlot, client_vars
  <2>2. leaving # i
    BY <1>5 DEF ClearSlot, LeavingInv
  <2> QED
    BY <1>1, <2>1, <2>2 DEF TableOK
<1> QED
  BY <1>2, <1>3, <1>4, <1>5 DEF Turn

LEMMA CopiesStep ==
    Types /\ ListInv /\ ConnInv /\ LeavingInv /\ CopiesInv /\ [Next]_vars => CopiesInv'
<1> SUFFICES ASSUME Types, ListInv, ConnInv, LeavingInv, CopiesInv, [Next]_vars
             PROVE  CopiesInv'
  OBVIOUS
<1>1. TableOK /\ LoopOK /\ SendOK /\ ClientOK /\ 0 \notin Conns
  BY UdsAssumption DEF Types, Conns, UdsAssumption
<1>2. CASE Turn
  <2>1. UNCHANGED <<sender, next, target, held, got>>
    BY <1>2 DEF Turn, Select, Accept, VisitIdle, Receive, DeleteEvent, CloseClient,
       ClearSlot, Answered, send_vars
  <2>2. ASSUME NEW c \in held, NEW i \in Slots, StandsAt(c, i) PROVE StandsAt(c, i)'
    <3>1. slot'[i] = slot[i] /\ file'[slot[i]] = file[slot[i]] /\ peer' = peer
      BY <1>1, <1>2, <2>2, LoopKeepsUp DEF StandsAt, SendOK
    <3> QED
      BY <2>1, <2>2, <3>1 DEF StandsAt
  <2> QED
    BY <2>1, <2>2 DEF CopiesInv
<1>3. ASSUME NEW c \in Conns, HangUp(c) PROVE CopiesInv'
  <2>1. /\ held' = held \ {c} /\ got' = [got EXCEPT ![c] = 0]
        /\ peer' = [peer EXCEPT ![c] = "down"]
        /\ UNCHANGED <<sender, next, target, slot, file>>
    BY <1>3 DEF HangUp, table_vars
  <2>2. \A d \in held' : d \in held /\ got'[d] = got[d] /\ peer'[d] = peer[d]
    BY <1>1, <2>1 DEF SendOK, ClientOK
  <2>3. ASSUME NEW d \in held', NEW i \in Slots, StandsAt(d, i) PROVE StandsAt(d, i)'
    BY <2>1, <2>2, <2>3 DEF StandsAt
  <2>4. \A d \in Conns : got[d] = 0 => got'[d] = 0
    BY <1>1, <2>1 DEF SendOK
  <2> QED
    BY <2>1, <2>2, <2>3, <2>4 DEF CopiesInv
<1>4. ASSUME NEW c \in Conns, Connect(c) \/ Request(c) \/ StopReading(c) \/ ReadAgain(c)
      PROVE  CopiesInv'
  <2>1. UNCHANGED <<sender, next, target, held, got, slot, file>>
    BY <1>4 DEF Connect, Request, StopReading, ReadAgain, table_vars, send_vars
  <2>2. \A d \in Conns : peer[d] = "up" => peer'[d] = "up"
    BY <1>1, <1>4 DEF Connect, Request, StopReading, ReadAgain, ClientOK
  <2>3. ASSUME NEW d \in held, NEW i \in Slots, StandsAt(d, i) PROVE StandsAt(d, i)'
    BY <1>1, <2>1, <2>2, <2>3 DEF StandsAt, SendOK
  <2> QED
    BY <2>1, <2>3 DEF CopiesInv
<1>5. ASSUME NEW t \in {"uds", "other"}, Lock(t) PROVE CopiesInv'
  <2>1. /\ sender = "none" /\ sender' # "none" /\ held' = {c \in Served : peer[c] = "up"}
        /\ UNCHANGED <<next, target, got, slot, file, peer>>
    BY <1>5 DEF Lock, client_vars, table_vars
  <2>2. ASSUME NEW c \in held' PROVE \E i \in Slots : StandsAt(c, i)'
    <3>1. c \in Served /\ peer[c] = "up"
      BY <2>1, <2>2
    <3>2. PICK i \in Slots : slot[i] # 0 /\ file[slot[i]] = c
      BY <3>1 DEF Served
    <3>3. target = 0 /\ next = 1 /\ got[c] = 0
      <4>1. c \in Conns
        BY <1>1, <3>1, <3>2 DEF TableOK, Served
      <4> QED
        BY <2>1, <4>1 DEF CopiesInv
    <3>4. ~ (1 > i)
      BY DEF Slots
    <3> QED
      BY <2>1, <3>1, <3>2, <3>3, <3>4 DEF StandsAt
  <2> QED
    BY <2>1, <2>2 DEF CopiesInv
<1>6. CASE ReadSlot
  <2>1. /\ sender # "none" /\ target = 0 /\ next \in Slots
        /\ target' = slot[next] /\ next' = next + 1
        /\ UNCHANGED <<sender, got, held, slot, file, peer>>
    BY <1>1, <1>6 DEF ReadSlot, client_vars, table_vars, SendOK, Slots
  <2>2. ASSUME NEW c \in held, NEW i \in Slots, StandsAt(c, i) PROVE StandsAt(c, i)'
    <3>1. slot[next] = slot[i] => next = i
      BY <2>1, <2>2 DEF ListInv, StandsAt
    <3>2. next + 1 > i <=> next > i \/ next = i
      BY <2>1 DEF Slots
    <3>3. next > i => next # i
      BY <2>1 DEF Slots
    <3> QED
      BY <2>1, <2>2, <3>1, <3>2, <3>3 DEF StandsAt
  <2> QED
    BY <2>1, <2>2 DEF CopiesInv
<1>7. CASE Send
  <2> DEFINE d == file[target]
  <2>1. /\ target # 0 /\ target' = 0
        /\ got' = IF d \in held THEN [got EXCEPT ![d] = @ + 1] ELSE got
        /\ UNCHANGED <<sender, next, held, slot, file, peer>>
    BY <1>7 DEF Send, client_vars, table_vars
  <2>2. sender # "none" /\ target \in Fds
    BY <1>1, <2>1 DEF CopiesInv, SendOK
  <2>3. ASSUME NEW c \in held, NEW i \in Slots, StandsAt(c, i) PROVE StandsAt(c, i)'
    <3>1. c \in Conns /\ slot[i] \in Fds /\ file[slot[i]] = c
      BY <1>1, <2>3 DEF SendOK, TableOK, StandsAt
    <3>2. d = c <=> target = slot[i]
      BY <1>1, <2>2, <3>1 DEF ConnInv
    <3>3. got'[c] = IF d = c THEN got[c] + 1 ELSE got[c]
      BY <1>1, <2>1, <3>1 DEF SendOK
    <3>4. CASE target = slot[i]
      <4>1. next > i /\ got[c] = 0
        BY <2>3, <3>4 DEF StandsAt, Slots
      <4> QED
        BY <2>1, <2>3, <3>2, <3>3, <3>4, <4>1 DEF StandsAt
    <3>5. CASE target # slot[i]
      BY <2>1, <2>3, <3>2, <3>3, <3>5 DEF StandsAt
    <3> QED
      BY <3>4, <3>5
  <2> QED
    BY <2>1, <2>2, <2>3 DEF CopiesInv
<1>8. CASE Unlock
  BY <1>8 DEF Unlock, AllSent, CopiesInv
<1>9. CASE UNCHANGED vars
  BY <1>9 DEF vars, client_vars, table_vars, send_vars, CopiesInv, StandsAt
<1> QED
  BY <1>2, <1>3, <1>4, <1>5, <1>6, <1>7, <1>8, <1>9
  DEF Next, Client, Answer, Report, Sending

\* Every client that is served and up while send_event_uds runs gets the event
\* once (uds_protocol.c:74, uds_tcp_server.c:12), whoever comes, goes or stops
\* reading while the two slots are read and written one after the other.
THEOREM EventsReachTheServed == Spec => EventReachesServed
<1> DEFINE Inv == ServerInv /\ ConnInv /\ LeavingInv /\ CopiesInv
<1>1. Init => Inv
  <2>1. ASSUME Init PROVE ConnInv
    BY <2>1, EmptySeq DEF Init, ConnInv
  <2>2. Init => LeavingInv /\ CopiesInv
    BY DEF Init, LeavingInv, CopiesInv
  <2> QED
    BY <2>1, <2>2, ServerInit
<1>2. Inv /\ [Next]_vars => Inv'
  BY ServerStep, ConnStep, LeavingStep, CopiesStep DEF ServerInv
<1>3. Inv => (Unlock => \A c \in held : got[c] = 1)
  <2> SUFFICES ASSUME SendOK, CopiesInv, Unlock, NEW c \in held PROVE got[c] = 1
    BY DEF ServerInv, Types
  <2>1. PICK i \in Slots : StandsAt(c, i)
    BY DEF CopiesInv
  <2>2. target = 0 /\ next = 3
    BY DEF Unlock, AllSent
  <2> QED
    BY <2>1, <2>2 DEF StandsAt, Slots
<1> QED
  BY <1>1, <1>2, <1>3, PTL DEF Spec, EventReachesServed
=============================================================================
