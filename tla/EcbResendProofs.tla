-------------------------- MODULE EcbResendProofs --------------------------
(***************************************************************************)
(* Proofs about EcbResend for any requests, threads, number of             *)
(* retransmissions and losses: the types, the mutual exclusion of writers, *)
(* the counting of transmissions, and that the list with its counters,     *)
(* lock and scan implements FrameDelivery.                                 *)
(***************************************************************************)
EXTENDS EcbResend, SequenceTheorems, TLAPS

Sending(t) == pc[t] \in {"draw", "increment", "write", "add"}
Visiting == pc[Main] \in {"resend", "check"}

\* A thread sends requests of its own, each once: it has gone out when and
\* only when the thread has the lock, and nobody knows of it before that.
SendersInv ==
    /\ \A t \in Threads : Sending(t) =>
          /\ SenderOf[msg[t]] = t
          /\ sent[msg[t]] = IF pc[t] = "add" THEN 1 ELSE 0
          /\ msg[t] \notin list \cup answered
    /\ \A r \in Requests : sent[r] = 0 => r \notin list \cup answered

\* The main thread visits listed nodes, and has none in hand between scans:
\* an answer can only take a node that no scan will come back to.
ScanInv ==
    /\ Visiting => msg[Main] \in todo
    /\ pc[Main] \notin {"scan", "resend", "check"} => todo = {}
    /\ list \cap answered = {}

-----------------------------------------------------------------------------
(***************************************************************************)
(* Types                                                                   *)
(***************************************************************************)
\* The sequence numbers, the threads, the list, and the line with the history.
IdsOK ==
    /\ ecb_seq_id \in Ids /\ seq_id \in [Requests -> Ids]
    /\ poll_id \in Ids /\ polls \in 0 .. MaxPolls

ThreadsOK ==
    /\ pc \in [Threads -> MainPc]
    /\ \A t \in Threads \ {Main} : pc[t] \in SendPc
    /\ msg \in [Threads -> Requests \cup {NoRequest}]
    /\ \A t \in Threads :
          pc[t] \notin PollPc \cup {"idle", "scan"} => msg[t] \in Requests
    /\ lock \in Threads \cup {NoThread}

ListOK ==
    /\ list \subseteq Requests /\ due \subseteq list /\ todo \subseteq list
    /\ adds \in Nat /\ stamp \in [Requests -> Nat]
    /\ resend_cnt \in [Requests -> 0 .. RESEND_CNT]

LineOK ==
    /\ wire \in Seq(Requests) /\ answers \in Seq(Ids) /\ losses \in 0 .. MaxLosses
    /\ sent \in [Requests -> Nat] /\ received \in [Requests -> Nat]
    /\ last \in Requests \cup {NoRequest} /\ answered \subseteq Requests

Types == IdsOK /\ ThreadsOK /\ ListOK /\ LineOK

\* Together they are the type invariant.
LEMMA TypeParts == TypeOK <=> Types
  BY DEF TypeOK, Types, IdsOK, ThreadsOK, ListOK, LineOK

\* A sequence number stays one when it wraps around.
LEMMA NextId == \A n \in Ids : (n + 1) % SEQ_SPACE \in Ids
  BY ResendAssumption DEF ResendAssumption, Ids

\* A thread between the calls of a send, or at a node, works on a request.
LEMMA WorksOnRequest ==
    ASSUME ThreadsOK, NEW t \in Threads, pc[t] \notin PollPc \cup {"idle", "scan"}
    PROVE  msg[t] \in Requests
  BY DEF ThreadsOK

\* One more frame on the line.
LEMMA TransmitTypes ==
    ASSUME LineOK, NEW r \in Requests, Transmit(r)
    PROVE  wire' \in Seq(Requests) /\ sent' \in [Requests -> Nat]
  BY DEF LineOK, Transmit

\* The initial state is well typed.
LEMMA TypeInit == Init => Types
<1> SUFFICES ASSUME Init PROVE Types
  OBVIOUS
<1> USE ResendAssumption DEF ResendAssumption, Init
<1>1. IdsOK
  BY DEF IdsOK, Ids
<1>2. ThreadsOK
  BY DEF ThreadsOK, MainPc, SendPc
<1>3. ListOK
  BY DEF ListOK
<1>4. LineOK
  BY DEF LineOK
<1> QED
  BY <1>1, <1>2, <1>3, <1>4 DEF Types

\* Every step keeps the types.  That a node taken by an answer is not one the
\* scan has still to visit is ScanInv.
LEMMA TypeStep ==
    ASSUME Types, ScanInv, [Next]_vars
    PROVE  Types'
<1> USE ResendAssumption DEF ResendAssumption, Types
<1>1. ASSUME NEW t \in Threads, NEW r \in Requests, Call(t, r) PROVE Types'
  <2>1. IdsOK'
    BY <1>1 DEF Call, IdsOK, id_vars, poll_vars
  <2>2. ThreadsOK'
    BY <1>1 DEF Call, ThreadsOK, MainPc, SendPc, PollPc
  <2>3. ListOK'
    BY <1>1 DEF Call, ListOK, list_vars
  <2>4. LineOK'
    BY <1>1 DEF Call, LineOK, board_vars
  <2> QED
    BY <2>1, <2>2, <2>3, <2>4 DEF Types
<1>2. ASSUME NEW t \in Threads, DrawSeqId(t) PROVE Types'
  <2>0. msg[t] \in Requests
    BY <1>2, WorksOnRequest DEF DrawSeqId, PollPc
  <2>1. IdsOK'
    BY <1>2, <2>0 DEF DrawSeqId, IdsOK, id_vars, poll_vars
  <2>2. ThreadsOK'
    BY <1>2 DEF DrawSeqId, ThreadsOK, MainPc, SendPc, PollPc
  <2>3. ListOK'
    BY <1>2 DEF DrawSeqId, ListOK, list_vars
  <2>4. LineOK'
    BY <1>2 DEF DrawSeqId, LineOK, board_vars
  <2> QED
    BY <2>1, <2>2, <2>3, <2>4 DEF Types
<1>3. ASSUME NEW t \in Threads, IncrementSeqId(t) PROVE Types'
  <2>0. msg[t] \in Requests
    BY <1>3, WorksOnRequest DEF IncrementSeqId, PollPc
  <2>1. IdsOK'
    BY <1>3, <2>0, NextId DEF IncrementSeqId, IdsOK, id_vars, poll_vars
  <2>2. ThreadsOK'
    BY <1>3 DEF IncrementSeqId, ThreadsOK, MainPc, SendPc, PollPc
  <2>3. ListOK'
    BY <1>3 DEF IncrementSeqId, ListOK, list_vars
  <2>4. LineOK'
    BY <1>3 DEF IncrementSeqId, LineOK, board_vars
  <2> QED
    BY <2>1, <2>2, <2>3, <2>4 DEF Types
<1>4. ASSUME NEW t \in Threads, WriteFrame(t) PROVE Types'
  <2>0. msg[t] \in Requests
    BY <1>4, WorksOnRequest DEF WriteFrame, PollPc
  <2>1. IdsOK'
    BY <1>4 DEF WriteFrame, IdsOK, id_vars, poll_vars
  <2>2. ThreadsOK'
    BY <1>4 DEF WriteFrame, ThreadsOK, MainPc, SendPc, PollPc
  <2>3. ListOK'
    BY <1>4 DEF WriteFrame, ListOK, list_vars
  <2>4. LineOK'
    BY <1>4, <2>0, TransmitTypes DEF WriteFrame, LineOK, board_vars
  <2> QED
    BY <2>1, <2>2, <2>3, <2>4 DEF Types
<1>5. ASSUME NEW t \in Threads, AddNode(t) PROVE Types'
  <2>0. msg[t] \in Requests
    BY <1>5, WorksOnRequest DEF AddNode, PollPc
  <2>1. IdsOK'
    BY <1>5 DEF AddNode, IdsOK, id_vars, poll_vars
  <2>2. ThreadsOK'
    BY <1>5 DEF AddNode, ThreadsOK, MainPc, SendPc, PollPc
  <2>3. ListOK'
    BY <1>5, <2>0 DEF AddNode, ListOK, list_vars
  <2>4. LineOK'
    BY <1>5 DEF AddNode, LineOK, board_vars
  <2> QED
    BY <2>1, <2>2, <2>3, <2>4 DEF Types
<1>6. CASE SelectTimeout
  <2>1. IdsOK'
    BY <1>6 DEF SelectTimeout, IdsOK, id_vars, poll_vars
  <2>2. ThreadsOK'
    BY <1>6 DEF SelectTimeout, ThreadsOK, MainPc, SendPc, PollPc
  <2>3. ListOK'
    BY <1>6 DEF SelectTimeout, ListOK, list_vars
  <2>4. LineOK'
    BY <1>6 DEF SelectTimeout, LineOK, board_vars
  <2> QED
    BY <2>1, <2>2, <2>3, <2>4 DEF Types
<1>7. ASSUME NEW r \in Requests, VisitDue(r) PROVE Types'
  <2>1. IdsOK'
    BY <1>7 DEF VisitDue, IdsOK, id_vars, poll_vars
  <2>2. ThreadsOK'
    BY <1>7 DEF VisitDue, ThreadsOK, MainPc, SendPc, PollPc
  <2>3. ListOK'
    BY <1>7 DEF VisitDue, ListOK, list_vars
  <2>4. LineOK'
    BY <1>7 DEF VisitDue, LineOK, board_vars
  <2> QED
    BY <2>1, <2>2, <2>3, <2>4 DEF Types
<1>8. ASSUME NEW r \in Requests, VisitWaiting(r) PROVE Types'
  <2>1. IdsOK'
    BY <1>8 DEF VisitWaiting, IdsOK, id_vars, poll_vars
  <2>2. ThreadsOK'
    BY <1>8 DEF VisitWaiting, ThreadsOK, MainPc, SendPc, PollPc
  <2>3. ListOK'
    BY <1>8 DEF VisitWaiting, ListOK, list_vars
  <2>4. LineOK'
    BY <1>8 DEF VisitWaiting, LineOK, board_vars
  <2> QED
    BY <2>1, <2>2, <2>3, <2>4 DEF Types
<1>9. CASE Resend
  <2>0. msg[Main] \in Requests
    BY <1>9, WorksOnRequest DEF Resend, PollPc
  <2>1. IdsOK'
    BY <1>9 DEF Resend, IdsOK, id_vars, poll_vars
  <2>2. ThreadsOK'
    BY <1>9 DEF Resend, ThreadsOK, MainPc, SendPc, PollPc
  <2>3. ListOK'
    BY <1>9 DEF Resend, ListOK, list_vars
  <2>4. LineOK'
    BY <1>9, <2>0, TransmitTypes DEF Resend, LineOK, board_vars
  <2> QED
    BY <2>1, <2>2, <2>3, <2>4 DEF Types
<1>10. CASE CheckCount
  <2>1. IdsOK'
    BY <1>10 DEF CheckCount, IdsOK, id_vars, poll_vars
  <2>2. ThreadsOK'
    BY <1>10 DEF CheckCount, ThreadsOK, MainPc, SendPc, PollPc
  <2>3. ListOK'
    BY <1>10 DEF CheckCount, ListOK, list_vars, Unlink
  <2>4. LineOK'
    BY <1>10 DEF CheckCount, LineOK, board_vars
  <2> QED
    BY <2>1, <2>2, <2>3, <2>4 DEF Types
<1>11. CASE ScanEnds
  <2>1. IdsOK'
    BY <1>11 DEF ScanEnds, IdsOK, id_vars, poll_vars
  <2>2. ThreadsOK'
    BY <1>11 DEF ScanEnds, ThreadsOK, MainPc, SendPc, PollPc
  <2>3. ListOK'
    BY <1>11 DEF ScanEnds, ListOK, list_vars
  <2>4. LineOK'
    BY <1>11 DEF ScanEnds, LineOK, board_vars
  <2> QED
    BY <2>1, <2>2, <2>3, <2>4 DEF Types
<1>12. CASE DrawPollId
  <2>1. IdsOK'
    BY <1>12 DEF DrawPollId, IdsOK, id_vars, poll_vars
  <2>2. ThreadsOK'
    BY <1>12 DEF DrawPollId, ThreadsOK, MainPc, SendPc, PollPc
  <2>3. ListOK'
    BY <1>12 DEF DrawPollId, ListOK, list_vars
  <2>4. LineOK'
    BY <1>12 DEF DrawPollId, LineOK, board_vars
  <2> QED
    BY <2>1, <2>2, <2>3, <2>4 DEF Types
<1>13. CASE IncrementPollId
  <2>1. IdsOK'
    BY <1>13, NextId DEF IncrementPollId, IdsOK, id_vars, poll_vars
  <2>2. ThreadsOK'
    BY <1>13 DEF IncrementPollId, ThreadsOK, MainPc, SendPc, PollPc
  <2>3. ListOK'
    BY <1>13 DEF IncrementPollId, ListOK, list_vars
  <2>4. LineOK'
    BY <1>13 DEF IncrementPollId, LineOK, board_vars
  <2> QED
    BY <2>1, <2>2, <2>3, <2>4 DEF Types
<1>14. CASE WritePoll
  <2>1. IdsOK'
    BY <1>14 DEF WritePoll, IdsOK, id_vars, poll_vars
  <2>2. ThreadsOK'
    BY <1>14 DEF WritePoll, ThreadsOK, MainPc, SendPc, PollPc
  <2>3. ListOK'
    BY <1>14 DEF WritePoll, ListOK, list_vars
  <2>4. LineOK'
    BY <1>14 DEF WritePoll, LineOK, board_vars
  <2> QED
    BY <2>1, <2>2, <2>3, <2>4 DEF Types
<1>15. CASE ReceiveAnswer
  <2>0. todo = {}
    BY <1>15 DEF ReceiveAnswer, ScanInv
  <2>1. IdsOK'
    BY <1>15 DEF ReceiveAnswer, IdsOK, id_vars, poll_vars
  <2>2. ThreadsOK'
    BY <1>15 DEF ReceiveAnswer, ThreadsOK, MainPc, SendPc, PollPc
  <2>3. ListOK'
    BY <1>15, <2>0 DEF ReceiveAnswer, ListOK, list_vars, Unlink, WithId, FirstOf
  <2>4. LineOK'
    BY <1>15 DEF ReceiveAnswer, LineOK, board_vars, Unlink, WithId, FirstOf, ListOK
  <2> QED
    BY <2>1, <2>2, <2>3, <2>4 DEF Types
<1>16. CASE BoardReceives
  <2>1. IdsOK'
    BY <1>16 DEF BoardReceives, IdsOK, id_vars, poll_vars
  <2>2. ThreadsOK'
    BY <1>16 DEF BoardReceives, ThreadsOK, MainPc, SendPc, PollPc
  <2>3. ListOK'
    BY <1>16 DEF BoardReceives, ListOK, list_vars
  <2>4. LineOK'
    BY <1>16 DEF BoardReceives, LineOK, board_vars, IdsOK
  <2> QED
    BY <2>1, <2>2, <2>3, <2>4 DEF Types
<1>17. CASE LoseFrame
  <2>1. IdsOK'
    BY <1>17 DEF LoseFrame, IdsOK, id_vars, poll_vars
  <2>2. ThreadsOK'
    BY <1>17 DEF LoseFrame, ThreadsOK, MainPc, SendPc, PollPc
  <2>3. ListOK'
    BY <1>17 DEF LoseFrame, ListOK, list_vars
  <2>4. LineOK'
    BY <1>17 DEF LoseFrame, LineOK, board_vars
  <2> QED
    BY <2>1, <2>2, <2>3, <2>4 DEF Types
<1>18. CASE LoseAnswer
  <2>1. IdsOK'
    BY <1>18 DEF LoseAnswer, IdsOK, id_vars, poll_vars
  <2>2. ThreadsOK'
    BY <1>18 DEF LoseAnswer, ThreadsOK, MainPc, SendPc, PollPc
  <2>3. ListOK'
    BY <1>18 DEF LoseAnswer, ListOK, list_vars
  <2>4. LineOK'
    BY <1>18 DEF LoseAnswer, LineOK, board_vars
  <2> QED
    BY <2>1, <2>2, <2>3, <2>4 DEF Types
<1>19. ASSUME NEW r \in Requests, WaitElapses(r) PROVE Types'
  <2>1. IdsOK'
    BY <1>19 DEF WaitElapses, IdsOK, id_vars, poll_vars
  <2>2. ThreadsOK'
    BY <1>19 DEF WaitElapses, ThreadsOK, MainPc, SendPc, PollPc
  <2>3. ListOK'
    BY <1>19 DEF WaitElapses, ListOK, list_vars
  <2>4. LineOK'
    BY <1>19 DEF WaitElapses, LineOK, board_vars
  <2> QED
    BY <2>1, <2>2, <2>3, <2>4 DEF Types
<1>20. CASE UNCHANGED vars
  BY <1>20 DEF vars, IdsOK, ThreadsOK, ListOK, LineOK
<1> QED
  BY <1>1, <1>2, <1>3, <1>4, <1>5, <1>6, <1>7, <1>8, <1>9, <1>10,
     <1>11, <1>12, <1>13, <1>14, <1>15, <1>16, <1>17, <1>18, <1>19, <1>20
     DEF Next, Send, Scan, Poll

-----------------------------------------------------------------------------
(***************************************************************************)
(* The lock, the senders, the scan and the counts                          *)
(***************************************************************************)
Control == LockCovers /\ SendersInv /\ ScanInv /\ CountsAddUp

\* Nobody sends and nothing is listed at the start.
LEMMA ControlInit == Init => Control
<1> SUFFICES ASSUME Init PROVE Control
  OBVIOUS
<1> USE ResendAssumption DEF ResendAssumption, Init
<1>1. LockCovers
  BY DEF LockCovers
<1>2. SendersInv
  BY DEF SendersInv, Sending
<1>3. ScanInv /\ CountsAddUp
  BY DEF ScanInv, Visiting, CountsAddUp
<1> QED
  BY <1>1, <1>2, <1>3 DEF Control

\* Steps that leave the threads, the list and the counts alone.
LEMMA ControlFrame ==
    ASSUME Control,
           UNCHANGED <<pc, msg, lock, list, resend_cnt, todo, sent, answered>>
    PROVE  Control'
  BY DEF Control, LockCovers, SendersInv, Sending, ScanInv, Visiting, CountsAddUp

\* Every step of a sender keeps them.
LEMMA ControlSend ==
    ASSUME Types, Control, NEW t \in Threads, Send(t) \/ \E r \in Requests : Call(t, r)
    PROVE  Control'
<1> USE ResendAssumption DEF ResendAssumption, Types, ThreadsOK, Control
<1>1. ASSUME NEW r \in Requests, Call(t, r) PROVE Control'
  <2>1. LockCovers'
    BY <1>1 DEF Call, LockCovers
  <2>2. SendersInv'
    BY <1>1 DEF Call, SendersInv, Sending, list_vars
  <2>3. ScanInv'
    BY <1>1 DEF Call, ScanInv, Visiting, list_vars
  <2>4. CountsAddUp'
    BY <1>1 DEF Call, CountsAddUp, list_vars
  <2> QED
    BY <2>1, <2>2, <2>3, <2>4
<1>2. CASE DrawSeqId(t) \/ IncrementSeqId(t)
  <2>1. /\ pc[t] \in {"draw", "increment"}
        /\ pc' \in {[pc EXCEPT ![t] = "increment"], [pc EXCEPT ![t] = "write"]}
        /\ UNCHANGED <<msg, lock, list, resend_cnt, todo, sent, answered>>
    BY <1>2 DEF DrawSeqId, IncrementSeqId, list_vars
  <2>2. LockCovers'
    BY <2>1 DEF LockCovers
  <2>3. SendersInv'
    BY <2>1 DEF SendersInv, Sending
  <2>4. ScanInv'
    BY <2>1 DEF ScanInv, Visiting
  <2>5. CountsAddUp'
    BY <2>1 DEF CountsAddUp
  <2> QED
    BY <2>2, <2>3, <2>4, <2>5
<1>3. CASE WriteFrame(t)
  <2>0. msg[t] \in Requests /\ msg[t] \notin list
    BY <1>3, WorksOnRequest DEF WriteFrame, PollPc, SendersInv, Sending
  <2>1. LockCovers'
    BY <1>3 DEF WriteFrame, LockCovers
  <2>2. SendersInv'
    BY <1>3, <2>0 DEF WriteFrame, Transmit, SendersInv, Sending, list_vars, LineOK
  <2>3. ScanInv'
    BY <1>3 DEF WriteFrame, ScanInv, Visiting, list_vars
  <2>4. CountsAddUp'
    BY <1>3, <2>0 DEF WriteFrame, Transmit, CountsAddUp, list_vars, ListOK, LineOK
  <2> QED
    BY <2>1, <2>2, <2>3, <2>4
<1>4. CASE AddNode(t)
  <2>0. /\ msg[t] \in Requests /\ sent[msg[t]] = 1
        /\ msg[t] \notin list \cup answered /\ SenderOf[msg[t]] = t
    BY <1>4, WorksOnRequest DEF AddNode, PollPc, SendersInv, Sending
  <2>1. LockCovers'
    BY <1>4 DEF AddNode, LockCovers
  <2>2. SendersInv'
    BY <1>4, <2>0 DEF AddNode, SendersInv, Sending
  <2>3. ScanInv'
    BY <1>4, <2>0 DEF AddNode, ScanInv, Visiting
  <2>4. CountsAddUp'
    BY <1>4, <2>0 DEF AddNode, CountsAddUp, ListOK, ScanInv, Visiting
  <2> QED
    BY <2>1, <2>2, <2>3, <2>4
<1> QED
  BY <1>1, <1>2, <1>3, <1>4 DEF Send

\* Every step of the scan and of a poll keeps them.
LEMMA ControlScan ==
    ASSUME Types, Control, SelectTimeout \/ Scan \/ Poll
    PROVE  Control'
<1> USE ResendAssumption DEF ResendAssumption, Types, ThreadsOK, Control
<1>1. CASE SelectTimeout \/ ScanEnds \/ Poll
  <2>1. /\ pc[Main] \notin {"draw", "increment", "write", "add", "resend", "check"}
        /\ \E p \in {"idle", "scan"} \cup PollPc : pc' = [pc EXCEPT ![Main] = p]
        /\ pc'[Main] # "scan" => todo' = {}
        /\ UNCHANGED <<msg, lock, list, resend_cnt, sent, answered>>
    BY <1>1 DEF SelectTimeout, ScanEnds, Poll, DrawPollId, IncrementPollId, WritePoll,
                PollPc, ScanInv, list_vars
  <2>2. LockCovers'
    BY <2>1 DEF LockCovers, PollPc
  <2>3. SendersInv'
    <3>1. \A t \in Threads : Sending(t)' => Sending(t) /\ pc'[t] = pc[t]
      BY <2>1 DEF Sending, PollPc
    <3> QED
      BY <2>1, <3>1 DEF SendersInv
  <2>4. ScanInv'
    BY <2>1 DEF ScanInv, Visiting, PollPc
  <2>5. CountsAddUp'
    BY <2>1 DEF CountsAddUp, PollPc
  <2> QED
    BY <2>2, <2>3, <2>4, <2>5
<1>2. ASSUME NEW r \in Requests, VisitDue(r) PROVE Control'
  <2>1. LockCovers'
    BY <1>2 DEF VisitDue, LockCovers
  <2>2. SendersInv'
    BY <1>2 DEF VisitDue, SendersInv, Sending
  <2>3. ScanInv'
    BY <1>2 DEF VisitDue, ScanInv, Visiting, FirstOf
  <2>4. CountsAddUp'
    BY <1>2 DEF VisitDue, CountsAddUp, ListOK, LineOK
  <2> QED
    BY <2>1, <2>2, <2>3, <2>4
<1>3. ASSUME NEW r \in Requests, VisitWaiting(r) PROVE Control'
  <2>1. LockCovers'
    BY <1>3 DEF VisitWaiting, LockCovers
  <2>2. SendersInv'
    BY <1>3 DEF VisitWaiting, SendersInv, Sending, list_vars
  <2>3. ScanInv'
    BY <1>3 DEF VisitWaiting, ScanInv, Visiting, FirstOf, list_vars
  <2>4. CountsAddUp'
    BY <1>3 DEF VisitWaiting, CountsAddUp, list_vars
  <2> QED
    BY <2>1, <2>2, <2>3, <2>4
<1>4. CASE Resend
  <2>0. msg[Main] \in list /\ msg[Main] \in Requests
    BY <1>4 DEF Resend, ScanInv, Visiting, ListOK
  <2>1. LockCovers'
    BY <1>4 DEF Resend, LockCovers
  <2>2. SendersInv'
    BY <1>4, <2>0 DEF Resend, Transmit, SendersInv, Sending, list_vars, LineOK
  <2>3. ScanInv'
    BY <1>4 DEF Resend, ScanInv, Visiting, list_vars
  <2>4. CountsAddUp'
    <3> SUFFICES ASSUME NEW r \in list
                 PROVE  sent'[r] + resend_cnt[r] = RESEND_CNT + 1
      BY <1>4 DEF Resend, CountsAddUp, list_vars
    <3>1. sent[r] + resend_cnt[r] = IF msg[Main] = r THEN RESEND_CNT ELSE RESEND_CNT + 1
      BY <1>4 DEF Resend, CountsAddUp
    <3>2. sent'[r] = IF msg[Main] = r THEN sent[r] + 1 ELSE sent[r]
      BY <1>4, <2>0 DEF Resend, Transmit, LineOK, ListOK
    <3>3. sent[r] \in Nat /\ resend_cnt[r] \in Nat
      BY DEF LineOK, ListOK
    <3> QED
      BY <3>1, <3>2, <3>3
  <2> QED
    BY <2>1, <2>2, <2>3, <2>4
<1>5. CASE CheckCount
  <2>0. /\ list' \subseteq list /\ todo' = todo \ {msg[Main]}
        /\ pc' = [pc EXCEPT ![Main] = "scan"]
        /\ UNCHANGED <<msg, lock, sent, answered, resend_cnt>>
        /\ pc[Main] = "check"
    BY <1>5 DEF CheckCount, Unlink, list_vars
  <2>1. LockCovers'
    BY <2>0 DEF LockCovers
  <2>2. SendersInv'
    BY <2>0 DEF SendersInv, Sending
  <2>3. ScanInv'
    BY <2>0 DEF ScanInv, Visiting
  <2>4. CountsAddUp'
    BY <2>0 DEF CountsAddUp
  <2> QED
    BY <2>1, <2>2, <2>3, <2>4
<1> QED
  BY <1>1, <1>2, <1>3, <1>4, <1>5 DEF Scan

\* An answer keeps them: it takes a node while no scan is under way.
LEMMA ControlAnswer ==
    ASSUME Types, Control, ReceiveAnswer
    PROVE  Control'
<1> USE DEF Types, ThreadsOK, Control
<1>1. CASE UNCHANGED <<list_vars, answered>>
  BY <1>1, ControlFrame DEF ReceiveAnswer, list_vars
<1>2. ASSUME NEW r \in list, Unlink(r), answered' = answered \cup {r}
      PROVE  Control'
  <2>0. /\ list' = list \ {r} /\ pc[Main] = "idle"
        /\ UNCHANGED <<pc, msg, lock, todo, sent, resend_cnt>>
    BY <1>2 DEF ReceiveAnswer, Unlink
  <2>1. LockCovers'
    BY <2>0 DEF LockCovers
  <2>2. SendersInv'
    BY <1>2, <2>0 DEF SendersInv, Sending
  <2>3. ScanInv'
    BY <1>2, <2>0 DEF ScanInv, Visiting
  <2>4. CountsAddUp'
    BY <2>0 DEF CountsAddUp
  <2> QED
    BY <2>1, <2>2, <2>3, <2>4
<1> QED
  BY <1>1, <1>2 DEF ReceiveAnswer, WithId, FirstOf

Inv == Types /\ Control

\* The initial state satisfies the invariant.
LEMMA InvInit == Init => Inv
  BY TypeInit, ControlInit DEF Inv

\* Every step keeps it.
LEMMA InvStep == Inv /\ [Next]_vars => Inv'
<1> SUFFICES ASSUME Types, Control, [Next]_vars PROVE Types' /\ Control'
  BY DEF Inv
<1>1. Types'
  BY TypeStep DEF Control
<1>2. CASE \/ BoardReceives \/ LoseFrame \/ LoseAnswer
           \/ (\E r \in Requests : WaitElapses(r)) \/ UNCHANGED vars
  <2>1. UNCHANGED <<pc, msg, lock, list, resend_cnt, todo, sent, answered>>
    BY <1>2 DEF BoardReceives, LoseFrame, LoseAnswer, WaitElapses, vars, list_vars
  <2> QED
    BY <1>1, <2>1, ControlFrame
<1> QED
  BY <1>1, <1>2, ControlSend, ControlScan, ControlAnswer DEF Next

\* So it always holds.
LEMMA Invariance == Spec => []Inv
  BY InvInit, InvStep, PTL DEF Spec

\* The variables keep their ranges: a sequence number wraps around in 16 bits,
\* what a scan visits is listed, and the counters stay within RESEND_CNT.
THEOREM TypeCorrect == Spec => []TypeOK
<1>1. Inv => TypeOK
  BY TypeParts DEF Inv
<1> QED
  BY <1>1, Invariance, PTL

\* list_add and the writes to the serial line exclude each other.
THEOREM WritersExclude == Spec => []LockCovers
<1>1. Inv => LockCovers
  BY DEF Inv, Control
<1> QED
  BY <1>1, Invariance, PTL

\* A listed frame has as many transmissions left as resend_cnt says.
THEOREM CountsCorrect == Spec => []CountsAddUp
<1>1. Inv => CountsAddUp
  BY DEF Inv, Control
<1> QED
  BY <1>1, Invariance, PTL

-----------------------------------------------------------------------------
(***************************************************************************)
(* What the board has got, and in which order                              *)
(***************************************************************************)
\* Only what was sent is on the line or got received, and every answer under
\* way has the number of a request that the board received.
AnswersInv ==
    /\ \A i \in 1..Len(wire) : sent[wire[i]] > 0
    /\ \A r \in Requests : received[r] > 0 => sent[r] > 0
    /\ \A i \in 1..Len(answers) :
          \E r \in Requests : received[r] > 0 /\ seq_id[r] = answers[i]
    /\ AnsweredWasReceived

LEMMA AnswersInit == Init => AnswersInv
  BY ResendAssumption DEF Init, AnswersInv, AnsweredWasReceived

\* A sequence number is drawn before the request is sent, and then kept.
LEMMA NumbersStay ==
    ASSUME Types, Control, [Next]_vars, NEW r \in Requests, sent[r] > 0
    PROVE  seq_id'[r] = seq_id[r] /\ sent'[r] > 0
<1> USE DEF Types, IdsOK, LineOK
<1>1. ASSUME NEW t \in Threads, DrawSeqId(t) PROVE seq_id'[r] = seq_id[r] /\ sent' = sent
  <2>1. pc[t] = "draw" /\ seq_id' = [seq_id EXCEPT ![msg[t]] = ecb_seq_id] /\ sent' = sent
    BY <1>1 DEF DrawSeqId
  <2>2. sent[msg[t]] = 0
    BY <2>1 DEF Control, SendersInv, Sending
  <2> QED
    BY <2>1, <2>2
<1>2. ASSUME NEW q, Transmit(q) PROVE sent'[r] > 0
  BY <1>2 DEF Transmit
<1>3. CASE UNCHANGED <<seq_id, sent>>
  BY <1>3
<1>4. CASE UNCHANGED seq_id /\ \E q : Transmit(q)
  BY <1>2, <1>4
<1>5. ASSUME ~ \E t \in Threads : DrawSeqId(t)
      PROVE  UNCHANGED <<seq_id, sent>> \/ (UNCHANGED seq_id /\ \E q : Transmit(q))
  BY <1>5 DEF Next, Send, Scan, Poll, Call, IncrementSeqId, WriteFrame, AddNode,
     SelectTimeout, VisitDue, VisitWaiting, Resend, CheckCount, ScanEnds,
     DrawPollId, IncrementPollId, WritePoll, WaitElapses, ReceiveAnswer,
     BoardReceives, LoseFrame, LoseAnswer, id_vars, vars
<1> QED
  BY <1>1, <1>3, <1>4, <1>5

\* Every step keeps it.
LEMMA AnswersStep ==
    ASSUME Types, Control, AnswersInv, [Next]_vars
    PROVE  AnswersInv'
<1> USE DEF Types, IdsOK, LineOK, AnswersInv
<1>0. \A r \in Requests : sent[r] > 0 => seq_id'[r] = seq_id[r] /\ sent'[r] > 0
  BY NumbersStay
<1>1. \A r \in answered : r \in Requests /\ sent[r] > 0
  BY DEF Control, SendersInv
<1>11. ASSUME answered' = answered, \A r \in Requests : received[r] > 0 => received'[r] > 0
      PROVE  AnsweredWasReceived'
  <2> SUFFICES ASSUME NEW r \in answered, ~ received'[r] > 0
               PROVE  \E q \in Requests \ {r} : sent'[q] > 0 /\ seq_id'[q] = seq_id'[r]
    BY <1>11 DEF AnsweredWasReceived
  <2>1. PICK q \in Requests \ {r} : sent[q] > 0 /\ seq_id[q] = seq_id[r]
    BY <1>11, <1>1 DEF AnsweredWasReceived
  <2>2. sent'[q] > 0 /\ seq_id'[q] = seq_id'[r]
    BY <1>0, <1>1, <2>1
  <2> QED
    BY <2>2
<1>2. CASE UNCHANGED <<wire, answers, received, answered>>
  <2>1. \A i \in 1..Len(wire') : sent'[wire'[i]] > 0
    BY <1>0, <1>2
  <2>2. \A r \in Requests : received'[r] > 0 => sent'[r] > 0
    BY <1>0, <1>2
  <2>3. \A i \in 1..Len(answers') :
            \E r \in Requests : received'[r] > 0 /\ seq_id'[r] = answers'[i]
    BY <1>0, <1>2
  <2>4. AnsweredWasReceived'
    BY <1>11, <1>2
  <2> QED
    BY <2>1, <2>2, <2>3, <2>4
<1>3. ASSUME NEW q \in Requests, Transmit(q), UNCHANGED <<answers, received, answered>>
      PROVE  AnswersInv'
  <2>1. sent'[q] > 0 /\ wire' = Append(wire, q)
    BY <1>3 DEF Transmit
  <2>2. \A i \in 1..Len(wire') : sent'[wire'[i]] > 0
    <3> SUFFICES ASSUME NEW i \in 1..Len(wire') PROVE sent'[wire'[i]] > 0
      OBVIOUS
    <3>1. CASE i = Len(wire) + 1
      BY <2>1, <3>1
    <3>2. CASE i \in 1..Len(wire)
      BY <1>0, <2>1, <3>2
    <3> QED
      BY <2>1, <3>1, <3>2
  <2>3. \A r \in Requests : received'[r] > 0 => sent'[r] > 0
    BY <1>0, <1>3
  <2>4. \A i \in 1..Len(answers') :
            \E r \in Requests : received'[r] > 0 /\ seq_id'[r] = answers'[i]
    BY <1>0, <1>3
  <2>5. AnsweredWasReceived'
    BY <1>11, <1>3
  <2> QED
    BY <2>2, <2>3, <2>4, <2>5
<1>4. CASE BoardReceives
  <2>1. /\ wire # <<>> /\ wire' = Tail(wire) /\ Head(wire) \in Requests
        /\ sent[Head(wire)] > 0
        /\ answers' = Append(answers, seq_id[Head(wire)])
        /\ received' = [received EXCEPT ![Head(wire)] = @ + 1]
        /\ UNCHANGED <<seq_id, sent, answered>>
    BY <1>4 DEF BoardReceives, id_vars
  <2>2. \A i \in 1..Len(wire') : sent'[wire'[i]] > 0
    BY <2>1
  <2>3. \A r \in Requests : received[r] > 0 => received'[r] > 0
    BY <2>1
  <2>4. \A i \in 1..Len(answers') :
            \E r \in Requests : received'[r] > 0 /\ seq_id'[r] = answers'[i]
    <3>1. received'[Head(wire)] > 0
      BY <2>1
    <3> SUFFICES ASSUME NEW i \in 1..Len(answers')
                 PROVE \E r \in Requests : received'[r] > 0 /\ seq_id'[r] = answers'[i]
      OBVIOUS
    <3>2. CASE i = Len(answers) + 1
      BY <2>1, <3>1, <3>2
    <3>3. CASE i \in 1..Len(answers)
      BY <2>1, <2>3, <3>3
    <3> QED
      BY <2>1, <3>2, <3>3
  <2>5. \A r \in Requests : received'[r] > 0 => sent'[r] > 0
    BY <2>1
  <2>6. AnsweredWasReceived'
    BY <1>11, <2>1, <2>3
  <2> QED
    BY <2>2, <2>4, <2>5, <2>6
<1>5. CASE ReceiveAnswer
  <2>1. /\ answers # <<>> /\ answers' = Tail(answers)
        /\ UNCHANGED <<wire, received, sent, seq_id>>
    BY <1>5 DEF ReceiveAnswer, id_vars
  <2>2. PICK q \in Requests : received[q] > 0 /\ seq_id[q] = Head(answers)
    BY <2>1
  <2>3. ASSUME NEW r \in answered' \ answered
        PROVE  r \in Requests /\ seq_id[r] = Head(answers)
    BY <1>5, <2>3 DEF ReceiveAnswer, WithId, FirstOf, ListOK
  <2>4. AnsweredWasReceived'
    BY <2>1, <2>2, <2>3 DEF AnsweredWasReceived
  <2> QED
    BY <2>1, <2>4
<1>6. CASE LoseFrame
  <2>1. wire' = Tail(wire) /\ wire # <<>>
        /\ UNCHANGED <<answers, received, sent, seq_id, answered>>
    BY <1>6 DEF LoseFrame, id_vars
  <2> QED
    BY <2>1 DEF AnsweredWasReceived
<1>7. CASE LoseAnswer
  <2>1. answers' = Tail(answers) /\ answers # <<>>
        /\ UNCHANGED <<wire, received, sent, seq_id, answered>>
    BY <1>7 DEF LoseAnswer, id_vars
  <2> QED
    BY <2>1 DEF AnsweredWasReceived
<1>8. ASSUME NEW t \in Threads, WriteFrame(t) PROVE AnswersInv'
  <2>1. msg[t] \in Requests
    BY <1>8, WorksOnRequest DEF WriteFrame, PollPc
  <2> QED
    BY <1>3, <1>8, <2>1 DEF WriteFrame, board_vars
<1>9. CASE Resend
  <2>1. msg[Main] \in Requests
    BY <1>9, WorksOnRequest, ResendAssumption DEF Resend, PollPc, ResendAssumption
  <2> QED
    BY <1>3, <1>9, <2>1 DEF Resend, board_vars
<1>10. ASSUME ~ (\E t \in Threads : WriteFrame(t)), ~ Resend, ~ BoardReceives,
              ~ ReceiveAnswer, ~ LoseFrame, ~ LoseAnswer
       PROVE  UNCHANGED <<wire, answers, received, answered>>
  BY <1>10 DEF Next, Send, Scan, Poll, Call, DrawSeqId, IncrementSeqId, AddNode,
     SelectTimeout, VisitDue, VisitWaiting, CheckCount, ScanEnds, DrawPollId,
     IncrementPollId, WritePoll, WaitElapses, board_vars, vars
<1> QED
  BY <1>2, <1>4, <1>5, <1>6, <1>7, <1>8, <1>9, <1>10

\* An answer takes a frame that the board has executed, or one that shares its
\* number with a frame that went out.
THEOREM AnswersCorrect == Spec => []AnsweredWasReceived
<1>1. Inv /\ AnswersInv /\ [Next]_vars => AnswersInv'
  BY AnswersStep DEF Inv
<1>2. AnswersInv => AnsweredWasReceived
  BY DEF AnswersInv
<1> QED
  BY <1>1, <1>2, AnswersInit, Invariance, PTL DEF Spec

\* A node gets its stamp at the list_add, and no stamp is above the last one.
StampsInv ==
    /\ \A r \in Requests : stamp[r] <= adds
    /\ \A r \in Requests : sent[r] = 0 => stamp[r] = 0
    /\ \A t \in Threads : pc[t] = "add" => stamp[msg[t]] = 0

\* q was listed before r.
Older(q, r, st) == 0 < st[q] /\ st[q] < st[r]

\* What is behind a newer request on the line, or behind the board's having
\* received one, has been sent again.
InOrder(w, got, st, sn) ==
    /\ \A i, j \in 1..Len(w) : i < j /\ Older(w[j], w[i], st) => sn[w[j]] > 1
    /\ \A j \in 1..Len(w), r \in Requests : got[r] > 0 /\ Older(w[j], r, st) => sn[w[j]] > 1

LineInOrder == InOrder(wire, received, stamp, sent)

\* A frame that is written and not yet listed is the last one on the line, or
\* the last one that the board has received.
FreshIsLast ==
    \A t \in Threads : pc[t] = "add" =>
        /\ \A i \in 1..Len(wire) : wire[i] = msg[t] => i = Len(wire)
        /\ received[msg[t]] > 0 => wire = <<>> /\ last = msg[t]

OrderInv == StampsInv /\ LineInOrder /\ FreshIsLast /\ OlderOnlyByResend

LEMMA OrderInit == Init => OrderInv
<1> SUFFICES ASSUME Init PROVE OrderInv
  OBVIOUS
<1> QED
  BY ResendAssumption DEF Init, OrderInv, StampsInv, LineInOrder, InOrder, FreshIsLast,
     OlderOnlyByResend, Older, ResendAssumption

\* Who is between write and list_add was there before.
NoNewAdd == \A t \in Threads : pc'[t] = "add" => pc[t] = "add" /\ msg'[t] = msg[t]

\* Only three steps send or list a frame.
LEMMA OtherSteps ==
    ASSUME Types, [Next]_vars,
           ~ (\E t \in Threads : AddNode(t) \/ WriteFrame(t)), ~ Resend
    PROVE  UNCHANGED <<adds, stamp, sent>> /\ NoNewAdd
<1> USE ResendAssumption DEF ResendAssumption, Types, ThreadsOK
<1>1. UNCHANGED <<adds, stamp, sent>>
  BY DEF Next, Send, Scan, Poll, Call, DrawSeqId, IncrementSeqId, Unlink,
     SelectTimeout, VisitDue, VisitWaiting, CheckCount, ScanEnds, DrawPollId,
     IncrementPollId, WritePoll, WaitElapses, ReceiveAnswer, BoardReceives,
     LoseFrame, LoseAnswer, list_vars, vars
<1>2. ASSUME UNCHANGED <<pc, msg>> PROVE NoNewAdd
  BY <1>2 DEF NoNewAdd
<1>3. ASSUME NEW t \in Threads,
             DrawSeqId(t) \/ IncrementSeqId(t) \/ \E r \in Requests : Call(t, r)
      PROVE  NoNewAdd
  BY <1>3 DEF DrawSeqId, IncrementSeqId, Call, NoNewAdd
<1>4. CASE SelectTimeout \/ Scan \/ Poll
  <2>1. PICK x \in MainPc \ {"add"} : pc' = [pc EXCEPT ![Main] = x]
    BY <1>4 DEF Scan, Poll, SelectTimeout, VisitDue, VisitWaiting, CheckCount,
       ScanEnds, DrawPollId, IncrementPollId, WritePoll, MainPc, SendPc, PollPc
  <2>2. \A t \in Threads \ {Main} : msg'[t] = msg[t]
    BY <1>4 DEF Scan, Poll, SelectTimeout, VisitDue, VisitWaiting, CheckCount,
       ScanEnds, DrawPollId, IncrementPollId, WritePoll
  <2> QED
    BY <1>1, <2>1, <2>2 DEF NoNewAdd
<1>5. CASE \/ ReceiveAnswer \/ BoardReceives \/ LoseFrame \/ LoseAnswer
           \/ (\E r \in Requests : WaitElapses(r)) \/ UNCHANGED vars
  <2>1. UNCHANGED <<pc, msg>>
    BY <1>5 DEF ReceiveAnswer, BoardReceives, LoseFrame, LoseAnswer, WaitElapses, vars
  <2> QED
    BY <1>1, <1>2, <2>1
<1> QED
  BY <1>1, <1>3, <1>4, <1>5 DEF Next, Send

\* The numbering of nodes goes with list_add alone.
LEMMA StampsStep ==
    ASSUME Types, Control, StampsInv, [Next]_vars
    PROVE  StampsInv'
<1> USE DEF Types, ThreadsOK, ListOK, LineOK
<1>1. ASSUME NEW t \in Threads, AddNode(t) PROVE StampsInv'
  <2>1. /\ msg[t] \in Requests /\ sent[msg[t]] = 1 /\ pc[t] = "add"
        /\ \A u \in Threads \ {t} : pc[u] # "add"
    BY <1>1, WorksOnRequest DEF AddNode, PollPc, Control, LockCovers, SendersInv, Sending
  <2> QED
    BY <1>1, <2>1 DEF AddNode, StampsInv
<1>2. ASSUME NEW t \in Threads, WriteFrame(t) PROVE StampsInv'
  <2>1. msg[t] \in Requests /\ sent[msg[t]] = 0
    BY <1>2, WorksOnRequest DEF WriteFrame, PollPc, Control, SendersInv, Sending
  <2> QED
    BY <1>2, <2>1 DEF WriteFrame, Transmit, StampsInv, list_vars
<1>3. CASE Resend
  <2>1. msg[Main] \in Requests
    BY <1>3, WorksOnRequest, ResendAssumption DEF Resend, PollPc, ResendAssumption
  <2> QED
    BY <1>3, <2>1 DEF Resend, Transmit, StampsInv, list_vars
<1>4. ASSUME ~ (\E t \in Threads : AddNode(t) \/ WriteFrame(t)), ~ Resend
      PROVE  UNCHANGED <<adds, stamp, sent>> /\ NoNewAdd
  BY <1>4, OtherSteps
<1>5. CASE UNCHANGED <<adds, stamp, sent>> /\ NoNewAdd
  BY <1>5 DEF StampsInv, NoNewAdd
<1> QED
  BY <1>1, <1>2, <1>3, <1>4, <1>5

\* A frame that has no stamp yet, or goes out again, may be put behind the others.
LEMMA OrderAppend ==
    ASSUME NEW w \in Seq(Requests), NEW got \in [Requests -> Nat],
           NEW st \in [Requests -> Nat], NEW sn \in [Requests -> Nat],
           NEW sn2 \in [Requests -> Nat], NEW x \in Requests,
           InOrder(w, got, st, sn), sn2 = [sn EXCEPT ![x] = @ + 1],
           st[x] = 0 \/ sn2[x] > 1
    PROVE  InOrder(Append(w, x), got, st, sn2)
<1> DEFINE v == Append(w, x)
<1>1. /\ Len(v) = Len(w) + 1 /\ v[Len(w) + 1] = x /\ Len(w) \in Nat
      /\ \A i \in 1..Len(w) : v[i] = w[i] /\ w[i] \in Requests
  OBVIOUS
<1>2. \A q \in Requests : sn[q] > 1 => sn2[q] > 1
  OBVIOUS
<1>3. \A r \in Requests : Older(x, r, st) => sn2[x] > 1
  BY DEF Older
<1>4. \A j \in 1..Len(v) : j = Len(w) + 1 \/ j \in 1..Len(w)
  BY <1>1
<1>5. \A i \in 1..Len(v) : v[i] \in Requests
  BY <1>1, <1>4
<1> HIDE DEF v
<1>6. ASSUME NEW i \in 1..Len(v), NEW j \in 1..Len(v), i < j, Older(v[j], v[i], st)
      PROVE  sn2[v[j]] > 1
  <2>1. CASE j = Len(w) + 1
    BY <1>1, <1>3, <1>5, <1>6, <2>1
  <2>2. CASE j \in 1..Len(w)
    <3>1. i \in 1..Len(w)
      BY <1>1, <1>6, <2>2
    <3>2. v[i] = w[i] /\ v[j] = w[j] /\ w[j] \in Requests
      BY <1>1, <2>2, <3>1
    <3>3. sn[w[j]] > 1
      BY <1>6, <2>2, <3>1, <3>2 DEF InOrder
    <3> QED
      BY <1>2, <3>2, <3>3
  <2> QED
    BY <1>4, <2>1, <2>2
<1>7. ASSUME NEW j \in 1..Len(v), NEW r \in Requests, got[r] > 0, Older(v[j], r, st)
      PROVE  sn2[v[j]] > 1
  <2>1. CASE j = Len(w) + 1
    BY <1>1, <1>3, <1>7, <2>1
  <2>2. CASE j \in 1..Len(w)
    <3>1. v[j] = w[j] /\ w[j] \in Requests
      BY <1>1, <2>2
    <3>2. sn[w[j]] > 1
      BY <1>7, <2>2, <3>1 DEF InOrder
    <3> QED
      BY <1>2, <3>1, <3>2
  <2> QED
    BY <1>4, <2>1, <2>2
<1> QED
  BY <1>6, <1>7 DEF InOrder, v

\* What is the last on the line may become the newest.
LEMMA OrderNewest ==
    ASSUME NEW w \in Seq(Requests), NEW got \in [Requests -> Nat],
           NEW st \in [Requests -> Nat], NEW sn \in [Requests -> Nat],
           NEW x \in Requests, NEW n \in Nat, NEW st2 \in [Requests -> Nat],
           InOrder(w, got, st, sn), st2 = [st EXCEPT ![x] = n],
           \A q \in Requests : st[q] < n,
           \A i \in 1..Len(w) : w[i] = x => i = Len(w),
           got[x] > 0 => w = <<>>
    PROVE  InOrder(w, got, st2, sn)
<1>1. Len(w) \in Nat /\ \A i \in 1..Len(w) : w[i] \in Requests
  OBVIOUS
<1>2. \A q, p \in Requests : Older(q, p, st2) => Older(q, p, st) \/ p = x
  <2> SUFFICES ASSUME NEW q \in Requests, NEW p \in Requests, p # x,
                      Older(q, p, st2)
               PROVE  Older(q, p, st)
    OBVIOUS
  <2>1. st2[p] = st[p] /\ st[p] < n
    OBVIOUS
  <2>2. q # x
    BY <2>1 DEF Older
  <2> QED
    BY <2>1, <2>2 DEF Older
<1>3. ASSUME NEW i \in 1..Len(w), NEW j \in 1..Len(w), i < j, Older(w[j], w[i], st2)
      PROVE  sn[w[j]] > 1
  <2>1. i # Len(w)
    BY <1>1, <1>3
  <2>2. w[i] # x /\ w[i] \in Requests /\ w[j] \in Requests
    BY <1>1, <2>1
  <2>3. Older(w[j], w[i], st)
    BY <1>2, <1>3, <2>2
  <2> QED
    BY <1>3, <2>3 DEF InOrder
<1>4. ASSUME NEW j \in 1..Len(w), NEW r \in Requests, got[r] > 0, Older(w[j], r, st2)
      PROVE  sn[w[j]] > 1
  <2>1. r # x
    BY <1>1, <1>4
  <2>2. Older(w[j], r, st)
    BY <1>1, <1>2, <1>4, <2>1
  <2> QED
    BY <1>4, <2>2 DEF InOrder
<1> QED
  BY <1>3, <1>4 DEF InOrder

\* The line is read from its front.
LEMMA OrderTail ==
    ASSUME NEW w \in Seq(Requests), w # <<>>, NEW got \in [Requests -> Nat],
           NEW st \in [Requests -> Nat], NEW sn \in [Requests -> Nat],
           NEW got2 \in [Requests -> Nat],
           InOrder(w, got, st, sn),
           \A r \in Requests : got2[r] > 0 => got[r] > 0 \/ r = w[1]
    PROVE  InOrder(Tail(w), got2, st, sn)
<1> DEFINE v == Tail(w)
<1>1. /\ Len(w) \in Nat /\ Len(v) = Len(w) - 1 /\ 1 \in 1..Len(w)
      /\ \A i \in 1..Len(v) : i + 1 \in 1..Len(w) /\ v[i] = w[i + 1]
  OBVIOUS
<1> HIDE DEF v
<1>2. ASSUME NEW i \in 1..Len(v), NEW j \in 1..Len(v), i < j, Older(v[j], v[i], st)
      PROVE  sn[v[j]] > 1
  <2>1. /\ i + 1 \in 1..Len(w) /\ v[i] = w[i + 1]
        /\ j + 1 \in 1..Len(w) /\ v[j] = w[j + 1]
    BY <1>1
  <2>2. i \in Int /\ j \in Int /\ i + 1 < j + 1
    BY <1>2
  <2> QED
    BY <1>2, <2>1, <2>2 DEF InOrder
<1>3. ASSUME NEW j \in 1..Len(v), NEW r \in Requests, got2[r] > 0, Older(v[j], r, st)
      PROVE  sn[v[j]] > 1
  <2>1. /\ j + 1 \in 1..Len(w) /\ 1 < j + 1 /\ v[j] = w[j + 1]
    BY <1>1, <1>3
  <2>2. CASE got[r] > 0
    BY <1>3, <2>1, <2>2 DEF InOrder
  <2>3. CASE r = w[1]
    BY <1>1, <1>3, <2>1, <2>3 DEF InOrder
  <2> QED
    BY <1>3, <2>2, <2>3
<1> QED
  BY <1>2, <1>3 DEF InOrder, v

\* A write comes first of all, a retransmission again.
LEMMA OrderTransmit ==
    ASSUME Types, Control, AnswersInv, OrderInv,
           Resend \/ \E t \in Threads : WriteFrame(t)
    PROVE  LineInOrder' /\ FreshIsLast' /\ OlderOnlyByResend'
<1>1. ASSUME NEW x \in Requests, Transmit(x), UNCHANGED <<received, last, stamp>>,
             stamp[x] = 0 \/ sent[x] > 0
      PROVE  LineInOrder' /\ OlderOnlyByResend'
  <2>1. /\ wire' = Append(wire, x) /\ sent' = [sent EXCEPT ![x] = @ + 1]
        /\ sent \in [Requests -> Nat] /\ sent' \in [Requests -> Nat]
        /\ wire \in Seq(Requests) /\ received \in [Requests -> Nat]
        /\ stamp \in [Requests -> Nat]
    BY <1>1 DEF Transmit, Types, LineOK, ListOK
  <2>2. stamp[x] = 0 \/ sent'[x] > 1
    BY <1>1, <2>1
  <2>3. InOrder(wire, received, stamp, sent)
    BY DEF OrderInv, LineInOrder
  <2>4. InOrder(Append(wire, x), received, stamp, sent')
    BY <2>1, <2>2, <2>3, OrderAppend
  <2>5. LineInOrder'
    BY <1>1, <2>1, <2>4 DEF LineInOrder
  <2>6. \A q \in Requests : sent[q] > 1 => sent'[q] > 1
    BY <2>1
  <2>7. OlderOnlyByResend'
    BY <1>1, <2>6 DEF OrderInv, OlderOnlyByResend
  <2> QED
    BY <2>5, <2>7
<1> USE ResendAssumption DEF ResendAssumption, Types, ThreadsOK, OrderInv
<1>2. CASE Resend
  <2>1. /\ msg[Main] \in Requests /\ Transmit(msg[Main])
        /\ UNCHANGED <<received, last, stamp>>
    BY <1>2, WorksOnRequest DEF Resend, PollPc, board_vars, list_vars
  <2>2. sent[msg[Main]] > 0
    BY <1>2, <2>1 DEF Resend, Control, ScanInv, Visiting, SendersInv, ListOK, LineOK
  <2>3. FreshIsLast'
    BY <1>2 DEF Resend, Control, LockCovers, FreshIsLast
  <2> QED
    BY <1>1, <2>1, <2>2, <2>3
<1>3. ASSUME NEW t \in Threads, WriteFrame(t)
      PROVE  LineInOrder' /\ FreshIsLast' /\ OlderOnlyByResend'
  <2>1. /\ msg[t] \in Requests /\ Transmit(msg[t])
        /\ UNCHANGED <<received, last, stamp, msg>> /\ pc' = [pc EXCEPT ![t] = "add"]
    BY <1>3, WorksOnRequest DEF WriteFrame, PollPc, board_vars, list_vars
  <2>2. sent[msg[t]] = 0
    BY <1>3 DEF WriteFrame, Control, SendersInv, Sending
  <2>3. stamp[msg[t]] = 0
    BY <2>1, <2>2 DEF StampsInv
  <2>4. ~ received[msg[t]] > 0
    BY <2>1, <2>2 DEF AnswersInv
  <2>5. FreshIsLast'
    <3>1. \A u \in Threads : pc'[u] = "add" => u = t
      BY <1>3, <2>1 DEF WriteFrame, Control, LockCovers
    <3>2. \A i \in 1..Len(wire) : wire[i] # msg[t]
      BY <2>1, <2>2 DEF AnswersInv
    <3>3. /\ Len(wire) \in Nat /\ Len(wire') = Len(wire) + 1
          /\ \A i \in 1..Len(wire) : wire'[i] = wire[i]
      BY <2>1 DEF Transmit, LineOK
    <3>4. \A i \in 1..Len(wire') : wire'[i] = msg[t] => i = Len(wire')
      BY <3>2, <3>3
    <3> QED
      BY <2>1, <2>4, <3>1, <3>4 DEF FreshIsLast
  <2> QED
    BY <1>1, <2>1, <2>3, <2>5
<1> QED
  BY <1>2, <1>3

\* What is listed was the last on the line, so nothing older is behind it.
LEMMA OrderAdd ==
    ASSUME Types, Control, OrderInv, NEW t \in Threads, AddNode(t)
    PROVE  LineInOrder' /\ FreshIsLast' /\ OlderOnlyByResend'
<1>1. PICK r \in Requests : r = msg[t]
  BY WorksOnRequest DEF AddNode, PollPc, Types
<1>2. /\ stamp' = [stamp EXCEPT ![r] = adds + 1] /\ pc[t] = "add"
      /\ UNCHANGED <<wire, received, last, sent, msg>> /\ pc' = [pc EXCEPT ![t] = "idle"]
  BY <1>1 DEF AddNode, board_vars
<1>3. /\ stamp \in [Requests -> Nat] /\ stamp' \in [Requests -> Nat] /\ adds + 1 \in Nat
      /\ received \in [Requests -> Nat] /\ sent \in [Requests -> Nat]
      /\ wire \in Seq(Requests)
  BY <1>2 DEF Types, ListOK, LineOK
<1>4. \A q \in Requests : stamp[q] < adds + 1
  BY <1>3 DEF OrderInv, StampsInv, Types, ListOK
<1>5. /\ \A i \in 1..Len(wire) : wire[i] = r => i = Len(wire)
      /\ received[r] > 0 => wire = <<>> /\ last = r
  BY <1>1, <1>2 DEF OrderInv, FreshIsLast
<1>6. InOrder(wire, received, stamp, sent)
  BY DEF OrderInv, LineInOrder
<1>7. InOrder(wire, received, stamp', sent)
  BY <1>2, <1>3, <1>4, <1>5, <1>6, OrderNewest
<1>8. LineInOrder'
  BY <1>2, <1>7 DEF LineInOrder
<1>9. OlderOnlyByResend'
  <2> SUFFICES ASSUME NEW q \in Requests, NEW p \in Requests, last = q,
                      received[p] > 0, 0 < stamp'[q], stamp'[q] < stamp'[p]
               PROVE  sent[q] > 1
    BY <1>2 DEF OlderOnlyByResend
  <2>1. p # r
    BY <1>2, <1>3, <1>5
  <2>2. q # r
    BY <1>2, <1>3, <1>4, <2>1
  <2> QED
    BY <1>2, <1>3, <2>1, <2>2 DEF OrderInv, OlderOnlyByResend
<1>10. FreshIsLast'
  BY <1>2 DEF FreshIsLast, Control, LockCovers, Types, ThreadsOK
<1> QED
  BY <1>8, <1>9, <1>10

\* The line is read from its front.
LEMMA OrderRead ==
    ASSUME Types, OrderInv, BoardReceives \/ LoseFrame
    PROVE  LineInOrder' /\ FreshIsLast' /\ OlderOnlyByResend'
<1>1. /\ wire \in Seq(Requests) /\ wire # <<>> /\ wire' = Tail(wire)
      /\ UNCHANGED <<pc, msg, stamp, sent>>
      /\ received \in [Requests -> Nat] /\ stamp \in [Requests -> Nat]
      /\ sent \in [Requests -> Nat]
  BY DEF BoardReceives, LoseFrame, list_vars, Types, LineOK, ListOK
<1>2. Len(wire) \in Nat /\ 1 \in 1..Len(wire) /\ wire[1] \in Requests
  BY <1>1
<1>3. \/ UNCHANGED <<received, last>>
      \/ last' = wire[1] /\ received' = [received EXCEPT ![wire[1]] = @ + 1]
  <2>1. Head(wire) = wire[1]
    BY <1>1
  <2> QED
    BY <2>1 DEF BoardReceives, LoseFrame
<1>4. received' \in [Requests -> Nat]
  <2>1. received[wire[1]] + 1 \in Nat
    BY <1>1, <1>2
  <2> QED
    BY <1>1, <1>3, <2>1
<1>5. \A r \in Requests : received'[r] > 0 => received[r] > 0 \/ r = wire[1]
  BY <1>1, <1>2, <1>3
<1>6. InOrder(wire, received, stamp, sent)
  BY DEF OrderInv, LineInOrder
<1>7. InOrder(Tail(wire), received', stamp, sent)
  BY <1>1, <1>4, <1>5, <1>6, OrderTail
<1>8. LineInOrder'
  BY <1>1, <1>7 DEF LineInOrder
<1>9. OlderOnlyByResend'
  <2> SUFFICES ASSUME NEW q \in Requests, NEW r \in Requests,
                      last' = q, received'[r] > 0, 0 < stamp[q], stamp[q] < stamp[r]
               PROVE  sent[q] > 1
    BY <1>1 DEF OlderOnlyByResend
  <2>1. CASE UNCHANGED <<received, last>>
    BY <2>1 DEF OrderInv, OlderOnlyByResend
  <2>2. CASE last' = wire[1] /\ received' = [received EXCEPT ![wire[1]] = @ + 1]
    <3>1. r # q
      BY <1>1
    <3>2. received[r] > 0
      BY <1>5, <2>2, <3>1
    <3> QED
      BY <1>2, <1>6, <2>2, <3>2 DEF InOrder, Older
  <2> QED
    BY <1>3, <2>1, <2>2
<1>10. FreshIsLast'
  <2> SUFFICES ASSUME NEW t \in Threads, pc[t] = "add"
               PROVE  /\ \A i \in 1..Len(wire') : wire'[i] = msg[t] => i = Len(wire')
                      /\ received'[msg[t]] > 0 => wire' = <<>> /\ last' = msg[t]
    BY <1>1 DEF FreshIsLast
  <2>1. msg[t] \in Requests
    BY WorksOnRequest DEF PollPc, Types
  <2>2. /\ \A i \in 1..Len(wire) : wire[i] = msg[t] => i = Len(wire)
        /\ ~ received[msg[t]] > 0
    BY <1>1 DEF OrderInv, FreshIsLast
  <2>3. /\ Len(wire') = Len(wire) - 1
        /\ \A i \in 1..Len(wire') : i + 1 \in 1..Len(wire) /\ wire'[i] = wire[i + 1]
    BY <1>1, <1>2
  <2>4. \A i \in 1..Len(wire') : wire'[i] = msg[t] => i = Len(wire')
    <3> SUFFICES ASSUME NEW i \in 1..Len(wire'), wire'[i] = msg[t]
                 PROVE  i = Len(wire')
      OBVIOUS
    <3>1. i + 1 = Len(wire)
      BY <2>2, <2>3
    <3> QED
      BY <1>2, <2>3, <3>1
  <2>5. ASSUME received'[msg[t]] > 0 PROVE wire' = <<>> /\ last' = msg[t]
    <3>1. msg[t] = wire[1]
      BY <1>5, <2>1, <2>2, <2>5
    <3>2. last' = msg[t]
      BY <1>3, <2>2, <2>5, <3>1
    <3>3. Len(wire') = 0
      BY <1>2, <2>2, <2>3, <3>1
    <3>4. wire' \in Seq(Requests)
      BY <1>1
    <3> QED
      BY <3>2, <3>3, <3>4, EmptySeq
  <2> QED
    BY <2>4, <2>5
<1> QED
  BY <1>8, <1>9, <1>10

\* Every step keeps the order.
LEMMA OrderStep ==
    ASSUME Types, Control, AnswersInv, OrderInv, [Next]_vars
    PROVE  OrderInv'
<1>1. StampsInv'
  BY StampsStep DEF OrderInv
<1>2. CASE Resend \/ \E t \in Threads : WriteFrame(t)
  BY <1>1, <1>2, OrderTransmit DEF OrderInv
<1>3. CASE \E t \in Threads : AddNode(t)
  BY <1>1, <1>3, OrderAdd DEF OrderInv
<1>4. CASE BoardReceives \/ LoseFrame
  BY <1>1, <1>4, OrderRead DEF OrderInv
<1>5. ASSUME ~ (\E t \in Threads : AddNode(t) \/ WriteFrame(t)), ~ Resend,
             ~ BoardReceives, ~ LoseFrame
      PROVE  OrderInv'
  <2>1. UNCHANGED <<stamp, sent>> /\ NoNewAdd
    BY <1>5, OtherSteps
  <2>2. UNCHANGED <<wire, received, last>>
    BY <1>5 DEF Next, Send, Scan, Poll, Call, DrawSeqId, IncrementSeqId,
       SelectTimeout, VisitDue, VisitWaiting, CheckCount, ScanEnds, DrawPollId,
       IncrementPollId, WritePoll, WaitElapses, ReceiveAnswer, LoseAnswer,
       board_vars, vars
  <2>3. LineInOrder' /\ OlderOnlyByResend'
    BY <2>1, <2>2 DEF OrderInv, LineInOrder, OlderOnlyByResend
  <2>4. FreshIsLast'
    BY <2>1, <2>2 DEF OrderInv, FreshIsLast, NoNewAdd
  <2> QED
    BY <1>1, <2>3, <2>4 DEF OrderInv
<1> QED
  BY <1>2, <1>3, <1>4, <1>5

\* The board goes back to an older request by a retransmission only.
THEOREM OrderCorrect == Spec => []OlderOnlyByResend
<1>1. Inv /\ AnswersInv /\ OrderInv /\ [Next]_vars => AnswersInv' /\ OrderInv'
  BY AnswersStep, OrderStep DEF Inv
<1>2. OrderInv => OlderOnlyByResend
  BY DEF OrderInv
<1> QED
  BY <1>1, <1>2, AnswersInit, OrderInit, Invariance, PTL DEF Spec

-----------------------------------------------------------------------------
(***************************************************************************)
(* Refinement                                                              *)
(***************************************************************************)
InHand(r) == r \in list \/ \E t \in Threads : pc[t] = "add" /\ msg[t] = r
Unmoved(q) ==
    /\ q \in answered' <=> q \in answered
    /\ sent'[q] = sent[q]
    /\ InHand(q)' <=> InHand(q)

\* What State says of a request before a step.
LEMMA StateIs ==
    ASSUME NEW r \in Requests
    PROVE  /\ r \notin answered /\ sent[r] = 0 => State(r) = "new"
           /\ r \notin answered /\ sent[r] # 0 /\ InHand(r) => State(r) = "open"
  BY DEF State, InHand

\* What it says after one.
LEMMA StateBecomes ==
    ASSUME NEW r \in Requests
    PROVE  /\ r \in answered' => State(r)' = "answered"
           /\ r \notin answered' /\ sent'[r] # 0 /\ InHand(r)' => State(r)' = "open"
           /\ r \notin answered' /\ sent'[r] # 0 /\ ~ InHand(r)' => State(r)' = "given up"
  BY DEF State, InHand

\* A request that none of its marks changes keeps its state ...
LEMMA StateStays ==
    ASSUME NEW q \in Requests, Unmoved(q) PROVE State(q)' = State(q)
  BY DEF State, InHand, Unmoved

\* ... and if all do the step is a stutter of the delivery.
LEMMA Stutters ==
    ASSUME sent' = sent, \A q \in Requests : Unmoved(q)
    PROVE  UNCHANGED Delivery!vars
  BY StateStays DEF Delivery!vars

\* If all but one do, the states differ in that request.
LEMMA OneMoves ==
    ASSUME NEW r \in Requests, \A q \in Requests \ {r} : Unmoved(q)
    PROVE  [q \in Requests |-> State(q)]'
             = [[q \in Requests |-> State(q)] EXCEPT ![r] = State(r)']
  BY StateStays

\* The write of a new request is its first transmission.
LEMMA WriteRefines ==
    ASSUME Types, Control, NEW t \in Threads, WriteFrame(t)
    PROVE  Delivery!Next
<1> USE DEF Types, Control, ThreadsOK, LineOK
<1>1. PICK r \in Requests : r = msg[t]
  BY WorksOnRequest DEF WriteFrame, PollPc
<1>2. r \notin list \cup answered /\ sent[r] = 0
  BY <1>1 DEF WriteFrame, SendersInv, Sending
<1>3. sent' = [sent EXCEPT ![r] = 1] /\ answered' = answered
  BY <1>1, <1>2 DEF WriteFrame, Transmit
<1>4. State(r) = "new"
  BY <1>2, StateIs
<1>5. State(r)' = "open"
  <2>1. InHand(r)'
    BY <1>1 DEF WriteFrame, InHand
  <2>2. sent'[r] # 0 /\ r \notin answered'
    BY <1>2, <1>3
  <2> QED
    BY <2>1, <2>2, StateBecomes
<1>6. \A q \in Requests \ {r} : Unmoved(q)
  BY <1>1, <1>3 DEF WriteFrame, Unmoved, InHand, list_vars
<1>7. Delivery!First(r)
  BY <1>3, <1>4, <1>5, <1>6, OneMoves DEF Delivery!First
<1> QED
  BY <1>7 DEF Delivery!Next

\* resend_cb transmits once more, before the last time.
LEMMA ResendRefines ==
    ASSUME Types, Control, Resend
    PROVE  Delivery!Next
<1> USE ResendAssumption DEF ResendAssumption, Types, Control, ThreadsOK, LineOK, ListOK
<1>1. PICK r \in list : r = msg[Main]
  BY DEF Resend, ScanInv, Visiting
<1>2. r \in Requests /\ r \notin answered /\ sent[r] # 0
  BY DEF SendersInv, ScanInv
<1>3. sent[r] < RESEND_CNT + 1
  BY <1>1, <1>2 DEF Resend, CountsAddUp
<1>4. sent' = [sent EXCEPT ![r] = @ + 1] /\ answered' = answered
  BY <1>1 DEF Resend, Transmit
<1>5. \A q \in Requests : InHand(q)' <=> InHand(q)
  BY DEF Resend, InHand, list_vars
<1>6. State(r) = "open" /\ State(r)' = "open"
  <2>1. InHand(r) /\ InHand(r)'
    BY <1>2, <1>5 DEF InHand
  <2>2. sent'[r] # 0
    BY <1>2, <1>4
  <2> QED
    BY <1>2, <1>4, <2>1, <2>2, StateIs, StateBecomes
<1>7. \A q \in Requests \ {r} : Unmoved(q)
  BY <1>2, <1>4, <1>5 DEF Unmoved
<1>8. UNCHANGED [q \in Requests |-> State(q)]
  BY <1>2, <1>6, <1>7, StateStays
<1>9. Delivery!Again(r)
  BY <1>2, <1>3, <1>4, <1>6, <1>8 DEF Delivery!Again
<1> QED
  BY <1>2, <1>9 DEF Delivery!Next

\* A node with no transmission left is taken off: its frame is given up.
LEMMA CheckRefines ==
    ASSUME Types, Control, CheckCount
    PROVE  Delivery!Next \/ UNCHANGED Delivery!vars
<1> USE ResendAssumption DEF ResendAssumption, Types, Control, ThreadsOK, LineOK, ListOK
<1>1. PICK r \in list : r = msg[Main]
  BY DEF CheckCount, ScanInv, Visiting
<1>2. r \in Requests /\ r \notin answered
  BY DEF ScanInv
<1>3. UNCHANGED <<sent, answered, msg>> /\ pc' = [pc EXCEPT ![Main] = "scan"]
  BY DEF CheckCount
<1>4. CASE resend_cnt[r] = 0
  <2>1. sent[r] = RESEND_CNT + 1
    BY <1>1, <1>2, <1>4 DEF CheckCount, CountsAddUp
  <2>2. list' = list \ {r}
    BY <1>1, <1>4 DEF CheckCount, Unlink
  <2>3. State(r) = "open"
    BY <1>2, <2>1, StateIs DEF InHand
  <2>4. State(r)' = "given up"
    <3>1. ~ InHand(r)'
      BY <1>1, <1>3, <2>2 DEF CheckCount, InHand, SendersInv, Sending
    <3>2. sent'[r] # 0 /\ r \notin answered'
      BY <1>2, <1>3, <2>1
    <3> QED
      BY <1>2, <3>1, <3>2, StateBecomes
  <2>5. \A q \in Requests \ {r} : Unmoved(q)
    BY <1>3, <2>2 DEF CheckCount, Unmoved, InHand
  <2>6. Delivery!GiveUp(r)
    BY <1>2, <1>3, <2>1, <2>3, <2>4, <2>5, OneMoves DEF Delivery!GiveUp
  <2> QED
    BY <1>2, <2>6 DEF Delivery!Next
<1>5. CASE resend_cnt[r] # 0
  <2>1. list' = list
    BY <1>1, <1>5 DEF CheckCount, list_vars
  <2>2. \A q \in Requests : Unmoved(q)
    BY <1>3, <2>1 DEF CheckCount, Unmoved, InHand
  <2> QED
    BY <1>3, <2>2, Stutters
<1> QED
  BY <1>4, <1>5

\* An answer takes an open request, or none.
LEMMA AnswerRefines ==
    ASSUME Types, Control, ReceiveAnswer
    PROVE  Delivery!Next \/ UNCHANGED Delivery!vars
<1> USE DEF Types, Control, ThreadsOK, LineOK, ListOK
<1>1. UNCHANGED <<pc, msg, sent>>
  BY DEF ReceiveAnswer
<1>2. CASE UNCHANGED <<list, answered>>
  <2>1. \A q \in Requests : Unmoved(q)
    BY <1>1, <1>2 DEF Unmoved, InHand
  <2> QED
    BY <1>1, <2>1, Stutters
<1>3. ASSUME NEW r \in list, Unlink(r), answered' = answered \cup {r}
      PROVE  Delivery!Next
  <2>1. r \in Requests /\ r \notin answered /\ sent[r] # 0
    BY DEF SendersInv, ScanInv
  <2>2. State(r) = "open" /\ State(r)' = "answered"
    BY <1>3, <2>1, StateIs, StateBecomes DEF InHand
  <2>3. \A q \in Requests \ {r} : Unmoved(q)
    BY <1>1, <1>3 DEF Unlink, Unmoved, InHand
  <2>4. Delivery!Answered(r)
    BY <1>1, <2>1, <2>2, <2>3, OneMoves DEF Delivery!Answered
  <2> QED
    BY <2>1, <2>4 DEF Delivery!Next
<1> QED
  BY <1>2, <1>3 DEF ReceiveAnswer, WithId, FirstOf, list_vars

\* Nothing else moves a request.
LEMMA RestStutters ==
    ASSUME Types, Control,
           \/ \E t \in Threads : \/ DrawSeqId(t) \/ IncrementSeqId(t) \/ AddNode(t)
                                 \/ \E r \in Requests : Call(t, r)
           \/ SelectTimeout \/ ScanEnds \/ Poll
           \/ \E r \in Requests : VisitDue(r) \/ VisitWaiting(r) \/ WaitElapses(r)
           \/ BoardReceives \/ LoseFrame \/ LoseAnswer \/ UNCHANGED vars
    PROVE  UNCHANGED Delivery!vars
<1> USE ResendAssumption DEF ResendAssumption, Types, Control, ThreadsOK, LineOK, ListOK
<1>1. sent' = sent /\ answered' = answered
  BY DEF DrawSeqId, IncrementSeqId, AddNode, Call, SelectTimeout, ScanEnds, Poll, DrawPollId,
         IncrementPollId, WritePoll, VisitDue, VisitWaiting, WaitElapses, BoardReceives,
         LoseFrame, LoseAnswer, vars
<1>2. \A q \in Requests : InHand(q)' <=> InHand(q)
  <2>1. ASSUME NEW t \in Threads, AddNode(t)
        PROVE  \A q \in Requests : InHand(q)' <=> InHand(q)
    BY <2>1 DEF AddNode, InHand
  <2>2. ASSUME NEW t \in Threads,
               DrawSeqId(t) \/ IncrementSeqId(t) \/ \E r \in Requests : Call(t, r)
        PROVE \A q \in Requests : InHand(q)' <=> InHand(q)
    BY <2>2 DEF DrawSeqId, IncrementSeqId, Call, InHand, list_vars
  <2>3. CASE SelectTimeout \/ ScanEnds \/ Poll
    BY <2>3 DEF SelectTimeout, ScanEnds, Poll, DrawPollId, IncrementPollId, WritePoll,
                InHand, list_vars
  <2>4. ASSUME NEW r \in Requests, VisitDue(r) \/ VisitWaiting(r)
        PROVE \A q \in Requests : InHand(q)' <=> InHand(q)
    BY <2>4 DEF VisitDue, VisitWaiting, InHand, list_vars
  <2>5. CASE \/ (\E r \in Requests : WaitElapses(r))
             \/ BoardReceives \/ LoseFrame \/ LoseAnswer \/ UNCHANGED vars
    BY <2>5 DEF WaitElapses, BoardReceives, LoseFrame, LoseAnswer, vars, InHand, list_vars
  <2> QED
    BY <2>1, <2>2, <2>3, <2>4, <2>5
<1>3. \A q \in Requests : Unmoved(q)
  BY <1>1, <1>2 DEF Unmoved
<1> QED
  BY <1>1, <1>3, Stutters

\* Sending, resending, giving up and answering do what FrameDelivery says: a
\* frame goes out at most RESEND_CNT + 1 times, never after its answer was
\* taken off the list, and is given up only after the last time.
THEOREM ResendImplementsDelivery == Spec => ImplementsDelivery
<1>1. Init => Delivery!Init
  <2> SUFFICES ASSUME Init PROVE Delivery!Init
    OBVIOUS
  <2>1. \A r \in Requests : State(r) = "new"
    BY StateIs DEF Init
  <2> QED
    BY <2>1 DEF Init, Delivery!Init
<1>2. Inv /\ [Next]_vars => [Delivery!Next]_(Delivery!vars)
  <2> SUFFICES ASSUME Types, Control, [Next]_vars
               PROVE  Delivery!Next \/ UNCHANGED Delivery!vars
    BY DEF Inv
  <2>1. CASE \E t \in Threads : WriteFrame(t)
    BY <2>1, WriteRefines
  <2>2. CASE Resend
    BY <2>2, ResendRefines
  <2>3. CASE CheckCount
    BY <2>3, CheckRefines
  <2>4. CASE ReceiveAnswer
    BY <2>4, AnswerRefines
  <2>5. ASSUME ~ (\E t \in Threads : WriteFrame(t)), ~ Resend, ~ CheckCount, ~ ReceiveAnswer
        PROVE  UNCHANGED Delivery!vars
    BY <2>5, RestStutters DEF Next, Send, Scan
  <2> QED
    BY <2>1, <2>2, <2>3, <2>4, <2>5
<1> QED
  BY <1>1, <1>2, Invariance, PTL DEF Spec, ImplementsDelivery, Delivery!Spec
=============================================================================
