----------------------------- MODULE EcbResend -----------------------------
(***************************************************************************)
(* Frames from the X50 server process to the power board (ECB).            *)
(*                                                                         *)
(* A frame that must arrive (SET, STORE) is written to the serial line and *)
(* put on ECB_LIST_RESEND.  The main thread takes it off when the board    *)
(* answers with its sequence number, and otherwise writes it again, twice, *)
(* from the select loop's timeout.  Senders run on other threads: they     *)
(* hold `lock' from the write to the list_add, but the sequence number is  *)
(* drawn before that without any lock, and the main thread reads the list  *)
(* without it.                                                             *)
(*                                                                         *)
(* The main thread draws a number for each GET, too, but no GET is listed. *)
(*                                                                         *)
(* Here a list operation is one step; ResendList takes it apart.  The list *)
(* is the set of its nodes, `stamp' telling which was added later (and is  *)
(* therefore found first).  The board and the line are external: the line  *)
(* keeps the order and may lose frames, the board answers every frame.     *)
(***************************************************************************)
EXTENDS Integers, Sequences

CONSTANTS
    Requests,     \* frames sent with resend = 1
    Threads,      \* threads that send
    Main,         \* the thread of uart_task, which also receives
    SenderOf,     \* the thread each request comes from
    RESEND_CNT,   \* transmissions after the first
    SEQ_SPACE,    \* ecb_seq_id is an unsigned short: 2^16
    MaxLosses,    \* bound: frames and answers lost on the line
    MaxPolls,     \* bound: GET frames
    NoThread,     \* nobody holds the lock
    NoRequest     \* a thread that has not sent yet

ASSUME ResendAssumption ==
    /\ Main \in Threads
    /\ SenderOf \in [Requests -> Threads]
    /\ RESEND_CNT \in Nat \ {0}
    /\ SEQ_SPACE \in Nat \ {0}
    /\ MaxLosses \in Nat /\ MaxPolls \in Nat
    /\ NoThread \notin Threads /\ NoRequest \notin Requests

VARIABLES
    ecb_seq_id,   \* the number the next frame gets
    pc,           \* where each thread is
    msg,          \* the request each thread is working on
    seq_id,       \* sequence number of each request
    poll_id,      \* sequence number of the last GET
    polls,        \* how many GET were begun
    lock,         \* holder of the mutex of ecb_uart_send
    list,         \* ECB_LIST_RESEND
    adds,         \* how many nodes were ever added
    stamp,        \* which of them a request's node was
    resend_cnt,   \* transmissions left of a listed request
    due,          \* listed requests whose wait_tick has passed
    todo,         \* nodes resend_list_each has still to visit
    wire,         \* frames on their way to the board
    answers,      \* sequence numbers on their way back
    losses,       \* how many frames and answers were lost
    sent,         \* history: transmissions of each request
    received,     \* history: how often the board got each request
    last,         \* the request that the board got last and goes by
    answered      \* history: requests an answer took off the list

poll_vars == <<poll_id, polls>>
id_vars == <<ecb_seq_id, seq_id, poll_vars>>
list_vars == <<list, adds, stamp, resend_cnt, due>>
board_vars == <<answers, losses, received, last>>
vars == <<ecb_seq_id, pc, msg, seq_id, poll_id, polls, lock, list, adds, stamp, resend_cnt,
          due, todo, wire, answers, losses, sent, received, last, answered>>

Ids == 0 .. SEQ_SPACE - 1
SendPc == {"idle", "draw", "increment", "write", "add"}
PollPc == {"poll", "poll increment", "poll write"}
MainPc == SendPc \cup PollPc \cup {"scan", "resend", "check"}

Init ==
    /\ ecb_seq_id = 0
    /\ pc = [t \in Threads |-> "idle"]
    /\ msg = [t \in Threads |-> NoRequest]
    /\ seq_id = [r \in Requests |-> 0] /\ poll_id = 0 /\ polls = 0
    /\ lock = NoThread
    /\ list = {} /\ due = {} /\ todo = {} /\ answered = {}
    /\ adds = 0 /\ stamp = [r \in Requests |-> 0]
    /\ resend_cnt = [r \in Requests |-> 0]
    /\ wire = <<>> /\ answers = <<>> /\ losses = 0
    /\ sent = [r \in Requests |-> 0]
    /\ received = [r \in Requests |-> 0] /\ last = NoRequest

(***************************************************************************)
(* ecb_uart_send_msg with resend = 1, on any thread                        *)
(***************************************************************************)
Call(t, r) ==
    /\ pc[t] = "idle" /\ SenderOf[r] = t
    /\ sent[r] = 0
    /\ pc' = [pc EXCEPT ![t] = "draw"]
    /\ msg' = [msg EXCEPT ![t] = r]
    /\ UNCHANGED <<id_vars, lock, list_vars, todo, wire, board_vars, sent, answered>>

\* seq_id = ecb_seq_id++ reads ...
DrawSeqId(t) ==
    /\ pc[t] = "draw"
    /\ seq_id' = [seq_id EXCEPT ![msg[t]] = ecb_seq_id]
    /\ pc' = [pc EXCEPT ![t] = "increment"]
    /\ UNCHANGED <<ecb_seq_id, poll_vars, msg, lock, list_vars, todo, wire,
                   board_vars, sent, answered>>

\* ... and stores: another thread may have read in between
IncrementSeqId(t) ==
    /\ pc[t] = "increment"
    /\ ecb_seq_id' = (seq_id[msg[t]] + 1) % SEQ_SPACE
    /\ pc' = [pc EXCEPT ![t] = "write"]
    /\ UNCHANGED <<seq_id, poll_vars, msg, lock, list_vars, todo, wire,
                   board_vars, sent, answered>>

Transmit(r) ==
    /\ wire' = Append(wire, r)
    /\ sent' = [sent EXCEPT ![r] = @ + 1]

WriteFrame_Unlocked(t) ==
    /\ pc[t] = "write"
    /\ Transmit(msg[t])
    /\ pc' = [pc EXCEPT ![t] = "add"]
    /\ UNCHANGED <<id_vars, msg, lock, list_vars, todo, board_vars, answered>>

WriteFrame(t) ==
    /\ pc[t] = "write"
    /\ lock = NoThread
    /\ lock' = t
    /\ Transmit(msg[t])
    /\ pc' = [pc EXCEPT ![t] = "add"]
    /\ UNCHANGED <<id_vars, msg, list_vars, todo, board_vars, answered>>

AddNode_Forgotten(t) ==
    /\ pc[t] = "add"
    /\ lock' = NoThread
    /\ pc' = [pc EXCEPT ![t] = "idle"]
    /\ UNCHANGED <<id_vars, msg, list_vars, todo, wire, board_vars, sent, answered>>

\* the node goes to the head of the list: it is found before the older ones
AddNode(t) ==
    LET r == msg[t] IN
    /\ pc[t] = "add"
    /\ list' = list \cup {r}
    /\ adds' = adds + 1
    /\ stamp' = [stamp EXCEPT ![r] = adds + 1]
    /\ resend_cnt' = [resend_cnt EXCEPT ![r] = RESEND_CNT]
    /\ lock' = NoThread
    /\ pc' = [pc EXCEPT ![t] = "idle"]
    /\ UNCHANGED <<id_vars, msg, due, todo, wire, board_vars, sent, answered>>

(***************************************************************************)
(* resend_list_each, from ecb_timeout_cb on the main thread                *)
(***************************************************************************)
FirstOf(S) == {r \in S : \A q \in S : stamp[q] <= stamp[r]}

\* list_del and free
Unlink(r) ==
    /\ list' = list \ {r}
    /\ due' = due \ {r}
    /\ UNCHANGED <<adds, stamp, resend_cnt>>

SelectTimeout ==
    /\ pc[Main] = "idle"
    /\ todo' = list
    /\ pc' = [pc EXCEPT ![Main] = "scan"]
    /\ UNCHANGED <<id_vars, msg, lock, list_vars, wire, board_vars, sent, answered>>

VisitDue_NotCounted(r) ==
    /\ pc[Main] = "scan"
    /\ r \in FirstOf(todo) /\ resend_cnt[r] > 0 /\ r \in due
    /\ due' = due \ {r}
    /\ pc' = [pc EXCEPT ![Main] = "resend"]
    /\ msg' = [msg EXCEPT ![Main] = r]
    /\ UNCHANGED <<id_vars, lock, list, adds, stamp, resend_cnt, todo, wire,
                   board_vars, sent, answered>>

VisitDue(r) ==
    /\ pc[Main] = "scan"
    /\ r \in FirstOf(todo) /\ resend_cnt[r] > 0 /\ r \in due
    /\ due' = due \ {r}
    /\ resend_cnt' = [resend_cnt EXCEPT ![r] = @ - 1]
    /\ pc' = [pc EXCEPT ![Main] = "resend"]
    /\ msg' = [msg EXCEPT ![Main] = r]
    /\ UNCHANGED <<id_vars, lock, list, adds, stamp, todo, wire, board_vars,
                   sent, answered>>

VisitWaiting(r) ==
    /\ pc[Main] = "scan"
    /\ r \in FirstOf(todo)
    /\ resend_cnt[r] = 0 \/ r \notin due
    /\ pc' = [pc EXCEPT ![Main] = "check"]
    /\ msg' = [msg EXCEPT ![Main] = r]
    /\ UNCHANGED <<id_vars, lock, list_vars, todo, wire, board_vars, sent,
                   answered>>

\* resend_cb is ecb_uart_send: it waits for the lock, writes and unlocks
Resend ==
    /\ pc[Main] = "resend"
    /\ lock = NoThread
    /\ Transmit(msg[Main])
    /\ pc' = [pc EXCEPT ![Main] = "check"]
    /\ UNCHANGED <<id_vars, msg, lock, list_vars, todo, board_vars, answered>>

CheckCount_NeverGivesUp ==
    /\ pc[Main] = "check"
    /\ todo' = todo \ {msg[Main]}
    /\ pc' = [pc EXCEPT ![Main] = "scan"]
    /\ UNCHANGED <<id_vars, msg, lock, list_vars, wire, board_vars, sent, answered>>

CheckCount_AtOne ==
    /\ pc[Main] = "check"
    /\ IF resend_cnt[msg[Main]] <= 1 THEN Unlink(msg[Main])
                                     ELSE UNCHANGED list_vars
    /\ todo' = todo \ {msg[Main]}
    /\ pc' = [pc EXCEPT ![Main] = "scan"]
    /\ UNCHANGED <<id_vars, msg, lock, wire, board_vars, sent, answered>>

CheckCount ==
    /\ pc[Main] = "check"
    /\ IF resend_cnt[msg[Main]] = 0 THEN Unlink(msg[Main])
                                    ELSE UNCHANGED list_vars
    /\ todo' = todo \ {msg[Main]}
    /\ pc' = [pc EXCEPT ![Main] = "scan"]
    /\ UNCHANGED <<id_vars, msg, lock, wire, board_vars, sent, answered>>

\* the rest of ecb_timeout_cb: a GET is due, or not
ScanEnds ==
    /\ pc[Main] = "scan" /\ todo = {}
    /\ \/ pc' = [pc EXCEPT ![Main] = "idle"] /\ UNCHANGED polls
       \/ /\ polls < MaxPolls /\ polls' = polls + 1
          /\ pc' = [pc EXCEPT ![Main] = "poll"]
    /\ UNCHANGED <<ecb_seq_id, seq_id, poll_id, msg, lock, list_vars, todo,
                   wire, board_vars, sent, answered>>

(***************************************************************************)
(* ecb_uart_send_msg with resend = 0: GET, on the main thread              *)
(***************************************************************************)
DrawPollId ==
    /\ pc[Main] = "poll"
    /\ poll_id' = ecb_seq_id
    /\ pc' = [pc EXCEPT ![Main] = "poll increment"]
    /\ UNCHANGED <<ecb_seq_id, seq_id, polls, msg, lock, list_vars, todo, wire,
                   board_vars, sent, answered>>

IncrementPollId ==
    /\ pc[Main] = "poll increment"
    /\ ecb_seq_id' = (poll_id + 1) % SEQ_SPACE
    /\ pc' = [pc EXCEPT ![Main] = "poll write"]
    /\ UNCHANGED <<seq_id, poll_vars, msg, lock, list_vars, todo, wire,
                   board_vars, sent, answered>>

\* it is answered by GETACK, which leaves the list alone
WritePoll ==
    /\ pc[Main] = "poll write"
    /\ lock = NoThread
    /\ pc' = [pc EXCEPT ![Main] = "idle"]
    /\ UNCHANGED <<id_vars, msg, lock, list_vars, todo, wire, board_vars, sent,
                   answered>>

\* RESEND_WAIT_TICK passes for a listed frame
WaitElapses(r) ==
    /\ r \in list \ due
    /\ due' = due \cup {r}
    /\ UNCHANGED <<id_vars, pc, msg, lock, list, adds, stamp, resend_cnt, todo,
                   wire, board_vars, sent, answered>>

(***************************************************************************)
(* An ACK or NAK arrives: resend_list_del_by_id on the main thread.  No    *)
(* node with that number is no error.                                      *)
(***************************************************************************)
WithId_Any(i) == FirstOf(list)
WithId(i) == FirstOf({r \in list : seq_id[r] = i})

ReceiveAnswer ==
    /\ pc[Main] = "idle" /\ answers # <<>>
    /\ LET found == WithId(Head(answers)) IN
       \/ /\ found = {}
          /\ UNCHANGED <<list_vars, answered>>
       \/ \E r \in found : Unlink(r) /\ answered' = answered \cup {r}
    /\ answers' = Tail(answers)
    /\ UNCHANGED <<id_vars, pc, msg, lock, todo, wire, losses, sent, received,
                   last>>

(***************************************************************************)
(* The line and the board                                                  *)
(***************************************************************************)
BoardReceives ==
    /\ wire # <<>>
    /\ wire' = Tail(wire)
    /\ answers' = Append(answers, seq_id[Head(wire)])
    /\ received' = [received EXCEPT ![Head(wire)] = @ + 1]
    /\ last' = Head(wire)
    /\ UNCHANGED <<id_vars, pc, msg, lock, list_vars, todo, losses, sent, answered>>

LoseFrame ==
    /\ wire # <<>> /\ losses < MaxLosses
    /\ wire' = Tail(wire)
    /\ losses' = losses + 1
    /\ UNCHANGED <<id_vars, pc, msg, lock, list_vars, todo, answers, received,
                   last, sent, answered>>

LoseAnswer ==
    /\ answers # <<>> /\ losses < MaxLosses
    /\ answers' = Tail(answers)
    /\ losses' = losses + 1
    /\ UNCHANGED <<id_vars, pc, msg, lock, list_vars, todo, wire, received,
                   last, sent, answered>>

Send(t) ==
    \/ DrawSeqId(t) \/ IncrementSeqId(t) \/ WriteFrame(t) \/ AddNode(t)

Poll == DrawPollId \/ IncrementPollId \/ WritePoll

Scan ==
    \/ \E r \in Requests : VisitDue(r) \/ VisitWaiting(r)
    \/ Resend \/ CheckCount \/ ScanEnds

Next ==
    \/ \E t \in Threads, r \in Requests : Call(t, r)
    \/ \E t \in Threads : Send(t)
    \/ SelectTimeout \/ Scan \/ Poll \/ ReceiveAnswer
    \/ \E r \in Requests : WaitElapses(r)
    \/ BoardReceives \/ LoseFrame \/ LoseAnswer

Spec == Init /\ [][Next]_vars

(***************************************************************************)
(* Every thread runs, time passes and the board serves its line.  The      *)
(* timeout of select comes only when neither serial line has brought a     *)
(* byte for 200 ms; that the lines fall silent again and again is assumed  *)
(* of the environment, hence the strong fairness.  A byte that has arrived *)
(* makes select return at once, hence that of ReceiveAnswer.               *)
(***************************************************************************)
Fairness ==
    /\ \A t \in Threads : WF_vars(Send(t))
    /\ WF_vars(Scan) /\ WF_vars(Poll)
    /\ SF_vars(SelectTimeout)
    /\ SF_vars(ReceiveAnswer)
    /\ \A r \in Requests : WF_vars(WaitElapses(r))
    /\ WF_vars(BoardReceives)

FairSpec == Spec /\ Fairness

(***************************************************************************)
(* Properties                                                              *)
(***************************************************************************)
\* The variables stay in their ranges; only the main thread scans.
TypeOK ==
    /\ ecb_seq_id \in Ids /\ seq_id \in [Requests -> Ids]
    /\ poll_id \in Ids /\ polls \in 0 .. MaxPolls
    /\ pc \in [Threads -> MainPc]
    /\ \A t \in Threads \ {Main} : pc[t] \in SendPc
    /\ msg \in [Threads -> Requests \cup {NoRequest}]
    /\ \A t \in Threads :
          pc[t] \notin PollPc \cup {"idle", "scan"} => msg[t] \in Requests
    /\ lock \in Threads \cup {NoThread}
    /\ list \subseteq Requests /\ due \subseteq list /\ todo \subseteq list
    /\ adds \in Nat /\ stamp \in [Requests -> Nat]
    /\ resend_cnt \in [Requests -> 0 .. RESEND_CNT]
    /\ wire \in Seq(Requests) /\ answers \in Seq(Ids) /\ losses \in 0 .. MaxLosses
    /\ sent \in [Requests -> Nat] /\ received \in [Requests -> Nat]
    /\ last \in Requests \cup {NoRequest} /\ answered \subseteq Requests

\* A frame taken off the list by an answer was executed by the board, unless
\* another frame went out under the same sequence number.
AnsweredWasReceived ==
    \A r \in answered :
        \/ received[r] > 0
        \/ \E q \in Requests \ {r} : sent[q] > 0 /\ seq_id[q] = seq_id[r]

\* The transmissions made and those left of a listed frame are always three
\* together, counting the one resend_list_each is about to make.
CountsAddUp ==
    \A r \in list :
        sent[r] + resend_cnt[r]
          = IF pc[Main] = "resend" /\ msg[Main] = r THEN RESEND_CNT
                                                     ELSE RESEND_CNT + 1

\* list_add and the writes of one frame exclude each other: while a thread is
\* between its write and its list_add, no other thread writes or adds.
LockCovers == \A t \in Threads : (pc[t] = "add") = (lock = t)

\* The board goes by what it got last.  Writes and list_add have one order, so
\* an older request can come after a newer one only as a retransmission
\* (uart_resend.c:103): the list has no other way to bring back an old setting.
OlderOnlyByResend ==
    \A q, r \in Requests :
        /\ last = q /\ received[r] > 0
        /\ 0 < stamp[q] /\ stamp[q] < stamp[r]
        => sent[q] > 1

State(r) ==
    IF r \in answered THEN "answered"
    ELSE IF sent[r] = 0 THEN "new"
    ELSE IF r \in list \/ \E t \in Threads : pc[t] = "add" /\ msg[t] = r THEN "open"
    ELSE "given up"

Delivery == INSTANCE FrameDelivery WITH
    Transmissions <- RESEND_CNT + 1,
    sent <- sent,
    state <- [r \in Requests |-> State(r)]

\* A frame goes out at most three times, never after its answer was taken,
\* and it is given up only after the third time.
ImplementsDelivery == Delivery!Spec

\* Every frame leaves the list: answered, or given up.
ListDrains == \A r \in Requests : (r \in list) ~> (r \notin list)

\* With no more losses than retransmissions the board gets every frame it is
\* sent, unless another frame took its sequence number.
Delivered ==
    \A r \in Requests :
        (sent[r] > 0) ~>
            \/ received[r] > 0
            \/ \E q \in Requests \ {r} : sent[q] > 0 /\ seq_id[q] = seq_id[r]
=============================================================================
