----------------------------- MODULE UartFrame -----------------------------
(***************************************************************************)
(* Frames of the power board in the byte stream of the serial line.        *)
(*                                                                         *)
(* ecb_recv_cb reads what has arrived behind the rest of earlier reads,    *)
(* and uart_parse_msg calls ecb_uart_parse_msg until nothing more can be   *)
(* taken out.  A frame is HH, sequence number (2), command (1), length     *)
(* (2), payload, check sum (2), TT.  Each call is a step here; a byte that *)
(* has been consumed is cut off at once and not by the memmove at the end. *)
(* What arrives while the parser runs is taken to arrive just after that.  *)
(*                                                                         *)
(* The board and the line are external: bytes arrive one by one, and some  *)
(* may be lost, altered or come out of nowhere.                            *)
(***************************************************************************)
EXTENDS Integers, Sequences, SequencesExt

CONSTANTS
    BASE,      \* values of a byte: 256
    H, T,      \* header and tailer bytes: 0xe6, 0x6e
    BUF,       \* size of uart_read_buf: 512
    MAX_DATA,  \* longest payload accepted: 512
    Frames,    \* frames the board sends
    MaxWaiting,  \* bound: bytes that wait to be read
    MaxNoise     \* bound: bytes disturbed on the line

Bytes == 0 .. BASE - 1
ECB_MSG_MIN_LEN == 11

ASSUME FrameAssumption ==
    /\ BASE \in Nat /\ H \in Bytes /\ T \in Bytes /\ H # T
    /\ BUF \in Nat /\ ECB_MSG_MIN_LEN <= BUF
    /\ MAX_DATA \in Nat
    /\ Frames \subseteq Seq(Bytes)
    /\ MaxWaiting \in Nat /\ MaxNoise \in Nat

VARIABLES
    buf,       \* uart_read_buf up to uart_read_buf_index
    parsing,   \* is uart_parse_msg running?
    out,       \* what is left of the frame the board is sending
    line,      \* bytes that wait to be read
    noise,     \* how many bytes were disturbed
    cut,       \* history: was a frame given up for its last bytes read?
    expected   \* history: frames not handed on yet, while nothing was lost

vars == <<buf, parsing, out, line, noise, cut, expected>>

Init ==
    /\ buf = <<>> /\ parsing = FALSE
    /\ out = <<>> /\ line = <<>>
    /\ noise = 0 /\ cut = FALSE /\ expected = <<>>

(***************************************************************************)
(* The board and the line                                                  *)
(***************************************************************************)
Clean == noise = 0 /\ ~ cut

SendFrame(f) ==
    /\ ~ parsing /\ out = <<>>
    /\ out' = f
    /\ expected' = IF Clean THEN Append(expected, f) ELSE <<>>
    /\ UNCHANGED <<buf, parsing, line, noise, cut>>

\* read returns 0 from now on
Wedged == Len(buf) = BUF /\ ~ parsing

Arrive ==
    /\ ~ parsing /\ out # <<>> /\ Len(line) < MaxWaiting
    /\ line' = Append(line, Head(out))
    /\ out' = Tail(out)
    /\ UNCHANGED <<buf, parsing, noise, cut, expected>>

\* the driver's buffer overflows only if nobody reads any more
Overrun ==
    /\ Wedged /\ out # <<>> /\ Len(line) = MaxWaiting
    /\ out' = Tail(out)
    /\ UNCHANGED <<buf, parsing, line, noise, cut, expected>>

Disturb ==
    /\ ~ parsing /\ noise < MaxNoise
    /\ noise' = noise + 1
    /\ expected' = <<>>
    /\ UNCHANGED <<buf, parsing, cut>>

LoseByte ==
    /\ out # <<>> /\ out' = Tail(out)
    /\ UNCHANGED line
    /\ Disturb

StrayByte(b) ==
    /\ Len(line) < MaxWaiting /\ line' = Append(line, b)
    /\ UNCHANGED out
    /\ Disturb

AlterByte(b) ==
    /\ out # <<>> /\ out' = Tail(out)
    /\ Len(line) < MaxWaiting /\ line' = Append(line, b)
    /\ Disturb

(***************************************************************************)
(* ecb_recv_cb.  A read into a full buffer returns 0 and parses nothing.   *)
(***************************************************************************)
Room == BUF - Len(buf)

Least(a, b) == IF a < b THEN a ELSE b

Read ==
    /\ ~ parsing
    /\ line # <<>> /\ Room > 0
    /\ LET n == Least(Room, Len(line)) IN
       /\ buf' = buf \o SubSeq(line, 1, n)
       /\ line' = SubSeq(line, n + 1, Len(line))
    /\ parsing' = TRUE
    /\ UNCHANGED <<out, noise, cut, expected>>

(***************************************************************************)
(* ecb_uart_parse_msg: one call, on what is left of the buffer             *)
(***************************************************************************)
IsHeader(i) == buf[i] = H /\ buf[i + 1] = H
HasHeader == \E i \in 1 .. Len(buf) - 1 : IsHeader(i)

\* the first header is at position i
HeaderAt(i) ==
    /\ i \in 1 .. Len(buf) - 1 /\ IsHeader(i)
    /\ \A j \in 1 .. i - 1 : ~ IsHeader(j)

DataLen(i) == buf[i + 5] * BASE + buf[i + 6]
FrameLen(i) == ECB_MSG_MIN_LEN + DataLen(i)
FieldsIn(i) == Len(buf) - (i - 1) >= ECB_MSG_MIN_LEN
FrameIn(i) == i - 1 + FrameLen(i) <= Len(buf)
EndsInTailer == buf[Len(buf)] = T /\ buf[Len(buf) - 1] = T

\* the parser goes on behind n bytes, if there are any
Skip(n) ==
    /\ buf' = SubSeq(buf, n + 1, Len(buf))
    /\ parsing' = (n < Len(buf))

\* ... or leaves the loop
Keep(n) ==
    /\ buf' = SubSeq(buf, n + 1, Len(buf))
    /\ parsing' = FALSE

Parsing == parsing /\ UNCHANGED <<out, line, noise>>

TooShort ==
    /\ Parsing /\ Len(buf) < 2
    /\ Keep(0)
    /\ UNCHANGED <<cut, expected>>

\* all of it goes, a last byte that is half a header included
NoHeader ==
    /\ Parsing /\ Len(buf) >= 2 /\ ~ HasHeader
    /\ Keep(Len(buf))
    /\ UNCHANGED <<cut, expected>>

\* wait for the fields
AwaitFields(i) ==
    /\ Parsing /\ HeaderAt(i) /\ ~ FieldsIn(i)
    /\ Keep(i - 1)
    /\ UNCHANGED <<cut, expected>>

RefuseLength_Waits(i) ==
    /\ Parsing /\ HeaderAt(i) /\ FieldsIn(i) /\ DataLen(i) > MAX_DATA
    /\ Keep(i - 1)
    /\ UNCHANGED <<cut, expected>>

RefuseLength(i) ==
    /\ Parsing /\ HeaderAt(i) /\ FieldsIn(i) /\ DataLen(i) > MAX_DATA
    /\ Skip(i)
    /\ UNCHANGED <<cut, expected>>

Accepted(i) == Parsing /\ HeaderAt(i) /\ FieldsIn(i) /\ DataLen(i) <= MAX_DATA

\* TT at the end of what has been read is taken for a wrong length
GiveUpFrame(i) ==
    /\ Accepted(i) /\ ~ FrameIn(i) /\ EndsInTailer
    /\ Skip(i)
    /\ cut' = TRUE /\ expected' = <<>>

AwaitRest_Dropped(i) ==
    /\ Accepted(i) /\ ~ FrameIn(i) /\ ~ EndsInTailer
    /\ Keep(Len(buf))
    /\ UNCHANGED <<cut, expected>>

AwaitRest(i) ==
    /\ Accepted(i) /\ ~ FrameIn(i) /\ ~ EndsInTailer
    /\ Keep(i - 1)
    /\ UNCHANGED <<cut, expected>>

Frame(i) == SubSeq(buf, i, i - 1 + FrameLen(i))
HasTailer(i) ==
    LET last == i - 1 + FrameLen(i) IN buf[last - 1] = T /\ buf[last] = T

RefuseTailer_Kept(i) ==
    /\ Accepted(i) /\ FrameIn(i) /\ ~ HasTailer(i)
    /\ Keep(i - 1)
    /\ UNCHANGED <<cut, expected>>

\* NAK, and all of the announced length is skipped
RefuseTailer(i) ==
    /\ Accepted(i) /\ FrameIn(i) /\ ~ HasTailer(i)
    /\ Skip(i - 1 + FrameLen(i))
    /\ UNCHANGED <<cut, expected>>

\* A frame as the board builds it: its length field tells how long it is, both
\* its ends are in place, and the buffer can hold it.
WellFormed(f) ==
    /\ Len(f) >= ECB_MSG_MIN_LEN
    /\ Len(f) = ECB_MSG_MIN_LEN + f[6] * BASE + f[7]
    /\ f[6] * BASE + f[7] <= MAX_DATA /\ Len(f) <= BUF
    /\ f[1] = H /\ f[2] = H
    /\ f[Len(f) - 1] = T /\ f[Len(f)] = T

FramesWellFormed == \A f \in Frames : WellFormed(f)

HandOn_LeavesLoop(i) ==
    /\ Accepted(i) /\ FrameIn(i) /\ HasTailer(i)
    /\ Keep(i - 1 + FrameLen(i))
    /\ expected' = IF expected = <<>> THEN <<>> ELSE Tail(expected)
    /\ UNCHANGED cut

\* the check sum is compared, but the frame is handed on either way
HandOn(i) ==
    /\ Accepted(i) /\ FrameIn(i) /\ HasTailer(i)
    /\ Skip(i - 1 + FrameLen(i))
    /\ expected' = IF expected = <<>> THEN <<>> ELSE Tail(expected)
    /\ UNCHANGED cut

Parse(i) ==
    \/ AwaitFields(i) \/ RefuseLength(i) \/ GiveUpFrame(i) \/ AwaitRest(i)
    \/ RefuseTailer(i) \/ HandOn(i)

Call == TooShort \/ NoHeader \/ \E i \in 1 .. BUF : Parse(i)

Next ==
    \/ \E f \in Frames : SendFrame(f)
    \/ Arrive \/ Overrun \/ LoseByte
    \/ \E b \in Bytes : StrayByte(b) \/ AlterByte(b)
    \/ Read \/ Call

Spec == Init /\ [][Next]_vars

(***************************************************************************)
(* The main thread runs, the board goes on sending, each frame again and   *)
(* again.                                                                  *)
(***************************************************************************)
Fairness ==
    /\ WF_vars(Read) /\ WF_vars(Call) /\ WF_vars(Arrive \/ Overrun)
    /\ \A f \in Frames : SF_vars(SendFrame(f))

FairSpec == Spec /\ Fairness

(***************************************************************************)
(* Properties                                                              *)
(***************************************************************************)
\* The buffer, what waits and what is being sent are bytes; the buffer is never
\* overrun.
TypeOK ==
    /\ buf \in Seq(Bytes) /\ Len(buf) <= BUF
    /\ out \in Seq(Bytes) /\ line \in Seq(Bytes)
    /\ parsing \in BOOLEAN /\ cut \in BOOLEAN
    /\ noise \in 0 .. MaxNoise
    /\ expected \in Seq(Frames)

\* However reads split and join the stream, as long as no byte is disturbed and
\* no frame is given up for its last bytes read, buffer, line and board hold the
\* frames not handed on, in order, and nothing else: none is lost, repeated or
\* handed on before it is complete.
StreamKept == Clean => buf \o line \o out = FlattenSeq(expected)

\* ... and one that is complete is handed on before more is read.
HandedOnAtOnce ==
    Clean /\ ~ parsing /\ expected # <<>> => Len(buf) < Len(Head(expected))

\* Between reads the buffer is full only if it begins with a frame that was
\* accepted and is longer than the buffer, which nothing else can stop for good:
\* garbage, a wrong tailer or a frame that has not ended never do.
FullOnlyForLongFrame ==
    Wedged => IsHeader(1) /\ DataLen(1) <= MAX_DATA /\ FrameLen(1) > BUF

\* a read that ends in the middle of a header behind rubbish, or in a TT inside
\* a frame
Unlucky == (NoHeader /\ Last(buf) = H) \/ \E i \in 1 .. BUF : GiveUpFrame(i)

\* Whatever was disturbed, every frame the board repeats is handed on again and
\* again once reads are not unlucky any more, unless an accepted length that
\* does not fit has filled the buffer for good.
Recovers ==
    \A f \in Frames : <>[][~ Unlucky]_vars =>
        <>[](Wedged /\ FrameLen(1) > BUF)
            \/ []<><<\E i \in 1 .. BUF : HandOn(i) /\ Frame(i) = f>>_vars
=============================================================================
