-------------------------- MODULE UartFrameProofs --------------------------
(***************************************************************************)
(* Proofs about UartFrame for buffers, bytes, frames and disturbances of   *)
(* any size: reads never overrun the buffer, it is full between reads only *)
(* because of an accepted length that does not fit, and a clean stream of  *)
(* well-formed frames is handed on whole, in order and at once.            *)
(*                                                                         *)
(* The stream a board sends is FlattenSeq of its frames, which the library *)
(* defines by recursion.  What it does to a frame added at the end or      *)
(* taken off the front is proved by induction over the set of numbers for  *)
(* which the claim holds, as operators cannot be passed to a theorem.      *)
(***************************************************************************)
EXTENDS UartFrame, SequenceTheorems, WellFoundedInduction, TLAPS

\* What can be left in the buffer when bytes are taken off its front.
LEMMA CutFront ==
    ASSUME TypeOK, NEW n \in Nat
    PROVE  LET rest == SubSeq(buf, n + 1, Len(buf)) IN
           /\ rest \in Seq(Bytes)
           /\ Len(rest) = IF n < Len(buf) THEN Len(buf) - n ELSE 0
<1>1. Len(buf) \in Nat /\ \A i \in n + 1 .. Len(buf) : buf[i] \in Bytes
  BY DEF TypeOK
<1>2. /\ SubSeq(buf, n + 1, Len(buf)) \in Seq(Bytes)
      /\ Len(SubSeq(buf, n + 1, Len(buf)))
           = IF n + 1 <= Len(buf) THEN Len(buf) - (n + 1) + 1 ELSE 0
  BY <1>1, SubSeqProperties
<1> QED
  BY <1>1, <1>2

\* The byte at a position, and the length found there.
LEMMA FieldTypes ==
    ASSUME TypeOK, NEW i \in 1 .. BUF, HeaderAt(i), FieldsIn(i)
    PROVE  /\ i <= Len(buf) /\ DataLen(i) \in Nat /\ FrameLen(i) \in Nat
           /\ FrameLen(i) >= ECB_MSG_MIN_LEN
<1>1. /\ Len(buf) \in Nat /\ i + 10 <= Len(buf)
      /\ \A k \in 1 .. Len(buf) : buf[k] \in Bytes
  BY FrameAssumption DEF FrameAssumption, TypeOK, FieldsIn, ECB_MSG_MIN_LEN
<1>2. buf[i + 5] \in Bytes /\ buf[i + 6] \in Bytes
  BY <1>1, FrameAssumption DEF FrameAssumption
<1>3. \A a, b \in Bytes : a * BASE + b \in Nat
  BY FrameAssumption DEF FrameAssumption, Bytes
<1>4. DataLen(i) \in Nat
  BY <1>2, <1>3 DEF DataLen
<1> QED
  BY <1>1, <1>4 DEF FrameLen, ECB_MSG_MIN_LEN

-----------------------------------------------------------------------------
\* The initial state is well typed.
LEMMA TypeInit == Init => TypeOK
<1> SUFFICES ASSUME Init PROVE TypeOK
  OBVIOUS
<1>1. /\ <<>> \in Seq(Bytes) /\ <<>> \in Seq(Frames)
      /\ Len(<<>>) <= BUF /\ 0 \in 0 .. MaxNoise
  BY FrameAssumption DEF FrameAssumption, ECB_MSG_MIN_LEN
<1>2. parsing \in BOOLEAN /\ cut \in BOOLEAN
  BY DEF Init
<1> QED
  BY <1>1, <1>2, Zenon DEF Init, TypeOK

\* Every step keeps the types.
LEMMA TypeStep == TypeOK /\ [Next]_vars => TypeOK'
<1> SUFFICES ASSUME TypeOK, [Next]_vars PROVE TypeOK'
  OBVIOUS
<1> USE FrameAssumption DEF FrameAssumption
<1>0. Len(buf) \in Nat /\ Len(line) \in Nat
  BY DEF TypeOK
<1>1. ASSUME NEW f \in Frames, SendFrame(f) PROVE TypeOK'
  <2>1. f \in Seq(Bytes) /\ Append(expected, f) \in Seq(Frames)
    BY AppendProperties DEF TypeOK
  <2> QED
    BY <1>1, <2>1 DEF SendFrame, TypeOK
<1>2. ASSUME out # <<>>
      PROVE  Tail(out) \in Seq(Bytes) /\ Head(out) \in Bytes
  BY <1>2, HeadTailProperties DEF TypeOK
<1>3. ASSUME NEW b \in Bytes PROVE Append(line, b) \in Seq(Bytes)
  BY AppendProperties DEF TypeOK
<1>4. CASE Arrive
  BY <1>2, <1>3, <1>4 DEF Arrive, TypeOK
<1>5. CASE Overrun
  BY <1>2, <1>5 DEF Overrun, TypeOK
<1>6. CASE LoseByte
  BY <1>2, <1>6 DEF LoseByte, Disturb, TypeOK
<1>7. ASSUME NEW b \in Bytes, StrayByte(b) PROVE TypeOK'
  BY <1>3, <1>7 DEF StrayByte, Disturb, TypeOK
<1>8. ASSUME NEW b \in Bytes, AlterByte(b) PROVE TypeOK'
  BY <1>2, <1>3, <1>8 DEF AlterByte, Disturb, TypeOK
<1>9. CASE Read
  <2> DEFINE n == Least(Room, Len(line))
  <2>1. n \in 1 .. Len(line) /\ n <= BUF - Len(buf)
    <3>1. Len(line) > 0 /\ Room > 0 /\ Room \in Int
      BY <1>0, <1>9 DEF Read, Room, TypeOK
    <3> QED
      BY <1>0, <3>1 DEF Least, Room
  <2>2. \A i \in 1 .. Len(line) : line[i] \in Bytes
    BY DEF TypeOK
  <2>3. /\ SubSeq(line, 1, n) \in Seq(Bytes) /\ Len(SubSeq(line, 1, n)) = n
        /\ SubSeq(line, n + 1, Len(line)) \in Seq(Bytes)
    <3>1. \A i \in 1 .. n : line[i] \in Bytes
      BY <2>1, <2>2
    <3>2. SubSeq(line, 1, n) \in Seq(Bytes) /\ Len(SubSeq(line, 1, n)) = n
      BY <2>1, <3>1, SubSeqProperties
    <3>3. \A i \in n + 1 .. Len(line) : line[i] \in Bytes
      BY <2>1, <2>2
    <3>4. SubSeq(line, n + 1, Len(line)) \in Seq(Bytes)
      BY <1>0, <2>1, <3>3, SubSeqProperties
    <3> QED
      BY <3>2, <3>4
  <2>4. /\ buf \o SubSeq(line, 1, n) \in Seq(Bytes)
        /\ Len(buf \o SubSeq(line, 1, n)) <= BUF
    BY <1>0, <2>1, <2>3, ConcatProperties DEF TypeOK
  <2> QED
    BY <1>9, <2>3, <2>4 DEF Read, TypeOK
<1>10. CASE Call
  <2>1. ASSUME NEW k \in Nat, Skip(k) \/ Keep(k)
        PROVE  buf' \in Seq(Bytes) /\ Len(buf') <= BUF /\ parsing' \in BOOLEAN
    <3>1. buf' = SubSeq(buf, k + 1, Len(buf))
      BY <2>1 DEF Skip, Keep
    <3>2. Len(buf) <= BUF
      BY DEF TypeOK
    <3>3. /\ buf' \in Seq(Bytes)
          /\ Len(buf') = IF k < Len(buf) THEN Len(buf) - k ELSE 0
      BY <3>1, CutFront
    <3>4. Len(buf') <= BUF
      BY <1>0, <3>2, <3>3
    <3>5. (k < Len(buf)) \in BOOLEAN
      OBVIOUS
    <3>6. parsing' \in BOOLEAN
      <4>1. CASE Skip(k)
        BY <3>5, <4>1, Zenon DEF Skip
      <4>2. CASE Keep(k)
        BY <4>2, Zenon DEF Keep
      <4> QED
        BY <2>1, <4>1, <4>2
    <3> QED
      BY <3>3, <3>4, <3>6
  <2>2. CASE TooShort
    BY <2>1, <2>2 DEF TooShort, Parsing, TypeOK
  <2>3. CASE NoHeader
    BY <1>0, <2>1, <2>3 DEF NoHeader, Parsing, TypeOK
  <2>4. ASSUME NEW i \in 1 .. BUF, Parse(i) PROVE TypeOK'
    <3>1. i - 1 \in Nat /\ i \in Nat
      OBVIOUS
    <3>2. CASE AwaitFields(i)
      BY <2>1, <3>1, <3>2 DEF AwaitFields, Parsing, TypeOK
    <3>3. CASE RefuseLength(i)
      BY <2>1, <3>1, <3>3 DEF RefuseLength, Parsing, TypeOK
    <3>4. CASE GiveUpFrame(i)
      BY <2>1, <3>1, <3>4 DEF GiveUpFrame, Accepted, Parsing, TypeOK
    <3>5. CASE AwaitRest(i)
      BY <2>1, <3>1, <3>5 DEF AwaitRest, Accepted, Parsing, TypeOK
    <3>6. Accepted(i) => i - 1 + FrameLen(i) \in Nat
      BY FieldTypes DEF Accepted
    <3>7. CASE RefuseTailer(i)
      BY <2>1, <3>6, <3>7 DEF RefuseTailer, Accepted, Parsing, TypeOK
    <3>8. CASE HandOn(i)
      <4>1. expected' \in Seq(Frames)
        BY <3>8, HeadTailProperties DEF HandOn, TypeOK
      <4> QED
        BY <2>1, <3>6, <3>8, <4>1 DEF HandOn, Accepted, Parsing, TypeOK
    <3> QED
      BY <2>4, <3>2, <3>3, <3>4, <3>5, <3>7, <3>8 DEF Parse
  <2> QED
    BY <1>10, <2>2, <2>3, <2>4 DEF Call
<1>11. CASE UNCHANGED vars
  BY <1>11 DEF vars, TypeOK
<1> QED
  BY <1>1, <1>4, <1>5, <1>6, <1>7, <1>8, <1>9, <1>10, <1>11 DEF Next

\* A read asks for no more bytes than there is room behind the rest of earlier
\* reads, for every size of the buffer and every stream.
THEOREM TypeCorrect == Spec => []TypeOK
  BY TypeInit, TypeStep, PTL DEF Spec

-----------------------------------------------------------------------------
\* Only a call that leaves the loop can leave the buffer full, and of those
\* only the one that waits for the rest of an accepted frame at the front.
LEMMA FullStep ==
    ASSUME TypeOK, TypeOK', FullOnlyForLongFrame, [Next]_vars
    PROVE  FullOnlyForLongFrame'
<1> SUFFICES ASSUME Wedged'
             PROVE  (IsHeader(1) /\ DataLen(1) <= MAX_DATA /\ FrameLen(1) > BUF)'
  BY DEF FullOnlyForLongFrame
<1> USE FrameAssumption DEF FrameAssumption
<1>0. Len(buf) \in Nat /\ Len(buf) <= BUF /\ Len(buf') = BUF /\ ~ parsing'
  BY DEF TypeOK, Wedged
<1>1. ASSUME UNCHANGED buf, ~ parsing
      PROVE  (IsHeader(1) /\ DataLen(1) <= MAX_DATA /\ FrameLen(1) > BUF)'
  <2>1. Wedged
    BY <1>0, <1>1 DEF Wedged
  <2> QED
    BY <1>1, <2>1 DEF FullOnlyForLongFrame, IsHeader, DataLen, FrameLen
<1>2. ASSUME NEW k \in Nat, Skip(k) PROVE FALSE
  <2>1. buf' = SubSeq(buf, k + 1, Len(buf)) /\ ~ k < Len(buf)
    BY <1>0, <1>2, Zenon DEF Skip
  <2>2. Len(buf') = 0
    BY <1>0, <2>1, CutFront
  <2> QED
    BY <1>0, <2>2 DEF ECB_MSG_MIN_LEN
<1>3. ASSUME NEW k \in Nat, Keep(k) PROVE k = 0 /\ Len(buf) = BUF /\ buf' = buf
  <2>1. buf' = SubSeq(buf, k + 1, Len(buf))
    BY <1>3 DEF Keep
  <2>2. Len(buf') = IF k < Len(buf) THEN Len(buf) - k ELSE 0
    BY <2>1, CutFront
  <2>3. k = 0 /\ Len(buf) = BUF
    BY <1>0, <2>2 DEF ECB_MSG_MIN_LEN
  <2>4. SubSeq(buf, 1, Len(buf)) = buf
    BY SubSeqFull DEF TypeOK
  <2> QED
    BY <2>1, <2>3, <2>4
<1>4. CASE UNCHANGED vars
  BY <1>0, <1>1, <1>4 DEF vars
<1>5. CASE \/ \E f \in Frames : SendFrame(f)
           \/ Arrive \/ Overrun \/ LoseByte
           \/ \E b \in Bytes : StrayByte(b) \/ AlterByte(b)
  BY <1>1, <1>5 DEF SendFrame, Arrive, Overrun, Wedged, LoseByte, StrayByte,
                    AlterByte, Disturb
<1>6. CASE Read
  BY <1>0, <1>6 DEF Read
<1>7. CASE TooShort
  BY <1>0, <1>3, <1>7 DEF TooShort, ECB_MSG_MIN_LEN
<1>8. CASE NoHeader
  <2>1. Len(buf) = 0
    BY <1>0, <1>3, <1>8 DEF NoHeader
  <2> QED
    BY <1>8, <2>1 DEF NoHeader
<1>9. ASSUME NEW i \in 1 .. BUF, Parse(i)
      PROVE  (IsHeader(1) /\ DataLen(1) <= MAX_DATA /\ FrameLen(1) > BUF)'
  <2>1. i - 1 \in Nat /\ i \in Nat
    OBVIOUS
  <2>2. CASE AwaitFields(i)
    <3>1. i = 1 /\ Len(buf) = BUF
      BY <1>3, <2>1, <2>2 DEF AwaitFields
    <3> QED
      BY <1>0, <2>2, <3>1 DEF AwaitFields, FieldsIn
  <2>3. CASE RefuseLength(i)
    BY <1>2, <2>1, <2>3 DEF RefuseLength
  <2>4. CASE GiveUpFrame(i)
    BY <1>2, <2>1, <2>4 DEF GiveUpFrame
  <2>5. CASE AwaitRest(i)
    <3>1. i = 1 /\ Len(buf) = BUF /\ buf' = buf
      BY <1>3, <2>1, <2>5 DEF AwaitRest
    <3>2. IsHeader(1) /\ DataLen(1) <= MAX_DATA
      BY <2>5, <3>1 DEF AwaitRest, Accepted, HeaderAt
    <3>3. FrameLen(1) \in Nat
      BY <2>5, <3>1, FieldTypes DEF AwaitRest, Accepted
    <3>4. FrameLen(1) > BUF
      BY <2>5, <3>1, <3>3 DEF AwaitRest, FrameIn
    <3> QED
      BY <3>1, <3>2, <3>4 DEF IsHeader, DataLen, FrameLen
  <2>6. Accepted(i) => i - 1 + FrameLen(i) \in Nat
    BY FieldTypes DEF Accepted
  <2>7. CASE RefuseTailer(i)
    BY <1>2, <2>6, <2>7 DEF RefuseTailer
  <2>8. CASE HandOn(i)
    BY <1>2, <2>6, <2>8 DEF HandOn
  <2> QED
    BY <1>9, <2>2, <2>3, <2>4, <2>5, <2>7, <2>8 DEF Parse
<1> QED
  BY <1>4, <1>5, <1>6, <1>7, <1>8, <1>9 DEF Next, Call

\* Whatever bytes come, in whatever portions, the buffer does not fill up for
\* anything but an accepted length that it cannot hold.
THEOREM FullCorrect == Spec => []FullOnlyForLongFrame
<1>1. Init => FullOnlyForLongFrame
  BY FrameAssumption
     DEF FrameAssumption, Init, FullOnlyForLongFrame, Wedged, ECB_MSG_MIN_LEN
<1> QED
  BY <1>1, TypeInit, TypeStep, FullStep, PTL DEF Spec
-----------------------------------------------------------------------------
\* Induction over the naturals, for a set of numbers instead of a predicate: a
\* set of them that is not empty has a smallest member.
LEMMA Induct ==
    ASSUME NEW S \in SUBSET Nat, 0 \in S, \A n \in S : n + 1 \in S
    PROVE  S = Nat
<1> SUFFICES ASSUME Nat \ S # {} PROVE FALSE
  OBVIOUS
<1> DEFINE R == {p \in Nat \X Nat : p[1] < p[2]}
           U == Nat \ S
<1>1. \A x, y \in Nat : y < x => <<y, x>> \in R
  OBVIOUS
<1>2. OpToRel(<, Nat) = R
  BY DEF OpToRel
<1>3. IsWellFoundedOn(R, Nat)
  BY <1>2, NatLessThanWellFounded
<1>4. U \in SUBSET Nat /\ U # {}
  OBVIOUS
<1> HIDE DEF R, U
<1>5. PICK m \in U : \A k \in U : ~ (<<k, m>> \in R)
  BY <1>3, <1>4, WFMin
<1>6. m \in Nat /\ m \notin S
  BY <1>5 DEF U
<1>7. m - 1 \in Nat /\ m - 1 \notin S
  BY <1>6
<1>8. m - 1 \in U /\ <<m - 1, m>> \in R
  BY <1>1, <1>6, <1>7 DEF U
<1> QED
  BY <1>5, <1>8

\* The function that FlattenSeq defines recursively exists and keeps its promise.
LEMMA FlattenTable ==
    ASSUME NEW S, NEW s \in Seq(Seq(S)), s # <<>>
    PROVE  \E g \in [1 .. Len(s) -> Seq(S)] :
             /\ g[1] = s[1]
             /\ \A i \in 2 .. Len(s) : g[i] = g[i - 1] \o s[i]
             /\ FlattenSeq(s) = g[Len(s)]
<1> DEFINE N == Len(s)
           Table(g, n) == \A i \in 1 .. n : g[i] = IF i = 1 THEN s[i] ELSE g[i - 1] \o s[i]
           Built(n) == n <= N => \E g \in [1 .. n -> Seq(S)] : Table(g, n)
           Rule(g) == g = [i \in 1 .. N |-> IF i = 1 THEN s[i] ELSE g[i - 1] \o s[i]]
           fl == CHOOSE g : Rule(g)
<1>1. N \in Nat /\ N > 0 /\ \A i \in 1 .. N : s[i] \in Seq(S)
  BY EmptySeq, ElementOfSeq
<1>6. FlattenSeq(s) = fl[N]
  BY <1>1 DEF FlattenSeq
<1> HIDE DEF N, fl
<1>2. Built(0)
  <2>1. \A g : Table(g, 0)
    OBVIOUS
  <2> HIDE DEF Table
  <2>2. [i \in 1 .. 0 |-> <<>>] \in [1 .. 0 -> Seq(S)]
    OBVIOUS
  <2> QED
    BY <2>1, <2>2
<1>3. ASSUME NEW n \in Nat, Built(n) PROVE Built(n + 1)
  <2> SUFFICES ASSUME n + 1 <= N
               PROVE  \E g \in [1 .. n + 1 -> Seq(S)] : Table(g, n + 1)
    OBVIOUS
  <2>0. \E g \in [1 .. n -> Seq(S)] : Table(g, n)
    <3> HIDE DEF Table
    <3> QED
      BY <1>1, <1>3
  <2>1. PICK g \in [1 .. n -> Seq(S)] : Table(g, n)
    BY <2>0
  <2> DEFINE last == IF n = 0 THEN s[1] ELSE g[n] \o s[n + 1]
             h == [i \in 1 .. n + 1 |-> IF i = n + 1 THEN last ELSE g[i]]
  <2>2. last \in Seq(S)
    <3>1. n + 1 \in 1 .. N /\ s[n + 1] \in Seq(S)
      BY <1>1
    <3>2. n # 0 => g[n] \in Seq(S)
      OBVIOUS
    <3> QED
      BY <3>1, <3>2, ConcatProperties
  <2> HIDE DEF last
  <2>3. h \in [1 .. n + 1 -> Seq(S)]
    BY <2>2
  <2>4. ASSUME NEW i \in 1 .. n + 1
        PROVE  h[i] = IF i = 1 THEN s[i] ELSE h[i - 1] \o s[i]
    <3>1. CASE i = n + 1 /\ n = 0
      BY <3>1 DEF last
    <3>2. CASE i = n + 1 /\ n # 0
      <4>1. h[i] = g[n] \o s[n + 1] /\ h[i - 1] = g[n] /\ i # 1
        <5>1. last = g[n] \o s[n + 1]
          BY <3>2 DEF last
        <5>2. i - 1 = n /\ n \in 1 .. n + 1 /\ n # n + 1
          BY <3>2
        <5>3. h[i] = last /\ h[n] = g[n]
          BY <3>2, <5>2
        <5> HIDE DEF h
        <5> QED
          BY <3>2, <5>1, <5>2, <5>3
      <4> HIDE DEF h
      <4> QED
        BY <3>2, <4>1
    <3>3. CASE i # n + 1
      <4>1. i \in 1 .. n /\ h[i] = g[i] /\ (i # 1 => h[i - 1] = g[i - 1])
        BY <3>3
      <4>2. g[i] = IF i = 1 THEN s[i] ELSE g[i - 1] \o s[i]
        BY <2>1, <4>1
      <4> QED
        BY <4>1, <4>2
    <3> QED
      BY <3>1, <3>2, <3>3
  <2> HIDE DEF h
  <2> QED
    BY <2>3, <2>4
<1>4. \A n \in Nat : Built(n)
  <2> HIDE DEF Built
  <2> DEFINE B == {n \in Nat : Built(n)}
  <2>1. B \in SUBSET Nat /\ 0 \in B /\ \A n \in B : n + 1 \in B
    BY <1>2, <1>3
  <2> HIDE DEF B
  <2>2. B = Nat
    BY <2>1, Induct
  <2> QED
    BY <2>2 DEF B
<1>5. Rule(fl)
  <2>0. \E g \in [1 .. N -> Seq(S)] : Table(g, N)
    <3> HIDE DEF Table
    <3> QED
      BY <1>1, <1>4
  <2>1. PICK g \in [1 .. N -> Seq(S)] : Table(g, N)
    BY <2>0
  <2>2. Rule(g)
    BY <2>1
  <2> QED
    BY <2>2 DEF fl
<1>7. /\ DOMAIN fl = 1 .. N
      /\ fl[1] = s[1]
      /\ \A i \in 2 .. N : fl[i] = fl[i - 1] \o s[i]
  <2> DEFINE r == [i \in 1 .. N |-> IF i = 1 THEN s[i] ELSE fl[i - 1] \o s[i]]
  <2>1. fl = r
    BY <1>5
  <2>2. /\ DOMAIN r = 1 .. N
        /\ \A i \in 1 .. N : r[i] = IF i = 1 THEN s[i] ELSE fl[i - 1] \o s[i]
    OBVIOUS
  <2> HIDE DEF r
  <2>3. 1 \in 1 .. N /\ \A i \in 2 .. N : i \in 1 .. N /\ i # 1
    BY <1>1
  <2>4. fl[1] = s[1]
    BY <2>1, <2>2, <2>3
  <2>5. \A i \in 2 .. N : fl[i] = fl[i - 1] \o s[i]
    BY <2>1, <2>2, <2>3
  <2> QED
    BY <2>1, <2>2, <2>4, <2>5
<1> HIDE DEF Rule
<1>8. \A n \in Nat : n + 1 <= N => fl[n + 1] \in Seq(S)
  <2> DEFINE B == {n \in Nat : n + 1 <= N => fl[n + 1] \in Seq(S)}
  <2>1. 0 \in B
    BY <1>1, <1>7
  <2>2. ASSUME NEW n \in B, n + 2 <= N PROVE fl[n + 2] \in Seq(S)
    <3>1. /\ n + 2 \in 2 .. N /\ n + 2 \in 1 .. N /\ (n + 2) - 1 = n + 1
          /\ fl[n + 1] \in Seq(S)
      BY <1>1, <2>2
    <3>2. fl[n + 2] = fl[n + 1] \o s[n + 2] /\ s[n + 2] \in Seq(S)
      BY <1>1, <1>7, <3>1
    <3> QED
      BY <3>1, <3>2, ConcatProperties
  <2>3. B \in SUBSET Nat /\ \A n \in B : n + 1 \in B
    BY <1>1, <2>2
  <2> HIDE DEF B
  <2>4. B = Nat
    BY <2>1, <2>3, Induct
  <2> QED
    BY <2>4 DEF B
<1>9. fl \in [1 .. N -> Seq(S)]
  <2>1. \A i \in 1 .. N : i - 1 \in Nat /\ (i - 1) + 1 <= N /\ (i - 1) + 1 = i
    BY <1>1
  <2>2. \A i \in 1 .. N : fl[i] \in Seq(S)
    BY <1>8, <2>1
  <2>3. \E r : fl = [i \in 1 .. N |-> r[i]]
    BY <1>5 DEF Rule
  <2> QED
    BY <1>7, <2>2, <2>3
<1> QED
  BY <1>6, <1>7, <1>9 DEF N

\* Joining two pieces of the stream, as a name of its own: the provers then take
\* three joined pieces for what they are and do not look at each byte of them.
Join(s, t) == s \o t

LEMMA JoinType == \A S : \A x, y \in Seq(S) : Join(x, y) \in Seq(S)
  BY ConcatProperties DEF Join

\* Three pieces of the stream may be joined in either order.
LEMMA Regroup ==
    \A S : \A x, y, z \in Seq(S) : Join(Join(x, y), z) = Join(x, Join(y, z))
  BY ConcatAssociative DEF Join

\* The stream of some frames is the first of them and the stream of the rest.
LEMMA FlattenCons ==
    ASSUME NEW S, NEW s \in Seq(Seq(S)), s # <<>>
    PROVE  /\ FlattenSeq(s) = Head(s) \o FlattenSeq(Tail(s))
           /\ FlattenSeq(s) \in Seq(S) /\ FlattenSeq(Tail(s)) \in Seq(S)
<1> DEFINE t == Tail(s)
<1>0. /\ Len(s) \in Nat /\ Len(s) > 0
      /\ Head(s) = s[1]
      /\ t \in Seq(Seq(S)) /\ Len(t) = Len(s) - 1
      /\ \A i \in 1 .. Len(s) : s[i] \in Seq(S)
      /\ \A i \in 1 .. Len(s) - 1 : t[i] = s[i + 1]
  <2>1. Len(s) \in Nat /\ Len(s) > 0 /\ Head(s) = s[1]
    BY EmptySeq
  <2>2. \A i \in 1 .. Len(s) : s[i] \in Seq(S)
    BY ElementOfSeq
  <2>3. /\ t \in Seq(Seq(S)) /\ Len(t) = Len(s) - 1
        /\ \A i \in 1 .. Len(t) : t[i] = s[i + 1]
    BY HeadTailProperties
  <2> QED
    BY <2>1, <2>2, <2>3
<1> HIDE DEF t
<1>1. PICK g \in [1 .. Len(s) -> Seq(S)] :
         /\ g[1] = s[1]
         /\ \A i \in 2 .. Len(s) : g[i] = g[i - 1] \o s[i]
         /\ FlattenSeq(s) = g[Len(s)]
  BY FlattenTable
<1>2. FlattenSeq(s) \in Seq(S) /\ s[1] \in Seq(S)
  <2>1. 1 \in 1 .. Len(s) /\ Len(s) \in 1 .. Len(s)
    BY <1>0
  <2> QED
    BY <1>0, <1>1, <2>1
<1>3. CASE Len(s) = 1
  <2>1. t = <<>>
    BY <1>0, <1>3, EmptySeq
  <2>2. FlattenSeq(<<>>) = <<>>
    BY DEF FlattenSeq
  <2>3. <<>> \in Seq(S) /\ s[1] \o <<>> = s[1]
    BY <1>2, ConcatEmptySeq
  <2>4. FlattenSeq(t) = <<>> /\ FlattenSeq(s) = s[1]
    BY <1>1, <1>3, <2>1, <2>2
  <2> QED
    BY <1>0, <1>2, <2>3, <2>4 DEF t
<1>4. CASE Len(s) # 1
  <2>0. t # <<>> /\ Len(t) > 0
    BY <1>0, <1>4
  <2>1. PICK h \in [1 .. Len(t) -> Seq(S)] :
           /\ h[1] = t[1]
           /\ \A i \in 2 .. Len(t) : h[i] = h[i - 1] \o t[i]
           /\ FlattenSeq(t) = h[Len(t)]
    BY <1>0, <2>0, FlattenTable
  <2> DEFINE Same == {n \in Nat : n + 2 <= Len(s) => g[n + 2] = s[1] \o h[n + 1]}
  <2>2. 0 \in Same
    <3>1. 2 \in 2 .. Len(s) /\ 1 \in 1 .. Len(s) - 1 /\ 2 - 1 = 1 /\ 1 + 1 = 2
      BY <1>0, <1>4
    <3>2. g[2] = s[1] \o s[2]
      BY <1>1, <3>1
    <3>3. h[1] = s[2]
      BY <1>0, <2>1, <3>1
    <3>4. 0 \in Nat /\ 0 + 1 = 1 /\ 0 + 2 = 2
      OBVIOUS
    <3> QED
      BY <3>2, <3>3, <3>4
  <2>3. ASSUME NEW n \in Same, n + 3 <= Len(s) PROVE g[n + 3] = s[1] \o h[n + 2]
    <3>1. /\ n \in Nat
          /\ n + 3 \in 2 .. Len(s) /\ n + 2 \in 2 .. Len(t) /\ n + 1 \in 1 .. Len(t)
          /\ (n + 3) - 1 = n + 2 /\ (n + 2) - 1 = n + 1
          /\ n + 2 \in 1 .. Len(s) - 1 /\ (n + 2) + 1 = n + 3 /\ n + 3 \in 1 .. Len(s)
          /\ n + 2 <= Len(s)
      BY <1>0, <2>3
    <3>2. g[n + 3] = g[n + 2] \o s[n + 3]
      BY <1>1, <3>1
    <3>3. h[n + 2] = h[n + 1] \o t[n + 2]
      BY <2>1, <3>1
    <3>4. t[n + 2] = s[n + 3] /\ s[n + 3] \in Seq(S)
      BY <1>0, <3>1
    <3>5. g[n + 2] = s[1] \o h[n + 1]
      BY <1>0, <3>1
    <3>6. h[n + 1] \in Seq(S)
      BY <3>1
    <3>7. (s[1] \o h[n + 1]) \o s[n + 3] = s[1] \o (h[n + 1] \o s[n + 3])
      <4>1. Join(Join(s[1], h[n + 1]), s[n + 3]) = Join(s[1], Join(h[n + 1], s[n + 3]))
        BY <1>2, <3>4, <3>6, Regroup
      <4> QED
        BY <4>1 DEF Join
    <3> QED
      BY <3>2, <3>3, <3>4, <3>5, <3>7
  <2>4. Same \in SUBSET Nat /\ \A n \in Same : n + 1 \in Same
    <3>1. \A n \in Nat : n + 1 \in Nat /\ (n + 1) + 2 = n + 3 /\ (n + 1) + 1 = n + 2
      OBVIOUS
    <3> QED
      BY <2>3, <3>1
  <2>5. Len(s) - 2 \in Nat /\ (Len(s) - 2) + 2 = Len(s) /\ (Len(s) - 2) + 1 = Len(t)
    BY <1>0, <1>4
  <2>6. g[Len(s)] = s[1] \o h[Len(t)]
    <3> HIDE DEF Same
    <3>1. Same = Nat
      BY <2>2, <2>4, Induct
    <3>2. Len(s) - 2 \in Same
      BY <2>5, <3>1
    <3>3. \A n \in Same : n + 2 <= Len(s) => g[n + 2] = s[1] \o h[n + 1]
      BY DEF Same
    <3>4. (Len(s) - 2) + 2 <= Len(s)
      BY <1>0
    <3>5. g[(Len(s) - 2) + 2] = s[1] \o h[(Len(s) - 2) + 1]
      BY <3>2, <3>3, <3>4
    <3> QED
      BY <2>5, <3>5
  <2>7. FlattenSeq(t) \in Seq(S)
    <3>1. Len(t) \in 1 .. Len(t)
      BY <1>0, <2>0
    <3> QED
      BY <2>1, <3>1
  <2> QED
    BY <1>0, <1>1, <1>2, <2>1, <2>6, <2>7 DEF t
<1> QED
  BY <1>3, <1>4

\* One more frame at the end is one more at the end of the stream.
LEMMA FlattenAppend ==
    ASSUME NEW S, NEW s \in Seq(Seq(S)), NEW f \in Seq(S)
    PROVE  FlattenSeq(Append(s, f)) = FlattenSeq(s) \o f
<1> DEFINE a == Append(s, f)
<1>0. /\ Len(s) \in Nat /\ a \in Seq(Seq(S)) /\ a # <<>> /\ Len(a) = Len(s) + 1
      /\ a[Len(s) + 1] = f /\ \A i \in 1 .. Len(s) : a[i] = s[i]
  BY AppendProperties
<1> HIDE DEF a
<1>1. PICK g \in [1 .. Len(a) -> Seq(S)] :
         /\ g[1] = a[1]
         /\ \A i \in 2 .. Len(a) : g[i] = g[i - 1] \o a[i]
         /\ FlattenSeq(a) = g[Len(a)]
  BY <1>0, FlattenTable
<1>2. CASE s = <<>>
  <2>1. FlattenSeq(<<>>) = <<>> /\ <<>> \o f = f
    BY ConcatEmptySeq DEF FlattenSeq
  <2>2. Len(s) = 0 /\ Len(a) = 1
    BY <1>0, <1>2
  <2>3. FlattenSeq(a) = f
    BY <1>0, <1>1, <2>2
  <2> QED
    BY <1>2, <2>1, <2>3 DEF a
<1>3. CASE s # <<>>
  <2>0. Len(s) > 0
    BY <1>3, EmptySeq
  <2>1. PICK h \in [1 .. Len(s) -> Seq(S)] :
           /\ h[1] = s[1]
           /\ \A i \in 2 .. Len(s) : h[i] = h[i - 1] \o s[i]
           /\ FlattenSeq(s) = h[Len(s)]
    BY <1>3, FlattenTable
  <2> DEFINE Same == {n \in Nat : n + 1 <= Len(s) => g[n + 1] = h[n + 1]}
  <2>2. 0 \in Same
    <3>1. 1 \in 1 .. Len(s)
      BY <1>0, <2>0
    <3> QED
      BY <1>0, <1>1, <2>1, <3>1
  <2>3. ASSUME NEW n \in Same, n + 2 <= Len(s) PROVE g[n + 2] = h[n + 2]
    <3>1. /\ n \in Nat /\ n + 2 \in 2 .. Len(s) /\ n + 2 \in 2 .. Len(a)
          /\ n + 2 \in 1 .. Len(s) /\ n + 1 <= Len(s) /\ (n + 2) - 1 = n + 1
      BY <1>0, <2>3
    <3>2. g[n + 2] = g[n + 1] \o a[n + 2]
      BY <1>1, <3>1
    <3>3. h[n + 2] = h[n + 1] \o s[n + 2]
      BY <2>1, <3>1
    <3>4. a[n + 2] = s[n + 2]
      BY <1>0, <3>1
    <3>5. g[n + 1] = h[n + 1]
      BY <3>1
    <3> QED
      BY <3>2, <3>3, <3>4, <3>5
  <2>4. Same \in SUBSET Nat /\ \A n \in Same : n + 1 \in Same
    <3>1. \A n \in Nat : n + 1 \in Nat /\ (n + 1) + 1 = n + 2
      OBVIOUS
    <3> QED
      BY <2>3, <3>1
  <2>5. Len(s) - 1 \in Nat /\ (Len(s) - 1) + 1 = Len(s)
    BY <1>0, <2>0
  <2>6. g[Len(s)] = h[Len(s)]
    <3> HIDE DEF Same
    <3>1. Same = Nat
      BY <2>2, <2>4, Induct
    <3>2. Len(s) - 1 \in Same
      BY <2>5, <3>1
    <3> QED
      BY <2>5, <3>2 DEF Same
  <2>7. /\ Len(s) + 1 \in 2 .. Len(a) /\ (Len(s) + 1) - 1 = Len(s)
    BY <1>0, <2>0
  <2>8. g[Len(s) + 1] = g[Len(s)] \o f
    BY <1>0, <1>1, <2>7
  <2> QED
    BY <1>0, <1>1, <2>1, <2>6, <2>8 DEF a
<1> QED
  BY <1>2, <1>3
-----------------------------------------------------------------------------
\* What is left of two equal streams when the same bytes go from their front.
LEMMA DropFront ==
    ASSUME NEW S, NEW a \in Seq(S), NEW b \in Seq(S), NEW c \in Seq(S),
           NEW d \in Seq(S), a \o b = c \o d, Len(c) <= Len(a)
    PROVE  /\ SubSeq(a, Len(c) + 1, Len(a)) \o b = d
           /\ \A k \in 1 .. Len(c) : a[k] = c[k]
<1> DEFINE r == SubSeq(a, Len(c) + 1, Len(a))
<1>1. /\ Len(a) \in Nat /\ Len(b) \in Nat /\ Len(c) \in Nat /\ Len(d) \in Nat
      /\ Len(a) + Len(b) = Len(c) + Len(d)
      /\ \A k \in 1 .. Len(a) + Len(b) :
            (IF k <= Len(a) THEN a[k] ELSE b[k - Len(a)])
              = IF k <= Len(c) THEN c[k] ELSE d[k - Len(c)]
  BY ConcatProperties
<1>2. /\ r \in Seq(S) /\ Len(r) = Len(a) - Len(c)
      /\ \A k \in 1 .. Len(a) - Len(c) : r[k] = a[Len(c) + k]
  <2>1. \A k \in Len(c) + 1 .. Len(a) : a[k] \in S
    BY <1>1, ElementOfSeq
  <2>2. /\ r \in Seq(S)
        /\ Len(r) = IF Len(c) + 1 <= Len(a) THEN Len(a) - (Len(c) + 1) + 1 ELSE 0
        /\ \A k \in 1 .. Len(a) - (Len(c) + 1) + 1 : r[k] = a[(Len(c) + 1) + k - 1]
    BY <1>1, <2>1, SubSeqProperties
  <2>3. \A k \in Nat : (Len(c) + 1) + k - 1 = Len(c) + k
    BY <1>1
  <2>4. Len(a) - (Len(c) + 1) + 1 = Len(a) - Len(c)
    BY <1>1
  <2> HIDE DEF r
  <2>5. r \in Seq(S) /\ Len(r) = Len(a) - Len(c)
    <3>1. CASE Len(c) + 1 <= Len(a)
      BY <2>2, <2>4, <3>1
    <3>2. CASE ~ Len(c) + 1 <= Len(a)
      <4>1. Len(a) - Len(c) = 0
        BY <1>1, <3>2
      <4> QED
        BY <2>2, <3>2, <4>1
    <3> QED
      BY <3>1, <3>2
  <2>6. ASSUME NEW k \in 1 .. Len(a) - Len(c) PROVE r[k] = a[Len(c) + k]
    <3>1. k \in 1 .. Len(a) - (Len(c) + 1) + 1 /\ k \in Nat
      BY <1>1, <2>4
    <3>2. r[k] = a[(Len(c) + 1) + k - 1]
      BY <2>2, <3>1
    <3> QED
      BY <2>3, <3>1, <3>2
  <2> QED
    BY <2>5, <2>6
<1> HIDE DEF r
<1>3. /\ r \o b \in Seq(S) /\ Len(r \o b) = Len(d)
      /\ \A k \in 1 .. Len(d) :
            (r \o b)[k] = IF k <= Len(a) - Len(c) THEN r[k] ELSE b[k - (Len(a) - Len(c))]
  BY <1>1, <1>2, ConcatProperties
<1>4. ASSUME NEW k \in 1 .. Len(d) PROVE (r \o b)[k] = d[k]
  <2>1. Len(c) + k \in 1 .. Len(a) + Len(b) /\ ~ Len(c) + k <= Len(c)
        /\ (Len(c) + k) - Len(c) = k
    BY <1>1
  <2>2. (IF Len(c) + k <= Len(a) THEN a[Len(c) + k] ELSE b[(Len(c) + k) - Len(a)])
          = d[k]
    BY <1>1, <2>1
  <2>3. CASE k <= Len(a) - Len(c)
    <3>1. Len(c) + k <= Len(a) /\ k \in 1 .. Len(a) - Len(c)
      BY <1>1, <2>3
    <3> QED
      BY <1>2, <1>3, <2>2, <2>3, <3>1
  <2>4. CASE ~ k <= Len(a) - Len(c)
    <3>1. ~ Len(c) + k <= Len(a) /\ (Len(c) + k) - Len(a) = k - (Len(a) - Len(c))
      BY <1>1, <2>4
    <3> QED
      BY <1>3, <2>2, <2>4, <3>1
  <2> QED
    BY <2>3, <2>4
<1>5. r \o b = d
  BY <1>3, <1>4, SeqEqual
<1>6. \A k \in 1 .. Len(c) : a[k] = c[k]
  <2>1. \A k \in 1 .. Len(c) : k \in 1 .. Len(a) + Len(b) /\ k <= Len(a) /\ k <= Len(c)
    BY <1>1
  <2> QED
    BY <1>1, <2>1
<1> QED
  BY <1>5, <1>6 DEF r

\* The frames, and the streams built of them, are sequences of bytes.
LEMMA StreamTypes ==
    ASSUME TypeOK
    PROVE  /\ expected \in Seq(Seq(Bytes))
           /\ Frames \subseteq Seq(Bytes)
           /\ line \o out \in Seq(Bytes)
           /\ (buf \o line) \o out = buf \o (line \o out)
           /\ Len(buf) \in Nat
<1>1. Frames \subseteq Seq(Bytes)
  BY FrameAssumption DEF FrameAssumption
<1>2. expected \in Seq(Seq(Bytes))
  BY <1>1, SeqMonotonic DEF TypeOK
<1>3. buf \in Seq(Bytes) /\ line \in Seq(Bytes) /\ out \in Seq(Bytes)
  BY DEF TypeOK
<1>4. Join(Join(buf, line), out) = Join(buf, Join(line, out))
  BY <1>3, Regroup
<1>5. line \o out \in Seq(Bytes)
  BY <1>3, ConcatProperties
<1>6. Len(buf) \in Nat
  BY <1>3
<1>7. (buf \o line) \o out = buf \o (line \o out)
  BY <1>4 DEF Join
<1> QED
  BY <1>1, <1>2, <1>5, <1>6, <1>7

\* As long as the stream is kept the buffer begins like the frame expected next.
LEMMA BufferFront ==
    ASSUME TypeOK, StreamKept, Clean, buf # <<>>
    PROVE  /\ expected # <<>> /\ Head(expected) \in Frames
           /\ Tail(expected) \in Seq(Frames)
           /\ \A k \in 1 .. Len(buf) :
                 k <= Len(Head(expected)) => buf[k] = Head(expected)[k]
           /\ Len(buf) >= Len(Head(expected)) =>
                 SubSeq(buf, Len(Head(expected)) + 1, Len(buf)) \o line \o out
                   = FlattenSeq(Tail(expected))
<1>1. /\ buf \in Seq(Bytes) /\ line \in Seq(Bytes) /\ out \in Seq(Bytes)
      /\ line \o out \in Seq(Bytes)
      /\ buf \o (line \o out) = FlattenSeq(expected)
      /\ Len(buf) \in Nat /\ Len(line \o out) \in Nat
  <2>1. (buf \o line) \o out = FlattenSeq(expected)
    BY DEF StreamKept
  <2>2. Len(line \o out) \in Nat
    BY StreamTypes, LenProperties
  <2>3. buf \in Seq(Bytes) /\ line \in Seq(Bytes) /\ out \in Seq(Bytes)
    BY DEF TypeOK
  <2> QED
    BY <2>1, <2>2, <2>3, StreamTypes
<1>2. expected # <<>>
  <2>1. FlattenSeq(<<>>) = <<>>
    BY DEF FlattenSeq
  <2>2. buf \o (line \o out) # <<>>
    BY <1>1, ConcatEqualIffEmpty
  <2> QED
    BY <1>1, <2>1, <2>2
<1> DEFINE f == Head(expected)
           rest == FlattenSeq(Tail(expected))
           later == line \o out
<1>3. f \in Frames /\ Tail(expected) \in Seq(Frames)
  BY <1>2, HeadTailProperties DEF TypeOK
<1>4. /\ f \in Seq(Bytes) /\ rest \in Seq(Bytes)
      /\ buf \o later = f \o rest
  BY <1>1, <1>2, <1>3, StreamTypes, FlattenCons
<1>5. later \in Seq(Bytes) /\ Len(f) \in Nat
  BY <1>1, <1>4
<1> HIDE DEF f, rest, later
<1>6. ASSUME Len(buf) >= Len(f)
      PROVE  /\ SubSeq(buf, Len(f) + 1, Len(buf)) \o later = rest
             /\ \A k \in 1 .. Len(f) : buf[k] = f[k]
  <2>1. Len(f) <= Len(buf)
    BY <1>1, <1>5, <1>6
  <2>2. buf \in Seq(Bytes)
    BY <1>1
  <2>3. /\ f \in Seq(Bytes) /\ rest \in Seq(Bytes) /\ later \in Seq(Bytes)
        /\ buf \o later = f \o rest
    BY <1>4, <1>5
  <2> QED
    BY <2>1, <2>2, <2>3, DropFront
<1>7. ASSUME Len(buf) < Len(f)
      PROVE  \A k \in 1 .. Len(buf) : buf[k] = f[k]
  <2>0. Len(buf) <= Len(f)
    BY <1>1, <1>5, <1>7
  <2>1. f \o rest = buf \o later
    BY <1>4
  <2>2. \A k \in 1 .. Len(buf) : f[k] = buf[k]
    BY <1>1, <1>4, <1>5, <2>0, <2>1, DropFront
  <2> QED
    BY <2>2
<1>8. ASSUME Len(buf) >= Len(f)
      PROVE  SubSeq(buf, Len(f) + 1, Len(buf)) \o line \o out = rest
  <2> DEFINE left == SubSeq(buf, Len(f) + 1, Len(buf))
  <2>1. left \in Seq(Bytes)
    BY <1>5, CutFront
  <2> HIDE DEF left
  <2>2. (left \o line) \o out = left \o (line \o out)
    <3>1. Join(Join(left, line), out) = Join(left, Join(line, out))
      BY <1>1, <2>1, Regroup
    <3> QED
      BY <3>1 DEF Join
  <2>3. left \o later = rest
    BY <1>6, <1>8 DEF left
  <2> QED
    BY <2>2, <2>3 DEF left, later
<1>9. ASSUME NEW k \in 1 .. Len(buf), k <= Len(f) PROVE buf[k] = f[k]
  <2>1. CASE Len(buf) >= Len(f)
    <3>1. k \in 1 .. Len(f)
      BY <1>1, <1>5, <1>9
    <3> QED
      BY <1>6, <2>1, <3>1
  <2>2. CASE Len(buf) < Len(f)
    BY <1>7, <2>2
  <2> QED
    BY <1>1, <1>5, <2>1, <2>2
<1> QED
  BY <1>2, <1>3, <1>8, <1>9 DEF f, rest

-----------------------------------------------------------------------------
\* What a frame looks like that the board builds.
LEMMA FrameShape ==
    ASSUME FramesWellFormed, NEW f \in Frames
    PROVE  /\ f \in Seq(Bytes) /\ Len(f) \in Nat
           /\ ECB_MSG_MIN_LEN <= Len(f) /\ Len(f) <= BUF
           /\ Len(f) = ECB_MSG_MIN_LEN + f[6] * BASE + f[7]
           /\ f[6] * BASE + f[7] <= MAX_DATA
           /\ f[1] = H /\ f[2] = H /\ f[Len(f) - 1] = T /\ f[Len(f)] = T
<1>1. f \in Seq(Bytes) /\ Len(f) \in Nat
  BY FrameAssumption DEF FrameAssumption
<1> QED
  BY <1>1 DEF FramesWellFormed, WellFormed

\* The invariant of the stream.  StreamKept says what the parser finds at the
\* front of the buffer; HandedOnAtOnce that what fills the buffer between reads
\* is not a frame, so that the driver's buffer does not overflow either.
StreamInv == TypeOK /\ StreamKept /\ HandedOnAtOnce

\* A header in the buffer stands at its front, the length behind it is that of
\* the frame expected next, and a frame that is all there ends in its tailer.
LEMMA FirstFrame ==
    ASSUME FramesWellFormed, TypeOK, StreamKept, Clean, buf # <<>>,
           NEW f, f = Head(expected)
    PROVE  /\ \A i \in 1 .. BUF : HeaderAt(i) => i = 1
           /\ Len(buf) >= 2 => HasHeader
           /\ FieldsIn(1) => FrameLen(1) = Len(f) /\ DataLen(1) <= MAX_DATA
           /\ FieldsIn(1) /\ FrameIn(1) => HasTailer(1)
<1>1. /\ f \in Frames /\ \A k \in 1 .. Len(buf) : k <= Len(f) => buf[k] = f[k]
      /\ Len(buf) \in Nat
  BY BufferFront, StreamTypes
<1>2. /\ f \in Seq(Bytes) /\ Len(f) \in Nat
      /\ ECB_MSG_MIN_LEN <= Len(f) /\ Len(f) <= BUF
      /\ Len(f) = ECB_MSG_MIN_LEN + f[6] * BASE + f[7]
      /\ f[6] * BASE + f[7] <= MAX_DATA
      /\ f[1] = H /\ f[2] = H /\ f[Len(f) - 1] = T /\ f[Len(f)] = T
  BY <1>1, FrameShape
<1>3. Len(buf) >= 2 => IsHeader(1) /\ HasHeader
  <2>1. ASSUME Len(buf) >= 2
        PROVE  1 \in 1 .. Len(buf) /\ 2 \in 1 .. Len(buf) /\ 1 \in 1 .. Len(buf) - 1
               /\ 1 <= Len(f) /\ 2 <= Len(f)
    BY <1>1, <1>2, <2>1 DEF ECB_MSG_MIN_LEN
  <2>2. Len(buf) >= 2 => buf[1] = H /\ buf[1 + 1] = H
    BY <1>1, <1>2, <2>1
  <2> QED
    BY <2>1, <2>2 DEF HasHeader, IsHeader
<1>4. \A i \in 1 .. BUF : HeaderAt(i) => i = 1
  <2> SUFFICES ASSUME NEW i \in 1 .. BUF, HeaderAt(i), i # 1 PROVE FALSE
    OBVIOUS
  <2>1. Len(buf) >= 2 /\ 1 \in 1 .. i - 1
    BY <1>1 DEF HeaderAt
  <2> QED
    BY <1>3, <2>1 DEF HeaderAt
<1>5. FieldsIn(1) => FrameLen(1) = Len(f) /\ DataLen(1) <= MAX_DATA
  <2> SUFFICES ASSUME FieldsIn(1)
               PROVE  FrameLen(1) = Len(f) /\ DataLen(1) <= MAX_DATA
    OBVIOUS
  <2>1. Len(buf) >= 11
    BY <1>1 DEF FieldsIn, ECB_MSG_MIN_LEN
  <2>2. 6 \in 1 .. Len(buf) /\ 7 \in 1 .. Len(buf) /\ 6 <= Len(f) /\ 7 <= Len(f)
    BY <1>1, <1>2, <2>1 DEF ECB_MSG_MIN_LEN
  <2>3. buf[1 + 5] = f[6] /\ buf[1 + 6] = f[7]
    BY <1>1, <2>2
  <2>4. DataLen(1) = f[6] * BASE + f[7]
    BY <2>3 DEF DataLen
  <2>5. FrameLen(1) = ECB_MSG_MIN_LEN + (f[6] * BASE + f[7])
    BY <2>4 DEF FrameLen
  <2>6. f[6] * BASE \in Nat /\ f[7] \in Nat
    <3>1. f[6] \in Bytes /\ f[7] \in Bytes
      BY <1>2, <2>2, ElementOfSeq
    <3>2. \A x \in Bytes : x \in Nat /\ x * BASE \in Nat
      BY FrameAssumption DEF FrameAssumption, Bytes
    <3> QED
      BY <3>1, <3>2
  <2>7. \A x, y \in Nat : ECB_MSG_MIN_LEN + x + y = ECB_MSG_MIN_LEN + (x + y)
    BY DEF ECB_MSG_MIN_LEN
  <2>8. Len(f) = ECB_MSG_MIN_LEN + (f[6] * BASE + f[7])
    BY <1>2, <2>6, <2>7
  <2> QED
    BY <1>2, <2>4, <2>5, <2>8
<1>6. FieldsIn(1) /\ FrameIn(1) => HasTailer(1)
  <2> SUFFICES ASSUME FieldsIn(1), FrameIn(1) PROVE HasTailer(1)
    OBVIOUS
  <2>1. FrameLen(1) = Len(f)
    BY <1>5
  <2>2. /\ 1 - 1 + FrameLen(1) = Len(f)
        /\ Len(f) \in 1 .. Len(buf) /\ Len(f) - 1 \in 1 .. Len(buf)
        /\ Len(f) - 1 <= Len(f)
    BY <1>1, <1>2, <2>1 DEF FrameIn, ECB_MSG_MIN_LEN
  <2>3. buf[Len(f) - 1] = f[Len(f) - 1] /\ buf[Len(f)] = f[Len(f)]
    <3> DEFINE p == Len(f) - 1
               q == Len(f)
    <3>1. p \in 1 .. Len(buf) /\ p <= Len(f) /\ q \in 1 .. Len(buf) /\ q <= Len(f)
      BY <1>2, <2>2
    <3> HIDE DEF p, q
    <3>2. buf[p] = f[p] /\ buf[q] = f[q]
      BY <1>1, <3>1
    <3> QED
      BY <3>2 DEF p, q
  <2>4. buf[Len(f) - 1] = T /\ buf[Len(f)] = T
    BY <1>2, <2>3
  <2> QED
    BY <2>2, <2>4 DEF HasTailer
<1> QED
  BY <1>3, <1>4, <1>5, <1>6

\* Bytes only move on from the board to the line and from there to the buffer.
LEMMA LineKeepsStream ==
    ASSUME FramesWellFormed, StreamInv, TypeOK',
           \/ \E f \in Frames : SendFrame(f)
           \/ Arrive \/ Overrun \/ LoseByte
           \/ \E b \in Bytes : StrayByte(b) \/ AlterByte(b)
           \/ Read
    PROVE  StreamKept' /\ HandedOnAtOnce'
<1>0. /\ buf \in Seq(Bytes) /\ line \in Seq(Bytes) /\ out \in Seq(Bytes)
      /\ noise \in Nat /\ expected \in Seq(Frames) /\ Len(buf) \in Nat
      /\ buf \o line \in Seq(Bytes)
  BY ConcatProperties, FrameAssumption DEF FrameAssumption, StreamInv, TypeOK
<1>1. ASSUME NEW f \in Frames, SendFrame(f) PROVE StreamKept' /\ HandedOnAtOnce'
  <2>1. /\ UNCHANGED <<buf, line, noise, cut, parsing>> /\ out = <<>> /\ out' = f
        /\ Clean => expected' = Append(expected, f)
        /\ Clean' = Clean
    BY <1>1 DEF SendFrame, Clean
  <2>2. f \in Seq(Bytes) /\ ECB_MSG_MIN_LEN <= Len(f)
    BY FrameShape
  <2>3. ASSUME Clean PROVE StreamKept'
    <3>1. buf \o line = FlattenSeq(expected)
      <4>1. (buf \o line) \o <<>> = buf \o line
        BY <1>0, ConcatEmptySeq
      <4>2. buf \o line \o out = FlattenSeq(expected)
        BY <2>3 DEF StreamInv, StreamKept
      <4> QED
        BY <2>1, <4>1, <4>2
    <3>2. FlattenSeq(Append(expected, f)) = FlattenSeq(expected) \o f
      BY <2>2, StreamTypes, FlattenAppend DEF StreamInv
    <3>3. (buf \o line \o out)' = FlattenSeq(expected')
      BY <2>1, <2>3, <3>1, <3>2
    <3> QED
      BY <3>3 DEF StreamKept
  <2>4. ASSUME Clean PROVE HandedOnAtOnce'
    <3>1. CASE expected = <<>>
      <4>1. buf = <<>>
        BY <2>4, <3>1, BufferFront DEF StreamInv
      <4>2. Head(expected') = f
        BY <1>0, <2>1, <2>4, <3>1, HeadTailAppend
      <4> QED
        BY <2>1, <2>2, <4>1, <4>2 DEF HandedOnAtOnce, ECB_MSG_MIN_LEN
    <3>2. CASE expected # <<>>
      <4>1. Head(expected') = Head(expected)
        BY <1>0, <2>1, <2>4, <3>2, HeadTailAppend
      <4> QED
        BY <2>1, <3>2, <4>1 DEF StreamInv, HandedOnAtOnce
    <3> QED
      BY <3>1, <3>2
  <2> QED
    BY <2>1, <2>3, <2>4 DEF StreamKept, HandedOnAtOnce
<1>2. CASE Arrive
  <2>1. /\ UNCHANGED <<buf, parsing, noise, cut, expected>>
        /\ line' = Append(line, Head(out)) /\ out' = Tail(out) /\ out # <<>>
    BY <1>2 DEF Arrive
  <2>2. /\ Head(out) \in Bytes /\ Tail(out) \in Seq(Bytes)
        /\ <<Head(out)>> \in Seq(Bytes)
        /\ <<Head(out)>> \o Tail(out) = out
    BY <1>0, <2>1, HeadTailProperties
  <2>3. Append(line, Head(out)) = line \o <<Head(out)>>
    BY <1>0, <2>2, AppendIsConcat
  <2>4. (buf \o line \o out)' = buf \o line \o out
    <3> DEFINE h == <<Head(out)>>
               t == Tail(out)
    <3>1. h \in Seq(Bytes) /\ t \in Seq(Bytes) /\ h \o t = out
      BY <2>2
    <3>2. (buf \o line \o out)' = (buf \o (line \o h)) \o t
      BY <2>1, <2>3
    <3> HIDE DEF h, t
    <3>3. Join(buf, Join(line, h)) = Join(Join(buf, line), h)
      BY <1>0, <3>1, Regroup
    <3>4. Join(Join(Join(buf, line), h), t) = Join(Join(buf, line), Join(h, t))
      BY <1>0, <3>1, Regroup, JoinType
    <3>5. (buf \o (line \o h)) \o t = (buf \o line) \o (h \o t)
      BY <3>3, <3>4 DEF Join
    <3> QED
      BY <3>1, <3>2, <3>5
  <2> QED
    BY <2>1, <2>4 DEF StreamInv, StreamKept, HandedOnAtOnce, Clean
<1>3. CASE Overrun
  <2>1. ~ Clean
    <3> SUFFICES ASSUME Clean PROVE FALSE
      OBVIOUS
    <3>1. Len(buf) = BUF /\ ~ parsing
      BY <1>3 DEF Overrun, Wedged
    <3>2. buf # <<>>
      BY <3>1, FrameAssumption DEF FrameAssumption, ECB_MSG_MIN_LEN
    <3>3. expected # <<>> /\ Head(expected) \in Frames
      BY <3>2, BufferFront DEF StreamInv
    <3>4. Len(Head(expected)) <= BUF /\ Len(Head(expected)) \in Nat
      BY <3>3, FrameShape
    <3> QED
      BY <1>0, <3>1, <3>3, <3>4 DEF StreamInv, HandedOnAtOnce
  <2> QED
    BY <1>3, <2>1 DEF Overrun, Clean, StreamKept, HandedOnAtOnce
<1>4. CASE Disturb
  <2>1. noise' # 0
    BY <1>0, <1>4 DEF Disturb
  <2> QED
    BY <2>1 DEF Clean, StreamKept, HandedOnAtOnce
<1>5. CASE Read
  <2> DEFINE n == Least(Room, Len(line))
  <2>1. n \in Nat /\ n <= Len(line) /\ Len(line) \in Nat
    BY <1>0, <1>5, FrameAssumption DEF FrameAssumption, Read, Least, Room
  <2> DEFINE front == SubSeq(line, 1, n)
             rest == SubSeq(line, n + 1, Len(line))
  <2>2. /\ UNCHANGED <<out, noise, cut, expected>> /\ parsing'
        /\ buf' = buf \o front /\ line' = rest
    BY <1>5 DEF Read
  <2> HIDE DEF n
  <2>3. front \o rest = line
    <3>1. SubSeq(line, 1, n) \o SubSeq(line, n + 1, Len(line)) = SubSeq(line, 1, Len(line))
      <4>1. /\ line \in Seq(Bytes) /\ 1 \in 1 .. Len(line) + 1
            /\ n \in 1 - 1 .. Len(line) /\ Len(line) \in n .. Len(line)
        BY <1>0, <2>1
      <4> QED
        BY <4>1, ConcatAdjacentSubSeq
    <3> QED
      BY <1>0, <3>1, SubSeqFull
  <2>4. front \in Seq(Bytes) /\ rest \in Seq(Bytes)
    <3>1. \A k \in 1 .. Len(line) : line[k] \in Bytes
      BY <1>0, ElementOfSeq
    <3> QED
      BY <2>1, <3>1, SubSeqProperties
  <2> HIDE DEF front, rest
  <2>5. (buf \o front) \o rest = buf \o line
    <3>1. Join(Join(buf, front), rest) = Join(buf, Join(front, rest))
      BY <1>0, <2>4, Regroup
    <3>2. (buf \o front) \o rest = buf \o (front \o rest)
      BY <3>1 DEF Join
    <3> QED
      BY <2>3, <3>2
  <2>6. (buf \o line \o out)' = buf \o line \o out
    BY <2>2, <2>5
  <2> QED
    BY <2>2, <2>6 DEF StreamInv, StreamKept, HandedOnAtOnce, Clean
<1> QED
  BY <1>1, <1>2, <1>3, <1>4, <1>5 DEF LoseByte, StrayByte, AlterByte

\* A call that leaves the buffer as it is: at most the loop is left.
LEMMA KeepNothing ==
    ASSUME TypeOK, StreamKept, Keep(0), UNCHANGED <<out, line, noise, cut, expected>>
    PROVE  StreamKept' /\ buf' = buf
<1>1. buf' = buf
  BY SubSeqFull DEF Keep, TypeOK
<1> QED
  BY <1>1 DEF StreamKept, Clean

\* The parser takes nothing but whole frames off the front of a clean stream,
\* and leaves its loop only when the next one is not complete.
LEMMA CallKeepsStream ==
    ASSUME FramesWellFormed, StreamInv, TypeOK', Call
    PROVE  StreamKept' /\ HandedOnAtOnce'
<1> SUFFICES ASSUME Clean PROVE StreamKept' /\ HandedOnAtOnce'
  <2>1. Clean' => Clean
    BY DEF Clean, Call, TooShort, NoHeader, Parsing, Parse, AwaitFields, RefuseLength,
           GiveUpFrame, Accepted, AwaitRest, RefuseTailer, HandOn
  <2> QED
    BY <2>1 DEF StreamKept, HandedOnAtOnce
<1> DEFINE f == Head(expected)
<1>0. /\ TypeOK /\ StreamKept /\ Len(buf) \in Nat
  BY StreamTypes DEF StreamInv
<1>1. CASE buf = <<>>
  <2>1. Len(buf) = 0
    BY <1>1
  <2>2. TooShort
    <3>1. ~ NoHeader /\ \A i \in 1 .. BUF : ~ Parse(i)
      BY <2>1 DEF NoHeader, Parse, AwaitFields, RefuseLength, GiveUpFrame, AwaitRest,
                  Accepted, RefuseTailer, HandOn, HeaderAt
    <3> QED
      BY <3>1 DEF Call
  <2>3. StreamKept' /\ buf' = buf
    BY <1>0, <2>2, KeepNothing DEF TooShort, Parsing
  <2>4. ASSUME expected # <<>> PROVE Len(f) > 0 /\ expected' = expected
    <3>1. f \in Frames
      BY <1>0, <2>4, HeadTailProperties DEF TypeOK
    <3>2. expected' = expected
      BY <2>2 DEF TooShort
    <3> QED
      BY <3>1, <3>2, FrameShape DEF ECB_MSG_MIN_LEN
  <2>5. expected' = expected
    BY <2>2 DEF TooShort
  <2> QED
    BY <2>1, <2>3, <2>4, <2>5 DEF HandedOnAtOnce
<1>2. CASE buf # <<>>
  <2>1. /\ expected # <<>> /\ f \in Frames /\ Tail(expected) \in Seq(Frames)
        /\ Len(buf) >= Len(f) =>
             SubSeq(buf, Len(f) + 1, Len(buf)) \o line \o out = FlattenSeq(Tail(expected))
    BY <1>0, <1>2, BufferFront
  <2>2. /\ Len(f) \in Nat /\ Len(f) >= 11
    BY <2>1, FrameShape DEF ECB_MSG_MIN_LEN
  <2>3. /\ \A i \in 1 .. BUF : HeaderAt(i) => i = 1
        /\ Len(buf) >= 2 => HasHeader
        /\ FieldsIn(1) => FrameLen(1) = Len(f) /\ DataLen(1) <= MAX_DATA
        /\ FieldsIn(1) /\ FrameIn(1) => HasTailer(1)
    BY <1>0, <1>2, FirstFrame
  <2> HIDE DEF f
  \* the call changes nothing, and the frame is not complete
  <2>4. ASSUME Keep(0), Len(buf) < Len(f), UNCHANGED <<out, line, noise, cut, expected>>
        PROVE  StreamKept' /\ HandedOnAtOnce'
    <3>1. StreamKept' /\ buf' = buf
      BY <1>0, <2>4, KeepNothing
    <3> QED
      BY <2>4, <3>1 DEF HandedOnAtOnce, f
  <2>5. CASE TooShort
    <3>1. Len(buf) < Len(f)
      BY <1>0, <2>2, <2>5 DEF TooShort
    <3> QED
      BY <2>4, <2>5, <3>1 DEF TooShort, Parsing
  <2>6. CASE NoHeader
    BY <2>3, <2>6 DEF NoHeader
  <2>7. ASSUME NEW i \in 1 .. BUF, Parse(i) PROVE StreamKept' /\ HandedOnAtOnce'
    <3>1. i = 1
      BY <2>3, <2>7 DEF Parse, AwaitFields, RefuseLength, GiveUpFrame, AwaitRest,
                        Accepted, RefuseTailer, HandOn
    <3>2. CASE AwaitFields(1)
      <4>1. Len(buf) < Len(f) /\ 1 - 1 = 0
        BY <1>0, <2>2, <3>2 DEF AwaitFields, FieldsIn, ECB_MSG_MIN_LEN
      <4> QED
        BY <2>4, <3>2, <4>1 DEF AwaitFields, Parsing
    <3>3. CASE RefuseLength(1)
      <4>1. FieldsIn(1) /\ DataLen(1) > MAX_DATA /\ 1 \in 1 .. BUF /\ HeaderAt(1)
        BY <2>7, <3>1, <3>3 DEF RefuseLength
      <4>2. DataLen(1) \in Nat
        BY <1>0, <4>1, FieldTypes
      <4> QED
        BY <2>3, <4>1, <4>2, FrameAssumption DEF FrameAssumption
    <3>4. CASE GiveUpFrame(1)
      BY <3>4 DEF GiveUpFrame, StreamKept, HandedOnAtOnce, Clean
    <3>5. CASE AwaitRest(1)
      <4>1. Len(buf) < Len(f) /\ 1 - 1 = 0
        BY <1>0, <2>2, <2>3, <3>5 DEF AwaitRest, Accepted, FrameIn
      <4> QED
        BY <2>4, <3>5, <4>1 DEF AwaitRest, Accepted, Parsing
    <3>6. CASE RefuseTailer(1)
      BY <2>3, <3>6 DEF RefuseTailer, Accepted
    <3>7. CASE HandOn(1)
      <4>1. FrameLen(1) = Len(f) /\ 1 - 1 + Len(f) = Len(f) /\ Len(buf) >= Len(f)
        BY <1>0, <2>2, <2>3, <3>7 DEF HandOn, Accepted, FrameIn
      <4>2. /\ buf' = SubSeq(buf, Len(f) + 1, Len(buf))
            /\ parsing' = (Len(f) < Len(buf))
            /\ UNCHANGED <<out, line, noise, cut>>
            /\ expected' = Tail(expected)
        BY <2>1, <3>7, <4>1 DEF HandOn, Accepted, Parsing, Skip
      <4>3. StreamKept'
        BY <2>1, <4>1, <4>2 DEF StreamKept
      <4>4. ASSUME ~ parsing', expected' # <<>> PROVE Len(buf') < Len(Head(expected'))
        <5>1. ~ Len(f) < Len(buf)
          BY <4>2, <4>4, Zenon
        <5>2. Len(buf') = 0
          BY <1>0, <2>2, <4>2, <5>1, CutFront
        <5>3. Head(expected') \in Frames
          BY <2>1, <4>2, <4>4, HeadTailProperties
        <5>4. Len(Head(expected')) >= 11
          BY <5>3, FrameShape DEF ECB_MSG_MIN_LEN
        <5> QED
          BY <5>2, <5>4
      <4> QED
        BY <4>3, <4>4 DEF HandedOnAtOnce
    <3> QED
      BY <2>7, <3>1, <3>2, <3>3, <3>4, <3>5, <3>6, <3>7 DEF Parse
  <2> QED
    BY <2>5, <2>6, <2>7 DEF Call
<1> QED
  BY <1>1, <1>2

LEMMA StreamStep ==
    ASSUME FramesWellFormed, StreamInv, [Next]_vars
    PROVE  StreamInv'
<1>1. TypeOK'
  BY TypeStep DEF StreamInv
<1>2. CASE UNCHANGED vars
  BY <1>1, <1>2 DEF vars, StreamInv, StreamKept, HandedOnAtOnce, Clean
<1>3. CASE Call
  BY <1>1, <1>3, CallKeepsStream DEF StreamInv
<1>4. CASE \/ \E f \in Frames : SendFrame(f)
           \/ Arrive \/ Overrun \/ LoseByte
           \/ \E b \in Bytes : StrayByte(b) \/ AlterByte(b)
           \/ Read
  BY <1>1, <1>4, LineKeepsStream DEF StreamInv
<1> QED
  BY <1>2, <1>3, <1>4 DEF Next

LEMMA StreamInit == Init => StreamInv
<1> SUFFICES ASSUME Init PROVE StreamInv
  OBVIOUS
<1>1. FlattenSeq(<<>>) = <<>>
  BY DEF FlattenSeq
<1>2. <<>> \o <<>> \o <<>> = <<>>
  BY ConcatEmptySeq
<1>3. buf = <<>> /\ line = <<>> /\ out = <<>> /\ expected = <<>>
  BY DEF Init
<1> QED
  BY <1>1, <1>2, <1>3, TypeInit DEF StreamInv, StreamKept, HandedOnAtOnce

\* However the reads split and join what the board sends, buffer, line and board
\* hold the frames not handed on, in order and whole, whatever frames there are.
THEOREM StreamCorrect == FramesWellFormed => (Spec => []StreamKept)
<1> SUFFICES ASSUME FramesWellFormed PROVE Spec => []StreamKept
  OBVIOUS
<1>1. StreamInv /\ [Next]_vars => StreamInv'
  BY StreamStep
<1>2. StreamInv => StreamKept
  BY DEF StreamInv
<1> QED
  BY <1>1, <1>2, StreamInit, PTL DEF Spec

\* When uart_parse_msg returns no complete frame is left behind in the buffer.
THEOREM DeliveryCorrect == FramesWellFormed => (Spec => []HandedOnAtOnce)
<1> SUFFICES ASSUME FramesWellFormed PROVE Spec => []HandedOnAtOnce
  OBVIOUS
<1>1. StreamInv /\ [Next]_vars => StreamInv'
  BY StreamStep
<1>2. StreamInv => HandedOnAtOnce
  BY DEF StreamInv
<1> QED
  BY <1>1, <1>2, StreamInit, PTL DEF Spec
=============================================================================
