------------------------- MODULE PacketHeaderProofs -------------------------
(* For every header length, payload limit and byte stream, and however the *)
(* stream is cut into chunks: the deframer sends on exactly the frames of  *)
(* the stream, withholds none, and enforces the limit.                     *)
EXTENDS PacketHeader, SequenceTheorems, WellFoundedInduction, TLAPS

LEMMA Lengths == HeaderLength \in Nat /\ HeaderLength >= 4 /\ MaxPayloadLength \in Nat
BY PacketHeaderAssumption

USE Lengths

-----------------------------------------------------------------------------
(* Facts about the operators *)

\* Shifting by a byte stays in the natural numbers.
LEMMA ShiftNat == ASSUME NEW a \in Nat, NEW b \in Nat PROVE a * 256 + b \in Nat
OBVIOUS

\* A length field is a natural number.
LEMMA LengthAtNat ==
    ASSUME NEW s \in Seq(Byte), NEW p \in Nat, p + HeaderLength <= Len(s)
    PROVE  LengthAt(s, p) \in Nat
<1> DEFINE h == p + HeaderLength
<1>1. s[h - 3] \in Nat /\ s[h - 2] \in Nat /\ s[h - 1] \in Nat /\ s[h] \in Nat
  <2>1. s[h - 3] \in Byte /\ s[h - 2] \in Byte /\ s[h - 1] \in Byte /\ s[h] \in Byte
        OBVIOUS
  <2>2. \A x \in Byte : x \in Nat BY DEF Byte
  <2> HIDE DEF h
  <2>3. QED BY <2>1, <2>2
<1>2. s[h - 3] * 256 + s[h - 2] \in Nat BY <1>1, ShiftNat
<1>3. (s[h - 3] * 256 + s[h - 2]) * 256 + s[h - 1] \in Nat BY <1>1, <1>2, ShiftNat
<1>4. ((s[h - 3] * 256 + s[h - 2]) * 256 + s[h - 1]) * 256 + s[h] \in Nat
      BY <1>1, <1>3, ShiftNat
<1>5. QED BY <1>4 DEF LengthAt

\* A stretch of the stream has the length of its bounds and its bytes.
LEMMA SliceProperties ==
    ASSUME NEW s \in Seq(Byte), NEW a \in Nat, NEW b \in Nat, a <= b, b <= Len(s)
    PROVE  /\ SubSeq(s, a + 1, b) \in Seq(Byte)
           /\ Len(SubSeq(s, a + 1, b)) = b - a
           /\ \A i \in 1..(b - a) : SubSeq(s, a + 1, b)[i] = s[a + i]
<1>1. \A i \in (a + 1)..b : s[i] \in Byte OBVIOUS
<1>2. /\ SubSeq(s, a + 1, b) \in Seq(Byte)
      /\ Len(SubSeq(s, a + 1, b)) = IF a + 1 <= b THEN b - (a + 1) + 1 ELSE 0
      /\ \A i \in 1..(b - (a + 1) + 1) : SubSeq(s, a + 1, b)[i] = s[a + 1 + i - 1]
      BY <1>1, SubSeqProperties
<1>3. QED BY <1>2

\* The length field read in a stretch of the stream is the stream's.
LEMMA LengthAtSlice ==
    ASSUME NEW s \in Seq(Byte), NEW a \in Nat, NEW b \in Nat,
           a + HeaderLength <= b, b <= Len(s)
    PROVE  LengthAt(SubSeq(s, a + 1, b), 0) = LengthAt(s, a)
<1> DEFINE t == SubSeq(s, a + 1, b)
<1>1. \A i \in 1..(b - a) : t[i] = s[a + i] BY SliceProperties
<1>2. /\ t[HeaderLength] = s[a + HeaderLength]
      /\ t[HeaderLength - 1] = s[a + HeaderLength - 1]
      /\ t[HeaderLength - 2] = s[a + HeaderLength - 2]
      /\ t[HeaderLength - 3] = s[a + HeaderLength - 3]
      BY <1>1
<1>3. QED BY <1>2 DEF LengthAt

\* A stretch of a stretch is a stretch of the stream.
LEMMA SliceOfSlice ==
    ASSUME NEW s \in Seq(Byte), NEW a \in Nat, NEW b \in Nat, a <= b, b <= Len(s),
           NEW m \in Nat, NEW n \in Nat, m <= n, n <= b - a
    PROVE  SubSeq(SubSeq(s, a + 1, b), m + 1, n) = SubSeq(s, a + m + 1, a + n)
<1> DEFINE t == SubSeq(s, a + 1, b)
           u == SubSeq(t, m + 1, n)
           v == SubSeq(s, a + m + 1, a + n)
<1>1. t \in Seq(Byte) /\ Len(t) = b - a /\ \A i \in 1..(b - a) : t[i] = s[a + i]
      BY SliceProperties
<1>2. u \in Seq(Byte) /\ Len(u) = n - m /\ \A i \in 1..(n - m) : u[i] = t[m + i]
  <2> HIDE DEF t
  <2> QED BY <1>1, SliceProperties
<1>3. /\ v \in Seq(Byte) /\ Len(v) = (a + n) - (a + m)
      /\ \A i \in 1..((a + n) - (a + m)) : v[i] = s[a + m + i]
      BY SliceProperties
<1>4. \A i \in 1..Len(u) : u[i] = v[i] BY <1>1, <1>2, <1>3
<1>5. QED
  <2> HIDE DEF u, v
  <2> QED BY <1>2, <1>3, <1>4, SeqEqual

\* Adjacent stretches join.
LEMMA SliceConcat ==
    ASSUME NEW s \in Seq(Byte), NEW a \in Nat, NEW b \in Nat, NEW c \in Nat,
           a <= b, b <= c, c <= Len(s)
    PROVE  SubSeq(s, a + 1, b) \o SubSeq(s, b + 1, c) = SubSeq(s, a + 1, c)
<1> DEFINE t == SubSeq(s, a + 1, b)
           u == SubSeq(s, b + 1, c)
           v == SubSeq(s, a + 1, c)
<1>1. t \in Seq(Byte) /\ Len(t) = b - a /\ \A i \in 1..(b - a) : t[i] = s[a + i]
      BY SliceProperties
<1>2. u \in Seq(Byte) /\ Len(u) = c - b /\ \A i \in 1..(c - b) : u[i] = s[b + i]
      BY SliceProperties
<1>3. v \in Seq(Byte) /\ Len(v) = c - a /\ \A i \in 1..(c - a) : v[i] = s[a + i]
      BY SliceProperties
<1> HIDE DEF t, u, v
<1>4. /\ t \o u \in Seq(Byte) /\ Len(t \o u) = c - a
      /\ \A i \in 1..(c - a) : (t \o u)[i] = IF i <= b - a THEN t[i] ELSE u[i - (b - a)]
  <2>1. /\ t \o u \in Seq(Byte) /\ Len(t \o u) = Len(t) + Len(u)
        /\ \A i \in 1..Len(t) + Len(u) :
              (t \o u)[i] = IF i <= Len(t) THEN t[i] ELSE u[i - Len(t)]
        BY <1>1, <1>2, ConcatProperties
  <2>2. Len(t) + Len(u) = c - a BY <1>1, <1>2
  <2>3. QED BY <2>1, <2>2, <1>1
<1>5. \A i \in 1..(c - a) : (t \o u)[i] = v[i]
  <2>1. TAKE i \in 1..(c - a)
  <2>2. CASE i <= b - a BY <2>2, <1>1, <1>3, <1>4
  <2>3. CASE ~(i <= b - a)
    <3>1. i - (b - a) \in 1..(c - b) BY <2>3
    <3>2. u[i - (b - a)] = s[b + (i - (b - a))] BY <3>1, <1>2
    <3>3. b + (i - (b - a)) = a + i OBVIOUS
    <3>4. QED BY <2>3, <3>2, <3>3, <1>3, <1>4
  <2>4. QED BY <2>2, <2>3
<1>6. t \o u = v BY <1>3, <1>4, <1>5, SeqEqual
<1>7. QED BY <1>6 DEF t, u, v

\* What NextWith decides about the bytes received from a boundary on, said of
\* the stream itself.
LEMMA NextWithSlice ==
    ASSUME NEW s \in Seq(Byte), NEW a \in Nat, NEW b \in Nat, a <= b, b <= Len(s)
    PROVE  LET w == NextWith(SubSeq(s, a + 1, b)) IN
           /\ w \in {"recv", "send", "sendTooLarge"}
           /\ w = "recv" =>
                 \/ b < a + HeaderLength
                 \/ LengthAt(s, a) <= MaxPayloadLength /\ b < a + HeaderLength + LengthAt(s, a)
           /\ w = "send" =>
                 /\ a + HeaderLength + LengthAt(s, a) <= b
                 /\ a + HeaderLength <= b
                 /\ LengthAt(s, a) <= MaxPayloadLength
           /\ w = "sendTooLarge" =>
                 a + HeaderLength <= b /\ LengthAt(s, a) > MaxPayloadLength
<1> DEFINE t == SubSeq(s, a + 1, b)
<1>1. Len(t) = b - a BY SliceProperties
<1>2. CASE b < a + HeaderLength BY <1>1, <1>2 DEF NextWith
<1>3. CASE a + HeaderLength <= b
  <2>1. LengthAt(t, 0) = LengthAt(s, a) BY <1>3, LengthAtSlice
  <2>2. LengthAt(s, a) \in Nat BY <1>3, LengthAtNat
  <2>3. ~(Len(t) < HeaderLength) BY <1>1, <1>3
  <2>4. (Len(t) < HeaderLength + LengthAt(s, a)) <=> (b < a + HeaderLength + LengthAt(s, a))
        BY <1>1, <2>2
  <2> HIDE DEF t
  <2>5. NextWith(t) = IF LengthAt(s, a) > MaxPayloadLength THEN "sendTooLarge"
                      ELSE IF b < a + HeaderLength + LengthAt(s, a) THEN "recv" ELSE "send"
        BY <2>1, <2>3, <2>4 DEF NextWith
  <2>6. QED BY <1>3, <2>2, <2>5 DEF t
<1>4. QED BY <1>2, <1>3

-----------------------------------------------------------------------------
(* The inductive invariant *)

\* What the goroutine is about to send is decided by the frame at the next
\* boundary, and an error is the last thing it sends.
PcSound ==
    /\ pc = "send" =>
          /\ Base + HeaderLength + LengthAt(wire, Base) <= recvd
          /\ Base + HeaderLength <= recvd
          /\ LengthAt(wire, Base) <= MaxPayloadLength
    /\ pc = "sendTooLarge" =>
          Base + HeaderLength <= recvd /\ LengthAt(wire, Base) > MaxPayloadLength
    /\ err # "none" => pc = "done"

IInv == TypeOK /\ FramesExact /\ NothingWithheld /\ LimitEnforced /\ PcSound

\* The next boundary is a position of the received part of the stream.
LEMMA BaseInRange == ASSUME IInv PROVE Base \in Nat /\ Base <= recvd /\ recvd <= Len(wire)
BY DEF IInv, TypeOK, FramesExact, Base

\* A step that ends the goroutine and sends nothing on keeps IInv, and so does
\* any step that leaves everything but pc and the context alone.
LEMMA EndStep ==
    ASSUME IInv, UNCHANGED <<wire, recvd, buf, out, starts, err>>,
           ctxDone' \in BOOLEAN,
           pc' = pc \/ pc' = "done" \/ (pc' = "sendErr" /\ pc = "recv")
    PROVE  IInv'
<1>1. TypeOK' BY DEF IInv, TypeOK
<1>2. FramesExact' BY DEF IInv, FramesExact, Base, LengthAt
<1>3. NothingWithheld' BY DEF IInv, NothingWithheld, Base, LengthAt
<1>4. LimitEnforced' BY DEF IInv, LimitEnforced, Base, LengthAt
<1>5. PcSound' BY DEF IInv, PcSound, Base, LengthAt
<1>6. QED BY <1>1, <1>2, <1>3, <1>4, <1>5 DEF IInv

\* A chunk of any size extends the buffered stretch.
LEMMA ReceiveStep == ASSUME IInv, Receive PROVE IInv'
<1>0. TypeOK BY DEF IInv
<1>1. PICK n \in 1..(Len(wire) - recvd) :
         recvd' = recvd + n /\ buf' = buf \o SubSeq(wire, recvd + 1, recvd + n)
      BY DEF Receive
<1>2. Base \in Nat /\ Base <= recvd /\ recvd \in Nat /\ recvd <= Len(wire)
      BY BaseInRange, <1>0 DEF TypeOK
<1>3. recvd' \in Nat /\ recvd' <= Len(wire) /\ recvd <= recvd' BY <1>1, <1>2, <1>0 DEF TypeOK
<1>4. Base' = Base /\ wire' = wire /\ out' = out /\ starts' = starts /\ err' = err
      BY DEF Receive, Base
<1>5. buf' = SubSeq(wire, Base + 1, recvd')
  <2>1. buf = SubSeq(wire, Base + 1, recvd) BY DEF IInv, FramesExact
  <2>2. wire \in Seq(Byte) BY <1>0 DEF TypeOK
  <2>3. SubSeq(wire, Base + 1, recvd) \o SubSeq(wire, recvd + 1, recvd')
           = SubSeq(wire, Base + 1, recvd')
        BY <2>2, <1>2, <1>3, SliceConcat
  <2>4. QED BY <1>1, <2>1, <2>3
<1>6. buf' \in Seq(Byte) BY <1>0, <1>2, <1>3, <1>5, SliceProperties DEF TypeOK
<1>7. pc' = NextWith(SubSeq(wire, Base + 1, recvd')) BY <1>5 DEF Receive
<1>8. /\ pc' \in {"recv", "send", "sendTooLarge"}
      /\ pc' = "recv" =>
            \/ recvd' < Base + HeaderLength
            \/ /\ LengthAt(wire, Base) <= MaxPayloadLength
               /\ recvd' < Base + HeaderLength + LengthAt(wire, Base)
      /\ pc' = "send" =>
            /\ Base + HeaderLength + LengthAt(wire, Base) <= recvd'
            /\ Base + HeaderLength <= recvd'
            /\ LengthAt(wire, Base) <= MaxPayloadLength
      /\ pc' = "sendTooLarge" =>
            Base + HeaderLength <= recvd' /\ LengthAt(wire, Base) > MaxPayloadLength
  <2>1. wire \in Seq(Byte) /\ Base <= recvd' BY <1>0, <1>2, <1>3 DEF TypeOK
  <2>2. QED BY <2>1, <1>2, <1>3, <1>7, NextWithSlice
<1>9. TypeOK' BY <1>0, <1>3, <1>4, <1>6, <1>8 DEF TypeOK, Receive
<1>10. FramesExact'
  <2>1. \A i \in 1..Len(out) : starts[i + 1] \in Nat BY <1>0 DEF TypeOK
  <2>2. \A i \in 1..Len(out) : starts[i + 1] <= recvd'
        BY <2>1, <1>2, <1>3 DEF IInv, FramesExact
  <2>3. QED BY <1>2, <1>3, <1>4, <1>5, <2>2 DEF IInv, FramesExact, LengthAt
<1>11. err = "none" BY DEF IInv, PcSound, Receive
<1>12. NothingWithheld' BY <1>4, <1>8, <1>11 DEF NothingWithheld, LengthAt
<1>13. LimitEnforced' BY <1>4, <1>11 DEF IInv, LimitEnforced
<1>14. PcSound' BY <1>4, <1>8, <1>11 DEF PcSound, LengthAt
<1>15. QED BY <1>9, <1>10, <1>12, <1>13, <1>14 DEF IInv

\* Sending a frame moves the boundary to its end, whatever follows it.
LEMMA SendStep == ASSUME IInv, Send PROVE IInv'
<1> DEFINE k == LengthAt(wire, Base)
           n == HeaderLength + k
<1>0. TypeOK BY DEF IInv
<1>1. Base \in Nat /\ recvd \in Nat /\ recvd <= Len(wire) BY BaseInRange, <1>0 DEF TypeOK
<1>2. /\ Base + HeaderLength + k <= recvd /\ Base + HeaderLength <= recvd
      /\ k <= MaxPayloadLength
      BY DEF IInv, PcSound, Send
<1>3. k \in Nat BY <1>0, <1>1, <1>2, LengthAtNat DEF TypeOK
<1>4. buf = SubSeq(wire, Base + 1, recvd) /\ Len(buf) = recvd - Base
      BY <1>0, <1>1, <1>2, <1>3, SliceProperties DEF IInv, FramesExact, TypeOK
<1>5. LengthAt(buf, 0) = k BY <1>0, <1>1, <1>2, <1>4, LengthAtSlice DEF TypeOK
<1> HIDE DEF k
<1>6. /\ out' = Append(out, SubSeq(buf, HeaderLength + 1, n))
      /\ starts' = Append(starts, Base + n)
      /\ buf' = SubSeq(buf, n + 1, Len(buf))
      /\ pc' = NextWith(buf')
      /\ UNCHANGED <<wire, recvd, err, ctxDone>>
      BY <1>5 DEF Send, Base
<1>7. n \in Nat /\ Base + n \in Nat /\ n <= recvd - Base /\ HeaderLength <= n
      BY <1>1, <1>2, <1>3
<1> HIDE DEF n
<1>8. SubSeq(buf, HeaderLength + 1, n) = SubSeq(wire, Base + HeaderLength + 1, Base + n)
  <2>1. wire \in Seq(Byte) /\ Base <= recvd BY <1>0, BaseInRange DEF TypeOK
  <2>2. SubSeq(SubSeq(wire, Base + 1, recvd), HeaderLength + 1, n)
           = SubSeq(wire, Base + HeaderLength + 1, Base + n)
        BY <2>1, <1>1, <1>7, SliceOfSlice
  <2>3. QED BY <1>4, <2>2
<1>9. buf' = SubSeq(wire, Base + n + 1, recvd)
  <2>1. SubSeq(SubSeq(wire, Base + 1, recvd), n + 1, recvd - Base)
           = SubSeq(wire, Base + n + 1, Base + (recvd - Base))
    <3>1. /\ wire \in Seq(Byte) /\ Base <= recvd
          /\ recvd - Base \in Nat /\ recvd - Base <= recvd - Base
          BY <1>0, <1>1, BaseInRange DEF TypeOK
    <3>2. QED BY <3>1, <1>1, <1>7, SliceOfSlice
  <2>2. Base + (recvd - Base) = recvd BY <1>1
  <2>3. QED BY <1>4, <1>6, <2>1, <2>2
<1>10. buf' \in Seq(Byte)
  <2>1. wire \in Seq(Byte) /\ Base + n <= recvd BY <1>0, <1>1, <1>7 DEF TypeOK
  <2>2. QED BY <2>1, <1>1, <1>7, <1>9, SliceProperties
<1> DEFINE p == SubSeq(wire, Base + HeaderLength + 1, Base + n)
<1>11. p \in Seq(Byte) /\ Len(p) = k
  <2>1. /\ Base + HeaderLength \in Nat /\ Base + HeaderLength <= Base + n
        /\ Base + n <= Len(wire)
        BY <1>1, <1>7
  <2>2. p \in Seq(Byte) /\ Len(p) = (Base + n) - (Base + HeaderLength)
        BY <1>0, <1>7, <2>1, SliceProperties DEF TypeOK
  <2>3. QED BY <1>1, <1>3, <2>2 DEF n
<1>12. out' = Append(out, p) BY <1>6, <1>8
<1> HIDE DEF p
<1>13. /\ out' \in Seq(Seq(Byte)) /\ Len(out') = Len(out) + 1
       /\ \A i \in 1..Len(out) : out'[i] = out[i]
       /\ out'[Len(out) + 1] = p
       BY <1>0, <1>11, <1>12, AppendProperties DEF TypeOK
<1>14. /\ starts' \in Seq(Nat) /\ Len(starts') = Len(starts) + 1
       /\ \A i \in 1..Len(starts) : starts'[i] = starts[i]
       /\ starts'[Len(starts) + 1] = Base + n
       BY <1>0, <1>6, <1>7, AppendProperties DEF TypeOK
<1>15. Base' = Base + n BY <1>14 DEF Base
<1>16. Len(starts) = Len(out) + 1 /\ Len(out) \in Nat /\ starts[Len(out) + 1] = Base
       BY <1>0 DEF TypeOK, Base
<1>17. /\ pc' \in {"recv", "send", "sendTooLarge"}
       /\ pc' = "recv" =>
             \/ recvd < Base + n + HeaderLength
             \/ /\ LengthAt(wire, Base + n) <= MaxPayloadLength
                /\ recvd < Base + n + HeaderLength + LengthAt(wire, Base + n)
       /\ pc' = "send" =>
             /\ Base + n + HeaderLength + LengthAt(wire, Base + n) <= recvd
             /\ Base + n + HeaderLength <= recvd
             /\ LengthAt(wire, Base + n) <= MaxPayloadLength
       /\ pc' = "sendTooLarge" =>
             /\ Base + n + HeaderLength <= recvd
             /\ LengthAt(wire, Base + n) > MaxPayloadLength
  <2>1. Base + n <= recvd BY <1>1, <1>7
  <2>2. QED BY <1>0, <1>1, <1>6, <1>7, <1>9, <2>1, NextWithSlice DEF TypeOK
<1>18. err = "none" /\ err' = err BY <1>6 DEF IInv, PcSound, Send
<1>19. TypeOK' BY <1>0, <1>6, <1>10, <1>13, <1>14, <1>16, <1>17 DEF TypeOK
<1>20. FramesExact'
  <2>1. starts'[1] = 0 BY <1>14, <1>16 DEF IInv, FramesExact
  <2>2. ASSUME NEW i \in 1..Len(out')
        PROVE  /\ starts'[i + 1] = starts'[i] + HeaderLength + LengthAt(wire, starts'[i])
               /\ starts'[i] + HeaderLength <= starts'[i + 1] /\ starts'[i + 1] <= recvd
               /\ out'[i] = SubSeq(wire, starts'[i] + HeaderLength + 1, starts'[i + 1])
    <3>1. CASE i = Len(out) + 1
      <4>1. starts'[i] = Base /\ starts'[i + 1] = Base + n /\ out'[i] = p
            BY <3>1, <1>13, <1>14, <1>16
      <4>2. Base + n = Base + HeaderLength + LengthAt(wire, Base) BY <1>1, <1>3 DEF n, k
      <4>3. Base + HeaderLength <= Base + n /\ Base + n <= recvd BY <1>1, <1>3, <1>7 DEF n
      <4>4. QED BY <4>1, <4>2, <4>3 DEF p
    <3>2. CASE i \in 1..Len(out)
      <4>1. starts'[i] = starts[i] /\ starts'[i + 1] = starts[i + 1] /\ out'[i] = out[i]
            BY <3>2, <1>13, <1>14, <1>16
      <4>2. QED BY <3>2, <4>1 DEF IInv, FramesExact
    <3>3. QED BY <3>1, <3>2, <1>13, <1>16
  <2>3. Base' <= recvd /\ buf' = SubSeq(wire, Base' + 1, recvd)
        BY <1>1, <1>7, <1>9, <1>15
  <2>4. UNCHANGED <<wire, recvd>> BY <1>6
  <2>5. QED BY <2>1, <2>2, <2>3, <2>4 DEF FramesExact, LengthAt
<1>21. NothingWithheld'
  <2>1. err = "none" BY DEF IInv, PcSound, Send
  <2>2. QED BY <1>6, <1>15, <1>17, <2>1 DEF NothingWithheld, LengthAt
<1>22. LimitEnforced'
  <2>1. \A i \in 1..Len(out') : Len(out'[i]) <= MaxPayloadLength
    <3>1. TAKE i \in 1..Len(out')
    <3>2. CASE i = Len(out) + 1 BY <3>2, <1>2, <1>11, <1>13
    <3>3. CASE i \in 1..Len(out) BY <3>3, <1>13 DEF IInv, LimitEnforced
    <3>4. QED BY <3>1, <3>2, <3>3, <1>13, <1>16
  <2>2. QED BY <2>1, <1>18 DEF LimitEnforced
<1>23. PcSound' BY <1>6, <1>15, <1>17, <1>18 DEF PcSound, LengthAt
<1>24. QED BY <1>19, <1>20, <1>21, <1>22, <1>23 DEF IInv

\* Every step keeps IInv.
LEMMA IInvStep == IInv /\ [Next]_vars => IInv'
<1> SUFFICES ASSUME IInv, [Next]_vars PROVE IInv' OBVIOUS
<1>0. ctxDone \in BOOLEAN BY DEF IInv, TypeOK
<1>1. CASE Cancel
  <2>1. ctxDone' \in BOOLEAN BY <1>1, Zenon DEF Cancel
  <2>2. QED BY <1>1, <2>1, EndStep DEF Cancel
<1>2. CASE Receive BY <1>2, ReceiveStep
<1>3. CASE ReceiveErr BY <1>0, <1>3, EndStep DEF ReceiveErr
<1>4. CASE ReceiveClosed BY <1>0, <1>4, EndStep DEF ReceiveClosed
<1>5. CASE Send BY <1>5, SendStep
<1>6. CASE SendErr
  <2>1. TypeOK' BY <1>6 DEF IInv, TypeOK, SendErr
  <2>2. FramesExact' BY <1>6 DEF IInv, FramesExact, SendErr, Base, LengthAt
  <2>3. NothingWithheld' BY <1>6 DEF IInv, NothingWithheld, SendErr, Base, LengthAt
  <2>4. LimitEnforced' BY <1>6 DEF IInv, PcSound, LimitEnforced, SendErr, Base, LengthAt
  <2>5. PcSound' BY <1>6 DEF PcSound, SendErr
  <2>6. QED BY <2>1, <2>2, <2>3, <2>4, <2>5 DEF IInv
<1>7. CASE CtxReturns BY <1>0, <1>7, EndStep DEF CtxReturns
<1>8. CASE UNCHANGED vars BY <1>0, <1>8, EndStep DEF vars
<1>9. QED BY <1>1, <1>2, <1>3, <1>4, <1>5, <1>6, <1>7, <1>8 DEF Next

\* IInv holds in every execution.
LEMMA IInvHolds == Spec => []IInv
<1>1. Init => IInv
  <2> SUFFICES ASSUME Init PROVE IInv OBVIOUS
  <2>1. wire \in Seq(Byte) BY PacketHeaderAssumption DEF Init
  <2>2. ctxDone \in BOOLEAN BY Zenon DEF Init
  <2>3. /\ <<>> \in Seq(Byte) /\ <<>> \in Seq(Seq(Byte)) /\ <<0>> \in Seq(Nat)
        /\ Len(<<0>>) = 1 /\ <<0>>[1] = 0
        OBVIOUS
  <2>4. TypeOK BY <2>1, <2>2, <2>3 DEF Init, TypeOK
  <2>5. Base = 0 BY <2>3 DEF Init, Base
  <2>6. SubSeq(wire, 1, 0) = <<>> BY SubSeqEmpty
  <2>7. FramesExact BY <2>3, <2>5, <2>6 DEF Init, FramesExact
  <2>8. NothingWithheld /\ LimitEnforced /\ PcSound
        BY <2>5 DEF Init, NothingWithheld, LimitEnforced, PcSound
  <2>9. QED BY <2>4, <2>7, <2>8 DEF IInv
<1>2. QED BY <1>1, IInvStep, PTL DEF Spec

-----------------------------------------------------------------------------
(* The theorems *)

\* The variables of the deframer keep their types in every execution.
THEOREM TypeCorrect == Spec => []TypeOK
<1>1. IInv => TypeOK BY DEF IInv
<1>2. QED BY <1>1, IInvHolds, PTL

\* For every stream and every way of cutting it into chunks, the payloads sent
\* on are those of the stream's frames, in order and without a gap.
THEOREM DeframingExact == Spec => []FramesExact
<1>1. IInv => FramesExact BY DEF IInv
<1>2. QED BY <1>1, IInvHolds, PTL

\* A complete frame is never left in the buffer while the goroutine waits.
THEOREM DeframingPrompt == Spec => []NothingWithheld
<1>1. IInv => NothingWithheld BY DEF IInv
<1>2. QED BY <1>1, IInvHolds, PTL

\* The payload limit is enforced, and only violations of it are reported.
THEOREM LimitHolds == Spec => []LimitEnforced
<1>1. IInv => LimitEnforced BY DEF IInv
<1>2. QED BY <1>1, IInvHolds, PTL

-----------------------------------------------------------------------------
(* The client's frames *)

LEMMA Less == ASSUME NEW m \in Nat, NEW n \in Nat, m < n PROVE <<m, n>> \in OpToRel(<, Nat)
BY Zenon DEF OpToRel

\* Induction on a set of numbers.
LEMMA SetInduction ==
    ASSUME NEW S, 0 \in S, \A n \in Nat : n \in S => n + 1 \in S
    PROVE  Nat \subseteq S
<1> DEFINE T == Nat \ S
<1> SUFFICES ASSUME T # {} PROVE FALSE OBVIOUS
<1>1. PICK R : R = OpToRel(<, Nat) OBVIOUS
<1>2. IsWellFoundedOn(R, Nat) BY <1>1, NatLessThanWellFounded, Zenon
<1>3. PICK n \in T : \A m \in T : ~(<<m, n>> \in R)
  <2>1. T \subseteq Nat OBVIOUS
  <2> HIDE DEF T
  <2>2. QED BY <1>2, <2>1, WFMin
<1>4. n # 0 /\ n - 1 \in Nat /\ n - 1 < n OBVIOUS
<1>5. <<n - 1, n>> \in R BY <1>1, <1>4, Less, Zenon
<1>6. n - 1 \in S BY <1>3, <1>4, <1>5
<1>7. (n - 1) + 1 \in S BY <1>4, <1>6
<1>8. QED BY <1>7

\* The goroutine reads the length the protocol writes.
LEMMA LengthAnnounced ==
    ASSUME NEW s \in Seq(Byte), NEW p \in Nat, p + HeaderLength <= Len(s)
    PROVE  LengthAt(s, p) = Announced(s, p)
<1> DEFINE h == p + HeaderLength
<1>1. s[h - 3] \in Byte /\ s[h - 2] \in Byte /\ s[h - 1] \in Byte /\ s[h] \in Byte OBVIOUS
<1>2. PICK b3, b2, b1, b0 : s[h - 3] = b3 /\ s[h - 2] = b2 /\ s[h - 1] = b1 /\ s[h] = b0
      OBVIOUS
<1>3. b3 \in Nat /\ b2 \in Nat /\ b1 \in Nat /\ b0 \in Nat
  <2>1. \A b \in Byte : b \in Nat BY DEF Byte
  <2> HIDE DEF h
  <2>2. QED BY <1>1, <1>2, <2>1
<1>4. ((b3 * 256 + b2) * 256 + b1) * 256 + b0 = 16777216 * b3 + 65536 * b2 + 256 * b1 + b0
      BY <1>3
<1>5. QED BY <1>2, <1>4 DEF LengthAt, Announced

\* What is assumed of a client, for one of its frames and for its end.
LEMMA ClientFrame ==
    ASSUME NEW c \in Clients, NEW i \in 1..Len(c.frames)
    PROVE  /\ c.at[i] \in Nat /\ c.at[i + 1] \in Nat /\ c.at[i + 1] <= Len(c.wire)
           /\ Len(c.frames[i]) \in Nat /\ Len(c.frames[i]) <= MaxPayloadLength
           /\ Announced(c.wire, c.at[i]) = Len(c.frames[i])
           /\ c.at[i + 1] = c.at[i] + HeaderLength + Len(c.frames[i])
           /\ c.frames[i] = SubSeq(c.wire, c.at[i] + HeaderLength + 1, c.at[i + 1])
<1>1. PICK fs, at, w : fs = c.frames /\ at = c.at /\ w = c.wire OBVIOUS
<1>2. fs \in Seq(Seq(Byte)) /\ w \in Seq(Byte) /\ Framed(c) BY <1>1, PacketHeaderAssumption
<1>3. /\ at \in [1..(Len(fs) + 1) -> 0..Len(w)]
      /\ Len(fs[i]) <= MaxPayloadLength
      /\ Announced(w, at[i]) = Len(fs[i])
      /\ at[i + 1] = at[i] + HeaderLength + Len(fs[i])
      /\ fs[i] = SubSeq(w, at[i] + HeaderLength + 1, at[i + 1])
      BY <1>1, <1>2, Zenon DEF Framed
<1>4. i \in 1..(Len(fs) + 1) /\ i + 1 \in 1..(Len(fs) + 1) /\ Len(fs[i]) \in Nat /\ Len(w) \in Nat
      BY <1>1, <1>2
<1>5. at[i] \in 0..Len(w) /\ at[i + 1] \in 0..Len(w) BY <1>3, <1>4
<1>6. at[i] \in Nat /\ at[i + 1] \in Nat /\ at[i + 1] <= Len(w) BY <1>4, <1>5
<1>7. QED BY <1>1, <1>3, <1>4, <1>6, Zenon

LEMMA ClientEnd ==
    ASSUME NEW c \in Clients
    PROVE  LET end == c.at[Len(c.frames) + 1] IN
           /\ c.frames \in Seq(Seq(Byte)) /\ Len(c.frames) \in Nat /\ c.wire \in Seq(Byte)
           /\ c.at[1] = 0
           /\ end \in Nat /\ end <= Len(c.wire)
           /\ \/ Len(c.wire) < end + HeaderLength
              \/ Announced(c.wire, end) > MaxPayloadLength
              \/ Len(c.wire) < end + HeaderLength + Announced(c.wire, end)
<1>1. PICK fs, at, w : fs = c.frames /\ at = c.at /\ w = c.wire OBVIOUS
<1>2. fs \in Seq(Seq(Byte)) /\ w \in Seq(Byte) /\ Framed(c) BY <1>1, PacketHeaderAssumption
<1> DEFINE end == at[Len(fs) + 1]
<1>3. /\ at \in [1..(Len(fs) + 1) -> 0..Len(w)]
      /\ at[1] = 0
      /\ \/ Len(w) < end + HeaderLength
         \/ Announced(w, end) > MaxPayloadLength
         \/ Len(w) < end + HeaderLength + Announced(w, end)
      BY <1>1, <1>2, Zenon DEF Framed
<1>4. Len(fs) \in Nat /\ Len(fs) + 1 \in 1..(Len(fs) + 1) /\ Len(w) \in Nat BY <1>2
<1>5. end \in 0..Len(w) BY <1>3, <1>4
<1>6. end \in Nat /\ end <= Len(w) BY <1>4, <1>5
<1>7. QED BY <1>1, <1>2, <1>3, <1>4, <1>6, Zenon

\* The goroutine and the client agree on every frame: the n-th one sent on
\* starts where the client put it, and is the client's.
Agree(c, n) ==
    n <= Len(out) => /\ n <= Len(c.frames)
                     /\ starts[n + 1] = c.at[n + 1]
                     /\ n >= 1 => out[n] = c.frames[n]

LEMMA AgreeAlways ==
    ASSUME IInv, NEW c \in Clients, c.wire = wire
    PROVE  \A n \in Nat : Agree(c, n)
<1> DEFINE S == {n \in Nat : Agree(c, n)}
<1>0. /\ Len(c.frames) \in Nat /\ c.at[1] = 0
      /\ Len(out) \in Nat /\ Len(wire) \in Nat /\ recvd \in Nat /\ recvd <= Len(wire)
      BY ClientEnd DEF IInv, TypeOK
<1>1. 0 \in S
  BY <1>0 DEF Agree, IInv, FramesExact
<1>2. ASSUME NEW n \in Nat, n \in S PROVE n + 1 \in S
  <2> SUFFICES ASSUME n + 1 <= Len(out) PROVE Agree(c, n + 1)
    BY DEF Agree
  <2> DEFINE i == n + 1
  <2>0. PICK p, k, w : p = c.at[i] /\ k = LengthAt(wire, p) /\ w = Len(wire) OBVIOUS
  <2>1. n <= Len(c.frames) /\ starts[i] = p /\ i \in 1..Len(out)
    BY <1>0, <1>2, <2>0 DEF Agree
  <2>2. p \in Nat /\ p <= w
    <3>1. CASE i <= Len(c.frames)
      <4>1. i \in 1..Len(c.frames) BY <1>0, <3>1
      <4> HIDE DEF i
      <4>2. PICK q, l : q = c.at[i + 1] /\ l = Len(c.frames[i]) OBVIOUS
      <4>3. p \in Nat /\ q \in Nat /\ q <= w /\ q = p + HeaderLength + l /\ l \in Nat
        BY <2>0, <4>1, <4>2, ClientFrame
      <4> QED BY ONLY Lengths, <1>0, <2>0, <4>3
    <3>2. CASE i = Len(c.frames) + 1
      BY <2>0, <3>2, ClientEnd
    <3> QED BY <1>0, <2>1, <3>1, <3>2
  <2>3. /\ starts[i + 1] = p + HeaderLength + k
        /\ p + HeaderLength <= starts[i + 1] /\ starts[i + 1] <= recvd
        /\ out[i] = SubSeq(wire, p + HeaderLength + 1, starts[i + 1])
        /\ Len(out[i]) <= MaxPayloadLength
    BY <2>0, <2>1 DEF IInv, FramesExact, LimitEnforced
  <2>4. starts[i + 1] \in Nat
    <3>1. PICK m : m = i + 1 OBVIOUS
    <3>2. starts \in Seq(Nat) /\ Len(starts) = Len(out) + 1 BY DEF IInv, TypeOK
    <3>3. m \in 1..Len(starts) BY <1>0, <2>1, <3>1, <3>2
    <3>4. starts[m] \in Nat BY ONLY <3>2, <3>3
    <3> QED BY <3>1, <3>4
  <2>5. w \in Nat /\ p + HeaderLength <= w
    BY <1>0, <2>0, <2>2, <2>3, <2>4
  <2>6. k \in Nat /\ k = Announced(wire, p)
    BY <2>0, <2>2, <2>5, LengthAtNat, LengthAnnounced DEF IInv, TypeOK
  <2>7. CASE i <= Len(c.frames)
    <3>1. /\ c.at[i + 1] = p + HeaderLength + Len(c.frames[i])
          /\ Announced(wire, p) = Len(c.frames[i])
          /\ c.frames[i] = SubSeq(wire, p + HeaderLength + 1, c.at[i + 1])
      <4>1. i \in 1..Len(c.frames) BY <1>0, <2>7
      <4> HIDE DEF i
      <4> QED BY <2>0, <4>1, ClientFrame
    <3>2. starts[i + 1] = c.at[i + 1] BY <2>3, <2>6, <3>1
    <3>3. out[i] = c.frames[i] BY <2>3, <3>1, <3>2
    <3> QED BY <2>7, <3>2, <3>3 DEF Agree
  <2>8. CASE ~(i <= Len(c.frames))
    <3>1. i = Len(c.frames) + 1 BY <1>0, <2>1, <2>8
    <3>2. \/ w < p + HeaderLength
          \/ k > MaxPayloadLength
          \/ w < p + HeaderLength + k
      BY <2>0, <2>6, <3>1, ClientEnd
    <3>3. PICK a, b : a = p + HeaderLength /\ b = starts[i + 1] OBVIOUS
    <3>4. a \in Nat /\ b \in Nat /\ a <= b /\ b <= w /\ b - a = k /\ b = a + k
      <4>1. b = p + HeaderLength + k /\ p + HeaderLength <= b /\ b <= recvd /\ b \in Nat
            /\ recvd \in Nat /\ recvd <= w
        BY <1>0, <2>0, <2>3, <2>4, <3>3
      <4> QED BY ONLY Lengths, <2>2, <2>5, <2>6, <3>3, <4>1
    <3>5. Len(out[i]) = k
      <4>1. Len(SubSeq(wire, a + 1, b)) = b - a BY <2>0, <3>4, SliceProperties DEF IInv, TypeOK
      <4> QED BY <2>3, <3>3, <3>4, <4>1
    <3>6. k <= MaxPayloadLength BY <2>3, <3>5
    <3> QED BY ONLY Lengths, <2>2, <2>5, <2>6, <3>2, <3>3, <3>4, <3>6
  <2> QED BY <2>7, <2>8
<1>3. Nat \subseteq S
  <2> HIDE DEF S
  <2> QED BY <1>1, <1>2, SetInduction
<1>4. QED BY <1>3

\* Whatever a client frames, the consumer gets just that, in order, and all of
\* it unless the connection or the request ends first.
THEOREM ClientFramesDelivered == Spec => []DeliversClientFrames
<1>1. ASSUME IInv PROVE DeliversClientFrames
  <2> SUFFICES ASSUME NEW c \in Clients, c.wire = wire
               PROVE  /\ Len(out) <= Len(c.frames)
                      /\ \A i \in 1..Len(out) : out[i] = c.frames[i]
                      /\ \/ recvd = Len(wire) /\ (pc = "recv" \/ err = "upstream")
                         \/ err = "tooLarge"
                         => Len(out) = Len(c.frames)
    BY DEF DeliversClientFrames
  <2>0. /\ Len(c.frames) \in Nat
        /\ Len(out) \in Nat /\ Len(starts) = Len(out) + 1 /\ Len(wire) \in Nat /\ recvd \in Nat
    BY <1>1, ClientEnd DEF IInv, TypeOK
  <2>1. \A n \in Nat : Agree(c, n)
    BY <1>1, AgreeAlways
  <2>2. \A n \in 1..Len(out) : out[n] = c.frames[n]
    BY <2>0, <2>1 DEF Agree
  <2>3. Len(out) <= Len(c.frames) /\ Base = c.at[Len(out) + 1]
    BY <2>0, <2>1 DEF Agree, Base
  <2>4. ASSUME \/ recvd = Len(wire) /\ (pc = "recv" \/ err = "upstream")
               \/ err = "tooLarge",
               Len(out) < Len(c.frames)
        PROVE  FALSE
    <3> DEFINE i == Len(out) + 1
    <3>1. i \in 1..Len(c.frames) BY <2>0, <2>4
    <3>2. /\ c.at[i + 1] = Base + HeaderLength + LengthAt(wire, Base)
          /\ LengthAt(wire, Base) <= MaxPayloadLength /\ LengthAt(wire, Base) \in Nat
          /\ Base \in Nat /\ c.at[i + 1] <= Len(wire)
      <4> HIDE DEF i
      <4>1. /\ c.at[i] \in Nat /\ c.at[i + 1] \in Nat /\ c.at[i + 1] <= Len(wire)
            /\ Len(c.frames[i]) \in Nat /\ Len(c.frames[i]) <= MaxPayloadLength
            /\ Announced(wire, c.at[i]) = Len(c.frames[i])
            /\ c.at[i + 1] = c.at[i] + HeaderLength + Len(c.frames[i])
        BY <3>1, ClientFrame
      <4>2. PICK p, q, k : p = c.at[i] /\ q = c.at[i + 1] /\ k = Len(c.frames[i]) OBVIOUS
      <4>3. p + HeaderLength <= Len(wire)
        <5>1. PICK m : m = Len(wire) OBVIOUS
        <5>2. /\ p \in Nat /\ q \in Nat /\ k \in Nat /\ m \in Nat
              /\ q <= m /\ q = p + HeaderLength + k
          BY <2>0, <4>1, <4>2, <5>1, Zenon
        <5>3. p + HeaderLength <= m BY ONLY Lengths, <5>2
        <5> QED BY <5>1, <5>3
      <4>4. LengthAt(wire, p) = Announced(wire, p)
        BY <1>1, <4>1, <4>2, <4>3, LengthAnnounced DEF IInv, TypeOK
      <4>5. Base = p BY <2>3, <4>2 DEF i
      <4> QED BY <4>1, <4>2, <4>4, <4>5
    <3>3. CASE recvd = Len(wire) /\ (pc = "recv" \/ err = "upstream")
      BY <1>1, <2>0, <3>2, <3>3 DEF IInv, NothingWithheld
    <3>4. CASE err = "tooLarge"
      BY <1>1, <3>2, <3>4 DEF IInv, LimitEnforced
    <3> QED BY <2>4, <3>3, <3>4
  <2> QED BY <2>0, <2>2, <2>3, <2>4
<1>2. QED BY <1>1, IInvHolds, PTL

-----------------------------------------------------------------------------
(* Nothing is assumed of the bytes a client sends *)

\* w starts with the frames fs, at the offsets at.
StartsWith(w, fs, at) ==
    /\ fs \in Seq(Seq(Byte))
    /\ at \in [1..(Len(fs) + 1) -> 0..Len(w)]
    /\ at[1] = 0
    /\ \A i \in 1..Len(fs) :
          /\ Len(fs[i]) <= MaxPayloadLength
          /\ Announced(w, at[i]) = Len(fs[i])
          /\ at[i + 1] = at[i] + HeaderLength + Len(fs[i])
          /\ fs[i] = SubSeq(w, at[i] + HeaderLength + 1, at[i + 1])

\* No further frame follows.
EndsAt(w, end) ==
    \/ Len(w) < end + HeaderLength
    \/ Announced(w, end) > MaxPayloadLength
    \/ Len(w) < end + HeaderLength + Announced(w, end)

LEMMA OneMoreFrame ==
    ASSUME NEW w \in Seq(Byte), NEW fs, NEW at, StartsWith(w, fs, at),
           ~EndsAt(w, at[Len(fs) + 1])
    PROVE  \E gs, bt : StartsWith(w, gs, bt) /\ Len(gs) = Len(fs) + 1
<1> DEFINE n == Len(fs)
           end == at[n + 1]
           k == Announced(w, end)
           g == SubSeq(w, end + HeaderLength + 1, end + HeaderLength + k)
           gs == Append(fs, g)
           bt == [i \in 1..(n + 2) |-> IF i = n + 2 THEN end + HeaderLength + k ELSE at[i]]
<1>1. n \in Nat /\ Len(w) \in Nat /\ end \in Nat /\ end <= Len(w)
  <2>1. n \in Nat /\ Len(w) \in Nat BY DEF StartsWith
  <2>2. PICK m, e : m = Len(w) /\ e = end OBVIOUS
  <2>3. n + 1 \in 1..(n + 1) BY <2>1
  <2>4. e \in 0..m BY <2>2, <2>3 DEF StartsWith
  <2>5. e \in Nat /\ e <= m BY ONLY <2>1, <2>2, <2>4
  <2> QED BY <2>1, <2>2, <2>5
<1>2. end + HeaderLength <= Len(w)
  <2>1. PICK e : e = end OBVIOUS
  <2>2. ~(Len(w) < e + HeaderLength) BY <2>1 DEF EndsAt
  <2> QED BY <1>1, <2>1, <2>2
<1>3. k \in Nat
  <2> HIDE DEF end
  <2> QED BY <1>1, <1>2, LengthAtNat, LengthAnnounced
<1>4. k <= MaxPayloadLength /\ end + HeaderLength + k <= Len(w)
  <2> HIDE DEF end
  <2>1. PICK e, l, m : e = end /\ l = k /\ m = Len(w) OBVIOUS
  <2>2. ~(l > MaxPayloadLength) /\ ~(m < e + HeaderLength + l) BY <2>1 DEF EndsAt, end
  <2>3. l \in Nat /\ e \in Nat /\ m \in Nat BY <1>1, <1>3, <2>1
  <2> QED BY ONLY Lengths, <2>1, <2>2, <2>3
<1>5. g \in Seq(Byte) /\ Len(g) = k
  <2>1. PICK a, b : a = end + HeaderLength /\ b = end + HeaderLength + k OBVIOUS
  <2>2. a \in Nat /\ b \in Nat /\ a <= b /\ b <= Len(w) /\ b - a = k
    <3> HIDE DEF end, k
    <3> QED BY <1>1, <1>2, <1>3, <1>4, <2>1
  <2>3. SubSeq(w, a + 1, b) \in Seq(Byte) /\ Len(SubSeq(w, a + 1, b)) = b - a
    BY <2>2, SliceProperties
  <2> QED BY <2>1, <2>2, <2>3
<1> HIDE DEF g
<1>6. /\ gs \in Seq(Seq(Byte)) /\ Len(gs) = n + 1
      /\ \A i \in 1..n : gs[i] = fs[i]
      /\ gs[n + 1] = g
      BY <1>1, <1>5 DEF StartsWith
<1>7. /\ bt[n + 2] = end + HeaderLength + k
      /\ \A i \in 1..(n + 1) : bt[i] = at[i]
  <2> HIDE DEF end, k, n
  <2>1. n + 2 \in 1..(n + 2) /\ \A i \in 1..(n + 1) : i \in 1..(n + 2) /\ i # n + 2
    BY <1>1
  <2> QED BY <2>1
<1>8. bt \in [1..(n + 2) -> 0..Len(w)]
  <2>1. \A i \in 1..(n + 1) : at[i] \in 0..Len(w) BY DEF StartsWith
  <2>2. end + HeaderLength + k \in 0..Len(w)
    <3> HIDE DEF end, k
    <3> QED BY <1>1, <1>2, <1>3, <1>4
  <2> HIDE DEF end, k
  <2> QED BY <1>1, <2>1, <2>2
<1>9. ASSUME NEW i \in 1..(n + 1)
      PROVE  /\ Len(gs[i]) <= MaxPayloadLength
             /\ Announced(w, bt[i]) = Len(gs[i])
             /\ bt[i + 1] = bt[i] + HeaderLength + Len(gs[i])
             /\ gs[i] = SubSeq(w, bt[i] + HeaderLength + 1, bt[i + 1])
  <2> HIDE DEF gs, bt
  <2>1. CASE i \in 1..n
    <3>1. i + 1 \in 1..(n + 1) /\ bt[i] = at[i] /\ bt[i + 1] = at[i + 1] /\ gs[i] = fs[i]
      BY <1>1, <1>6, <1>7, <2>1
    <3> QED BY <2>1, <3>1 DEF StartsWith
  <2>2. CASE i = n + 1
    <3>1. gs[i] = g /\ bt[i] = end /\ bt[i + 1] = end + HeaderLength + k
      <4>1. i + 1 = n + 2 /\ i \in 1..(n + 1) BY <1>1, <2>2
      <4> QED BY <1>6, <1>7, <2>2, <4>1
    <3> HIDE DEF end
    <3> QED BY <1>4, <1>5, <3>1 DEF g
  <2> QED BY <1>1, <2>1, <2>2
<1>10. StartsWith(w, gs, bt) /\ Len(gs) = n + 1
  <2> HIDE DEF gs, bt
  <2>1. n + 2 = Len(gs) + 1 /\ bt[1] = 0
    <3>1. 1 \in 1..(n + 1) /\ at[1] = 0 BY <1>1 DEF StartsWith
    <3> HIDE DEF n
    <3> QED BY <1>1, <1>6, <1>7, <3>1
  <2> QED BY <1>6, <1>8, <1>9, <2>1 DEF StartsWith
<1> HIDE DEF gs, bt
<1> QED BY <1>10

\* Every byte stream is the stream of a client, so that Clients may stand for
\* whatever arrives, framed by a client or not.
THEOREM AnyStreamFramed ==
    ASSUME NEW w \in Seq(Byte)
    PROVE  \E fs, at : /\ fs \in Seq(Seq(Byte))
                      /\ Framed([frames |-> fs, at |-> at, wire |-> w])
<1> SUFFICES ASSUME \A fs, at : ~(StartsWith(w, fs, at) /\ EndsAt(w, at[Len(fs) + 1]))
             PROVE  FALSE
  <2>1. ASSUME NEW fs, NEW at, StartsWith(w, fs, at), EndsAt(w, at[Len(fs) + 1])
        PROVE  fs \in Seq(Seq(Byte)) /\ Framed([frames |-> fs, at |-> at, wire |-> w])
    BY <2>1 DEF StartsWith, EndsAt, Framed
  <2> QED BY <2>1
<1> DEFINE Has(n) == \E fs, at : StartsWith(w, fs, at) /\ Len(fs) = n
           Long(n) == \A fs, at : StartsWith(w, fs, at) /\ n <= Len(fs) => n <= at[n + 1]
           S == {n \in Nat : Has(n) /\ Long(n)}
<1>1. 0 \in S
  <2>1. StartsWith(w, <<>>, [i \in 1..1 |-> 0]) BY DEF StartsWith
  <2>2. Has(0) BY <2>1
  <2>3. Long(0) BY DEF StartsWith
  <2> QED BY <2>2, <2>3
<1>2. ASSUME NEW n \in Nat, n \in S PROVE n + 1 \in S
  <2>1. Has(n + 1)
    <3>1. PICK fs, at : StartsWith(w, fs, at) /\ Len(fs) = n BY <1>2
    <3>2. ~EndsAt(w, at[Len(fs) + 1]) BY <3>1
    <3> QED BY <3>1, <3>2, OneMoreFrame
  <2>2. ASSUME NEW fs, NEW at, StartsWith(w, fs, at), n + 1 <= Len(fs)
        PROVE  n + 1 <= at[n + 1 + 1]
    <3>0. Len(fs) \in Nat /\ fs \in Seq(Seq(Byte)) /\ at \in [1..(Len(fs) + 1) -> 0..Len(w)]
      BY <2>2 DEF StartsWith
    <3>1. n <= at[n + 1] /\ n + 1 \in 1..Len(fs)
      BY <1>2, <2>2, <3>0
    <3>2. at[n + 1 + 1] = at[n + 1] + HeaderLength + Len(fs[n + 1])
      BY <2>2, <3>1 DEF StartsWith
    <3>3. at[n + 1] \in Nat /\ Len(fs[n + 1]) \in Nat
      <4>1. n + 1 \in 1..(Len(fs) + 1) BY <3>0, <3>1
      <4>2. at[n + 1] \in 0..Len(w) BY <3>0, <4>1
      <4>3. fs[n + 1] \in Seq(Byte) BY <3>0, <3>1
      <4> QED BY <4>2, <4>3
    <3>4. PICK p, q, l : p = at[n + 1] /\ q = at[n + 1 + 1] /\ l = Len(fs[n + 1]) OBVIOUS
    <3> QED BY <3>1, <3>2, <3>3, <3>4
  <2> QED BY <2>1, <2>2
<1>3. Nat \subseteq S
  <2> HIDE DEF S
  <2> QED BY <1>1, <1>2, SetInduction
<1>4. Len(w) + 1 \in S BY <1>3
<1>5. PICK fs, at : StartsWith(w, fs, at) /\ Len(fs) = Len(w) + 1 BY <1>4
<1>6. Len(w) + 1 <= at[Len(w) + 1 + 1] BY <1>4, <1>5
<1>7. at[Len(w) + 1 + 1] \in 0..Len(w) BY <1>5 DEF StartsWith
<1>8. QED BY <1>6, <1>7
=============================================================================
