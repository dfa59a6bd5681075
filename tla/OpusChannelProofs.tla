-------------------------- MODULE OpusChannelProofs --------------------------
(***************************************************************************)
(* For every configuration, every client and any number of silent packets: *)
(* the consumer of opusCh gets the client's packets unchanged, in order    *)
(* and all of them, and nothing after an error item.                       *)
(***************************************************************************)
EXTENDS OpusChannel, FiniteSetTheorems, TLAPS

LEMMA Concatenation ==
    ASSUME NEW s \in Seq(STRING), NEW t \in Seq(STRING)
    PROVE  /\ s \o t \in Seq(STRING)
           /\ Len(s \o t) = Len(s) + Len(t)
           /\ \A k \in 1..Len(s) : (s \o t)[k] = s[k]
           /\ \A k \in 1..Len(t) : (s \o t)[Len(s) + k] = t[k]
OBVIOUS

\* The first goroutine is readPacket, and only the last one can be the silent
\* one.
LEMMA StageFacts ==
    /\ LastStage \in Nat /\ LastStage >= 1
    /\ \A k \in 1..LastStage : Is(k, "read") \/ Is(k, "frame") \/ Is(k, "silent")
    /\ \A k \in 1..LastStage : Is(k, "silent") => k = LastStage /\ k > 1
    /\ \A k \in 1..LastStage : Is(k, "silent") => ~Is(k, "read") /\ ~Is(k, "frame")
    /\ \A k \in 1..LastStage : Is(k, "read") => k = 1 /\ ~Is(k, "frame")
    /\ \A k : Is(k, "silent") => k \in 1..LastStage
<1>1. CASE AudioStreamingHeader /\ DisableSilentPacket
  <2>1. Len(Stages) = 2 /\ Stages[1] = "read" /\ Stages[2] = "frame"
    BY <1>1, Concatenation DEF Stages
  <2> QED
    BY <2>1 DEF LastStage, Is
<1>2. CASE AudioStreamingHeader /\ ~DisableSilentPacket
  <2>1. Len(Stages) = 3 /\ Stages[1] = "read" /\ Stages[2] = "frame" /\ Stages[3] = "silent"
    BY <1>2, Concatenation DEF Stages
  <2> QED
    BY <2>1 DEF LastStage, Is
<1>3. CASE ~AudioStreamingHeader /\ DisableSilentPacket
  <2>1. Stages = <<"read">>
    BY <1>3 DEF Stages
  <2> QED
    BY <2>1 DEF LastStage, Is
<1>4. CASE ~AudioStreamingHeader /\ ~DisableSilentPacket
  <2>1. Len(Stages) = 2 /\ Stages[1] = "read" /\ Stages[2] = "silent"
    BY <1>4, Concatenation DEF Stages
  <2> QED
    BY <2>1 DEF LastStage, Is
<1> QED
  BY <1>1, <1>2, <1>3, <1>4, OpusChannelAssumption

-----------------------------------------------------------------------------
ErrorTaken == \E i \in 1..Len(taken) : taken[i].kind = "err"

\* Whoever sends to opusCh has no audio left: it has returned or, if it is the
\* silent goroutine, the one before it has, and only silence can follow.
Exhausted ==
    IF Is(LastStage, "silent")
    THEN /\ pc[LastStage - 1] = "done"
         /\ Sending(LastStage) => item[LastStage].kind # "audio"
    ELSE pc[LastStage] = "done"

\* The goroutine before the silent one has returned once the error item it
\* passed on is the one being sent.
ErrorFollowsReturn ==
    Is(LastStage, "silent") /\ Sending(LastStage) /\ item[LastStage].kind = "err"
       => pc[LastStage - 1] = "done"

ErrorInv ==
    /\ pc = [k \in 1..LastStage |-> pc[k]]
    /\ item = [k \in 1..LastStage |-> item[k]]
    /\ \E S : taken \in Seq(S)
    /\ ErrorTaken => Exhausted
    /\ ErrorFollowsReturn
    /\ NoAudioAfterError

LEMMA ErrorInit == Init => ErrorInv
<1> SUFFICES ASSUME Init
             PROVE  ErrorInv
  OBVIOUS
<1>1. taken \in Seq({}) /\ Len(taken) = 0
  BY DEF Init
<1>2. ~ErrorTaken /\ NoAudioAfterError
  BY <1>1 DEF ErrorTaken, NoAudioAfterError
<1>3. pc = [k \in 1..LastStage |-> pc[k]] /\ item = [k \in 1..LastStage |-> item[k]]
  BY DEF Init
<1>4. ~Sending(LastStage)
  BY StageFacts DEF Init, Sending
<1> QED
  BY <1>1, <1>2, <1>3, <1>4 DEF ErrorInv, ErrorFollowsReturn

\* A step that takes nothing from opusCh keeps the property if it keeps what
\* the invariant says of the last two goroutines.
LEMMA NothingTaken ==
    ASSUME ErrorInv, taken' = taken, Exhausted => Exhausted', ErrorFollowsReturn',
           pc' = [k \in 1..LastStage |-> pc'[k]], item' = [k \in 1..LastStage |-> item'[k]]
    PROVE  ErrorInv'
<1>1. ErrorTaken' => ErrorTaken
  BY DEF ErrorTaken
<1>2. NoAudioAfterError'
  BY DEF ErrorInv, NoAudioAfterError
<1> QED
  BY <1>1, <1>2 DEF ErrorInv

\* What a goroutine does once it has handed over an item.
LEMMA AfterSending ==
    ASSUME NEW k \in 1..LastStage, NEW x, NEW b
    PROVE  /\ x.kind = "err" /\ ~Is(k, "silent") => SentPc(k, x, b) = "done"
           /\ Is(k, "silent") => SentPc(k, x, b) = "recv"
           /\ Is(k, "silent") => Offer(k) = item[k]
<1>1. CASE Is(k, "silent")
  BY <1>1, StageFacts DEF SentPc, Offer
<1>2. CASE Is(k, "read")
  BY <1>2, StageFacts DEF SentPc
<1>3. CASE Is(k, "frame")
  BY <1>3, StageFacts DEF SentPc
<1> QED
  BY <1>1, <1>2, <1>3, StageFacts

-----------------------------------------------------------------------------
\* The consumer takes an item.
LEMMA ItemTaken ==
    ASSUME ErrorInv, Hand(LastStage)
    PROVE  ErrorInv'
<1> DEFINE n == LastStage
           x == Offer(n)
<1>1. /\ Sending(n) /\ taken' = Append(taken, x)
      /\ pc' = [i \in 1..n |-> IF i = n THEN SentPc(n, x, buf')
                               ELSE IF i = n + 1 THEN ReceivedPc(i, x, buf') ELSE pc[i]]
      /\ item' = [i \in 1..n |-> IF i = n + 1 /\ Is(i, "silent") THEN x ELSE item[i]]
  BY DEF Hand
<1>2. n \in Nat /\ n >= 1 /\ n \in 1..n
  BY StageFacts
<1>3. pc'[n] = SentPc(n, x, buf')
  BY <1>1, <1>2
<1>4. Is(n, "silent") => n - 1 \in 1..n /\ pc'[n - 1] = pc[n - 1] /\ x = item[n] /\ pc'[n] = "recv"
  <2>1. SUFFICES ASSUME Is(n, "silent")
                 PROVE  n - 1 \in 1..n /\ pc'[n - 1] = pc[n - 1] /\ x = item[n] /\ pc'[n] = "recv"
    OBVIOUS
  <2>2. n > 1 /\ n - 1 \in 1..n /\ n - 1 # n /\ n - 1 # n + 1
    BY <1>2, <2>1, StageFacts
  <2> QED
    BY <1>1, <1>2, <1>3, <2>1, <2>2, AfterSending
<1>5. x.kind = "err" \/ ErrorTaken => Exhausted'
  <2>1. CASE Is(n, "silent")
    <3>1. ~Sending(n)'
      BY <1>4, <2>1 DEF Sending
    <3>2. x.kind = "err" => pc[n - 1] = "done"
      BY <1>1, <1>4, <2>1 DEF ErrorInv, ErrorFollowsReturn
    <3>3. ErrorTaken => pc[n - 1] = "done"
      BY <2>1 DEF ErrorInv, Exhausted
    <3> QED
      BY <1>4, <2>1, <3>1, <3>2, <3>3 DEF Exhausted
  <2>2. CASE ~Is(n, "silent")
    <3>1. ~ErrorTaken
      BY <1>1, <2>2 DEF ErrorInv, Exhausted, Sending
    <3>2. x.kind = "err" => pc'[n] = "done"
      BY <1>2, <1>3, <2>2, AfterSending
    <3> QED
      BY <2>2, <3>1, <3>2 DEF Exhausted
  <2> QED
    BY <2>1, <2>2
<1>6. ErrorTaken => x.kind # "audio"
  <2>1. CASE Is(n, "silent")
    BY <1>1, <1>4, <2>1 DEF ErrorInv, Exhausted
  <2>2. CASE ~Is(n, "silent")
    BY <1>1, <2>2 DEF ErrorInv, Exhausted, Sending
  <2> QED
    BY <2>1, <2>2
<1>7. ErrorFollowsReturn'
  BY <1>4 DEF ErrorFollowsReturn, Sending
<1>8. PICK S : taken \in Seq(S)
  BY DEF ErrorInv
<1> HIDE DEF x
<1>9. /\ taken' \in Seq(S \cup {x}) /\ Len(taken') = Len(taken) + 1 /\ Len(taken) \in Nat
      /\ \A i \in 1..Len(taken) : taken'[i] = taken[i]
      /\ taken'[Len(taken) + 1] = x
  <2>1. taken \in Seq(S \cup {x})
    BY <1>8
  <2> QED
    BY <1>1, <2>1
<1>10. ErrorTaken' => Exhausted'
  <2>1. ErrorTaken' => ErrorTaken \/ x.kind = "err"
    BY <1>9 DEF ErrorTaken
  <2> QED
    BY <1>5, <2>1
<1>11. NoAudioAfterError'
  <2> SUFFICES ASSUME NEW i \in 1..Len(taken'), NEW j \in 1..Len(taken'), i < j,
                      taken'[i].kind = "err"
               PROVE  taken'[j].kind # "audio"
    BY DEF NoAudioAfterError
  <2>1. i \in 1..Len(taken) /\ taken[i].kind = "err"
    BY <1>9
  <2>2. CASE j \in 1..Len(taken)
    BY <1>9, <2>1, <2>2 DEF ErrorInv, NoAudioAfterError
  <2>3. CASE j = Len(taken) + 1
    BY <1>6, <1>9, <2>1, <2>3 DEF ErrorTaken
  <2> QED
    BY <1>9, <2>2, <2>3
<1>12. pc' = [k \in 1..n |-> pc'[k]] /\ item' = [k \in 1..n |-> item'[k]]
  BY <1>1
<1> QED
  BY <1>7, <1>9, <1>10, <1>11, <1>12 DEF ErrorInv

\* An item passes from one goroutine to the next.
LEMMA ItemPassed ==
    ASSUME ErrorInv, NEW k \in 1..LastStage, k # LastStage, Hand(k)
    PROVE  ErrorInv'
<1> DEFINE n == LastStage
           x == Offer(k)
<1>1. /\ Sending(k) /\ pc[k + 1] = "recv" /\ taken' = taken
      /\ pc' = [i \in 1..n |-> IF i = k THEN SentPc(k, x, buf')
                               ELSE IF i = k + 1 THEN ReceivedPc(i, x, buf') ELSE pc[i]]
      /\ item' = [i \in 1..n |-> IF i = k + 1 /\ Is(i, "silent") THEN x ELSE item[i]]
  BY StageFacts DEF Hand
<1>2. n \in Nat /\ n \in 1..n /\ k + 1 \in 1..n /\ k # k + 1
  BY StageFacts
<1> HIDE DEF x
<1>3. Exhausted => Exhausted'
  <2> SUFFICES ASSUME Exhausted
               PROVE  Exhausted'
    OBVIOUS
  <2>1. CASE ~Is(n, "silent")
    <3>1. pc[n] = "done"
      BY <2>1 DEF Exhausted
    <3>2. n # k /\ n # k + 1
      BY <1>1, <3>1 DEF Sending
    <3> QED
      BY <1>1, <1>2, <2>1, <3>1, <3>2 DEF Exhausted
  <2>2. CASE Is(n, "silent")
    <3>1. pc[n - 1] = "done" /\ n - 1 \in 1..n /\ n - 1 # n
      BY <1>2, <2>2, StageFacts DEF Exhausted
    <3>2. n - 1 # k /\ n - 1 # k + 1
      BY <1>1, <3>1 DEF Sending
    <3>3. n # k /\ n # k + 1
      BY <1>2, <3>2
    <3>4. pc'[n - 1] = "done" /\ pc'[n] = pc[n] /\ item'[n] = item[n]
      BY <1>1, <1>2, <3>1, <3>2, <3>3
    <3> QED
      BY <2>2, <3>4 DEF Exhausted, Sending
  <2> QED
    BY <2>1, <2>2
<1>4. ErrorFollowsReturn'
  <2> SUFFICES ASSUME Is(n, "silent"), Sending(n)', item'[n].kind = "err"
               PROVE  pc'[n - 1] = "done"
    BY DEF ErrorFollowsReturn
  <2>1. n - 1 \in 1..n /\ n - 1 # n
    BY <1>2, StageFacts
  <2>2. CASE n = k + 1
    <3>1. item'[n] = x /\ k = n - 1
      BY <1>1, <1>2, <2>2
    <3>2. ~Is(k, "silent")
      BY StageFacts
    <3>3. pc'[k] = SentPc(k, x, buf')
      BY <1>1
    <3>4. SentPc(k, x, buf') = "done"
      BY <3>1, <3>2, AfterSending
    <3> QED
      BY <3>1, <3>3, <3>4
  <2>3. CASE n # k + 1
    <3>1. item'[n] = item[n] /\ pc'[n] = pc[n]
      BY <1>1, <1>2, <2>3
    <3>2. pc[n - 1] = "done"
      BY <3>1 DEF ErrorInv, ErrorFollowsReturn, Sending
    <3>3. n - 1 # k /\ n - 1 # k + 1
      BY <1>1, <3>2 DEF Sending
    <3> QED
      BY <1>1, <2>1, <3>2, <3>3
  <2> QED
    BY <2>2, <2>3
<1>5. pc' = [i \in 1..n |-> pc'[i]] /\ item' = [i \in 1..n |-> item'[i]]
  BY <1>1
<1> QED
  BY <1>1, <1>3, <1>4, <1>5, NothingTaken

LEMMA ErrorNext == ErrorInv /\ [Next]_vars => ErrorInv'
<1> SUFFICES ASSUME ErrorInv, [Next]_vars
             PROVE  ErrorInv'
  OBVIOUS
<1> DEFINE n == LastStage
<1>0. /\ n \in Nat /\ n >= 1 /\ 1 \in 1..n /\ n \in 1..n
      /\ Is(n, "silent") => n > 1 /\ n - 1 \in 1..n /\ n - 1 # n
      /\ ErrorFollowsReturn
      /\ pc = [k \in 1..n |-> pc[k]] /\ item = [k \in 1..n |-> item[k]]
  BY StageFacts DEF ErrorInv
<1>1. CASE UNCHANGED <<pc, item, taken>>
  <2>1. Exhausted => Exhausted'
    BY <1>1 DEF Exhausted, Sending
  <2>2. ErrorFollowsReturn'
    BY <1>0, <1>1 DEF ErrorFollowsReturn, Sending
  <2> QED
    BY <1>0, <1>1, <2>1, <2>2, NothingTaken
<1>2. CASE ClientEnds \/ Cancel \/ CloseBody \/ UNCHANGED vars
  BY <1>1, <1>2 DEF ClientEnds, Cancel, CloseBody, vars
<1>3. CASE ReadLoop \/ ReadData \/ ReadError
  <2>1. /\ pc[1] \in {"check", "read"} /\ taken' = taken
        /\ \E v : pc' = [pc EXCEPT ![1] = v]
        /\ \E v : item' = [item EXCEPT ![1] = v]
    <3>1. CASE ReadLoop
      <4>1. item = [item EXCEPT ![1] = item[1]]
        BY <1>0
      <4> QED
        BY <3>1, <4>1 DEF ReadLoop
    <3>2. CASE ReadData \/ ReadError
      BY <3>2 DEF ReadData, ReadError
    <3> QED
      BY <1>3, <3>1, <3>2
  <2>2. \A k \in 1..n : k # 1 => pc'[k] = pc[k] /\ item'[k] = item[k]
    BY <1>0, <2>1
  <2>3. pc' = [k \in 1..n |-> pc'[k]] /\ item' = [k \in 1..n |-> item'[k]]
    BY <1>0, <2>1
  <2>4. CASE ~Is(n, "silent")
    BY <1>0, <2>1, <2>2, <2>3, <2>4, NothingTaken DEF Exhausted, ErrorFollowsReturn
  <2>5. CASE Is(n, "silent")
    <3>1. pc'[n] = pc[n] /\ item'[n] = item[n]
      BY <1>0, <2>2, <2>5
    <3>2. pc[n - 1] = "done" => pc'[n - 1] = "done"
      BY <1>0, <2>1, <2>2, <2>5
    <3>3. Exhausted => Exhausted'
      BY <2>5, <3>1, <3>2 DEF Exhausted, Sending
    <3>4. ErrorFollowsReturn'
      BY <1>0, <2>5, <3>1, <3>2 DEF ErrorFollowsReturn, Sending
    <3> QED
      BY <2>1, <2>3, <3>3, <3>4, NothingTaken
  <2> QED
    BY <2>4, <2>5
<1>4. ASSUME NEW k \in 1..n, Hand(k)
      PROVE  ErrorInv'
  BY <1>4, ItemTaken, ItemPassed
<1>5. ASSUME NEW k \in 1..n, CtxReturns(k) \/ UpstreamClosed(k)
      PROVE  ErrorInv'
  <2>1. pc' = [pc EXCEPT ![k] = "done"] /\ item' = item /\ taken' = taken
    BY <1>5 DEF CtxReturns, UpstreamClosed
  <2>2. \A i \in 1..n : pc'[i] = pc[i] \/ pc'[i] = "done"
    BY <1>0, <2>1
  <2>3. Exhausted => Exhausted'
    BY <1>0, <2>1, <2>2 DEF Exhausted, Sending
  <2>4. ErrorFollowsReturn'
    BY <1>0, <2>1, <2>2 DEF ErrorFollowsReturn, Sending
  <2>5. pc' = [i \in 1..n |-> pc'[i]]
    BY <1>0, <2>1
  <2> QED
    BY <1>0, <2>1, <2>3, <2>4, <2>5, NothingTaken
<1>6. ASSUME NEW k \in 1..n, TimerFires(k)
      PROVE  ErrorInv'
  <2>1. Is(n, "silent") /\ k = n
    BY <1>6, StageFacts DEF TimerFires
  <2>2. /\ pc' = [pc EXCEPT ![n] = "send"] /\ item' = [item EXCEPT ![n] = silentPacket]
        /\ taken' = taken
    BY <1>6, <2>1 DEF TimerFires
  <2>3. pc'[n - 1] = pc[n - 1] /\ item'[n].kind = "silent"
    BY <1>0, <2>1, <2>2 DEF silentPacket
  <2>4. Exhausted => Exhausted'
    BY <2>1, <2>3 DEF Exhausted
  <2>5. ErrorFollowsReturn'
    BY <2>3 DEF ErrorFollowsReturn
  <2>6. pc' = [i \in 1..n |-> pc'[i]] /\ item' = [i \in 1..n |-> item'[i]]
    BY <1>0, <2>2
  <2> QED
    BY <2>2, <2>4, <2>5, <2>6, NothingTaken
<1> QED
  BY <1>2, <1>3, <1>4, <1>5, <1>6 DEF Next

\* No audio follows an error item in opusCh, in every configuration of the
\* chain; the silent goroutine may still send silence after it.  opus2ogg,
\* which stops at the error, misses no audio.
THEOREM NoAudioFollowsError == Spec => []NoAudioAfterError
<1>1. ErrorInv => NoAudioAfterError
  BY DEF ErrorInv
<1> QED
  BY <1>1, ErrorInit, ErrorNext, PTL DEF Spec

-----------------------------------------------------------------------------
(* With audio_streaming_header: the deframer in the channel *)

\* The goroutines of the channel when audio comes with headers.
LEMMA HeaderStages ==
    ASSUME AudioStreamingHeader
    PROVE  /\ LastStage = 2 \/ LastStage = 3
           /\ \A k : Is(k, "read") <=> k = 1
           /\ \A k : Is(k, "frame") <=> k = 2
           /\ \A k : Is(k, "silent") <=> k = 3 /\ LastStage = 3
<1>1. CASE DisableSilentPacket
  <2>1. Len(Stages) = 2 /\ Stages[1] = "read" /\ Stages[2] = "frame"
    BY <1>1, Concatenation DEF Stages
  <2> QED
    BY <2>1 DEF LastStage, Is
<1>2. CASE ~DisableSilentPacket
  <2>1. Len(Stages) = 3 /\ Stages[1] = "read" /\ Stages[2] = "frame" /\ Stages[3] = "silent"
    BY <1>2, Concatenation DEF Stages
  <2> QED
    BY <2>1 DEF LastStage, Is
<1> QED
  BY <1>1, <1>2, OpusChannelAssumption

\* readPacket is at most one chunk ahead of the deframer, and that chunk is
\* the one it is sending: the next bytes of the stream, or the error of a Read
\* that had nothing more to return.
Reading ==
    /\ pc[1] \in {"check", "read", "send", "done"}
    /\ pc[1] \in {"check", "read"} => recvd = pos
    /\ pc[1] = "send" =>
          \/ /\ item[1] = Error /\ recvd = pos
             /\ body \in {"lost", "closed"} \/ (body = "ended" /\ pos = Len(wire))
          \/ recvd < pos /\ item[1] = Audio(SubSeq(wire, recvd + 1, pos))

ReadInv ==
    /\ wire \in Seq(0..255)
    /\ pos \in Nat /\ recvd \in Nat /\ recvd <= pos /\ pos <= Len(wire)
    /\ pc = [k \in 1..LastStage |-> pc[k]]
    /\ item = [k \in 1..LastStage |-> item[k]]
    /\ Reading

LEMMA ReadInit == ASSUME AudioStreamingHeader PROVE Init => ReadInv
<1> SUFFICES ASSUME Init PROVE ReadInv
  OBVIOUS
<1>1. wire \in Seq(0..255)
  BY OpusChannelAssumption DEF Init
<1>2. pc = [k \in 1..LastStage |-> pc[k]] /\ item = [k \in 1..LastStage |-> item[k]]
  BY DEF Init
<1>3. pc[1] = "check" /\ pos = 0 /\ recvd = 0
  BY StageFacts DEF Init
<1> QED
  BY <1>1, <1>2, <1>3 DEF ReadInv, Reading

\* A step of the other goroutines, of the client or of the request.
LEMMA ReaderIdle ==
    ASSUME ReadInv, UNCHANGED <<wire, pos, recvd>>, pc'[1] = pc[1], item'[1] = item[1],
           body' = body \/ body' = "closed" \/ body = "open",
           pc' = [k \in 1..LastStage |-> pc'[k]], item' = [k \in 1..LastStage |-> item'[k]]
    PROVE  ReadInv'
BY DEF ReadInv, Reading, Error, Audio

\* What replacing one goroutine's entry does to the others'.
LEMMA Replaced ==
    ASSUME NEW n, NEW f, f = [k \in 1..n |-> f[k]], NEW j, NEW v,
           NEW g, g = [f EXCEPT ![j] = v]
    PROVE  /\ g = [k \in 1..n |-> g[k]]
           /\ \A i \in 1..n : g[i] = IF i = j THEN v ELSE f[i]
OBVIOUS

LEMMA AudioFields == \A p : Audio(p).kind = "audio" /\ Audio(p).payload = p
BY DEF Audio

\* The length of a chunk of the stream.
LEMMA Chunk ==
    ASSUME NEW s \in Seq(0..255), NEW a \in Nat, NEW b \in Nat, a < b, b <= Len(s)
    PROVE  Len(SubSeq(s, a + 1, b)) = b - a
OBVIOUS

\* readPacket hands its chunk, or its error, to the deframer.
LEMMA ReaderHands ==
    ASSUME AudioStreamingHeader, ReadInv, Hand(1)
    PROVE  /\ pc[1] = "send" /\ pc[2] = "recv"
           /\ UNCHANGED <<wire, pos, body, ctxDone, out, starts, err, taken, silents>>
           /\ item' = [k \in 1..LastStage |-> IF k = 2 /\ Is(k, "silent") THEN item[1] ELSE item[k]]
           /\ pc' = [k \in 1..LastStage |-> pc'[k]]
           /\ LastStage = 3 => pc'[3] = pc[3]
           /\ \/ /\ item[1] = Error /\ recvd = pos
                 /\ body \in {"lost", "closed"} \/ (body = "ended" /\ pos = Len(wire))
                 /\ pc'[1] = "done" /\ pc'[2] = "sendErr" /\ UNCHANGED <<recvd, buf>>
              \/ /\ recvd < pos /\ recvd' = pos /\ item[1] = Audio(SubSeq(wire, recvd + 1, pos))
                 /\ buf' = buf \o SubSeq(wire, recvd + 1, pos)
                 /\ pc'[1] = "check" /\ pc'[2] = Deframer!NextWith(buf')
<1> DEFINE x == item[1]
<1>1. /\ LastStage = 2 \/ LastStage = 3
      /\ Is(1, "read") /\ ~Is(1, "frame") /\ Is(2, "frame") /\ ~Is(1, "silent")
  BY HeaderStages
<1>2. Offer(1) = x
  BY <1>1 DEF Offer
<1>3. /\ Sending(1) /\ (1 < LastStage => pc[1 + 1] = "recv")
      /\ buf' = BufAfter(1, x)
      /\ pc' = [i \in 1..LastStage |-> IF i = 1 THEN SentPc(1, x, buf')
                                       ELSE IF i = 1 + 1 THEN ReceivedPc(i, x, buf') ELSE pc[i]]
      /\ item' = [i \in 1..LastStage |-> IF i = 1 + 1 /\ Is(i, "silent") THEN x ELSE item[i]]
      /\ taken' = IF 1 = LastStage THEN Append(taken, x) ELSE taken
      /\ recvd' = IF Is(1 + 1, "frame") THEN recvd + Len(x.payload) ELSE recvd
      /\ UNCHANGED <<out, starts>>
      /\ err' = err
      /\ UNCHANGED <<wire, pos, body, ctxDone, silents>>
  BY <1>1, <1>2 DEF Hand
<1>4. 1 + 1 = 2
  OBVIOUS
<1>5. pc[1] = "send" /\ pc[2] = "recv"
  BY <1>1, <1>3, <1>4 DEF ReadInv, Reading, Sending
<1>6. /\ pc'[1] = SentPc(1, x, buf') /\ pc'[2] = ReceivedPc(2, x, buf')
      /\ LastStage = 3 => pc'[3] = pc[3]
      /\ pc' = [k \in 1..LastStage |-> pc'[k]]
  BY <1>1, <1>3
<1>7. SentPc(1, x, buf') = IF x.kind = "err" THEN "done" ELSE "check"
  BY <1>1 DEF SentPc
<1>8. ReceivedPc(2, x, buf') = IF x.kind = "err" THEN "sendErr" ELSE Deframer!NextWith(buf')
  BY <1>1 DEF ReceivedPc
<1>9. buf' = IF x.kind # "err" THEN buf \o x.payload ELSE buf
  BY <1>1, <1>3, <1>4 DEF BufAfter
<1>10. recvd' = recvd + Len(x.payload)
  BY <1>1, <1>3, <1>4
<1>11. CASE x = Error /\ recvd = pos /\ (body \in {"lost", "closed"} \/ (body = "ended" /\ pos = Len(wire)))
  <2>1. x.kind = "err" /\ x.payload = <<>>
    BY <1>11 DEF Error
  <2>2. recvd' = recvd
    BY <1>10, <2>1 DEF ReadInv
  <2> QED
    BY <1>1, <1>3, <1>4, <1>5, <1>6, <1>7, <1>8, <1>9, <1>11, <2>1, <2>2
<1>12. CASE recvd < pos /\ x = Audio(SubSeq(wire, recvd + 1, pos))
  <2>1. x.kind = "audio" /\ x.payload = SubSeq(wire, recvd + 1, pos)
    BY <1>12, AudioFields
  <2>2. Len(x.payload) = pos - recvd
    BY <1>12, <2>1, Chunk DEF ReadInv
  <2>3. recvd' = pos
    BY <1>10, <2>2 DEF ReadInv
  <2> QED
    BY <1>1, <1>3, <1>4, <1>5, <1>6, <1>7, <1>8, <1>9, <1>12, <2>1, <2>3
<1> QED
  BY <1>5, <1>11, <1>12 DEF ReadInv, Reading

LEMMA ReadNext == ASSUME AudioStreamingHeader PROVE ReadInv /\ [Next]_vars => ReadInv'
<1> SUFFICES ASSUME ReadInv, [Next]_vars PROVE ReadInv'
  OBVIOUS
<1>0. /\ LastStage = 2 \/ LastStage = 3
      /\ 1 \in 1..LastStage
      /\ pc = [k \in 1..LastStage |-> pc[k]] /\ item = [k \in 1..LastStage |-> item[k]]
  BY HeaderStages DEF ReadInv
<1>1. CASE ClientEnds \/ Cancel \/ CloseBody \/ UNCHANGED vars
  BY <1>0, <1>1, ReaderIdle DEF ClientEnds, Cancel, CloseBody, vars, history
<1>2. CASE ReadLoop
  BY <1>0, <1>2 DEF ReadLoop, ReadInv, Reading, history
<1>3. CASE ReadData
  <2>1. PICK n \in 1..(Len(wire) - pos) :
           pos' = pos + n /\ item' = [item EXCEPT ![1] = Audio(SubSeq(wire, pos + 1, pos + n))]
    BY <1>3 DEF ReadData
  <2>2. /\ pc[1] = "read" /\ pc' = [pc EXCEPT ![1] = "send"] /\ UNCHANGED <<wire, body, recvd>>
    BY <1>3 DEF ReadData, history
  <2>3. pc'[1] = "send" /\ pc' = [k \in 1..LastStage |-> pc'[k]]
    BY <1>0, <2>2
  <2>4. item'[1] = Audio(SubSeq(wire, pos + 1, pos')) /\ item' = [k \in 1..LastStage |-> item'[k]]
    BY <1>0, <2>1
  <2>5. recvd = pos /\ recvd < pos' /\ pos' \in Nat /\ pos' <= Len(wire)
    BY <2>1, <2>2 DEF ReadInv, Reading
  <2>6. item'[1] = Audio(SubSeq(wire', recvd' + 1, pos'))
    BY <2>2, <2>4, <2>5
  <2> QED
    BY <2>2, <2>3, <2>4, <2>5, <2>6 DEF ReadInv, Reading
<1>4. CASE ReadError
  <2>1. /\ pc[1] = "read" /\ pc' = [pc EXCEPT ![1] = "send"] /\ item' = [item EXCEPT ![1] = Error]
        /\ UNCHANGED <<wire, pos, body, recvd>>
        /\ body \in {"lost", "closed"} \/ (body = "ended" /\ pos = Len(wire))
    BY <1>4 DEF ReadError, history
  <2>2. pc'[1] = "send" /\ pc' = [k \in 1..LastStage |-> pc'[k]]
    BY <1>0, <2>1, Replaced
  <2>3. item'[1] = Error /\ item' = [k \in 1..LastStage |-> item'[k]]
    BY <1>0, <2>1, Replaced
  <2> QED
    BY <2>1, <2>2, <2>3 DEF ReadInv, Reading, Error
<1>5. CASE Hand(1)
  <2>1. /\ pc'[1] \in {"check", "done"} /\ recvd' = pos /\ UNCHANGED <<wire, pos>>
        /\ pc' = [k \in 1..LastStage |-> pc'[k]]
    BY <1>5, ReaderHands
  <2>2. item' = [k \in 1..LastStage |-> item'[k]]
    BY <1>5, ReaderHands
  <2> QED
    BY <2>1, <2>2 DEF ReadInv, Reading
<1>6. ASSUME NEW k \in 1..LastStage, k # 1, Hand(k)
      PROVE  ReadInv'
  <2>1. ~Is(k + 1, "frame") /\ k + 1 # 1
    BY <1>0, <1>6, HeaderStages
  <2>2. pc'[1] = pc[1] /\ pc' = [i \in 1..LastStage |-> pc'[i]]
    <3>1. pc' = [i \in 1..LastStage |-> IF i = k THEN SentPc(k, Offer(k), buf')
                                        ELSE IF i = k + 1 THEN ReceivedPc(i, Offer(k), buf')
                                        ELSE pc[i]]
      BY <1>6 DEF Hand
    <3> QED
      BY <1>0, <1>6, <2>1, <3>1
  <2>3. /\ item' = [i \in 1..LastStage |-> IF i = k + 1 /\ Is(i, "silent") THEN Offer(k) ELSE item[i]]
        /\ UNCHANGED <<wire, pos, body>> /\ recvd' = recvd
    BY <1>6, <2>1 DEF Hand
  <2>4. item'[1] = item[1] /\ item' = [i \in 1..LastStage |-> item'[i]]
    BY <1>0, <2>1, <2>3
  <2> QED
    BY <2>2, <2>3, <2>4, ReaderIdle
<1>7. ASSUME NEW k \in 1..LastStage, CtxReturns(k) \/ UpstreamClosed(k)
      PROVE  ReadInv'
  <2>1. pc' = [pc EXCEPT ![k] = "done"] /\ UNCHANGED <<wire, pos, body, item, recvd>>
    BY <1>7 DEF CtxReturns, UpstreamClosed, history
  <2>2. pc' = [i \in 1..LastStage |-> pc'[i]] /\ (pc'[1] = pc[1] \/ pc'[1] = "done")
    BY <1>0, <2>1, Replaced
  <2> QED
    BY <1>0, <2>1, <2>2, ReaderIdle DEF ReadInv, Reading
<1>8. ASSUME NEW k \in 1..LastStage, TimerFires(k)
      PROVE  ReadInv'
  <2>1. /\ k = 3 /\ pc' = [pc EXCEPT ![3] = "send"] /\ item' = [item EXCEPT ![3] = silentPacket]
        /\ UNCHANGED <<wire, pos, body, recvd>>
    BY <1>8, HeaderStages DEF TimerFires, history
  <2>2. /\ pc' = [i \in 1..LastStage |-> pc'[i]] /\ item' = [i \in 1..LastStage |-> item'[i]]
        /\ pc'[1] = pc[1] /\ item'[1] = item[1]
    <3>1. 1 # 3
      OBVIOUS
    <3> QED
      BY <1>0, <2>1, <3>1, Replaced
  <2> QED
    BY <2>1, <2>2, ReaderIdle
<1> QED
  BY <1>0, <1>1, <1>2, <1>3, <1>4, <1>5, <1>6, <1>7, <1>8 DEF Next

LEMMA ReadInvHolds == ASSUME AudioStreamingHeader PROVE Spec => []ReadInv
BY ReadInit, ReadNext, PTL DEF Spec

-----------------------------------------------------------------------------
\* The deframer hands a payload, or an error, to whoever comes next.
LEMMA DeframerHands ==
    ASSUME AudioStreamingHeader, ReadInv, Hand(2)
    PROVE  /\ UNCHANGED <<wire, pos, recvd, body, ctxDone, silents>>
           /\ pc'[1] = pc[1]
           /\ LastStage = 2 => taken' = Append(taken, Offer(2))
           /\ LastStage = 3 => /\ pc[3] = "recv" /\ pc'[3] = "send"
                               /\ item'[3] = Offer(2) /\ taken' = taken
           /\ \/ /\ pc[2] = "send"
                 /\ Offer(2) = Audio(SubSeq(buf, HeaderLength + 1, FrameLength))
                 /\ buf' = SubSeq(buf, FrameLength + 1, Len(buf))
                 /\ out' = Append(out, SubSeq(buf, HeaderLength + 1, FrameLength))
                 /\ starts' = Append(starts, starts[Len(starts)] + FrameLength)
                 /\ err' = err /\ pc'[2] = Deframer!NextWith(buf')
              \/ /\ pc[2] \in {"sendErr", "sendTooLarge"}
                 /\ Offer(2) = Error
                 /\ UNCHANGED <<buf, out, starts>>
                 /\ err' = IF pc[2] = "sendErr" THEN "upstream" ELSE "tooLarge"
                 /\ pc'[2] = "done"
<1>0. /\ LastStage = 2 \/ LastStage = 3
      /\ Is(2, "frame") /\ ~Is(3, "frame") /\ ~Is(2, "read") /\ ~Is(2, "silent")
      /\ LastStage = 3 => Is(3, "silent")
  BY HeaderStages
<1>1. 2 + 1 = 3
  OBVIOUS
<1>2. /\ Sending(2) /\ UNCHANGED <<wire, pos, body, ctxDone, silents>>
      /\ recvd' = recvd
      /\ buf' = BufAfter(2, Offer(2))
      /\ 2 < LastStage => pc[3] = "recv"
      /\ pc' = [i \in 1..LastStage |-> IF i = 2 THEN SentPc(2, Offer(2), buf')
                                       ELSE IF i = 3 THEN ReceivedPc(i, Offer(2), buf')
                                       ELSE pc[i]]
      /\ item' = [i \in 1..LastStage |-> IF i = 3 /\ Is(i, "silent") THEN Offer(2) ELSE item[i]]
      /\ taken' = IF 2 = LastStage THEN Append(taken, Offer(2)) ELSE taken
      /\ IF pc[2] = "send"
         THEN /\ out' = Append(out, Offer(2).payload)
              /\ starts' = Append(starts, starts[Len(starts)] + FrameLength)
         ELSE UNCHANGED <<out, starts>>
      /\ err' = IF Offer(2).kind = "err"
                THEN IF pc[2] = "sendErr" THEN "upstream" ELSE "tooLarge"
                ELSE err
  BY <1>0, <1>1 DEF Hand
<1>3. /\ pc'[2] = SentPc(2, Offer(2), buf') /\ pc'[1] = pc[1]
      /\ LastStage = 3 => /\ pc[3] = "recv" /\ pc'[3] = ReceivedPc(3, Offer(2), buf')
                          /\ item'[3] = Offer(2)
  BY <1>0, <1>2
<1>4. /\ SentPc(2, Offer(2), buf') = IF Offer(2).kind = "err" THEN "done" ELSE Deframer!NextWith(buf')
      /\ ReceivedPc(3, Offer(2), buf') = "send"
  BY <1>0 DEF SentPc, ReceivedPc
<1>5. CASE pc[2] = "send"
  <2>1. Offer(2) = Audio(SubSeq(buf, HeaderLength + 1, FrameLength))
    BY <1>0, <1>5 DEF Offer
  <2>2. Offer(2).kind = "audio" /\ Offer(2).payload = SubSeq(buf, HeaderLength + 1, FrameLength)
    BY <2>1, AudioFields
  <2>3. buf' = SubSeq(buf, FrameLength + 1, Len(buf))
    BY <1>0, <1>2, <1>5 DEF BufAfter
  <2> QED
    BY <1>2, <1>3, <1>4, <1>5, <2>1, <2>2, <2>3
<1>6. CASE pc[2] \in {"sendErr", "sendTooLarge"}
  <2>1. Offer(2) = Error /\ Offer(2).kind = "err"
    BY <1>0, <1>6 DEF Offer, Error
  <2>2. buf' = buf
    BY <1>0, <1>1, <1>2, <1>6 DEF BufAfter
  <2> QED
    BY <1>2, <1>3, <1>4, <1>6, <2>1, <2>2
<1> QED
  BY <1>2, <1>5, <1>6 DEF Sending

\* The consumer takes what the silent goroutine holds.
LEMMA SilentHands ==
    ASSUME AudioStreamingHeader, ReadInv, 3 \in 1..LastStage, Hand(3)
    PROVE  /\ LastStage = 3 /\ Sending(3)
           /\ UNCHANGED <<wire, pos, recvd, body, ctxDone, silents, buf, out, starts, err>>
           /\ pc'[1] = pc[1] /\ pc'[2] = pc[2] /\ pc'[3] = "recv"
           /\ taken' = Append(taken, item[3])
<1>0. /\ LastStage = 3
      /\ Is(3, "silent") /\ ~Is(3, "frame") /\ ~Is(4, "frame") /\ ~Is(3, "read")
  BY HeaderStages
<1>1. 3 + 1 = 4
  OBVIOUS
<1>2. Offer(3) = item[3]
  BY <1>0 DEF Offer
<1>3. /\ Sending(3) /\ UNCHANGED <<wire, pos, body, ctxDone, silents, out, starts>>
      /\ recvd' = recvd
      /\ buf' = BufAfter(3, item[3])
      /\ pc' = [i \in 1..3 |-> IF i = 3 THEN SentPc(3, item[3], buf')
                               ELSE IF i = 4 THEN ReceivedPc(i, item[3], buf')
                               ELSE pc[i]]
      /\ taken' = Append(taken, item[3])
      /\ err' = err
  BY <1>0, <1>1, <1>2 DEF Hand
<1>4. buf' = buf
  BY <1>0, <1>1, <1>3 DEF BufAfter
<1>5. SentPc(3, item[3], buf') = "recv"
  BY <1>0 DEF SentPc
<1> QED
  BY <1>0, <1>3, <1>4, <1>5

LEMMA DeframerInit == ASSUME AudioStreamingHeader PROVE Init => Deframer!Init
<1> SUFFICES ASSUME Init PROVE Deframer!Init
  OBVIOUS
<1>1. LastStage > 1 /\ pc[2] = "recv"
  BY HeaderStages DEF Init
<1> QED
  BY <1>1 DEF Init, Deframer!Init

LEMMA DeframerNext ==
    ASSUME AudioStreamingHeader, ReadInv, [Next]_vars
    PROVE  [Deframer!Next]_(Deframer!vars)
<1>0. /\ LastStage = 2 \/ LastStage = 3
      /\ LastStage > 1
      /\ pc = [k \in 1..LastStage |-> pc[k]]
      /\ \A k : Is(k, "frame") <=> k = 2
      /\ \A k : Is(k, "silent") <=> k = 3 /\ LastStage = 3
  BY HeaderStages DEF ReadInv
<1>1. ASSUME pc'[2] = pc[2], UNCHANGED <<wire, recvd, buf, out, starts, err, ctxDone>>
      PROVE  UNCHANGED Deframer!vars
  BY <1>0, <1>1 DEF Deframer!vars
<1>2. CASE Cancel
  BY <1>0, <1>2 DEF Cancel, history, Deframer!Next, Deframer!Cancel
<1>3. CASE ClientEnds \/ CloseBody \/ UNCHANGED vars
  BY <1>1, <1>3 DEF ClientEnds, CloseBody, vars, history
<1>4. CASE ReadLoop \/ ReadData \/ ReadError
  BY <1>0, <1>1, <1>4 DEF ReadLoop, ReadData, ReadError, history
<1>5. CASE Hand(1)
  <2>1. CASE pc'[2] = "sendErr" /\ UNCHANGED <<recvd, buf>>
    BY <1>0, <1>5, <2>1, ReaderHands DEF Deframer!Next, Deframer!ReceiveErr
  <2>2. CASE recvd < pos /\ recvd' = pos /\ buf' = buf \o SubSeq(wire, recvd + 1, pos)
               /\ pc'[2] = Deframer!NextWith(buf')
    <3>1. /\ pos - recvd \in 1..(Len(wire) - recvd) /\ recvd + (pos - recvd) = pos
      BY <2>2 DEF ReadInv
    <3>2. \E n \in 1..(Len(wire) - recvd) :
             recvd' = recvd + n /\ buf' = buf \o SubSeq(wire, recvd + 1, recvd + n)
      BY <2>2, <3>1
    <3> QED
      BY <1>0, <1>5, <2>2, <3>2, ReaderHands DEF Deframer!Next, Deframer!Receive
  <2> QED
    BY <1>5, <2>1, <2>2, ReaderHands
<1>6. CASE Hand(2)
  <2>1. CASE pc[2] = "send"
    BY <1>0, <1>6, <2>1, DeframerHands DEF FrameLength, Deframer!Next, Deframer!Send
  <2>2. CASE pc[2] # "send"
    BY <1>0, <1>6, <2>2, DeframerHands DEF Deframer!Next, Deframer!SendErr
  <2> QED
    BY <2>1, <2>2
<1>7. CASE Hand(3) /\ 3 \in 1..LastStage
  BY <1>1, <1>7, SilentHands
<1>8. ASSUME NEW k \in 1..LastStage, CtxReturns(k)
      PROVE  [Deframer!Next]_(Deframer!vars)
  <2>1. /\ pc' = [pc EXCEPT ![k] = "done"] /\ UNCHANGED <<wire, recvd, buf, out, starts, err, ctxDone>>
        /\ ctxDone
    BY <1>8 DEF CtxReturns, history
  <2>2. CASE k # 2
    BY <1>0, <1>1, <2>1, <2>2
  <2>3. CASE k = 2
    <3>1. pc[2] # "done" /\ pc'[2] = "done"
      BY <1>0, <1>8, <2>1, <2>3 DEF CtxReturns, Sending
    <3> QED
      BY <1>0, <2>1, <3>1 DEF Deframer!Next, Deframer!CtxReturns
  <2> QED
    BY <2>2, <2>3
<1>9. ASSUME NEW k \in 1..LastStage, UpstreamClosed(k)
      PROVE  [Deframer!Next]_(Deframer!vars)
  <2>1. /\ pc' = [pc EXCEPT ![k] = "done"] /\ UNCHANGED <<wire, recvd, buf, out, starts, err, ctxDone>>
        /\ pc[k] = "recv"
    BY <1>9 DEF UpstreamClosed, history
  <2>2. CASE k # 2
    BY <1>0, <1>1, <2>1, <2>2
  <2>3. CASE k = 2
    <3>1. pc[2] = "recv" /\ pc'[2] = "done"
      BY <1>0, <2>1, <2>3
    <3> QED
      BY <1>0, <2>1, <3>1 DEF Deframer!Next, Deframer!ReceiveClosed
  <2> QED
    BY <2>2, <2>3
<1>10. ASSUME NEW k \in 1..LastStage, TimerFires(k)
       PROVE  [Deframer!Next]_(Deframer!vars)
  BY <1>0, <1>1, <1>10 DEF TimerFires, history
<1> QED
  BY <1>0, <1>2, <1>3, <1>4, <1>5, <1>6, <1>7, <1>8, <1>9, <1>10 DEF Next

\* With headers, the second goroutine of the channel is the deframer of
\* PacketHeader: whatever the others do, every step of the channel is one of
\* its steps or none of its business.
THEOREM ChannelDeframes ==
    ASSUME AudioStreamingHeader
    PROVE  Spec => DeframerImplemented
<1>1. ReadInv /\ [Next]_vars => [Deframer!Next]_(Deframer!vars)
  BY DeframerNext
<1> QED
  BY <1>1, ReadInvHolds, DeframerInit, PTL DEF Spec, DeframerImplemented, Deframer!Spec

-----------------------------------------------------------------------------
(* What PacketHeaderProofs proves of the deframer holds in the channel *)

Proved ==
    INSTANCE PacketHeaderProofs WITH
       pc <- IF LastStage > 1 THEN pc[2] ELSE "recv"

\* Both instances are the same specification.
LEMMA SameDeframer == Deframer!Spec => Proved!Spec
<1>1. Deframer!Init => Proved!Init
  BY Zenon DEF Deframer!Init, Proved!Init
<1>2. [Deframer!Next]_(Deframer!vars) => [Proved!Next]_(Proved!vars)
  BY Zenon
  DEF Deframer!Next, Deframer!vars, Deframer!Cancel, Deframer!Receive, Deframer!ReceiveErr,
      Deframer!ReceiveClosed, Deframer!Send, Deframer!SendErr, Deframer!CtxReturns,
      Deframer!NextWith, Deframer!LengthAt, Proved!Next, Proved!vars, Proved!Cancel,
      Proved!Receive, Proved!ReceiveErr, Proved!ReceiveClosed, Proved!Send, Proved!SendErr,
      Proved!CtxReturns, Proved!NextWith, Proved!LengthAt
<1> QED
  BY <1>1, <1>2, PTL DEF Deframer!Spec, Proved!Spec

LEMMA DeframerAssumption == Proved!PacketHeaderAssumption
<1>1. \A c : Deframer!Framed(c) => Proved!Framed(c)
  <2>1. \A s, p : Deframer!Announced(s, p) = Proved!Announced(s, p)
    BY SMT DEF Deframer!Announced, Proved!Announced
  <2> QED
    BY <2>1, Zenon DEF Deframer!Framed, Proved!Framed
<1> QED
  BY <1>1, OpusChannelAssumption DEF Proved!PacketHeaderAssumption, Proved!Byte

LEMMA DeframerTypes == ASSUME AudioStreamingHeader PROVE Spec => []Deframer!TypeOK
<1>1. Proved!TypeOK => Deframer!TypeOK
  BY Zenon DEF Proved!TypeOK, Deframer!TypeOK, Proved!Byte, Deframer!Byte
<1> QED
  BY <1>1, DeframerAssumption, SameDeframer, ChannelDeframes, Proved!TypeCorrect, PTL
  DEF DeframerImplemented

\* With headers, and whatever the scheduler does to the goroutines, the
\* deframer in the channel cuts the client's stream at its frame boundaries,
\* withholds no complete frame and enforces the payload limit.
THEOREM ChannelFramesExact ==
    ASSUME AudioStreamingHeader
    PROVE  Spec => [](/\ Deframer!FramesExact
                      /\ Deframer!NothingWithheld
                      /\ Deframer!LimitEnforced)
<1>1. Proved!FramesExact => Deframer!FramesExact
  BY Zenon DEF Proved!FramesExact, Deframer!FramesExact, Proved!Base, Deframer!Base,
     Proved!LengthAt, Deframer!LengthAt
<1>2. Proved!NothingWithheld => Deframer!NothingWithheld
  BY Zenon DEF Proved!NothingWithheld, Deframer!NothingWithheld, Proved!Base, Deframer!Base,
     Proved!LengthAt, Deframer!LengthAt
<1>3. Proved!LimitEnforced => Deframer!LimitEnforced
  BY Zenon DEF Proved!LimitEnforced, Deframer!LimitEnforced, Proved!Base, Deframer!Base,
     Proved!LengthAt, Deframer!LengthAt
<1> QED
  BY <1>1, <1>2, <1>3, DeframerAssumption, SameDeframer, ChannelDeframes,
     Proved!DeframingExact, Proved!DeframingPrompt, Proved!LimitHolds, PTL
  DEF DeframerImplemented

-----------------------------------------------------------------------------
(* With headers: what the consumer of opusCh gets *)

Count(s, kind) == Cardinality({i \in 1..Len(s) : s[i].kind = kind})

\* Counting the items of a kind in a sequence that grows.
LEMMA CountAppend ==
    ASSUME NEW S, NEW s \in Seq(S), NEW x \in S, NEW kind
    PROVE  /\ Count(s, kind) \in Nat
           /\ x.kind = kind => Count(Append(s, x), kind) = Count(s, kind) + 1
           /\ x.kind # kind => Count(Append(s, x), kind) = Count(s, kind)
<1>1. PICK t : t = Append(s, x)
  OBVIOUS
<1>2. PICK R : R = {i \in 1..Len(s) : s[i].kind = kind}
  OBVIOUS
<1>3. PICK Q : Q = {i \in 1..Len(t) : t[i].kind = kind}
  OBVIOUS
<1>4. Len(s) \in Nat
  OBVIOUS
<1>5. IsFiniteSet(1..Len(s)) /\ R \subseteq 1..Len(s)
  BY <1>2, <1>4, FS_Interval
<1>6. IsFiniteSet(R) /\ Cardinality(R) \in Nat
  BY <1>5, FS_Subset, FS_CardinalityType
<1>7. Len(t) = Len(s) + 1 /\ t[Len(s) + 1] = x /\ \A i \in 1..Len(s) : t[i] = s[i]
  BY <1>1
<1>8. Count(s, kind) = Cardinality(R) /\ Count(Append(s, x), kind) = Cardinality(Q)
  BY <1>1, <1>2, <1>3 DEF Count
<1>9. CASE x.kind = kind
  <2>1. Q = R \cup {Len(s) + 1} /\ Len(s) + 1 \notin R
    BY <1>2, <1>3, <1>4, <1>7, <1>9
  <2>2. Cardinality(R \cup {Len(s) + 1}) = Cardinality(R) + 1
    BY <1>6, <2>1, FS_AddElement
  <2> QED
    BY <1>6, <1>8, <1>9, <2>1, <2>2
<1>10. CASE x.kind # kind
  <2>1. Q = R
    BY <1>2, <1>3, <1>4, <1>7, <1>10
  <2> QED
    BY <1>6, <1>8, <1>10, <2>1
<1> QED
  BY <1>9, <1>10

TakenAll(kind) == Taken(kind, Len(taken))

\* What one more item adds to the count of its kind, and leaves of the counts
\* before it.
LEMMA TakenGrows ==
    ASSUME ErrorInv, NEW x, taken' = Append(taken, x)
    PROVE  /\ Len(taken) \in Nat /\ Len(taken') = Len(taken) + 1
           /\ taken'[Len(taken) + 1] = x
           /\ \A i \in 1..Len(taken) : taken'[i] = taken[i]
           /\ \A kind : /\ TakenAll(kind) \in Nat
                        /\ x.kind = kind => TakenAll(kind)' = TakenAll(kind) + 1
                        /\ x.kind # kind => TakenAll(kind)' = TakenAll(kind)
           /\ \A kind : \A i \in 1..Len(taken) : Taken(kind, i)' = Taken(kind, i)
<1>1. PICK S : taken \in Seq(S)
  BY DEF ErrorInv
<1>2. taken \in Seq(S \cup {x}) /\ x \in S \cup {x}
  BY <1>1
<1>3. /\ Len(taken) \in Nat /\ Len(taken') = Len(taken) + 1
      /\ taken'[Len(taken) + 1] = x
      /\ \A i \in 1..Len(taken) : taken'[i] = taken[i]
  BY <1>2
<1>4. ASSUME NEW kind
      PROVE  /\ TakenAll(kind) \in Nat
             /\ x.kind = kind => TakenAll(kind)' = TakenAll(kind) + 1
             /\ x.kind # kind => TakenAll(kind)' = TakenAll(kind)
  <2>1. TakenAll(kind) = Count(taken, kind) /\ TakenAll(kind)' = Count(Append(taken, x), kind)
    BY DEF TakenAll, Taken, Count
  <2> QED
    BY <1>2, <2>1, CountAppend
<1>5. ASSUME NEW kind, NEW i \in 1..Len(taken)
      PROVE  Taken(kind, i)' = Taken(kind, i)
  <2>1. {j \in 1..i : taken'[j].kind = kind} = {j \in 1..i : taken[j].kind = kind}
    BY <1>3
  <2> QED
    BY <2>1 DEF Taken
<1> QED
  BY <1>3, <1>4, <1>5

\* The silent goroutine is sending an item of this kind.
Holds(kind) == LastStage = 3 /\ pc[3] = "send" /\ item[3].kind = kind

\* The silent goroutine has returned because of the context, perhaps with an
\* item in hand.
Cut == LastStage = 3 /\ pc[3] = "done" /\ ctxDone

\* Why goroutines return: unless the context is cancelled, each has been told
\* by the one before it, and the first by a Read that had nothing more.
Ends ==
    /\ pc[1] = "done" /\ ~ctxDone => pc[2] \in {"sendErr", "done"}
    /\ pc[2] = "done" /\ ~ctxDone => err # "none"
    /\ err # "none" => pc[2] = "done"
    /\ LastStage = 3 /\ pc[3] = "done" /\ ~ctxDone => pc[2] = "done"
    /\ pc[2] = "sendErr" \/ err = "upstream" =>
          body \in {"lost", "closed"} \/ (body = "ended" /\ recvd = Len(wire))

\* What the deframer has sent on is what the consumer has taken and what the
\* silent goroutine holds.
Counts ==
    /\ TakenAll("audio") \in Nat /\ TakenAll("err") \in Nat
    /\ TakenAll("audio") <= Len(out)
    /\ ~Cut => /\ Len(out) = TakenAll("audio") + IF Holds("audio") THEN 1 ELSE 0
               /\ TakenAll("err") + (IF Holds("err") THEN 1 ELSE 0) = IF err = "none" THEN 0 ELSE 1
    /\ Holds("audio") => item[3].payload = out[Len(out)]

\* The n-th audio item taken is the n-th payload the deframer has cut out.
Matched ==
    \A i \in 1..Len(taken) : taken[i].kind = "audio" =>
       /\ Taken("audio", i) \in 1..Len(out)
       /\ taken[i].payload = out[Taken("audio", i)]

Delivery ==
    /\ LastStage = 3 => pc[3] \in {"recv", "send", "done"}
    /\ Ends
    /\ Counts
    /\ Matched

LEMMA DeliveryInit == ASSUME AudioStreamingHeader PROVE Init => Delivery
<1> SUFFICES ASSUME Init PROVE Delivery
  OBVIOUS
<1>1. LastStage = 2 \/ LastStage = 3
  BY HeaderStages
<1>2. /\ pc[1] = "check" /\ pc[2] = "recv" /\ (LastStage = 3 => pc[3] = "recv")
      /\ taken = <<>> /\ out = <<>> /\ err = "none"
  BY <1>1 DEF Init
<1>3. Len(taken) = 0 /\ Len(out) = 0
  BY <1>2
<1>4. \A kind : TakenAll(kind) = 0
  <2>1. \A kind : {i \in 1..Len(taken) : taken[i].kind = kind} = {}
    BY <1>3
  <2> QED
    BY <2>1, FS_EmptySet DEF TakenAll, Taken
<1>5. ~Holds("audio") /\ ~Holds("err")
  BY <1>2 DEF Holds
<1>6. Counts
  BY <1>2, <1>3, <1>4, <1>5 DEF Counts
<1>7. Matched
  BY <1>3 DEF Matched
<1>8. Ends
  BY <1>2 DEF Ends
<1> QED
  BY <1>2, <1>6, <1>7, <1>8 DEF Delivery

\* A step that sends nothing on and takes nothing keeps the counts.
LEMMA NothingSent ==
    ASSUME Delivery, UNCHANGED <<taken, out, err>>,
           \/ LastStage = 2
           \/ pc'[3] = pc[3] /\ item'[3] = item[3]
           \/ pc[3] = "recv" /\ pc'[3] = "send" /\ item'[3].kind = "silent"
           \/ pc[3] = "recv" /\ pc'[3] = "done"
           \/ pc[3] = "send" /\ pc'[3] = "done" /\ ctxDone',
           ctxDone => ctxDone',
           Ends'
    PROVE  Delivery'
<1>1. \A kind : TakenAll(kind)' = TakenAll(kind)
  BY DEF TakenAll, Taken
<1>2. Matched'
  BY DEF Delivery, Matched, Taken
<1>3. Counts'
  BY <1>1 DEF Delivery, Counts, Holds, Cut
<1> QED
  BY <1>2, <1>3 DEF Delivery

\* The deframer never goes on to pass an error or to return by itself.
LEMMA NextWithRange == \A b : Deframer!NextWith(b) \in {"recv", "send", "sendTooLarge"}
BY DEF Deframer!NextWith

\* A payload is added to what has been sent on.
LEMMA SentOn ==
    ASSUME Deframer!TypeOK, NEW p, out' = Append(out, p)
    PROVE  /\ Len(out) \in Nat /\ Len(out') = Len(out) + 1 /\ out'[Len(out')] = p
           /\ \A i \in 1..Len(out) : out'[i] = out[i]
<1>1. out \in Seq(Seq(Deframer!Byte) \cup {p})
  BY DEF Deframer!TypeOK
<1> QED
  BY <1>1

\* Items taken earlier stay matched when more is sent on.
LEMMA MatchedStays ==
    ASSUME Matched, Len(out) \in Nat, Len(out') \in Nat, Len(out) <= Len(out'),
           \A i \in 1..Len(out) : out'[i] = out[i],
           taken' = taken
    PROVE  Matched'
<1>1. \A kind, i : Taken(kind, i)' = Taken(kind, i)
  BY DEF Taken
<1> QED
  BY <1>1 DEF Matched

\* They stay matched when one more is taken, and it is too if it is the last
\* payload sent on.
LEMMA MatchedGrows ==
    ASSUME ErrorInv, Matched, Len(out) \in Nat, Len(out') \in Nat, Len(out) <= Len(out'),
           \A i \in 1..Len(out) : out'[i] = out[i],
           NEW x, taken' = Append(taken, x),
           x.kind = "audio" => /\ TakenAll("audio") + 1 = Len(out')
                               /\ x.payload = out'[Len(out')]
    PROVE  Matched'
<1> SUFFICES ASSUME NEW i \in 1..Len(taken'), taken'[i].kind = "audio"
             PROVE  /\ Taken("audio", i)' \in 1..Len(out')
                    /\ taken'[i].payload = out'[Taken("audio", i)']
  BY DEF Matched
<1>1. Len(taken) \in Nat /\ Len(taken') = Len(taken) + 1
  BY TakenGrows
<1>2. CASE i \in 1..Len(taken)
  <2>1. taken'[i] = taken[i] /\ Taken("audio", i)' = Taken("audio", i)
    BY <1>2, TakenGrows
  <2>2. Taken("audio", i) \in 1..Len(out) /\ taken[i].payload = out[Taken("audio", i)]
    BY <1>2, <2>1 DEF Matched
  <2> QED
    BY <2>1, <2>2
<1>3. CASE i = Len(taken')
  <2>1. taken'[i] = x
    BY <1>1, <1>3, TakenGrows
  <2>2. Taken("audio", i)' = TakenAll("audio")'
    BY <1>3 DEF TakenAll, Taken
  <2>3. TakenAll("audio") \in Nat /\ TakenAll("audio")' = TakenAll("audio") + 1
    BY <2>1, TakenGrows
  <2> QED
    BY <2>1, <2>2, <2>3
<1> QED
  BY <1>1, <1>2, <1>3

\* The deframer sends on a payload or an error, to the consumer or to the
\* silent goroutine.
LEMMA DeframerDelivers ==
    ASSUME AudioStreamingHeader, ErrorInv, ReadInv, Deframer!TypeOK, Delivery, Hand(2)
    PROVE  Delivery'
<1> DEFINE x == Offer(2)
<1>0. LastStage = 2 \/ LastStage = 3
  BY HeaderStages
<1>1. /\ UNCHANGED <<wire, recvd, body, ctxDone>> /\ pc'[1] = pc[1]
      /\ pc[2] \in {"send", "sendErr", "sendTooLarge"}
      /\ LastStage = 2 => taken' = Append(taken, x)
      /\ LastStage = 3 => pc[3] = "recv" /\ pc'[3] = "send" /\ item'[3] = x /\ taken' = taken
  BY DeframerHands
<1>2. \/ /\ pc[2] = "send" /\ x.kind = "audio" /\ out' = Append(out, x.payload) /\ err' = err
         /\ pc'[2] \in {"recv", "send", "sendTooLarge"}
      \/ /\ pc[2] # "send" /\ x.kind = "err" /\ out' = out /\ err' # "none" /\ pc'[2] = "done"
         /\ err' = "upstream" => pc[2] = "sendErr"
  <2>1. Error.kind = "err"
    BY DEF Error
  <2> QED
    BY <2>1, DeframerHands, AudioFields, NextWithRange
<1>3. err = "none" /\ Ends
  BY <1>1 DEF Delivery, Ends
<1>4. Ends'
  BY <1>0, <1>1, <1>2, <1>3 DEF Ends
<1>5. ~Cut /\ ~Holds("audio") /\ ~Holds("err") /\ ~Cut'
  BY <1>0, <1>1 DEF Cut, Holds
<1>6. /\ TakenAll("audio") \in Nat /\ Len(out) = TakenAll("audio")
      /\ TakenAll("err") = 0
  BY <1>3, <1>5 DEF Delivery, Counts
<1> HIDE DEF x
<1>7. /\ Len(out) \in Nat /\ Len(out') \in Nat /\ Len(out) <= Len(out')
      /\ \A i \in 1..Len(out) : out'[i] = out[i]
      /\ x.kind = "audio" => Len(out') = Len(out) + 1 /\ x.payload = out'[Len(out')]
      /\ x.kind # "audio" => Len(out') = Len(out)
  <2>1. CASE out' = Append(out, x.payload) /\ x.kind = "audio"
    BY <2>1, SentOn
  <2>2. CASE out' = out /\ x.kind = "err"
    BY <1>6, <2>2
  <2> QED
    BY <1>2, <2>1, <2>2
<1>8. CASE LastStage = 2
  <2>1. taken' = Append(taken, x)
    BY <1>1, <1>8
  <2>2. Matched'
    BY <1>6, <1>7, <2>1, MatchedGrows DEF Delivery
  <2>3. /\ x.kind = "audio" => /\ TakenAll("audio")' = TakenAll("audio") + 1
                               /\ TakenAll("err")' = TakenAll("err")
        /\ x.kind = "err" => /\ TakenAll("audio")' = TakenAll("audio")
                             /\ TakenAll("err")' = TakenAll("err") + 1
    BY <2>1, TakenGrows
  <2>4. ~Holds("audio")' /\ ~Holds("err")'
    BY <1>8 DEF Holds
  <2>5. Counts'
    BY <1>2, <1>3, <1>5, <1>6, <1>7, <2>3, <2>4 DEF Counts
  <2> QED
    BY <1>4, <1>8, <2>2, <2>5 DEF Delivery
<1>9. CASE LastStage = 3
  <2>1. taken' = taken /\ pc'[3] = "send" /\ item'[3] = x
    BY <1>1, <1>9
  <2>2. Matched'
    BY <1>7, <2>1, MatchedStays DEF Delivery
  <2>3. \A kind : TakenAll(kind)' = TakenAll(kind)
    BY <2>1 DEF TakenAll, Taken
  <2>4. /\ Holds("audio")' <=> x.kind = "audio"
        /\ Holds("err")' <=> x.kind = "err"
    BY <1>9, <2>1 DEF Holds
  <2>5. Counts'
    BY <1>2, <1>3, <1>5, <1>6, <1>7, <2>1, <2>3, <2>4 DEF Counts
  <2> QED
    BY <1>4, <2>1, <2>2, <2>5 DEF Delivery
<1> QED
  BY <1>0, <1>8, <1>9

\* The consumer takes what the silent goroutine holds.
LEMMA SilentDelivers ==
    ASSUME AudioStreamingHeader, ErrorInv, ReadInv, Deframer!TypeOK, Delivery,
           3 \in 1..LastStage, Hand(3)
    PROVE  Delivery'
<1> DEFINE x == item[3]
<1>1. /\ LastStage = 3 /\ pc[3] = "send" /\ pc'[3] = "recv"
      /\ UNCHANGED <<wire, recvd, body, ctxDone, out, err>>
      /\ pc'[1] = pc[1] /\ pc'[2] = pc[2] /\ taken' = Append(taken, x)
  BY SilentHands DEF Delivery, Sending
<1>2. Ends'
  BY <1>1 DEF Delivery, Ends
<1>3. /\ Holds("audio") <=> x.kind = "audio"
      /\ Holds("err") <=> x.kind = "err"
      /\ ~Holds("audio")' /\ ~Holds("err")' /\ ~Cut /\ ~Cut'
  BY <1>1 DEF Holds, Cut
<1>4. Len(out) \in Nat
  BY DEF Deframer!TypeOK
<1>5. /\ TakenAll("audio") \in Nat /\ TakenAll("err") \in Nat
      /\ Len(out) = TakenAll("audio") + IF x.kind = "audio" THEN 1 ELSE 0
      /\ TakenAll("err") + (IF x.kind = "err" THEN 1 ELSE 0) = IF err = "none" THEN 0 ELSE 1
      /\ x.kind = "audio" => x.payload = out[Len(out)]
  BY <1>3 DEF Delivery, Counts
<1> HIDE DEF x
<1>6. Matched'
  BY <1>1, <1>4, <1>5, MatchedGrows DEF Delivery
<1>7. \A kind : /\ x.kind = kind => TakenAll(kind)' = TakenAll(kind) + 1
                /\ x.kind # kind => TakenAll(kind)' = TakenAll(kind)
  BY <1>1, TakenGrows
<1>8. Counts'
  BY <1>1, <1>3, <1>4, <1>5, <1>7 DEF Counts
<1> QED
  BY <1>1, <1>2, <1>6, <1>8 DEF Delivery

LEMMA DeliveryNext ==
    ASSUME AudioStreamingHeader, ErrorInv, ReadInv, Deframer!TypeOK, Delivery, [Next]_vars
    PROVE  Delivery'
<1>0. /\ LastStage = 2 \/ LastStage = 3
      /\ 1 \in 1..LastStage /\ 2 \in 1..LastStage
      /\ LastStage = 3 => 3 \in 1..LastStage
      /\ pc = [k \in 1..LastStage |-> pc[k]] /\ item = [k \in 1..LastStage |-> item[k]]
      /\ Ends
  BY HeaderStages DEF ReadInv, Delivery
<1>1. CASE ClientEnds \/ Cancel \/ CloseBody \/ UNCHANGED vars
  <2>1. UNCHANGED <<wire, pc, item, taken, recvd, out, err>> /\ (ctxDone => ctxDone')
    BY <1>1 DEF ClientEnds, Cancel, CloseBody, vars, history
  <2>2. body' = body \/ body' = "closed" \/ body = "open"
    BY <1>1 DEF ClientEnds, Cancel, CloseBody, vars
  <2>3. Ends'
    BY <1>0, <2>1, <2>2 DEF Ends
  <2> QED
    BY <2>1, <2>3, NothingSent
<1>2. CASE ReadLoop \/ ReadData \/ ReadError
  <2>1. /\ UNCHANGED <<wire, body, ctxDone, taken, recvd, out, err>>
        /\ \E v : pc' = [pc EXCEPT ![1] = v]
    BY <1>2 DEF ReadLoop, ReadData, ReadError, history
  <2>2. item' = item \/ \E v : item' = [item EXCEPT ![1] = v]
    BY <1>2 DEF ReadLoop, ReadData, ReadError
  <2>3. /\ pc'[2] = pc[2]
        /\ LastStage = 3 => pc'[3] = pc[3] /\ item'[3] = item[3]
    BY <1>0, <2>1, <2>2, Replaced
  <2>4. pc'[1] = "done" => ctxDone
    BY <1>0, <1>2 DEF ReadLoop, ReadData, ReadError
  <2>5. Ends'
    BY <1>0, <2>1, <2>3, <2>4 DEF Ends
  <2> QED
    BY <1>0, <2>1, <2>3, <2>5, NothingSent
<1>3. CASE Hand(1)
  <2>1. /\ pc[2] = "recv" /\ UNCHANGED <<wire, body, ctxDone, taken, out, err>>
        /\ LastStage = 3 => pc'[3] = pc[3]
        /\ item' = [k \in 1..LastStage |-> IF k = 2 /\ Is(k, "silent") THEN item[1] ELSE item[k]]
    BY <1>3, ReaderHands
  <2>2. LastStage = 3 => item'[3] = item[3]
    BY <1>0, <2>1
  <2>3. err = "none"
    BY <1>0, <2>1 DEF Ends
  <2>4. Ends'
    <3>1. CASE pc'[2] = "sendErr" /\ recvd' = recvd
      <4>1. body \in {"lost", "closed"} \/ (body = "ended" /\ recvd = Len(wire))
        BY <1>3, <3>1, ReaderHands, NextWithRange
      <4> QED
        BY <1>0, <2>1, <2>3, <3>1, <4>1 DEF Ends
    <3>2. CASE pc'[1] = "check" /\ pc'[2] = Deframer!NextWith(buf')
      BY <1>0, <2>1, <2>3, <3>2, NextWithRange DEF Ends
    <3> QED
      BY <1>3, <3>1, <3>2, ReaderHands
  <2> QED
    BY <1>0, <2>1, <2>2, <2>4, NothingSent
<1>4. CASE Hand(2)
  BY <1>4, DeframerDelivers
<1>5. CASE 3 \in 1..LastStage /\ Hand(3)
  BY <1>5, SilentDelivers
<1>6. ASSUME NEW k \in 1..LastStage, CtxReturns(k)
      PROVE  Delivery'
  <2>1. /\ pc' = [pc EXCEPT ![k] = "done"] /\ ctxDone /\ ctxDone'
        /\ UNCHANGED <<wire, body, item, taken, recvd, out, err>>
    BY <1>6 DEF CtxReturns, history
  <2>2. \A i \in 1..LastStage : pc'[i] = IF i = k THEN "done" ELSE pc[i]
    BY <1>0, <2>1, Replaced
  <2>3. Ends'
    BY <1>0, <2>1, <2>2 DEF Ends
  <2>4. \/ LastStage = 2
        \/ pc'[3] = pc[3]
        \/ pc[3] \in {"recv", "send"} /\ pc'[3] = "done"
    BY <1>0, <2>2 DEF Delivery
  <2> QED
    BY <2>1, <2>3, <2>4, NothingSent
<1>7. ASSUME NEW k \in 1..LastStage, UpstreamClosed(k)
      PROVE  Delivery'
  <2>1. /\ pc' = [pc EXCEPT ![k] = "done"] /\ k > 1 /\ pc[k] = "recv" /\ pc[k - 1] = "done"
        /\ UNCHANGED <<wire, body, ctxDone, item, taken, recvd, out, err>>
    BY <1>7 DEF UpstreamClosed, history
  <2>2. \A i \in 1..LastStage : pc'[i] = IF i = k THEN "done" ELSE pc[i]
    BY <1>0, <2>1, Replaced
  <2>3. CASE k = 2
    <3>1. ctxDone /\ pc'[2] = "done" /\ pc'[1] = pc[1] /\ (LastStage = 3 => pc'[3] = pc[3])
      BY <1>0, <2>1, <2>2, <2>3 DEF Ends
    <3>2. Ends'
      BY <1>0, <2>1, <3>1 DEF Ends
    <3> QED
      BY <1>0, <2>1, <3>1, <3>2, NothingSent
  <2>4. CASE k = 3 /\ LastStage = 3
    <3>1. pc[2] = "done" /\ pc'[2] = "done" /\ pc'[1] = pc[1] /\ pc'[3] = "done"
      BY <1>0, <2>1, <2>2, <2>4
    <3>2. Ends'
      BY <1>0, <2>1, <3>1 DEF Ends
    <3> QED
      BY <2>1, <2>4, <3>1, <3>2, NothingSent
  <2> QED
    BY <1>0, <2>1, <2>3, <2>4
<1>8. ASSUME NEW k \in 1..LastStage, TimerFires(k)
      PROVE  Delivery'
  <2>1. /\ k = 3 /\ LastStage = 3
        /\ pc' = [pc EXCEPT ![3] = "send"] /\ item' = [item EXCEPT ![3] = silentPacket]
        /\ pc[3] = "recv"
        /\ UNCHANGED <<wire, body, ctxDone, taken, recvd, out, err>>
    BY <1>8, HeaderStages DEF TimerFires, history
  <2>2. pc'[1] = pc[1] /\ pc'[2] = pc[2] /\ pc'[3] = "send" /\ item'[3].kind = "silent"
    <3>1. item'[3] = silentPacket
      BY <1>0, <2>1, Replaced
    <3>2. \A i \in 1..LastStage : pc'[i] = IF i = 3 THEN "send" ELSE pc[i]
      BY <1>0, <2>1, Replaced
    <3>3. pc'[1] = pc[1] /\ pc'[2] = pc[2] /\ pc'[3] = "send"
      <4>1. 1 \in 1..LastStage /\ 2 \in 1..LastStage /\ 3 \in 1..LastStage /\ 1 # 3 /\ 2 # 3
        BY <1>0, <2>1
      <4> QED
        BY <3>2, <4>1
    <3> QED
      BY <3>1, <3>3 DEF silentPacket
  <2>3. Ends'
    BY <1>0, <2>1, <2>2 DEF Ends
  <2> QED
    BY <2>1, <2>2, <2>3, NothingSent
<1> QED
  BY <1>0, <1>1, <1>2, <1>3, <1>4, <1>5, <1>6, <1>7, <1>8 DEF Next

LEMMA DeliveryHolds == ASSUME AudioStreamingHeader PROVE Spec => []Delivery
<1>1. Spec => []ErrorInv
  BY ErrorInit, ErrorNext, PTL DEF Spec
<1>2. ErrorInv /\ ReadInv /\ Deframer!TypeOK /\ Delivery /\ [Next]_vars => Delivery'
  BY DeliveryNext
<1> QED
  BY <1>1, <1>2, ReadInvHolds, DeframerTypes, DeliveryInit, PTL DEF Spec

\* When opusCh closes after the client ended its body, the consumer has taken
\* every payload the deframer cut out and one error, and the deframer was given
\* the whole stream unless it refused a length in it.
StreamDrained ==
    pc[LastStage] = "done" /\ ~ctxDone /\ body = "ended" =>
       /\ Taken("audio", Len(taken)) = Len(out)
       /\ Taken("err", Len(taken)) = 1
       /\ recvd = Len(wire) \/ err = "tooLarge"

LEMMA WholeStreamDelivered ==
    ASSUME AudioStreamingHeader
    PROVE  Spec => []StreamDrained
<1>1. Delivery /\ Deframer!TypeOK => StreamDrained
  <2> SUFFICES ASSUME Delivery, Deframer!TypeOK, pc[LastStage] = "done", ~ctxDone, body = "ended"
               PROVE  /\ TakenAll("audio") = Len(out)
                      /\ TakenAll("err") = 1
                      /\ recvd = Len(wire) \/ err = "tooLarge"
    BY DEF StreamDrained, TakenAll
  <2>1. LastStage = 2 \/ LastStage = 3
    BY HeaderStages
  <2>2. pc[2] = "done" /\ err # "none"
    BY <2>1 DEF Delivery, Ends
  <2>3. ~Cut /\ ~Holds("audio") /\ ~Holds("err")
    BY <2>1 DEF Cut, Holds
  <2> QED
    BY <2>2, <2>3 DEF Delivery, Counts, Ends, Deframer!TypeOK
<1> QED
  BY <1>1, DeliveryHolds, DeframerTypes, PTL

\* What the deframer sends on is what the client framed.
LEMMA ChannelDeliversFrames ==
    ASSUME AudioStreamingHeader
    PROVE  Spec => []Deframer!DeliversClientFrames
<1>1. Proved!DeliversClientFrames => Deframer!DeliversClientFrames
  BY Zenon DEF Proved!DeliversClientFrames, Deframer!DeliversClientFrames
<1> QED
  BY <1>1, DeframerAssumption, SameDeframer, ChannelDeframes, Proved!ClientFramesDelivered, PTL
  DEF DeframerImplemented

\* With headers, whatever the scheduler does and however much silence is
\* inserted, the n-th audio item the consumer takes is the n-th packet of the
\* client.
THEOREM ChannelAudioIntact ==
    ASSUME AudioStreamingHeader
    PROVE  Spec => []AudioIntact
<1>1. ASSUME Delivery, Deframer!TypeOK, Deframer!DeliversClientFrames
      PROVE  AudioIntact
  <2> SUFFICES ASSUME NEW c \in Clients, c.wire = wire,
                      NEW i \in 1..Len(taken), taken[i].kind = "audio"
               PROVE  /\ Taken("audio", i) <= Len(c.frames)
                      /\ taken[i].payload = c.frames[Taken("audio", i)]
    BY DEF AudioIntact
  <2>1. PICK n : n = Taken("audio", i)
    OBVIOUS
  <2>2. n \in 1..Len(out) /\ taken[i].payload = out[n]
    BY <1>1, <2>1 DEF Delivery, Matched
  <2>3. Len(out) <= Len(c.frames) /\ out[n] = c.frames[n]
    BY <1>1, <2>2 DEF Deframer!DeliversClientFrames
  <2>4. Len(out) \in Nat /\ Len(c.frames) \in Nat
    BY <1>1, OpusChannelAssumption DEF Deframer!TypeOK
  <2> QED
    BY <2>1, <2>2, <2>3, <2>4
<1> QED
  BY <1>1, DeliveryHolds, DeframerTypes, ChannelDeliversFrames, PTL

\* With headers, an opusCh that closes after the client ended its body has
\* delivered every packet the client sent, and exactly one error.
THEOREM ChannelNothingLost ==
    ASSUME AudioStreamingHeader
    PROVE  Spec => []NothingLost
<1>1. ASSUME Delivery, Deframer!TypeOK, StreamDrained, Deframer!DeliversClientFrames
      PROVE  NothingLost
  <2> SUFFICES ASSUME pc[LastStage] = "done", ~ctxDone, body = "ended",
                      NEW c \in Clients, c.wire = wire
               PROVE  /\ Taken("audio", Len(taken)) = Len(c.frames)
                      /\ Taken("err", Len(taken)) = 1
    BY DEF NothingLost
  <2>1. /\ Taken("audio", Len(taken)) = Len(out) /\ Taken("err", Len(taken)) = 1
        /\ recvd = Len(wire) \/ err = "tooLarge"
    BY <1>1 DEF StreamDrained
  <2>2. err \in {"upstream", "tooLarge"}
    <3>1. LastStage = 2 \/ LastStage = 3
      BY HeaderStages
    <3> QED
      BY <1>1, <3>1 DEF Delivery, Ends, Deframer!TypeOK
  <2>3. Len(out) = Len(c.frames)
    BY <1>1, <2>1, <2>2 DEF Deframer!DeliversClientFrames
  <2> QED
    BY <2>1, <2>3
<1> QED
  BY <1>1, DeliveryHolds, DeframerTypes, WholeStreamDelivered, ChannelDeliversFrames, PTL
=============================================================================
