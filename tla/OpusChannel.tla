----------------------------- MODULE OpusChannel -----------------------------
(***************************************************************************)
(* newOpusChannel (handler.go, options.go): the goroutines that carry the  *)
(* client's audio from the request body to opusCh.  readPacket reads the   *)
(* body in chunks; with audio_streaming_header a second goroutine turns    *)
(* the chunks into packets; unless silent packets are disabled a last one  *)
(* inserts silence while the client sends nothing.                         *)
(*                                                                         *)
(* The goroutines are joined by unbuffered channels: an item passes when   *)
(* its sender and its receiver are both ready, and a channel is closed     *)
(* when its sender has returned.  What takes items from opusCh is left     *)
(* open: it may take them or not.                                          *)
(***************************************************************************)
EXTENDS Integers, Sequences, FiniteSets

CONSTANTS
    AudioStreamingHeader,  \* config audio_streaming_header
    DisableSilentPacket,   \* config disable_silent_packet
    HeaderLength, MaxPayloadLength,
    Clients,               \* what clients frame and send, see PacketHeader
    MaxSilent              \* bound: silent packets in one request

VARIABLES
    wire,     \* what the client sends in the whole request
    pos,      \* bytes the body's Read has returned
    body,     \* "open", "ended" by the client, "lost", or "closed" by the server
    ctxDone,  \* the request context is cancelled
    pc,       \* where each goroutine is
    item,     \* what each goroutine is about to send
    buf,      \* bytes the deframer holds
    taken,    \* items taken from opusCh
    silents,  \* silent packets inserted
    recvd, out, starts, err   \* history of the deframer, see PacketHeader

history == <<recvd, out, starts, err>>
vars == <<wire, pos, body, ctxDone, pc, item, buf, taken, silents, history>>

-----------------------------------------------------------------------------
\* newPacketReaderOptions: the goroutines in the order of the channel.
Stages ==
    <<"read">> \o (IF AudioStreamingHeader THEN <<"frame">> ELSE <<>>)
               \o (IF DisableSilentPacket THEN <<>> ELSE <<"silent">>)

LastStage == Len(Stages)
Is(k, stage) == k \in 1..LastStage /\ Stages[k] = stage

\* The deframer, alone, with the chunks and errors of an arbitrary sender.
Deframer ==
    INSTANCE PacketHeader WITH
       pc <- IF LastStage > 1 THEN pc[2] ELSE "recv"

\* Any byte stream is the stream of a client: it starts with as many frames as
\* its length fields make up.
ASSUME OpusChannelAssumption ==
    /\ AudioStreamingHeader \in BOOLEAN
    /\ DisableSilentPacket \in BOOLEAN
    /\ HeaderLength \in Nat /\ HeaderLength >= 4
    /\ MaxPayloadLength \in Nat
    /\ \A c \in Clients : /\ c.frames \in Seq(Seq(0..255))
                          /\ c.wire \in Seq(0..255)
                          /\ Deframer!Framed(c)
    /\ MaxSilent \in Nat

Audio(payload) == [kind |-> "audio", payload |-> payload]
Error == [kind |-> "err", payload |-> <<>>]
silentPacket == [kind |-> "silent", payload |-> <<252, 255, 254>>]

Sending(k) == pc[k] \in {"send", "sendErr", "sendTooLarge"}

\* Length of the frame at the head of the buffer.
FrameLength == HeaderLength + Deframer!LengthAt(buf, 0)

\* The item goroutine k offers to the next one.
Offer_withHeader(k) ==
    IF ~Is(k, "frame") THEN item[k]
    ELSE IF pc[k] = "send" THEN Audio(SubSeq(buf, 1, FrameLength)) ELSE Error

Offer(k) ==
    IF ~Is(k, "frame") THEN item[k]
    ELSE IF pc[k] = "send" THEN Audio(SubSeq(buf, HeaderLength + 1, FrameLength)) ELSE Error

\* The deframer's buffer after item x passes from k to k + 1.
BufAfter(k, x) ==
    IF Is(k, "frame") /\ pc[k] = "send" THEN SubSeq(buf, FrameLength + 1, Len(buf))
    ELSE IF Is(k + 1, "frame") /\ x.kind # "err" THEN buf \o x.payload
    ELSE buf

\* Where the sender of x goes on: readPacket and the deframer return after an
\* error, the silent goroutine resets its timer.
SentPc_continues(k, x, b) ==
    CASE Is(k, "read")   -> "check"
      [] Is(k, "frame")  -> Deframer!NextWith(b)
      [] Is(k, "silent") -> "recv"

SentPc(k, x, b) ==
    CASE Is(k, "read")   -> IF x.kind = "err" THEN "done" ELSE "check"
      [] Is(k, "frame")  -> IF x.kind = "err" THEN "done" ELSE Deframer!NextWith(b)
      [] Is(k, "silent") -> "recv"

\* Where the receiver of x goes on.
ReceivedPc_dropsErr(k, x, b) ==
    IF x.kind = "err" THEN "done"
    ELSE IF Is(k, "frame") THEN Deframer!NextWith(b) ELSE "send"

ReceivedPc(k, x, b) ==
    IF ~Is(k, "frame") THEN "send"
    ELSE IF x.kind = "err" THEN "sendErr" ELSE Deframer!NextWith(b)

-----------------------------------------------------------------------------
Init ==
    /\ wire \in {c.wire : c \in Clients}
    /\ pos = 0
    /\ body = "open"
    /\ ctxDone = FALSE
    /\ pc = [k \in 1..LastStage |-> IF k = 1 THEN "check" ELSE "recv"]
    /\ item = [k \in 1..LastStage |-> Error]
    /\ buf = <<>>
    /\ taken = <<>>
    /\ silents = 0
    /\ recvd = 0 /\ out = <<>> /\ starts = <<0>> /\ err = "none"

\* The client ends its body after the whole stream, or the connection is lost.
ClientEnds ==
    /\ body = "open"
    /\ body' \in {"ended", "lost"}
    /\ UNCHANGED <<wire, pos, ctxDone, pc, item, buf, taken, silents, history>>

\* The connection is lost or createSpeechHandler returns.
Cancel ==
    /\ ~ctxDone
    /\ ctxDone' = TRUE
    /\ UNCHANGED <<wire, pos, body, pc, item, buf, taken, silents, history>>

\* closeOnDone(ctx, opusReader)
CloseBody_missing == FALSE /\ UNCHANGED vars

CloseBody ==
    /\ ctxDone
    /\ body # "closed"
    /\ body' = "closed"
    /\ UNCHANGED <<wire, pos, ctxDone, pc, item, buf, taken, silents, history>>

-----------------------------------------------------------------------------
(* readPacket *)

\* Top of the loop: return if the context is done, else call Read.
ReadLoop ==
    /\ pc[1] = "check"
    /\ pc' = [pc EXCEPT ![1] = IF ctxDone THEN "done" ELSE "read"]
    /\ UNCHANGED <<wire, pos, body, ctxDone, item, buf, taken, silents, history>>

\* Read returns n bytes.
ReadData ==
    /\ pc[1] = "read"
    /\ body # "closed"
    /\ \E n \in 1..(Len(wire) - pos) :
          /\ pos' = pos + n
          /\ item' = [item EXCEPT ![1] = Audio(SubSeq(wire, pos + 1, pos + n))]
    /\ pc' = [pc EXCEPT ![1] = "send"]
    /\ UNCHANGED <<wire, body, ctxDone, buf, taken, silents, history>>

\* Read fails: io.EOF once everything has been read, or any other error.
ReadError ==
    /\ pc[1] = "read"
    /\ body \in {"lost", "closed"} \/ (body = "ended" /\ pos = Len(wire))
    /\ item' = [item EXCEPT ![1] = Error]
    /\ pc' = [pc EXCEPT ![1] = "send"]
    /\ UNCHANGED <<wire, pos, body, ctxDone, buf, taken, silents, history>>

-----------------------------------------------------------------------------
(* All goroutines *)

\* An item passes from k to k + 1, or to whoever takes it from opusCh.
Hand(k) ==
    LET x == Offer(k) IN
    /\ Sending(k)
    /\ k < LastStage => pc[k + 1] = "recv"
    /\ buf' = BufAfter(k, x)
    /\ pc' = [i \in 1..LastStage |-> IF i = k THEN SentPc(k, x, buf')
                                ELSE IF i = k + 1 THEN ReceivedPc(i, x, buf')
                                ELSE pc[i]]
    /\ item' = [i \in 1..LastStage |-> IF i = k + 1 /\ Is(i, "silent") THEN x ELSE item[i]]
    /\ taken' = IF k = LastStage THEN Append(taken, x) ELSE taken
    /\ recvd' = IF Is(k + 1, "frame") THEN recvd + Len(x.payload) ELSE recvd
    /\ IF Is(k, "frame") /\ pc[k] = "send"
       THEN /\ out' = Append(out, x.payload)
            /\ starts' = Append(starts, starts[Len(starts)] + FrameLength)
       ELSE UNCHANGED <<out, starts>>
    /\ err' = IF Is(k, "frame") /\ x.kind = "err"
              THEN IF pc[k] = "sendErr" THEN "upstream" ELSE "tooLarge"
              ELSE err
    /\ UNCHANGED <<wire, pos, body, ctxDone, silents>>

\* A select takes its ctx.Done case.  The silent goroutine has none while it
\* waits for an item or its timer.
CtxReturns(k) ==
    /\ ctxDone
    /\ Sending(k) \/ (Is(k, "frame") /\ pc[k] = "recv")
    /\ pc' = [pc EXCEPT ![k] = "done"]
    /\ UNCHANGED <<wire, pos, body, ctxDone, item, buf, taken, silents, history>>

\* The incoming channel is closed.
UpstreamClosed_ignored(k) ==
    /\ k > 1 /\ pc[k] = "recv" /\ pc[k - 1] = "done"
    /\ UNCHANGED vars

UpstreamClosed(k) ==
    /\ k > 1 /\ pc[k] = "recv" /\ pc[k - 1] = "done"
    /\ pc' = [pc EXCEPT ![k] = "done"]
    /\ UNCHANGED <<wire, pos, body, ctxDone, item, buf, taken, silents, history>>

\* No item for time_to_wait_for_opus_packet_ms.
TimerFires(k) ==
    /\ Is(k, "silent") /\ pc[k] = "recv"
    /\ silents < MaxSilent
    /\ silents' = silents + 1
    /\ item' = [item EXCEPT ![k] = silentPacket]
    /\ pc' = [pc EXCEPT ![k] = "send"]
    /\ UNCHANGED <<wire, pos, body, ctxDone, buf, taken, history>>

Next == \/ ClientEnds \/ Cancel \/ CloseBody \/ ReadLoop \/ ReadData \/ ReadError
        \/ \E k \in 1..LastStage : \/ Hand(k) \/ CtxReturns(k)
                              \/ UpstreamClosed(k) \/ TimerFires(k)

Spec == Init /\ [][Next]_vars

\* The Go scheduler runs every goroutine that can go on, and Read on a closed
\* or failed body returns.  Nothing is assumed of the client, of the timer or
\* of whoever takes from opusCh.
FairSpec ==
    /\ Spec
    /\ WF_vars(CloseBody) /\ WF_vars(ReadLoop) /\ WF_vars(ReadError)
    /\ \A k \in 1..LastStage : WF_vars(CtxReturns(k)) /\ WF_vars(UpstreamClosed(k))
    /\ \A k \in 1..(LastStage - 1) : WF_vars(Hand(k))

-----------------------------------------------------------------------------
(* Properties *)

\* After an error item no audio follows, only silence may: the consumer, which
\* stops at the error, misses none.
NoAudioAfterError ==
    \A i, j \in 1..Len(taken) :
       i < j /\ taken[i].kind = "err" => taken[j].kind # "audio"

\* Items of a kind among the first n taken.
Taken(kind, n) == Cardinality({i \in 1..n : taken[i].kind = kind})

\* With headers, what the consumer takes, silence aside, is the packets the
\* client sent, in order.  Silence never gets inside a packet.
AudioIntact ==
    \A c \in Clients : c.wire = wire =>
       \A i \in 1..Len(taken) : taken[i].kind = "audio" =>
          LET n == Taken("audio", i)
          IN  n <= Len(c.frames) /\ taken[i].payload = c.frames[n]

\* With headers, when opusCh closes after the client ended its body, the
\* consumer has taken every packet the client sent and one error that tells it
\* so: nothing is lost in a goroutine on the way.
NothingLost ==
    pc[LastStage] = "done" /\ ~ctxDone /\ body = "ended" =>
       \A c \in Clients : c.wire = wire =>
          /\ Taken("audio", Len(taken)) = Len(c.frames)
          /\ Taken("err", Len(taken)) = 1

\* With headers, the second goroutine does what PacketHeader says of it.
DeframerImplemented == Deframer!Spec

\* Once the context is cancelled every goroutine of the channel returns, even
\* though nobody takes from opusCh any more and the client keeps its
\* connection open.
CancelStopsAll == ctxDone ~> \A k \in 1..LastStage : pc[k] = "done"

\* Bytes that have arrived are read, and opusCh has a consumer that keeps
\* taking, as opus2ogg does while its service accepts audio.
Consumed == WF_vars(ReadData) /\ WF_vars(Hand(LastStage))

\* The end of the client's stream reaches such a consumer as a closed channel.
EndReachesConsumer == Consumed => (body \in {"ended", "lost"} ~> pc[LastStage] = "done")
=============================================================================
