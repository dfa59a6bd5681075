---------------------------- MODULE PacketHeader ----------------------------
(***************************************************************************)
(* optionReadPacketWithHeader (options.go): the goroutine that turns the   *)
(* client's byte stream back into Opus packets when audio_streaming_header *)
(* is set.  A frame is a header of HeaderLength bytes, whose last four are *)
(* the payload's length, followed by the payload.  The stream arrives in   *)
(* chunks cut anywhere, so a header or a payload may span several of them  *)
(* and a chunk may hold several frames.                                    *)
(***************************************************************************)
EXTENDS Integers, Sequences

CONSTANTS
    HeaderLength,      \* timestamp, sequence number, length: 20 in the code
    MaxPayloadLength,  \* 0xffffff in the code
    Clients            \* [frames, at, wire]: the payloads a client frames, where
                       \* in its byte stream it puts each frame, and the stream

Byte == 0..255

\* The length the protocol writes, big endian, at the end of the header at p.
Announced(s, p) ==
    LET h == p + HeaderLength
    IN  16777216 * s[h - 3] + 65536 * s[h - 2] + 256 * s[h - 1] + s[h]

\* The stream of c is its frames one after the other.  What follows the last one
\* is the start of a frame or a frame that announces too long a payload.
Framed(c) ==
    LET n == Len(c.frames)
        end == c.at[n + 1]
    IN  /\ c.at \in [1..(n + 1) -> 0..Len(c.wire)]
        /\ c.at[1] = 0
        /\ \A i \in 1..n :
              /\ Len(c.frames[i]) <= MaxPayloadLength
              /\ Announced(c.wire, c.at[i]) = Len(c.frames[i])
              /\ c.at[i + 1] = c.at[i] + HeaderLength + Len(c.frames[i])
              /\ c.frames[i] = SubSeq(c.wire, c.at[i] + HeaderLength + 1, c.at[i + 1])
        /\ \/ Len(c.wire) < end + HeaderLength
           \/ Announced(c.wire, end) > MaxPayloadLength
           \/ Len(c.wire) < end + HeaderLength + Announced(c.wire, end)

ASSUME PacketHeaderAssumption ==
    /\ HeaderLength \in Nat /\ HeaderLength >= 4
    /\ MaxPayloadLength \in Nat
    /\ \A c \in Clients : /\ c.frames \in Seq(Seq(Byte))
                          /\ c.wire \in Seq(Byte)
                          /\ Framed(c)

VARIABLES
    wire,     \* what the client sends in the whole request
    recvd,    \* how many of its bytes this goroutine has received
    buf,      \* payload: received and not yet sent on; length is Len(buf)
    pc,       \* where the goroutine is
    out,      \* payloads sent on
    starts,   \* history: where in wire each frame sent on, and the next, starts
    err,      \* the error sent on, if any
    ctxDone   \* the request context is cancelled

vars == <<wire, recvd, buf, pc, out, starts, err, ctxDone>>

-----------------------------------------------------------------------------
\* binary.BigEndian.Uint32 of the last four bytes of the header at offset p.
LengthAt_littleEndian(s, p) ==
    LET h == p + HeaderLength
    IN  ((s[h] * 256 + s[h - 1]) * 256 + s[h - 2]) * 256 + s[h - 3]

LengthAt(s, p) ==
    LET h == p + HeaderLength
    IN  ((s[h - 3] * 256 + s[h - 2]) * 256 + s[h - 1]) * 256 + s[h]

\* What the goroutine does with b buffered: wait for more, send the first
\* frame, or refuse its length.  The code tests this once per chunk and again,
\* in the inner loop, after every frame it sends.
NextWith_offByOne(b) ==
    IF Len(b) < HeaderLength THEN "recv"
    ELSE IF LengthAt(b, 0) > MaxPayloadLength THEN "sendTooLarge"
    ELSE IF Len(b) <= HeaderLength + LengthAt(b, 0) THEN "recv"
    ELSE "send"

NextWith_noLimit(b) ==
    IF Len(b) < HeaderLength THEN "recv"
    ELSE IF Len(b) < HeaderLength + LengthAt(b, 0) THEN "recv"
    ELSE "send"

NextWith(b) ==
    IF Len(b) < HeaderLength THEN "recv"
    ELSE IF LengthAt(b, 0) > MaxPayloadLength THEN "sendTooLarge"
    ELSE IF Len(b) < HeaderLength + LengthAt(b, 0) THEN "recv"
    ELSE "send"

-----------------------------------------------------------------------------
Init ==
    /\ wire \in {c.wire : c \in Clients}
    /\ recvd = 0
    /\ buf = <<>>
    /\ pc = "recv"
    /\ out = <<>>
    /\ starts = <<0>>
    /\ err = "none"
    /\ ctxDone = FALSE

Cancel ==
    /\ ~ctxDone
    /\ ctxDone' = TRUE
    /\ UNCHANGED <<wire, recvd, buf, pc, out, starts, err>>

\* A chunk of n bytes arrives.
Receive ==
    /\ pc = "recv"
    /\ \E n \in 1..(Len(wire) - recvd) :
          /\ recvd' = recvd + n
          /\ buf' = buf \o SubSeq(wire, recvd + 1, recvd + n)
    /\ pc' = NextWith(buf')
    /\ UNCHANGED <<wire, out, starts, err, ctxDone>>

\* An item with Err arrives, in place of more bytes.
ReceiveErr ==
    /\ pc = "recv"
    /\ pc' = "sendErr"
    /\ UNCHANGED <<wire, recvd, buf, out, starts, err, ctxDone>>

\* The incoming channel is closed.
ReceiveClosed ==
    /\ pc = "recv"
    /\ pc' = "done"
    /\ UNCHANGED <<wire, recvd, buf, out, starts, err, ctxDone>>

\* The consumer takes the payload; what follows it stays buffered.
Send_dropsEmpty ==
    LET n == HeaderLength + LengthAt(buf, 0) IN
    /\ pc = "send"
    /\ out' = IF n > HeaderLength THEN Append(out, SubSeq(buf, HeaderLength + 1, n)) ELSE out
    /\ starts' = Append(starts, starts[Len(starts)] + n)
    /\ buf' = SubSeq(buf, n + 1, Len(buf))
    /\ pc' = NextWith(buf')
    /\ UNCHANGED <<wire, recvd, err, ctxDone>>

Send_keepsHeader ==
    LET n == HeaderLength + LengthAt(buf, 0) IN
    /\ pc = "send"
    /\ out' = Append(out, SubSeq(buf, HeaderLength + 1, n))
    /\ starts' = Append(starts, starts[Len(starts)] + n)
    /\ buf' = SubSeq(buf, LengthAt(buf, 0) + 1, Len(buf))
    /\ pc' = NextWith(buf')
    /\ UNCHANGED <<wire, recvd, err, ctxDone>>

Send ==
    LET n == HeaderLength + LengthAt(buf, 0) IN
    /\ pc = "send"
    /\ out' = Append(out, SubSeq(buf, HeaderLength + 1, n))
    /\ starts' = Append(starts, starts[Len(starts)] + n)
    /\ buf' = SubSeq(buf, n + 1, Len(buf))
    /\ pc' = NextWith(buf')
    /\ UNCHANGED <<wire, recvd, err, ctxDone>>

\* The consumer takes the error and the goroutine returns.
SendErr ==
    /\ pc \in {"sendErr", "sendTooLarge"}
    /\ err' = IF pc = "sendErr" THEN "upstream" ELSE "tooLarge"
    /\ pc' = "done"
    /\ UNCHANGED <<wire, recvd, buf, out, starts, ctxDone>>

\* Every select has a ctx.Done case.
CtxReturns ==
    /\ ctxDone
    /\ pc # "done"
    /\ pc' = "done"
    /\ UNCHANGED <<wire, recvd, buf, out, starts, err, ctxDone>>

Next == \/ Cancel \/ Receive \/ ReceiveErr \/ ReceiveClosed
        \/ Send \/ SendErr \/ CtxReturns

Spec == Init /\ [][Next]_vars

-----------------------------------------------------------------------------
(* Properties *)

\* Start of the first frame not yet sent on.
Base == starts[Len(starts)]

\* Every variable has its type.
TypeOK ==
    /\ wire \in Seq(Byte)
    /\ recvd \in 0..Len(wire)
    /\ buf \in Seq(Byte)
    /\ pc \in {"recv", "send", "sendErr", "sendTooLarge", "done"}
    /\ out \in Seq(Seq(Byte))
    /\ starts \in Seq(Nat)
    /\ Len(starts) = Len(out) + 1
    /\ err \in {"none", "upstream", "tooLarge"}
    /\ ctxDone \in BOOLEAN

\* However the stream is cut into chunks, the payloads sent on are exactly the
\* ones at the frame boundaries of the stream: each frame starts where the one
\* before it ends, none is skipped, repeated, split or merged, and what is
\* buffered is what has been received from the next boundary on.
FramesExact ==
    /\ starts[1] = 0
    /\ \A i \in 1..Len(out) :
          /\ starts[i + 1] = starts[i] + HeaderLength + LengthAt(wire, starts[i])
          /\ starts[i] + HeaderLength <= starts[i + 1] /\ starts[i + 1] <= recvd
          /\ out[i] = SubSeq(wire, starts[i] + HeaderLength + 1, starts[i + 1])
    /\ Base <= recvd
    /\ buf = SubSeq(wire, Base + 1, recvd)

\* A complete frame is never withheld: the goroutine only waits for more bytes,
\* and only passes on an error, when the frame at the next boundary is not
\* complete and its announced length, if known, is acceptable.
NothingWithheld ==
    pc \in {"recv", "sendErr"} \/ err = "upstream" =>
       \/ recvd < Base + HeaderLength
       \/ /\ LengthAt(wire, Base) <= MaxPayloadLength
          /\ recvd < Base + HeaderLength + LengthAt(wire, Base)

\* No payload longer than MaxPayloadLength is sent on, and PAYLOAD-TOO-LARGE is
\* only reported for a frame that announces one.
LimitEnforced ==
    /\ \A i \in 1..Len(out) : Len(out[i]) <= MaxPayloadLength
    /\ err = "tooLarge" => /\ Base + HeaderLength <= recvd
                           /\ LengthAt(wire, Base) > MaxPayloadLength

\* The consumer gets the payloads the client framed, in order, and every one of
\* them once all bytes have arrived, before an error that follows them and
\* before an oversized frame is refused.
DeliversClientFrames ==
    \A c \in Clients : c.wire = wire =>
       /\ Len(out) <= Len(c.frames)
       /\ \A i \in 1..Len(out) : out[i] = c.frames[i]
       /\ \/ recvd = Len(wire) /\ (pc = "recv" \/ err = "upstream")
          \/ err = "tooLarge"
          => Len(out) = Len(c.frames)
=============================================================================
