-------------------------- MODULE TranscribeSession --------------------------
(***************************************************************************)
(* One request to aws or gcp with the goroutines behind Handle.  Every     *)
(* attempt to connect has its own                                          *)
(*   converter  opus2ogg: takes packets from opusCh, writes Ogg pages into *)
(*              a pipe;                                                    *)
(*   closer     closeOnDone: closes that pipe when the attempt's context   *)
(*              is done;                                                   *)
(*   sender     the goroutine of Start: reads the pipe, sends to the       *)
(*              service;                                                   *)
(*   receiver   the goroutine of Handle: gets results from the service,    *)
(*              writes them into a second pipe,                            *)
(* and the request handler (SpeechHandler) reads that second pipe.  The    *)
(* goroutines of an attempt given up wind down while those of the next one *)
(* already run, and all of them share opusCh.                              *)
(*                                                                         *)
(* Pipes are io.Pipes: a write passes when a read takes it, the writer's   *)
(* first close error is what readers get.  A page is a number: the two     *)
(* header pages are -1 and 0, packet i of the request is i.                *)
(***************************************************************************)
EXTENDS Integers, Sequences

CONSTANTS
    Configs, AwsCodes, AwsLanguages, Requests, MaxAttempts, MaxBody,
    DisableSilentPacket,  \* when FALSE, opusCh may carry silence
    Packets,              \* bound: packets in the request
    MaxResults            \* bound: results in the request

ASSUME SessionAssumption == MaxAttempts \in Nat \ {0}

\* Only services behind a connection; there is room for every result and for a
\* report of each attempt.
ASSUME SessionBounds ==
    /\ \A c \in Configs : c.service \in {"aws", "awsv2", "gcp"} /\ c.maxRetry \in Int
    /\ AwsCodes \subseteq Int \ {200}
    /\ MaxResults \in Nat /\ MaxBody \in Nat
    /\ MaxBody >= MaxResults + MaxAttempts

VARIABLES
    conf, pc, streamOver, retryCount, attempt, connects, status, body, cause,
    step,     \* where the handler is inside Handle
    reqDone,  \* the request context is cancelled
    input,    \* opusCh: "open", its error item "eof" or "error", "closed"
    fed,      \* packets taken from opusCh
    results,  \* results received
    att       \* the attempts

handlerVars == <<conf, pc, streamOver, retryCount, attempt, connects, status, body, cause>>
vars == <<handlerVars, step, reqDone, input, fed, results, att>>

\* The request handler as SpeechHandler describes it.
Handler == INSTANCE SpeechHandler

Aws == Handler!Aws
Attempts == 1..MaxAttempts

NewAttempt ==
    [cancelled |-> FALSE,    \* cancelServiceHandler has been called
     conv   |-> "select",    \* converter: "idle", "select", "write", "done"
     pages  |-> <<>>,        \* pages it still has to write
     started |-> FALSE,      \* it has seen its first packet
     heard  |-> FALSE,       \* history: it has had a packet of the client
     oggW   |-> "open",      \* write end of its pipe: "open" or a close error
     oggR   |-> FALSE,       \* read end closed
     page   |-> 0,           \* page read and not yet sent
     send   |-> "idle",      \* sender: "idle", "read", "send", "done"
     sent   |-> <<>>,        \* history: pages the service has got
     svc    |-> "none",      \* stream: "open" or how it ended, see StreamError
     recv   |-> "idle",      \* receiver: "idle", "recv", "result", "report", "done"
     why    |-> "eof",       \* the error it will close its pipe with
     resW   |-> "open",      \* write end of the result pipe
     resR   |-> FALSE]       \* read end closed

\* serviceHandlerCtx is done: cancelled, or its parent is.
CtxDone(a) == att[a].cancelled \/ reqDone \/ pc = "done"

\* The first close error of a pipe stays.
CloseOgg(a, e) == IF att[a].oggW = "open" THEN e ELSE att[a].oggW

-----------------------------------------------------------------------------
Init ==
    /\ Handler!Init
    /\ step = "none"
    /\ reqDone = FALSE
    /\ input = "open"
    /\ fed = 0
    /\ results = 0
    /\ att = [a \in Attempts |-> [NewAttempt EXCEPT !.conv = "idle"]]

\* Handle starts: opus2ogg, then receiveFirstAudioData.
Begin ==
    /\ Handler!Accept
    /\ step' = "first"
    /\ att' = [att EXCEPT ![1] = NewAttempt]
    /\ UNCHANGED <<reqDone, input, fed, results>>

\* The client ends its body, or breaks the framing.
ClientEnds ==
    /\ pc \notin {"start", "done"}
    /\ input = "open"
    /\ input' \in {"eof", "error"}
    /\ streamOver' = TRUE
    /\ UNCHANGED <<conf, pc, retryCount, attempt, connects, status, body, cause>>
    /\ UNCHANGED <<step, reqDone, fed, results, att>>

\* The connection is lost: net/http cancels the request context.
ClientLost ==
    /\ pc \notin {"start", "done"}
    /\ ~reqDone
    /\ reqDone' = TRUE
    /\ streamOver' = TRUE
    /\ input' = IF input = "open" THEN "error" ELSE input
    /\ UNCHANGED <<conf, pc, retryCount, attempt, connects, status, body, cause>>
    /\ UNCHANGED <<step, fed, results, att>>

\* The goroutines of OpusChannel return and close opusCh.
InputCloses ==
    /\ reqDone \/ pc = "done"
    /\ input # "closed"
    /\ input' = "closed"
    /\ UNCHANGED <<handlerVars, step, reqDone, fed, results, att>>

-----------------------------------------------------------------------------
(* Converter and closer *)

\* A packet arrives; the first one brings the Ogg headers along.
ConvTake_headersAlways(a) ==
    /\ att[a].conv = "select"
    /\ input = "open" /\ fed < Packets
    /\ fed' = fed + 1
    /\ \E client \in IF DisableSilentPacket THEN {TRUE} ELSE BOOLEAN :
          att' = [att EXCEPT ![a].conv = "write", ![a].started = TRUE,
                             ![a].heard = @ \/ client,
                             ![a].pages = <<-1, 0, fed + 1>>]
    /\ UNCHANGED <<handlerVars, step, reqDone, input, results>>

ConvTake(a) ==
    /\ att[a].conv = "select"
    /\ input = "open" /\ fed < Packets
    /\ fed' = fed + 1
    /\ \E client \in IF DisableSilentPacket THEN {TRUE} ELSE BOOLEAN :
          att' = [att EXCEPT ![a].conv = "write", ![a].started = TRUE,
                             ![a].heard = @ \/ client,
                             ![a].pages = (IF att[a].started THEN <<>> ELSE <<-1, 0>>)
                                             \o <<fed + 1>>]
    /\ UNCHANGED <<handlerVars, step, reqDone, input, results>>

\* A packet arrives that is not Opus: Unmarshal fails.
ConvBadPacket(a) ==
    /\ att[a].conv = "select"
    /\ input = "open" /\ fed < Packets
    /\ fed' = fed + 1
    /\ att' = [att EXCEPT ![a].conv = "done", ![a].oggW = CloseOgg(a, "error")]
    /\ UNCHANGED <<handlerVars, step, reqDone, input, results>>

\* The error item, or the closed channel.
ConvEnd(a) ==
    /\ att[a].conv = "select"
    /\ input # "open"
    /\ att' = [att EXCEPT ![a].conv = "done",
                          ![a].oggW = CloseOgg(a, IF input = "error" THEN "error" ELSE "eof")]
    /\ input' = "closed"
    /\ UNCHANGED <<handlerVars, step, reqDone, fed, results>>

ConvCtx(a) ==
    /\ att[a].conv = "select"
    /\ CtxDone(a)
    /\ att' = [att EXCEPT ![a].conv = "done", ![a].oggW = CloseOgg(a, "canceled")]
    /\ UNCHANGED <<handlerVars, step, reqDone, input, fed, results>>

\* A write fails because either end of the pipe is closed.
ConvWriteFails(a) ==
    /\ att[a].conv = "write"
    /\ att[a].oggW # "open" \/ att[a].oggR
    /\ att' = [att EXCEPT ![a].conv = "done", ![a].oggW = CloseOgg(a, "error")]
    /\ UNCHANGED <<handlerVars, step, reqDone, input, fed, results>>

\* closeOnDone(ctx, oggWriter)
CloseOnDone(a) ==
    /\ att[a].conv # "idle"
    /\ CtxDone(a)
    /\ att[a].oggW = "open"
    /\ att' = [att EXCEPT ![a].oggW = "eof"]
    /\ UNCHANGED <<handlerVars, step, reqDone, input, fed, results>>

\* A page passes through the pipe to a reader.
PageReady(a) == att[a].conv = "write" /\ att[a].oggW = "open" /\ ~att[a].oggR

TakePage(a) ==
    [att[a] EXCEPT !.page = Head(att[a].pages),
                   !.pages = Tail(att[a].pages),
                   !.conv = IF Len(att[a].pages) = 1 THEN "select" ELSE "write"]

-----------------------------------------------------------------------------
(* The handler inside Handle: Start of the service *)

\* receiveFirstAudioData gets the first page, or the pipe's error.
FirstPage ==
    /\ step = "first"
    /\ PageReady(attempt)
    /\ att' = [att EXCEPT ![attempt] = TakePage(attempt)]
    /\ step' = "connect"
    /\ UNCHANGED <<handlerVars, reqDone, input, fed, results>>

FirstPageFails ==
    /\ step = "first"
    /\ att[attempt].oggW # "open"
    /\ IF att[attempt].oggW = "error" THEN Handler!Return("otherError", 500)
                                      ELSE Handler!Return("clientEnd", 200)
    /\ step' = "none"
    /\ UNCHANGED <<conf, streamOver, retryCount, attempt, connects, body>>
    /\ UNCHANGED <<reqDone, input, fed, results, att>>

Connect ==
    /\ step = "connect"
    /\ step' = "sendFirst"
    /\ att' = [att EXCEPT ![attempt].svc = "open"]
    /\ UNCHANGED <<handlerVars, reqDone, input, fed, results>>

ConnectFails ==
    /\ step = "connect"
    /\ \/ Handler!HandleRetryable \/ Handler!HandleSuzuError
       \/ Handler!HandleConfError \/ Handler!HandleOtherError
    /\ step' = "none"
    /\ UNCHANGED <<reqDone, input, fed, results, att>>

\* The first page is sent and Handle returns: sender and receiver run.
Connected ==
    [att[attempt] EXCEPT !.sent = <<att[attempt].page>>, !.send = "read", !.recv = "recv"]

SendFirst_noReset ==
    /\ step = "sendFirst"
    /\ Handler!HandleSucceeds_noReset
    /\ step' = "none"
    /\ att' = [att EXCEPT ![attempt] = Connected]
    /\ UNCHANGED <<reqDone, input, fed, results>>

SendFirst ==
    /\ step = "sendFirst"
    /\ att[attempt].svc = "open"
    /\ Handler!HandleSucceeds
    /\ step' = "none"
    /\ att' = [att EXCEPT ![attempt] = Connected]
    /\ UNCHANGED <<reqDone, input, fed, results>>

\* aws closes the pipe and the stream, gcp only its sending side.  A gcp Send
\* on a stream the server has ended returns io.EOF.
SendFirstFails ==
    /\ step = "sendFirst"
    /\ att[attempt].svc # "open" \/ CtxDone(attempt)
    /\ \/ CtxDone(attempt) /\ Handler!Return("clientEnd", 200)
       \/ ~Aws /\ att[attempt].svc # "open" /\ Handler!Return("sendEOF", 200)
       \/ Handler!Return("otherError", 500)
    /\ step' = "none"
    /\ att' = [att EXCEPT ![attempt].oggR = Aws, ![attempt].svc = "closed"]
    /\ UNCHANGED <<conf, streamOver, retryCount, attempt, connects, body>>
    /\ UNCHANGED <<reqDone, input, fed, results>>

-----------------------------------------------------------------------------
(* Waiting for a retry: opusCh is drained until it closes or the timer fires *)

RetryDrain ==
    /\ pc = "retryWait"
    /\ \/ input = "open" /\ fed < Packets /\ fed' = fed + 1 /\ UNCHANGED input
       \/ input \in {"eof", "error"} /\ input' = "closed" /\ UNCHANGED fed
    /\ UNCHANGED <<handlerVars, step, reqDone, results, att>>

RetryTimer ==
    /\ Handler!RetryTimerFires
    /\ UNCHANGED <<step, reqDone, input, fed, results, att>>

RetryClosed ==
    /\ pc = "retryWait"
    /\ input = "closed"
    /\ Handler!Return("interrupted", 500)
    /\ UNCHANGED <<conf, streamOver, retryCount, attempt, connects, body>>
    /\ UNCHANGED <<step, reqDone, input, fed, results, att>>

-----------------------------------------------------------------------------
(* Sender *)

\* The deferred calls of the sender.  aws: stream.Close, r.Close.  gcp:
\* CloseSend, client.Close, r.Close; closing the client aborts the stream.
SenderStopped_keepsStream(a) == [att[a] EXCEPT !.send = "done", !.oggR = TRUE]

SenderStopped(a) ==
    [att[a] EXCEPT !.send = "done", !.oggR = TRUE,
                   !.svc = IF @ # "open" THEN @ ELSE IF Aws THEN "closed" ELSE "aborted"]

SenderRead(a) ==
    /\ att[a].send = "read"
    /\ PageReady(a)
    /\ att' = [att EXCEPT ![a] = [TakePage(a) EXCEPT !.send = "send"]]
    /\ UNCHANGED <<handlerVars, step, reqDone, input, fed, results>>

SenderSend(a) ==
    /\ att[a].send = "send"
    /\ att[a].svc = "open"
    /\ att' = [att EXCEPT ![a].send = "read", ![a].sent = Append(@, att[a].page)]
    /\ UNCHANGED <<handlerVars, step, reqDone, input, fed, results>>

\* The context is done, the pipe is closed, or the service refuses the page.
SenderStops(a) ==
    /\ \/ att[a].send = "read" /\ (CtxDone(a) \/ att[a].oggW # "open")
       \/ att[a].send = "send" /\ (CtxDone(a) \/ att[a].svc # "open")
    /\ att' = [att EXCEPT ![a] = SenderStopped(a)]
    /\ UNCHANGED <<handlerVars, step, reqDone, input, fed, results>>

-----------------------------------------------------------------------------
(* The service (external): it may end or break a stream at any time.       *)

ServiceEnds(a) ==
    /\ att[a].svc = "open"
    /\ \E e \in {"closed", "failed"} \cup IF a < MaxAttempts THEN {"retryable"} ELSE {} :
          att' = [att EXCEPT ![a].svc = e]
    /\ UNCHANGED <<handlerVars, step, reqDone, input, fed, results>>

-----------------------------------------------------------------------------
(* Receiver *)

\* The error the stream ended with, for the reader of the result pipe:
\* nothing, one joined with ErrServerDisconnected, or any other.
StreamError(a) == CASE att[a].svc = "closed"    -> "eof"
                    [] att[a].svc = "retryable" -> "disconnected"
                    [] OTHER                    -> "error"

ReceiverResult(a) ==
    /\ att[a].recv = "recv"
    /\ att[a].svc = "open"
    /\ results < MaxResults
    /\ results' = results + 1
    /\ att' = [att EXCEPT ![a].recv = "result"]
    /\ UNCHANGED <<handlerVars, step, reqDone, input, fed>>

\* The receiver returns with error e; the aws one closes the stream.
ReceiverStopped(a, e) ==
    [att[a] EXCEPT !.recv = "done", !.resW = e,
                   !.svc = IF Aws /\ @ = "open" THEN "closed" ELSE @]

\* The stream has ended.  gcp first reports a failed Recv, which a cancelled
\* context causes too; aws and a gcp error response close the pipe at once.
ReceiverEnd(a) ==
    /\ att[a].recv = "recv"
    /\ \/ /\ att[a].svc # "open"
          /\ Aws \/ att[a].svc \notin {"closed", "aborted"}
          /\ att' = [att EXCEPT ![a] = ReceiverStopped(a, StreamError(a))]
       \/ /\ ~Aws
          /\ att[a].svc # "open" \/ CtxDone(a)
          /\ att' = [att EXCEPT ![a].recv = "report", ![a].why = StreamError(a)]
    /\ UNCHANGED <<handlerVars, step, reqDone, input, fed, results>>

ReceiverCtx(a) ==
    /\ att[a].recv = "recv"
    /\ CtxDone(a)
    /\ att' = [att EXCEPT ![a] = ReceiverStopped(a, "eof")]
    /\ UNCHANGED <<handlerVars, step, reqDone, input, fed, results>>

\* Encode fails: the handler has closed the reader, on a reconnection or, by
\* its deferred calls, when it returned.
ReceiverEncodeFails_reconnectOnly(a) ==
    /\ att[a].recv \in {"result", "report"}
    /\ att[a].resR
    /\ att' = [att EXCEPT ![a] = ReceiverStopped(a, "error")]
    /\ UNCHANGED <<handlerVars, step, reqDone, input, fed, results>>

ReceiverEncodeFails(a) ==
    /\ att[a].recv \in {"result", "report"}
    /\ att[a].resR \/ pc = "done"
    /\ att' = [att EXCEPT ![a] = ReceiverStopped(a, "error")]
    /\ UNCHANGED <<handlerVars, step, reqDone, input, fed, results>>

-----------------------------------------------------------------------------
(* The handler reads the result pipe *)

\* A message is forwarded; writing it fails once the connection is lost.
ReadMessage ==
    /\ pc = "read"
    /\ att[attempt].recv \in {"result", "report"}
    /\ \/ /\ Handler!WriteMessage(IF att[attempt].recv = "result" THEN "result" ELSE "error")
          /\ UNCHANGED <<pc, cause>>
       \/ /\ reqDone
          /\ Handler!Return("writeError", 500)
          /\ UNCHANGED body
    /\ att' = IF att[attempt].recv = "result"
              THEN [att EXCEPT ![attempt].recv = "recv"]
              ELSE [att EXCEPT ![attempt].recv = "done", ![attempt].resW = att[attempt].why]
    /\ UNCHANGED <<conf, streamOver, retryCount, attempt, connects>>
    /\ UNCHANGED <<step, reqDone, input, fed, results>>

ReadEOF ==
    /\ pc = "read"
    /\ att[attempt].resW = "eof"
    /\ Handler!Return("eof", 200)
    /\ UNCHANGED <<conf, streamOver, retryCount, attempt, connects, body>>
    /\ UNCHANGED <<step, reqDone, input, fed, results, att>>

\* ErrServerDisconnected: close the reader, cancel the attempt and start the
\* next one, or give up.
Reconnect_connectsFirst ==
    /\ pc = "read"
    /\ att[attempt].resW = "disconnected"
    /\ Handler!DisconnectedReconnect
    /\ step' = "connect"
    /\ att' = [att EXCEPT ![attempt].resR = TRUE, ![attempt].cancelled = TRUE,
                          ![attempt + 1] = NewAttempt]
    /\ UNCHANGED <<reqDone, input, fed, results>>

Reconnect ==
    /\ pc = "read"
    /\ att[attempt].resW = "disconnected"
    /\ Handler!DisconnectedReconnect
    /\ step' = "first"
    /\ att' = [att EXCEPT ![attempt].resR = TRUE, ![attempt].cancelled = TRUE,
                          ![attempt + 1] = NewAttempt]
    /\ UNCHANGED <<reqDone, input, fed, results>>

GiveUp ==
    /\ pc = "read"
    /\ att[attempt].resW = "disconnected"
    /\ Handler!DisconnectedGiveUp
    /\ UNCHANGED <<step, reqDone, input, fed, results, att>>

ReadError ==
    /\ pc = "read"
    /\ att[attempt].resW = "error"
    /\ Handler!ReadOtherError
    /\ UNCHANGED <<step, reqDone, input, fed, results, att>>

-----------------------------------------------------------------------------
HandlerStep == \/ Begin \/ FirstPage \/ FirstPageFails \/ Connect \/ ConnectFails
               \/ SendFirst \/ SendFirstFails \/ RetryClosed
               \/ ReadMessage \/ ReadEOF \/ Reconnect \/ GiveUp \/ ReadError

ConverterStep(a) == ConvEnd(a) \/ ConvCtx(a) \/ ConvWriteFails(a)
SenderStep(a)    == SenderRead(a) \/ SenderSend(a) \/ SenderStops(a)
ReceiverStep(a)  == ReceiverEnd(a) \/ ReceiverCtx(a) \/ ReceiverEncodeFails(a)

Next == \/ HandlerStep \/ RetryTimer \/ RetryDrain
        \/ ClientEnds \/ ClientLost \/ InputCloses
        \/ \E a \in Attempts :
              \/ ConvTake(a) \/ ConvBadPacket(a) \/ ConverterStep(a) \/ CloseOnDone(a)
              \/ SenderStep(a) \/ ServiceEnds(a)
              \/ ReceiverResult(a) \/ ReceiverStep(a)

Spec == Init /\ [][Next]_vars

\* Every goroutine that can go on does; in the retry wait the handler takes the
\* error item.  Nothing is assumed of the client, of the retry timer, or of the
\* service, except that its calls return.
FairSpec ==
    /\ Spec
    /\ WF_vars(HandlerStep) /\ WF_vars(InputCloses)
    /\ WF_vars(RetryDrain /\ input # "open")
    /\ \A a \in Attempts : /\ WF_vars(ConverterStep(a)) /\ WF_vars(CloseOnDone(a))
                           /\ WF_vars(SenderStep(a)) /\ WF_vars(ReceiverStep(a))

-----------------------------------------------------------------------------
(* Properties *)

\* The composed goroutines make the request handler behave as SpeechHandler
\* says: what that module assumes of Handle and of its reader is justified.
HandlerImplemented == Handler!Spec

\* Each stream the service gets is one Ogg stream: the two header pages once,
\* at the start, then packets in the order the client sent them; and no packet
\* goes to two attempts, although the converter of an attempt given up may
\* still take packets while the next one runs.
AudioOnce ==
    /\ \A a \in Attempts :
          /\ \A i \in 1..Len(att[a].sent) : i <= 2 => att[a].sent[i] = i - 2
          /\ \A i \in 1..Len(att[a].sent) - 1 : att[a].sent[i] < att[a].sent[i + 1]
    /\ \A a, b \in Attempts : a # b =>
          \A i \in 3..Len(att[a].sent), j \in 3..Len(att[b].sent) :
             att[a].sent[i] # att[b].sent[j]

\* The service is only called, on a retry as on the first attempt, once a packet
\* has been taken from opusCh for this very attempt; it is the client's when
\* silent packets are disabled, and may be silence otherwise.
CallAfterPacket ==
    step \in {"connect", "sendFirst"} =>
       /\ att[attempt].started
       /\ DisableSilentPacket => att[attempt].heard

\* On a retry the service is only called once the client has sent audio
\* (CHANGES.md:171), whatever disable_silent_packet says.
RetryAfterClientAudio ==
    attempt > 1 /\ step \in {"connect", "sendFirst"} => att[attempt].heard

Stopped(a) == /\ att[a].conv = "done"
              /\ att[a].send \in {"idle", "done"}
              /\ att[a].recv \in {"idle", "done"}
              /\ att[a].oggW # "open"

\* When an attempt is cancelled, by a reconnection, by a lost client or by the
\* handler's return, every goroutine started for it returns.
AttemptsStop ==
    \A a \in Attempts : att[a].conv # "idle" /\ CtxDone(a) ~> Stopped(a)

\* Once the client's stream is over the request ends.
RequestEnds == streamOver ~> pc = "done"
=============================================================================
