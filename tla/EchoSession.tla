----------------------------- MODULE EchoSession -----------------------------
(***************************************************************************)
(* One request to /test or /dump with the goroutines behind Handle:        *)
(*   pump   opusChannelToIOReadCloser: takes packets from opusCh, writes   *)
(*          them into a pipe;                                              *)
(*   closer closeOnDone: closes that pipe when the context is done;        *)
(*   echo   the goroutine of Handle: reads that pipe and answers each      *)
(*          packet in a second pipe; /dump also appends it to dump_file,   *)
(* and the request handler (SpeechHandler) reads the second pipe.  There   *)
(* is one attempt only.  Packet i of the request is i, empty ones are not  *)
(* counted; a packet is small enough to be read at once.                   *)
(***************************************************************************)
EXTENDS Integers, Sequences, FiniteSets

CONSTANTS
    Configs, AwsCodes, AwsLanguages, Requests, MaxAttempts, MaxBody,
    Packets    \* bound: packets in the request

\* Only the routes /test and /dump; there is room for every answer and a report.
ASSUME EchoSessionAssumption ==
    /\ \A c \in Configs : c.service \in {"test", "dump"} /\ c.maxRetry \in Int
    /\ AwsCodes \subseteq Int \ {200} /\ MaxAttempts \in Nat \ {0}
    /\ Packets \in Nat /\ MaxBody \in Nat
    /\ MaxBody > Packets

VARIABLES
    conf, pc, streamOver, retryCount, attempt, connects, status, body, cause,
    reqDone,  \* the request context is cancelled
    input,    \* opusCh: "open", its error item "eof" or "error", "closed"
    broken,   \* history: the client broke the framing or its body failed
    fed,      \* packets taken from opusCh
    pump,     \* "idle", "select", "write", "writeEmpty", "done"
    inW,      \* write end of the first pipe: "open" or its close error
    echo,     \* "idle", "open" (the file), "read", "encode", "report", "done"
    held,     \* the packet echo has read, 0 before the first
    why,      \* the error echo will close its pipe with
    outW,     \* write end of the second pipe
    dump      \* what this request has appended to the dump file

handlerVars == <<conf, pc, streamOver, retryCount, attempt, connects, status, body, cause>>
pumpVars == <<input, broken, fed, pump, inW>>
echoVars == <<echo, held, why, outW, dump>>
vars == <<handlerVars, reqDone, pumpVars, echoVars>>

\* The request handler as SpeechHandler describes it.
Handler == INSTANCE SpeechHandler

Dump == conf.service = "dump"

CtxDone == reqDone \/ pc = "done"

-----------------------------------------------------------------------------
Init ==
    /\ Handler!Init
    /\ reqDone = FALSE
    /\ input = "open" /\ broken = FALSE /\ fed = 0 /\ pump = "idle" /\ inW = "open"
    /\ echo = "idle" /\ held = 0 /\ why = "eof" /\ outW = "open" /\ dump = <<>>

\* The request is accepted.
Begin ==
    /\ Handler!Accept
    /\ UNCHANGED <<reqDone, pumpVars, echoVars>>

\* Handle starts its goroutines and returns at once.
Handle ==
    /\ Handler!HandleSucceeds
    /\ pump' = "select"
    /\ echo' = IF Dump THEN "open" ELSE "read"
    /\ UNCHANGED <<reqDone, input, broken, fed, inW, held, why, outW, dump>>

\* The client ends its body or breaks the framing, or the connection is lost,
\* which cancels the request context.
ClientEnds ==
    /\ pc \notin {"start", "done"}
    /\ input = "open"
    /\ input' \in {"eof", "error"}
    /\ broken' = (input' = "error")
    /\ streamOver' = TRUE
    /\ UNCHANGED <<conf, pc, retryCount, attempt, connects, status, body, cause>>
    /\ UNCHANGED <<reqDone, fed, pump, inW, echoVars>>

ClientLost ==
    /\ pc \notin {"start", "done"}
    /\ ~reqDone
    /\ reqDone' = TRUE
    /\ streamOver' = TRUE
    /\ input' = IF input = "open" THEN "error" ELSE input
    /\ UNCHANGED <<conf, pc, retryCount, attempt, connects, status, body, cause>>
    /\ UNCHANGED <<broken, fed, pump, inW, echoVars>>

\* The goroutines of OpusChannel return and close opusCh.
InputCloses ==
    /\ CtxDone
    /\ input # "closed"
    /\ input' = "closed"
    /\ UNCHANGED <<handlerVars, reqDone, broken, fed, pump, inW, echoVars>>

-----------------------------------------------------------------------------
(* Pump and closer *)

ClosePipe(e) == IF inW = "open" THEN e ELSE inW

PumpTake ==
    /\ pump = "select"
    /\ input = "open" /\ fed < Packets
    /\ fed' = fed + 1
    /\ pump' = "write"
    /\ UNCHANGED <<handlerVars, reqDone, input, broken, inW, echoVars>>

\* A frame without payload is passed on like any other.
PumpTakeEmpty ==
    /\ pump = "select"
    /\ input = "open"
    /\ pump' = "writeEmpty"
    /\ UNCHANGED <<handlerVars, reqDone, input, broken, fed, inW, echoVars>>

\* The error item, the closed channel, or the context.
PumpEnd ==
    /\ pump = "select"
    /\ input # "open"
    /\ pump' = "done"
    /\ inW' = ClosePipe(IF input = "error" THEN "error" ELSE "eof")
    /\ input' = "closed"
    /\ UNCHANGED <<handlerVars, reqDone, broken, fed, echoVars>>

PumpCtx ==
    /\ pump = "select"
    /\ CtxDone
    /\ pump' = "done"
    /\ inW' = ClosePipe("canceled")
    /\ UNCHANGED <<handlerVars, reqDone, input, broken, fed, echoVars>>

\* Nobody closes the reading end: only the closer gets a pump out of a write
\* that echo no longer reads.
PumpWriteFails ==
    /\ pump \in {"write", "writeEmpty"}
    /\ inW # "open"
    /\ pump' = "done"
    /\ UNCHANGED <<handlerVars, reqDone, input, broken, fed, inW, echoVars>>

CloseOnDone_missing == FALSE /\ UNCHANGED vars

CloseOnDone ==
    /\ pump # "idle"
    /\ CtxDone
    /\ inW = "open"
    /\ inW' = "eof"
    /\ UNCHANGED <<handlerVars, reqDone, input, broken, fed, pump, echoVars>>

-----------------------------------------------------------------------------
(* Echo *)

OpenDump ==
    /\ echo = "open"
    /\ \/ echo' = "read" /\ UNCHANGED outW
       \/ echo' = "done" /\ outW' = "error"
    /\ UNCHANGED <<handlerVars, reqDone, pumpVars, held, why, dump>>

\* A packet passes; /dump's MultiWriter has the file first.
EchoRead_stale ==
    /\ echo = "read"
    /\ pump = "write" /\ inW = "open"
    /\ pump' = "select"
    /\ echo' = "encode"
    /\ held' = fed
    /\ dump' = IF Dump THEN Append(dump, held) ELSE dump
    /\ UNCHANGED <<handlerVars, reqDone, input, broken, fed, inW, why, outW>>

EchoRead ==
    /\ echo = "read"
    /\ pump = "write" /\ inW = "open"
    /\ pump' = "select"
    /\ echo' = "encode"
    /\ held' = fed
    /\ dump' = IF Dump THEN Append(dump, fed) ELSE dump
    /\ UNCHANGED <<handlerVars, reqDone, input, broken, fed, inW, why, outW>>

\* The file does not take the packet's entry, or not all of it: MultiWriter
\* stops there, and the reader of the second pipe gets the error.
DumpFails ==
    /\ echo = "read" /\ Dump
    /\ pump = "write" /\ inW = "open"
    /\ pump' = "select"
    /\ echo' = "done" /\ outW' = "error"
    /\ held' = fed
    /\ UNCHANGED <<handlerVars, reqDone, input, broken, fed, inW, why, dump>>

\* A read of 0 bytes is not answered.
EchoSkip_ends ==
    /\ echo = "read"
    /\ pump = "writeEmpty" /\ inW = "open"
    /\ pump' = "select"
    /\ echo' = "done" /\ outW' = "eof"
    /\ UNCHANGED <<handlerVars, reqDone, input, broken, fed, inW, held, why, dump>>

EchoSkip ==
    /\ echo = "read"
    /\ pump = "writeEmpty" /\ inW = "open"
    /\ pump' = "select"
    /\ UNCHANGED <<handlerVars, reqDone, input, broken, fed, inW, echoVars>>

\* The first pipe is closed.  /test reports any error but EOF before it passes
\* it on; /dump closes its pipe, so that its reader sees the end.
EchoEnd_silent ==
    /\ echo = "read"
    /\ inW # "open"
    /\ echo' = "done" /\ outW' = inW
    /\ UNCHANGED <<handlerVars, reqDone, pumpVars, held, why, dump>>

EchoEnd ==
    /\ echo = "read"
    /\ inW # "open"
    /\ \/ /\ Dump \/ inW = "eof"
          /\ echo' = "done" /\ outW' = "eof" /\ UNCHANGED why
       \/ /\ ~Dump /\ inW # "eof"
          /\ echo' = "report" /\ why' = inW /\ UNCHANGED outW
    /\ UNCHANGED <<handlerVars, reqDone, pumpVars, held, dump>>

\* Encode fails: the request handler has returned and closed the reader.
EncodeFails ==
    /\ echo \in {"encode", "report"}
    /\ pc = "done"
    /\ echo' = "done" /\ outW' = "error"
    /\ UNCHANGED <<handlerVars, reqDone, pumpVars, held, why, dump>>

-----------------------------------------------------------------------------
(* The handler reads the second pipe *)

ReadMessage ==
    /\ pc = "read"
    /\ echo \in {"encode", "report"}
    /\ \/ /\ Handler!WriteMessage(IF echo = "encode" THEN "result" ELSE "error")
          /\ UNCHANGED <<pc, cause>>
       \/ /\ reqDone
          /\ Handler!Return("writeError", 500)
          /\ UNCHANGED body
    /\ IF echo = "encode" THEN echo' = "read" /\ UNCHANGED outW
                          ELSE echo' = "done" /\ outW' = why
    /\ UNCHANGED <<conf, streamOver, retryCount, attempt, connects>>
    /\ UNCHANGED <<reqDone, pumpVars, held, why, dump>>

ReadEOF ==
    /\ pc = "read"
    /\ outW = "eof"
    /\ Handler!Return("eof", 200)
    /\ UNCHANGED <<conf, streamOver, retryCount, attempt, connects, body>>
    /\ UNCHANGED <<reqDone, pumpVars, echoVars>>

\* A broken input of /test may mention "client disconnected".
ReadError ==
    /\ pc = "read"
    /\ outW \in {"error", "canceled"}
    /\ Handler!ReadOtherError \/ (outW = "error" /\ Handler!ReadClientDisconnected)
    /\ UNCHANGED <<reqDone, pumpVars, echoVars>>

-----------------------------------------------------------------------------
HandlerStep == Begin \/ Handle \/ ReadMessage \/ ReadEOF \/ ReadError
PumpStep == PumpEnd \/ PumpCtx \/ PumpWriteFails
EchoStep == OpenDump \/ EchoRead \/ DumpFails \/ EchoSkip \/ EchoEnd \/ EncodeFails

Next == \/ HandlerStep \/ ClientEnds \/ ClientLost \/ InputCloses
        \/ PumpTake \/ PumpTakeEmpty \/ PumpStep \/ CloseOnDone \/ EchoStep

\* Goroutines that can go on do; nothing is assumed of the client.
Spec == /\ Init /\ [][Next]_vars
        /\ WF_vars(HandlerStep) /\ WF_vars(InputCloses)
        /\ WF_vars(PumpStep) /\ WF_vars(CloseOnDone) /\ WF_vars(EchoStep)

-----------------------------------------------------------------------------
(* Properties *)

\* The goroutines make the request handler behave as SpeechHandler says for the
\* services test and dump.
HandlerImplemented == Handler!Spec

\* How many packets the response answers.
Answers == Cardinality({i \in 1..Len(body) : body[i].kind = "result"})

\* The entries of the dump file are the first n packets.
OnFile(n) == dump = [i \in 1..n |-> i]

\* No packet is lost on the way.  The dump file has all that echo read, in
\* order, but the last one when its write failed, which ends the answers with an
\* error.  The response answers all that is read but such a packet and the one
\* echo is busy with; only when the handler has returned may it be two packets
\* behind, one whose answer the client no longer took and one echo could still
\* read.
EchoInOrder ==
    /\ Dump => \/ OnFile(held)
               \/ OnFile(held - 1) /\ held > 0 /\ echo = "done" /\ outW = "error"
    /\ held \in {fed - 1, fed}
    /\ pc # "done" =>
          Answers = held - IF echo = "encode" \/ (Dump /\ ~OnFile(held)) THEN 1 ELSE 0
    /\ pc = "done" => Answers \in held - 2..held

\* /test does not hide that its input broke: once a request whose client broke
\* the framing is over, the response has an error message, unless the request
\* context was cancelled before that.
TestReportsBrokenInput ==
    conf.service = "test" /\ broken /\ ~reqDone /\ pc = "done" =>
       \E i \in 1..Len(body) : body[i].kind = "error"

\* Once the client's stream is over the request ends, and then every goroutine
\* it started: none is left in a write nobody reads.
EchoStops ==
    /\ streamOver ~> pc = "done"
    /\ pc = "done" /\ pump # "idle" ~> pump = "done" /\ echo = "done" /\ inW # "open"
=============================================================================
