--------------------------- MODULE SpeechHandler ---------------------------
(***************************************************************************)
(* createSpeechHandler (handler.go): the life of one POST /speech, /test   *)
(* or /dump request.  The handler calls serviceHandler.Handle, forwards    *)
(* what the returned reader yields to the client, and reconnects when the  *)
(* service disconnects with a retryable error.                             *)
(*                                                                         *)
(* Handle returns, and its reader yields, whatever the handler of the      *)
(* service can produce; the goroutines behind it are below this       *)
(* level, and so is the audio: opusCh only shows as over or not.           *)
(***************************************************************************)
EXTENDS Integers, Sequences

CONSTANTS
    Configs,          \* servers considered: [service, maxRetry], the service type
                      \* of the route and config max_retry, any int; below 1 it
                      \* means "never reconnect"
    AwsCodes,         \* HTTP status codes of failed StartStreamTranscription calls
    AwsLanguages,     \* types.LanguageCode.Values() of the AWS SDK
    Requests,         \* requests the client may make: [proto, headersBind, lang]
    MaxAttempts,      \* bound: calls of Handle in one request
    MaxBody           \* bound: messages forwarded in one request

ASSUME SpeechHandlerAssumption ==
    /\ \A c \in Configs : c.maxRetry \in Int
    /\ AwsCodes \subseteq Int \ {200}   \* a failed call is not answered 200
    /\ MaxAttempts \in Nat \ {0}
    /\ MaxBody \in Nat

VARIABLES
    conf,        \* the server's configuration, fixed when it starts
    pc,          \* where the handler is
    streamOver,  \* opusCh has ended: the client disconnected, ended its
                 \* body or broke the framing
    retryCount,  \* RetryCount of the service handler
    attempt,     \* number of the current Handle call
    connects,    \* number of Handle calls that succeeded
    status,      \* committed HTTP status, 0 while no header has been sent
    body,        \* messages written to the response
    cause        \* why the handler returned

vars == <<conf, pc, streamOver, retryCount, attempt, connects, status, body, cause>>

-----------------------------------------------------------------------------
(* Admission of a request: the checks before the loop. *)

Service == conf.service
MaxRetry == conf.maxRetry

Aws == Service \in {"aws", "awsv2"}
Gcp == Service = "gcp"

\* Names the init functions register in NewServiceHandlerFuncs.
RegisteredServices == {"aws", "awsv2", "gcp", "test", "dump"}

\* GetLanguageCode with f = nil returns lang.
LanguageAccepted(lang) ==
    /\ lang # ""
    /\ \/ Aws /\ lang \in AwsLanguages
       \/ Service \in {"gcp", "test", "dump"}

\* The status of the early returns, 0 when the loop is entered.
AdmissionStatus(r) ==
    IF r.proto # 2 \/ ~r.headersBind THEN 400
    ELSE IF ~LanguageAccepted(r.lang) \/ Service \notin RegisteredServices
         THEN 500 ELSE 0

-----------------------------------------------------------------------------
(* The response (echo, external): the first header wins. *)

Committed == status # 0

Commit(code) == IF Committed THEN status ELSE code

Message(kind) == [kind |-> kind, attempt |-> attempt]

\* Response().Write + Flush of one message; the implicit header is 200.
WriteMessage(kind) == /\ body' = Append(body, Message(kind))
                      /\ status' = Commit(200)

\* The handler returns; code is the status it asks for.  A returned error
\* reaches echo's error handler, which answers 500 unless told otherwise; the
\* {"message"} object it may add is none of the handler's messages.
Return(why, code) == /\ pc' = "done"
                     /\ cause' = why
                     /\ status' = Commit(code)

\* Write a type:error message and return.  The write fails only once the
\* client has gone; the handler then returns the write error instead.
ReportAndReturn_silent(why) == Return(why, 200) /\ UNCHANGED body

ReportAndReturn(why) ==
    /\ \/ /\ WriteMessage("error")
          /\ cause' = why
       \/ /\ streamOver
          /\ status' = Commit(500)
          /\ cause' = "writeError"
          /\ UNCHANGED body
    /\ pc' = "done"

-----------------------------------------------------------------------------
Init ==
    /\ conf \in Configs
    /\ pc = "start"
    /\ streamOver = FALSE
    /\ retryCount = 0
    /\ attempt = 0
    /\ connects = 0
    /\ status = 0
    /\ body = <<>>
    /\ cause = "none"

\* Disconnection or end of the request body, at any time.
ClientLeaves ==
    /\ pc # "done"
    /\ ~streamOver
    /\ streamOver' = TRUE
    /\ UNCHANGED <<conf, pc, retryCount, attempt, connects, status, body, cause>>

Reject ==
    /\ pc = "start"
    /\ \E r \in Requests : /\ AdmissionStatus(r) # 0
                           /\ Return("rejected", AdmissionStatus(r))
    /\ UNCHANGED <<conf, streamOver, retryCount, attempt, connects, body>>

Accept_flushesHeader ==
    /\ pc = "start"
    /\ \E r \in Requests : AdmissionStatus(r) = 0
    /\ pc' = "handle"
    /\ attempt' = 1
    /\ status' = Commit(200)
    /\ UNCHANGED <<conf, streamOver, retryCount, connects, body, cause>>

Accept ==
    /\ pc = "start"
    /\ \E r \in Requests : AdmissionStatus(r) = 0
    /\ pc' = "handle"
    /\ attempt' = 1
    /\ UNCHANGED <<conf, streamOver, retryCount, connects, status, body, cause>>

-----------------------------------------------------------------------------
(* Outcomes of serviceHandler.Handle.  The test and dump handlers never    *)
(* fail; the others first wait for audio, then call the service.           *)

Remote == Aws \/ Gcp

\* The SuzuErrors Start returns: only an AWS 429 asks for a retry.
SuzuErrors ==
    IF Aws THEN {[code |-> c, retry |-> c = 429] : c \in AwsCodes}
    ELSE IF Gcp THEN {[code |-> 500, retry |-> FALSE]}
    ELSE {}

\* Connected: aws and gcp call ResetRetryCount, then the header is flushed.
HandleSucceeds_noReset ==
    /\ pc = "handle"
    /\ connects' = connects + 1
    /\ status' = Commit(200)
    /\ pc' = "read"
    /\ UNCHANGED <<conf, retryCount, streamOver, attempt, body, cause>>

HandleSucceeds ==
    /\ pc = "handle"
    /\ retryCount' = IF Remote THEN 0 ELSE retryCount
    /\ connects' = connects + 1
    /\ status' = Commit(200)
    /\ pc' = "read"
    /\ UNCHANGED <<conf, streamOver, attempt, body, cause>>

\* io.EOF or context.Canceled from the audio: the client ended the stream.
HandleEnds ==
    /\ pc = "handle"
    /\ Remote
    /\ streamOver
    /\ Return("clientEnd", 200)
    /\ UNCHANGED <<conf, streamOver, retryCount, attempt, connects, body>>

\* gRPC answers a Send on a stream the server has ended with io.EOF; Start
\* passes it on for the first audio, and the handler takes it for the client's.
HandleSendEOF ==
    /\ pc = "handle"
    /\ Gcp
    /\ Return("sendEOF", 200)
    /\ UNCHANGED <<conf, streamOver, retryCount, attempt, connects, body>>

\* A SuzuError that asks for a retry while the budget lasts.
HandleRetryable ==
    /\ pc = "handle"
    /\ \E e \in SuzuErrors : e.retry
    /\ MaxRetry > retryCount
    /\ retryCount' = retryCount + 1
    /\ pc' = "retryWait"
    /\ UNCHANGED <<conf, streamOver, attempt, connects, status, body, cause>>

\* Any other SuzuError: its code, replaced by 500 when it is not 3 digits.
HandleSuzuError ==
    /\ pc = "handle"
    /\ \E e \in SuzuErrors :
          /\ ~(e.retry /\ MaxRetry > retryCount)
          /\ Return("suzuError", IF e.code < 100 \/ e.code > 999 THEN 500 ELSE e.code)
    /\ UNCHANGED <<conf, streamOver, retryCount, attempt, connects, body>>

\* A SuzuConfError: report, then return an HTTPError 500.
HandleConfError ==
    /\ pc = "handle"
    /\ Remote
    /\ ReportAndReturn("confError")
    /\ UNCHANGED <<conf, streamOver, retryCount, attempt, connects>>

\* Any other error: HTTPError 500.
HandleOtherError ==
    /\ pc = "handle"
    /\ Remote
    /\ Return("otherError", 500)
    /\ UNCHANGED <<conf, streamOver, retryCount, attempt, connects, body>>

-----------------------------------------------------------------------------
(* Waiting for retry_interval_ms while draining opusCh. *)

\* The timer fires.  Handle returned a nil reader with its error, so
\* reader.Close() panics before the loop can continue; the Recover
\* middleware turns the panic into an error.
RetryTimerFires ==
    /\ pc = "retryWait"
    /\ Return("panic", 500)
    /\ UNCHANGED <<conf, streamOver, retryCount, attempt, connects, body>>

\* opusCh is closed: "retry interrupted".
RetryInterrupted ==
    /\ pc = "retryWait"
    /\ streamOver
    /\ Return("interrupted", 500)
    /\ UNCHANGED <<conf, streamOver, retryCount, attempt, connects, body>>

-----------------------------------------------------------------------------
(* Outcomes of reader.Read. *)

\* The service handler has written its own type:error message; it closes its
\* pipe next.
ErrorSent ==
    /\ body # <<>>
    /\ body[Len(body)] = Message("error")

\* What the handler goroutine may write next: the gcp one reports a failed
\* Recv, the test one a broken input.
MessageKinds ==
    IF ErrorSent THEN {}
    ELSE {"result"} \cup IF Gcp \/ (Service = "test" /\ streamOver) THEN {"error"} ELSE {}

\* A message arrives and is forwarded, or the client is found to be gone.
ReadMessage ==
    /\ pc = "read"
    /\ Len(body) < MaxBody
    /\ MessageKinds # {}
    /\ \/ /\ \E kind \in MessageKinds : WriteMessage(kind)
          /\ UNCHANGED <<pc, cause>>
       \/ /\ streamOver
          /\ Return("writeError", 500)
          /\ UNCHANGED body
    /\ UNCHANGED <<conf, streamOver, retryCount, attempt, connects>>

\* aws ends when its event stream does, gcp after reporting the EOF of Recv,
\* and all of them when the input is over.
ReadEOF ==
    /\ pc = "read"
    /\ Aws \/ streamOver \/ (Gcp /\ ErrorSent)
    /\ Return("eof", 200)
    /\ UNCHANGED <<conf, streamOver, retryCount, attempt, connects, body>>

\* An error that mentions "client disconnected": only the test handler passes
\* the error of the input on.
ReadClientDisconnected ==
    /\ pc = "read"
    /\ Service = "test"
    /\ streamOver
    /\ Return("clientDisconnected", 500)
    /\ UNCHANGED <<conf, streamOver, retryCount, attempt, connects, body>>

\* ErrServerDisconnected with budget left: straight back to Handle.
DisconnectedReconnect_countsDown ==
    /\ pc = "read"
    /\ Remote
    /\ MaxRetry > retryCount
    /\ attempt < MaxAttempts
    /\ retryCount' = retryCount - 1
    /\ attempt' = attempt + 1
    /\ pc' = "handle"
    /\ UNCHANGED <<conf, streamOver, connects, status, body, cause>>

DisconnectedReconnect ==
    /\ pc = "read"
    /\ Remote
    /\ MaxRetry > retryCount
    /\ attempt < MaxAttempts
    /\ retryCount' = retryCount + 1
    /\ attempt' = attempt + 1
    /\ pc' = "handle"
    /\ UNCHANGED <<conf, streamOver, connects, status, body, cause>>

\* ErrServerDisconnected, and max_retry forbids to reconnect or is used up.
\* The two branches differ in what they return, which no longer matters
\* once the message has been written.
DisconnectedGiveUp ==
    /\ pc = "read"
    /\ Remote
    /\ MaxRetry <= retryCount
    /\ ReportAndReturn(IF MaxRetry < 1 THEN "disconnected" ELSE "exhausted")
    /\ UNCHANGED <<conf, streamOver, retryCount, attempt, connects>>

\* Any other error: no reconnection is expected to help.
ReadOtherError_keepReading ==
    /\ pc = "read"
    /\ Service = "test" => streamOver
    /\ Len(body) < MaxBody
    /\ WriteMessage("error")
    /\ UNCHANGED <<conf, pc, cause, streamOver, retryCount, attempt, connects>>

ReadOtherError ==
    /\ pc = "read"
    /\ Service = "test" => streamOver
    /\ ReportAndReturn("readError")
    /\ UNCHANGED <<conf, streamOver, retryCount, attempt, connects>>

-----------------------------------------------------------------------------
HandleReturns == \/ HandleSucceeds \/ HandleEnds \/ HandleSendEOF \/ HandleRetryable
                 \/ HandleSuzuError \/ HandleConfError \/ HandleOtherError

RetryWaitEnds == RetryTimerFires \/ RetryInterrupted

ReadReturns == \/ ReadMessage \/ ReadEOF \/ ReadClientDisconnected
               \/ DisconnectedReconnect \/ DisconnectedGiveUp \/ ReadOtherError

Next == \/ ClientLeaves \/ Reject \/ Accept
        \/ HandleReturns \/ RetryWaitEnds \/ ReadReturns

Spec == Init /\ [][Next]_vars

-----------------------------------------------------------------------------
(* Properties *)

Causes == {"none", "rejected", "clientEnd", "sendEOF", "suzuError", "confError",
           "otherError", "panic", "interrupted", "writeError", "eof",
           "clientDisconnected", "disconnected", "exhausted", "readError"}

MessageType == [kind : {"result", "error"}, attempt : Nat]

\* Every variable has its type.
TypeOK ==
    /\ conf \in Configs
    /\ pc \in {"start", "handle", "retryWait", "read", "done"}
    /\ streamOver \in BOOLEAN
    /\ retryCount \in Nat
    /\ attempt \in Nat
    /\ connects \in Nat
    /\ status \in Int
    /\ body \in Seq(MessageType)
    /\ cause \in Causes

\* No header goes out before a service connection (handler.go:244), and a request
\* that ends without one has a status of its own.  It is 200 only when the client
\* ended the stream, when a SuzuConfError has put its message into the body, or
\* when gRPC's io.EOF was taken for the client's: every other failure of the first
\* connection is answered with an error status.
HonestStatus ==
    /\ Committed /\ pc # "done" => connects > 0
    /\ pc = "done" /\ connects = 0 =>
          /\ Committed
          /\ status = 200 => streamOver \/ ErrorSent \/ cause = "sendEOF"

\* max_retry bounds the retries since the last connection, and every connection
\* starts the count anew (CHANGES.md:283).
RetryBudget ==
    /\ retryCount <= IF MaxRetry > 0 THEN MaxRetry ELSE 0
    /\ pc = "read" => retryCount = 0

\* Reconnecting never mixes the answers of two connections: messages of a later
\* attempt follow those of the earlier ones, every earlier attempt had connected,
\* and each attempt reports at most its own end: an error message is followed
\* only by the handler's own report or by a later attempt.
BodyOrder ==
    /\ \A i, j \in 1..Len(body) : i < j => body[i].attempt <= body[j].attempt
    /\ pc # "start" => connects \in {attempt - 1, attempt}
    /\ \A i \in 1..Len(body) - 1 :
          body[i].kind = "error" /\ body[i].attempt = body[i+1].attempt
             => pc = "done" /\ i + 1 = Len(body) /\ body[i+1].kind = "error"

\* For aws, whose handler writes only results into its pipe, an error message
\* is always the last one and the request ends with it.
ErrorEndsAwsStream ==
    Aws => \A i \in 1..Len(body) : body[i].kind = "error" => i = Len(body) /\ pc = "done"

\* The failures of the service: sendEOF is one, whatever the handler makes of it.
Failures == {"sendEOF", "suzuError", "confError", "otherError", "panic",
             "disconnected", "exhausted", "readError"}

\* A request the service failed is never left looking like a success: the
\* status is not 200 or the last message is the error (CHANGES.md:345-348).
FailureIsReported ==
    cause \in Failures /\ ~streamOver => status # 200 \/ ErrorSent

\* A client that is still there may not learn of a failure of Handle on a
\* reconnection, nor of one that came as gRPC's io.EOF.  Every other failure, of
\* the first connection or of what was connected later, shows in the status or
\* in a last message.
OnlyReconnectsFailSilently ==
    ~FailureIsReported => (connects > 0 /\ attempt = connects + 1) \/ cause = "sendEOF"

-----------------------------------------------------------------------------
(* What comments and documents say of the handler and the code does not do *)

\* An error of Handle that is not a SuzuError is answered 500 (handler.go:240),
\* as long as no header has gone out.
ConfErrorIs500 == cause = "confError" /\ connects = 0 => status = 500

\* Handle's io.EOF is the client's (handler.go:148): an empty 200 without a
\* connection goes only to a client that has ended its stream.
EmptyAnswerIsTheClients ==
    pc = "done" /\ connects = 0 /\ status = 200 /\ body = <<>> => streamOver

\* max_retry is the number of retries of a request (config_example.ini:77); when
\* it is exceeded the request ends with an error (handler.go:334, CHANGES.md:338).
RetriesWithinLimit == MaxRetry >= 1 => attempt - 1 <= MaxRetry

\* A retryable failure to connect does not end the request while the client
\* still streams (handler.go:169).
RetryKeepsClient == cause \in {"panic", "interrupted"} => streamOver
=============================================================================
