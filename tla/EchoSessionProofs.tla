------------------------ MODULE EchoSessionProofs ------------------------
(* For every number of packets: what /test and /dump answer and record,    *)
(* and that the goroutines implement the request handler of SpeechHandler. *)
EXTENDS EchoSession, FiniteSetTheorems, TLAPS

-----------------------------------------------------------------------------
(* The inductive invariant *)

PipeStates == {"open", "eof", "error", "canceled"}

\* Every variable has its type; a request has one attempt and no retries.
TypeOK ==
    /\ conf \in Configs
    /\ pc \in {"start", "handle", "read", "done"}
    /\ streamOver \in BOOLEAN /\ reqDone \in BOOLEAN /\ broken \in BOOLEAN
    /\ attempt \in Nat /\ connects \in Nat /\ status \in Int
    /\ body \in Seq(Handler!MessageType)
    /\ input \in {"open", "eof", "error", "closed"}
    /\ fed \in Nat /\ held \in Nat
    /\ pump \in {"idle", "select", "write", "writeEmpty", "done"}
    /\ inW \in PipeStates /\ outW \in PipeStates
    /\ why \in PipeStates \ {"open"}
    /\ echo \in {"idle", "open", "read", "encode", "report", "done"}

\* The goroutines run once Handle has returned.
Started ==
    /\ pc # "done" => cause = "none"
    /\ pump = "idle" <=> pc \in {"start", "handle"}
    /\ echo = "idle" <=> pc \in {"start", "handle"}
    /\ pc \in {"start", "handle"} => body = <<>>

\* A pipe closes only after its writer is told to stop: by the client's stream
\* or by the return of the request handler.
Ended == streamOver \/ pc = "done"

Closing ==
    /\ reqDone => streamOver
    /\ input # "open" => Ended
    /\ inW # "open" => Ended
    /\ outW # "open" <=> echo = "done"
    /\ echo = "done" => Ended \/ (Dump /\ outW = "error")
    /\ echo = "report" => ~Dump /\ Ended /\ why # "eof"
    /\ echo = "open" => Dump

\* The packet between pump and echo.
InFlight ==
    /\ fed <= Packets
    /\ pump = "write" => fed = held + 1
    /\ pump \in {"idle", "select", "writeEmpty"} => fed = held
    /\ fed \in {held, held + 1}

\* The answer echo owes, and the one a gone client may have missed.
Answered ==
    /\ pc # "done" =>
          Answers = held - IF echo = "encode" \/ (Dump /\ ~OnFile(held)) THEN 1 ELSE 0
    /\ pc = "done" => Answers <= held /\ Answers >= held - 2
    /\ pc = "done" /\ echo = "read" => Answers >= held - 1
    /\ pc = "done" => echo # "open"

\* The report is the last thing echo writes.
HasError == \E i \in 1..Len(body) : body[i].kind = "error"

Reported ==
    /\ pc = "read" /\ echo # "done" => \A i \in 1..Len(body) : body[i].kind = "result"
    /\ pc = "read" /\ ~Dump /\ outW \in {"error", "canceled"} => HasError

\* A broken input reaches the answers of /test as an error, unless the context
\* is cancelled on the way: the pump or the first pipe has it, then echo.
Passed ==
    ~Dump /\ broken /\ ~reqDone /\ pc # "done" =>
       /\ \/ input = "error" /\ inW = "open" /\ pump # "done"
          \/ inW = "error"
       /\ echo = "report" => why = "error"
       /\ echo = "done" => outW = "error"

\* Before the context is cancelled only the pump closes the first pipe, after it
\* has taken the error item.
Upstream ==
    ~reqDone /\ pc # "done" =>
       /\ inW # "open" => input = "closed"
       /\ pump = "done" => inW # "open"
       /\ ~Dump /\ echo \in {"report", "done"} => inW # "open"

\* Only when the write of the last packet failed is it missing in the file.
Recorded ==
    Dump => \/ OnFile(held)
            \/ OnFile(held - 1) /\ held > 0 /\ echo = "done" /\ outW = "error"

IInv == /\ TypeOK /\ Started /\ Closing /\ InFlight /\ Answered /\ Reported /\ Recorded
        /\ Upstream /\ Passed /\ TestReportsBrokenInput

-----------------------------------------------------------------------------
(* The response *)

Results(s) == {i \in 1..Len(s) : s[i].kind = "result"}

\* A result adds one to the answers, a report none.
LEMMA AnswersCount ==
    ASSUME NEW s \in Seq(Handler!MessageType), NEW m \in Handler!MessageType,
           NEW R, R = Results(s),
           NEW Q, Q = Results(Append(s, m))
    PROVE  /\ Cardinality(R) \in Nat
           /\ m.kind = "result" => Cardinality(Q) = Cardinality(R) + 1
           /\ m.kind # "result" => Cardinality(Q) = Cardinality(R)
<1>1. Len(s) \in Nat OBVIOUS
<1>2. IsFiniteSet(1..Len(s)) BY <1>1, FS_Interval
<1>3. R \subseteq 1..Len(s) BY DEF Results
<1>4. IsFiniteSet(R) BY <1>2, <1>3, FS_Subset
<1>5. Cardinality(R) \in Nat BY <1>4, FS_CardinalityType
<1>6. Len(s) + 1 \notin R BY <1>1, <1>3
<1>7. /\ Len(Append(s, m)) = Len(s) + 1
      /\ \A i \in 1..Len(s) : Append(s, m)[i] = s[i]
      /\ Append(s, m)[Len(s) + 1] = m
      OBVIOUS
<1>8. CASE m.kind = "result"
  <2>1. Q = R \cup {Len(s) + 1} BY <1>1, <1>7, <1>8 DEF Results
  <2>2. Cardinality(R \cup {Len(s) + 1}) = Cardinality(R) + 1
        BY <1>4, <1>6, FS_AddElement
  <2>3. QED BY <1>5, <1>8, <2>1, <2>2
<1>9. CASE m.kind # "result"
  <2>1. Q = R BY <1>1, <1>7, <1>9 DEF Results
  <2>2. QED BY <1>5, <1>9, <2>1
<1>10. QED BY <1>8, <1>9

\* What WriteMessage does to the body and to its answers.
LEMMA WriteMessageBody ==
    ASSUME TypeOK, NEW kind \in {"result", "error"}, Handler!WriteMessage(kind)
    PROVE  /\ body' \in Seq(Handler!MessageType) /\ status' \in Int
           /\ Len(body) \in Nat /\ Len(body') = Len(body) + 1
           /\ \A i \in 1..Len(body) : body'[i] = body[i]
           /\ body'[Len(body) + 1].kind = kind
           /\ Answers \in Nat
           /\ Answers' = Answers + IF kind = "result" THEN 1 ELSE 0
<1>1. PICK m : m = Handler!Message(kind) OBVIOUS
<1>2. m \in Handler!MessageType /\ m.kind = kind
      BY <1>1 DEF TypeOK, Handler!Message, Handler!MessageType
<1>3. body' = Append(body, m) BY <1>1 DEF Handler!WriteMessage
<1>4. /\ body' \in Seq(Handler!MessageType)
      /\ Len(body) \in Nat /\ Len(body') = Len(body) + 1
      /\ \A i \in 1..Len(body) : body'[i] = body[i]
      /\ body'[Len(body) + 1] = m
      BY <1>2, <1>3 DEF TypeOK
<1>5. status' \in Int
      BY DEF TypeOK, Handler!WriteMessage, Handler!Commit, Handler!Committed
<1>6. /\ Answers \in Nat
      /\ m.kind = "result" => Answers' = Answers + 1
      /\ m.kind # "result" => Answers' = Answers
  <2>1. PICK R : R = Results(body) OBVIOUS
  <2>2. PICK Q : Q = Results(Append(body, m)) OBVIOUS
  <2>3. /\ Cardinality(R) \in Nat
        /\ m.kind = "result" => Cardinality(Q) = Cardinality(R) + 1
        /\ m.kind # "result" => Cardinality(Q) = Cardinality(R)
    <3>1. body \in Seq(Handler!MessageType) BY DEF TypeOK
    <3>2. QED BY ONLY <1>2, <2>1, <2>2, <3>1, AnswersCount
  <2>4. Answers = Cardinality(R) BY <2>1 DEF Answers, Results
  <2>5. Answers' = Cardinality(Q) BY <1>3, <2>2 DEF Answers, Results
  <2>6. QED BY <2>3, <2>4, <2>5
<1>7. QED BY <1>2, <1>4, <1>5, <1>6

\* Answers are counted by a natural number.
LEMMA AnswersType == TypeOK => Answers \in Nat
<1> SUFFICES ASSUME TypeOK PROVE Answers \in Nat OBVIOUS
<1>1. IsFiniteSet(1..Len(body)) BY FS_Interval DEF TypeOK
<1>2. IsFiniteSet({i \in 1..Len(body) : body[i].kind = "result"}) BY <1>1, FS_Subset
<1>3. QED BY <1>2, FS_CardinalityType DEF Answers

\* Nothing is answered before anything is written.
LEMMA AnswersEmpty == body = <<>> => Answers = 0
<1>1. body = <<>> => {i \in 1..Len(body) : body[i].kind = "result"} = {} OBVIOUS
<1>2. QED BY <1>1, FS_EmptySet DEF Answers

-----------------------------------------------------------------------------
(* Every step keeps IInv *)

\* The initial states satisfy IInv.
LEMMA IInvInit == Init => IInv
<1> SUFFICES ASSUME Init PROVE IInv OBVIOUS
<1> USE DEF Init, Handler!Init
<1>1. streamOver \in BOOLEAN /\ reqDone \in BOOLEAN /\ broken \in BOOLEAN BY Zenon
<1>2. <<>> \in Seq(Handler!MessageType) OBVIOUS
<1>3. TypeOK BY <1>1, <1>2 DEF TypeOK, PipeStates
<1>4. OnFile(held)
  <2>1. <<>> = [i \in 1..0 |-> i] OBVIOUS
  <2>2. QED BY <2>1 DEF OnFile
<1>5. Recorded /\ Answered
  <2>1. Recorded BY ONLY <1>4 DEF Recorded
  <2>2. Answers = 0 /\ held = 0 /\ pc = "start" /\ echo = "idle" BY AnswersEmpty
  <2>3. ~(echo = "encode" \/ (Dump /\ ~OnFile(held))) BY ONLY Zenon, <1>4, <2>2
  <2>4. (IF echo = "encode" \/ (Dump /\ ~OnFile(held)) THEN 1 ELSE 0) = 0
        BY ONLY Zenon, <2>3
  <2>5. Answers = held - 0 BY ONLY <2>2
  <2>6. Answered BY ONLY Zenon, <2>2, <2>4, <2>5 DEF Answered
  <2>7. QED BY <2>1, <2>6
<1>6. Started /\ Closing /\ InFlight /\ Reported /\ TestReportsBrokenInput
      BY EchoSessionAssumption
      DEF Started, Closing, Ended, InFlight, Reported, TestReportsBrokenInput
<1>7. Upstream /\ Passed BY Zenon DEF Upstream, Passed
<1>8. QED BY <1>3, <1>5, <1>6, <1>7 DEF IInv

\* The Boolean variables stay Boolean.
LEMMA BooleanStep ==
    TypeOK /\ [Next]_vars =>
       streamOver' \in BOOLEAN /\ reqDone' \in BOOLEAN /\ broken' \in BOOLEAN
BY ZenonT(60) DEF TypeOK, Next, vars, handlerVars, pumpVars, echoVars, HandlerStep, PumpStep,
     EchoStep, Begin, Handle, ClientEnds, ClientLost, InputCloses, PumpTake, PumpTakeEmpty,
     PumpEnd, PumpCtx, PumpWriteFails, CloseOnDone, OpenDump, EchoRead, DumpFails, EchoSkip, EchoEnd,
     EncodeFails, ReadMessage, ReadEOF, ReadError, Handler!Accept, Handler!HandleSucceeds,
     Handler!ReadOtherError, Handler!ReadClientDisconnected

\* Every step keeps the part of IInv that does not speak of packets.
LEMMA ControlStep ==
    ASSUME IInv, [Next]_vars
    PROVE  TypeOK' /\ Started' /\ Closing'
<1> USE DEF IInv
<1>0. streamOver' \in BOOLEAN /\ reqDone' \in BOOLEAN /\ broken' \in BOOLEAN BY BooleanStep
<1> USE DEF TypeOK, Started, Closing, Ended, PipeStates, Dump, CtxDone, ClosePipe
<1>1. CASE UNCHANGED vars
      BY <1>0, <1>1 DEF vars, handlerVars, pumpVars, echoVars
<1>2. CASE Begin
      BY <1>0, <1>2 DEF Begin, pumpVars, echoVars, Handler!Accept
<1>3. CASE Handle
      BY <1>0, <1>3 DEF Handle, Handler!HandleSucceeds, Handler!Commit, Handler!Committed
<1>4. CASE ClientEnds BY <1>0, <1>4 DEF ClientEnds, echoVars
<1>5. CASE ClientLost BY <1>0, <1>5 DEF ClientLost, echoVars
<1>6. CASE InputCloses BY <1>0, <1>6 DEF InputCloses, handlerVars, echoVars
<1>7. CASE PumpTake \/ PumpTakeEmpty
      BY <1>0, <1>7 DEF PumpTake, PumpTakeEmpty, handlerVars, echoVars
<1>8. CASE PumpStep
      BY <1>0, <1>8 DEF PumpStep, PumpEnd, PumpCtx, PumpWriteFails, handlerVars, echoVars
<1>9. CASE CloseOnDone BY <1>0, <1>9 DEF CloseOnDone, handlerVars, echoVars
<1>10. CASE EchoStep
      BY <1>0, <1>10 DEF EchoStep, OpenDump, EchoRead, DumpFails, EchoSkip, EchoEnd, EncodeFails, handlerVars,
         pumpVars, echoVars
<1>11. CASE ReadMessage
  <2>1. body' \in Seq(Handler!MessageType) /\ status' \in Int
    <3>1. PICK kind \in {"result", "error"} : kind = IF echo = "encode" THEN "result" ELSE "error"
          OBVIOUS
    <3>2. CASE Handler!WriteMessage(kind) BY <3>2, WriteMessageBody
    <3>3. CASE Handler!Return("writeError", 500) /\ UNCHANGED body
          BY <3>3 DEF Handler!Return, Handler!Commit, Handler!Committed
    <3>4. QED BY <1>11, <3>1, <3>2, <3>3 DEF ReadMessage
  <2>2. \/ UNCHANGED <<pc, cause>>
        \/ pc' = "done"
        BY <1>11 DEF ReadMessage, Handler!Return
  <2>3. QED BY <1>0, <1>11, <2>1, <2>2 DEF ReadMessage, pumpVars
<1>12. CASE ReadEOF
      BY <1>0, <1>12 DEF ReadEOF, pumpVars, echoVars, Handler!Return, Handler!Commit, Handler!Committed
<1>13. CASE ReadError
  <2>1. /\ pc = "read" /\ pc' = "done" /\ body' \in Seq(Handler!MessageType) /\ status' \in Int
        /\ UNCHANGED <<conf, streamOver, attempt, connects>>
    <3>1. CASE Handler!ReadClientDisconnected
          BY <3>1 DEF Handler!ReadClientDisconnected, Handler!Return, Handler!Commit,
             Handler!Committed
    <3>2. CASE Handler!ReadOtherError
      <4>1. CASE Handler!WriteMessage("error")
            BY <3>2, <4>1, WriteMessageBody DEF Handler!ReadOtherError, Handler!ReportAndReturn
      <4>2. CASE UNCHANGED body /\ status' = Handler!Commit(500)
            BY <3>2, <4>2 DEF Handler!ReadOtherError, Handler!ReportAndReturn, Handler!Commit,
               Handler!Committed
      <4>3. QED BY <3>2, <4>1, <4>2 DEF Handler!ReadOtherError, Handler!ReportAndReturn
    <3>3. QED BY <1>13, <3>1, <3>2 DEF ReadError
  <2>2. QED BY <1>0, <1>13, <2>1 DEF ReadError, pumpVars, echoVars
<1>14. QED
      BY <1>1, <1>2, <1>3, <1>4, <1>5, <1>6, <1>7, <1>8, <1>9, <1>10, <1>11, <1>12, <1>13
      DEF Next, HandlerStep

\* Steps of the request handler other than the reading of a message: the
\* packets stay where they are.
LEMMA ReturnKeepsPackets ==
    ASSUME IInv, pc = "read", pc' = "done", echo = "done",
           UNCHANGED <<conf, pumpVars, echoVars>>,
           \/ UNCHANGED body
           \/ Handler!WriteMessage("error")
    PROVE  InFlight' /\ Answered' /\ Reported' /\ Recorded'
<1> USE DEF IInv, pumpVars, echoVars, Dump
<1>1. Answers' = Answers /\ Answers \in {held - 1, held} /\ held \in Nat
  <2>1. CASE UNCHANGED body BY <2>1 DEF Answers, Answered, TypeOK
  <2>2. CASE Handler!WriteMessage("error")
        BY <2>2, WriteMessageBody DEF Answered, TypeOK
  <2>3. QED BY <2>1, <2>2
<1>2. Answered' BY <1>1 DEF Answered
<1>3. InFlight' BY DEF InFlight
<1>4. Reported' BY DEF Reported
<1>5. Recorded' BY DEF Recorded, OnFile
<1>6. QED BY <1>2, <1>3, <1>4, <1>5

\* Every step keeps the part of IInv about packets, answers and the file.
LEMMA PacketStep ==
    ASSUME IInv, [Next]_vars
    PROVE  InFlight' /\ Answered' /\ Reported' /\ Recorded'
<1> USE DEF IInv
<1>0. held \in Nat /\ fed \in Nat BY DEF TypeOK
<1>1. ASSUME UNCHANGED <<conf, pc, body, fed, pump, outW, held, dump>>,
             echo' = echo \/ (echo = "idle" /\ echo' = "open")
      PROVE  InFlight' /\ Answered' /\ Reported' /\ Recorded'
  <2>1. Answers' = Answers BY <1>1 DEF Answers
  <2>2. pc = "done" => echo # "idle" BY DEF Started
  <2>3. QED BY <1>0, <1>1, <2>1, <2>2 DEF InFlight, Answered, Reported, HasError, Recorded, Dump, OnFile,
            Closing
<1>2. CASE UNCHANGED vars \/ ClientEnds \/ ClientLost \/ InputCloses \/ CloseOnDone
      BY <1>1, <1>2 DEF vars, handlerVars, pumpVars, echoVars, ClientEnds, ClientLost,
         InputCloses, CloseOnDone
<1>3. CASE Begin
  <2>1. /\ UNCHANGED <<conf, body, fed, pump, echo, outW, held, dump>>
        /\ pc = "start" /\ pc' = "handle"
        BY <1>3 DEF Begin, pumpVars, echoVars, Handler!Accept
  <2>2. Answers' = Answers BY <2>1 DEF Answers
  <2>3. QED BY <1>0, <2>1, <2>2 DEF InFlight, Answered, Reported, HasError, Recorded, Dump, OnFile
<1>4. CASE Handle
  <2>1. /\ UNCHANGED <<conf, body, fed, outW, held, dump>> /\ pump' = "select"
        /\ pc = "handle" /\ pc' = "read" /\ echo' \in {"open", "read"}
        BY <1>4 DEF Handle, Handler!HandleSucceeds
  <2>2. Answers' = Answers BY <2>1 DEF Answers
  <2>3. pump = "idle" /\ echo = "idle" /\ body = <<>> /\ outW = "open"
        BY <2>1 DEF Started, Closing, TypeOK
  <2>4. QED BY <1>0, <2>1, <2>2, <2>3 DEF InFlight, Answered, Reported, HasError, Recorded, Dump, OnFile
<1>5. CASE PumpTake \/ PumpTakeEmpty \/ PumpStep
  <2>1. UNCHANGED <<conf, pc, body, echo, outW, held, dump>>
        BY <1>5 DEF PumpTake, PumpTakeEmpty, PumpStep, PumpEnd, PumpCtx, PumpWriteFails,
           handlerVars, echoVars
  <2>2. Answers' = Answers BY <2>1 DEF Answers
  <2>3. InFlight'
        BY <1>0, <1>5, EchoSessionAssumption DEF InFlight, PumpTake, PumpTakeEmpty, PumpStep, PumpEnd, PumpCtx,
           PumpWriteFails, handlerVars, echoVars
  <2>4. QED BY <2>1, <2>2, <2>3 DEF Answered, Reported, HasError, Recorded, Dump, OnFile
<1>6. CASE EchoRead
  <2>1. /\ UNCHANGED <<conf, pc, body, outW, fed>> /\ held' = fed /\ fed = held + 1
        /\ echo = "read" /\ echo' = "encode" /\ pump' = "select"
        /\ dump' = IF Dump THEN Append(dump, fed) ELSE dump
        BY <1>6 DEF EchoRead, handlerVars, InFlight
  <2>2. Answers' = Answers BY <2>1 DEF Answers
  <2>3. InFlight' BY <1>0, <2>1 DEF InFlight
  <2>4. Recorded' /\ (Dump' => OnFile(held)')
    <3>1. ASSUME Dump PROVE dump' = [i \in 1..held + 1 |-> i]
      <4>1. dump = [i \in 1..held |-> i] BY <2>1, <3>1 DEF Recorded, OnFile
      <4>2. dump' = Append(dump, held + 1) BY <2>1, <3>1
      <4>3. QED BY <1>0, <4>1, <4>2
    <3>2. QED BY <2>1, <3>1 DEF Recorded, OnFile, Dump
  <2>5. Dump => OnFile(held) BY <2>1 DEF Recorded
  <2>6. Answered'
    <3>1. Answers \in Nat BY AnswersType
    <3>2. QED BY <1>0, <2>1, <2>2, <2>4, <2>5, <3>1 DEF Answered, Dump
  <2>7. Reported' BY <2>1 DEF Reported, HasError, Dump, Closing
  <2>8. QED BY <2>3, <2>4, <2>6, <2>7
<1>11. CASE DumpFails
  <2>1. /\ UNCHANGED <<conf, pc, body, fed, dump>> /\ held' = fed /\ fed = held + 1
        /\ echo = "read" /\ echo' = "done" /\ outW' = "error" /\ pump' = "select" /\ Dump
        BY <1>11 DEF DumpFails, handlerVars, InFlight
  <2>2. Answers' = Answers BY <2>1 DEF Answers
  <2>3. InFlight' BY <1>0, <2>1 DEF InFlight
  <2>4. OnFile(held) BY <2>1 DEF Recorded
  <2>5. dump = [i \in 1..held |-> i] BY <2>4 DEF OnFile
  <2>6. ~OnFile(held)'
    <3>1. Len([i \in 1..held |-> i]) = held /\ Len([i \in 1..held + 1 |-> i]) = held + 1
          BY <1>0
    <3>2. dump # [i \in 1..held + 1 |-> i] BY <1>0, <2>5, <3>1
    <3>3. QED BY <2>1, <3>2 DEF OnFile
  <2>7. Recorded'
    <3>1. held' - 1 = held /\ held' > 0 BY <1>0, <2>1
    <3>2. dump' = [i \in 1..held' - 1 |-> i] BY <2>1, <2>5, <3>1
    <3>3. QED BY <2>1, <3>1, <3>2 DEF Recorded, OnFile
  <2>8. Answered'
    <3>1. Answers \in Nat BY AnswersType
    <3>2. QED BY <1>0, <2>1, <2>2, <2>4, <2>6, <3>1 DEF Answered, Dump
  <2>9. Reported' BY <2>1 DEF Reported, Dump
  <2>10. QED BY <2>3, <2>7, <2>8, <2>9
<1>7. CASE OpenDump \/ EchoSkip \/ EchoEnd \/ EncodeFails
  <2>1. UNCHANGED <<conf, pc, body, fed, held, dump>>
        BY <1>7 DEF OpenDump, EchoSkip, EchoEnd, EncodeFails, handlerVars, pumpVars, echoVars
  <2>2. Answers' = Answers BY <2>1 DEF Answers
  <2>3. InFlight'
        BY <2>1, <1>7 DEF InFlight, OpenDump, EchoSkip, EchoEnd, EncodeFails, pumpVars
  <2>4. Answered'
        BY <2>1, <2>2, <1>7 DEF Answered, OnFile, Dump, OpenDump, EchoSkip, EchoEnd, EncodeFails,
           echoVars
  <2>5. Reported'
        BY <2>1, <1>7 DEF Reported, HasError, Closing, Dump, OpenDump, EchoSkip, EchoEnd, EncodeFails,
           echoVars
  <2>6. Recorded'
        BY <2>1, <1>7 DEF Recorded, OnFile, Dump, OpenDump, EchoSkip, EchoEnd, EncodeFails
  <2>7. QED BY <2>3, <2>4, <2>5, <2>6
<1>8. CASE ReadEOF
  <2>1. echo = "done" BY <1>8 DEF ReadEOF, Closing
  <2>2. QED BY <1>8, <2>1, ReturnKeepsPackets DEF ReadEOF, Handler!Return
<1>9. CASE ReadError
  <2>1. echo = "done" BY <1>9 DEF ReadError, Closing
  <2>2. QED BY <1>9, <2>1, ReturnKeepsPackets DEF ReadError, Handler!Return,
           Handler!ReadOtherError, Handler!ReadClientDisconnected, Handler!ReportAndReturn
<1>10. CASE ReadMessage
  <2> DEFINE kind == IF echo = "encode" THEN "result" ELSE "error"
  <2>1. /\ UNCHANGED <<conf, fed, pump, held, dump>> /\ pc = "read"
        /\ \/ echo = "encode" /\ echo' = "read" /\ UNCHANGED outW
           \/ echo = "report" /\ echo' = "done" /\ outW' = why
        BY <1>10 DEF ReadMessage, pumpVars
  <2>2. InFlight' /\ Recorded' /\ (Dump => OnFile(held)) /\ (OnFile(held)' <=> OnFile(held))
        BY <2>1 DEF InFlight, Recorded, Dump, OnFile
  <2>3. \A i \in 1..Len(body) : body[i].kind = "result" BY <2>1 DEF Reported
  <2>4. Answers = held - IF echo = "encode" THEN 1 ELSE 0 BY <2>1, <2>2 DEF Answered
  <2>5. CASE Handler!WriteMessage(kind) /\ UNCHANGED <<pc, cause>>
    <3>1. /\ Len(body) \in Nat /\ Len(body') = Len(body) + 1
          /\ \A i \in 1..Len(body) : body'[i] = body[i]
          /\ body'[Len(body) + 1].kind = kind
          /\ Answers' = Answers + IF kind = "result" THEN 1 ELSE 0
          BY <2>5, WriteMessageBody
    <3>2. Answered' BY <1>0, <2>1, <2>2, <2>4, <2>5, <3>1 DEF Answered, Dump
    <3>3. Reported' BY <2>1, <2>3, <2>5, <3>1 DEF Reported, HasError, Closing, Dump, TypeOK
    <3>4. QED BY <2>2, <3>2, <3>3
  <2>6. CASE Handler!Return("writeError", 500) /\ UNCHANGED body
    <3>1. pc' = "done" BY <2>6 DEF Handler!Return
    <3>2. Answers' = Answers BY <2>6 DEF Answers
    <3>3. Answered' BY <1>0, <2>1, <2>4, <3>1, <3>2 DEF Answered
    <3>4. Reported' BY <3>1 DEF Reported
    <3>5. QED BY <2>2, <3>3, <3>4
  <2>7. QED BY <1>10, <2>5, <2>6 DEF ReadMessage
<1>12. QED
      BY <1>2, <1>3, <1>4, <1>5, <1>6, <1>7, <1>8, <1>9, <1>10, <1>11
      DEF Next, HandlerStep, EchoStep, PumpStep

\* Every step keeps the way of a broken input to the answers of /test.
LEMMA UpstreamStep ==
    ASSUME IInv, [Next]_vars
    PROVE  Upstream' /\ Passed'
<1> USE DEF IInv, Dump
<1>1. ASSUME reqDone' \/ pc' = "done" PROVE Upstream' /\ Passed'
      BY <1>1 DEF Upstream, Passed
<1>2. ASSUME UNCHANGED <<conf, reqDone, input, broken, pump, inW, why, outW>>,
             pc # "done" \/ pc' = "done",
             echo' = echo \/ echo' \notin {"report", "done"}
      PROVE  Upstream' /\ Passed'
  <2>1. CASE pc' = "done" \/ reqDone BY <1>1, <1>2, <2>1
  <2>2. CASE pc' # "done" /\ ~reqDone
    <3>1. Upstream' BY <1>2, <2>2 DEF Upstream
    <3>2. Passed' BY <1>2, <2>2 DEF Passed
    <3>3. QED BY <3>1, <3>2
  <2>3. QED BY <2>1, <2>2
<1>3. CASE UNCHANGED vars \/ Begin
      BY <1>2, <1>3 DEF vars, handlerVars, pumpVars, echoVars, Begin, Handler!Accept
<1>4. CASE ClientLost BY <1>1, <1>4 DEF ClientLost
<1>5. CASE ReadEOF \/ ReadError
      BY <1>1, <1>5 DEF ReadEOF, ReadError, Handler!Return, Handler!ReadOtherError,
         Handler!ReadClientDisconnected, Handler!ReportAndReturn
<1>6. ASSUME CtxDone, UNCHANGED <<pc, reqDone>> PROVE Upstream' /\ Passed'
      BY <1>1, <1>6 DEF CtxDone
<1>7. CASE InputCloses \/ CloseOnDone \/ PumpCtx
      BY <1>6, <1>7 DEF InputCloses, CloseOnDone, PumpCtx, handlerVars
<1>8. CASE EncodeFails BY <1>1, <1>8 DEF EncodeFails, handlerVars
<1>9. CASE Handle
  <2>1. /\ UNCHANGED <<conf, reqDone, input, broken, inW, why, outW>> /\ pump' = "select"
        /\ pc = "handle" /\ echo' \in {"open", "read"} /\ pump = "idle"
        BY <1>9 DEF Handle, Handler!HandleSucceeds, Started
  <2>2. QED BY <2>1 DEF Upstream, Passed
<1>10. CASE ClientEnds
  <2>1. /\ UNCHANGED <<conf, pc, reqDone, pump, inW, why, outW, echo>>
        /\ input = "open" /\ input' \in {"eof", "error"} /\ (broken' => input' = "error")
        BY <1>10 DEF ClientEnds, echoVars
  <2>2. CASE reqDone \/ pc = "done" BY <1>1, <2>1, <2>2
  <2>3. CASE ~reqDone /\ pc # "done"
        BY <2>1, <2>3 DEF Upstream, Passed
  <2>4. QED BY <2>2, <2>3
<1>11. CASE PumpTake \/ PumpTakeEmpty \/ PumpWriteFails
      BY <1>11 DEF PumpTake, PumpTakeEmpty, PumpWriteFails, handlerVars, echoVars, Upstream, Passed
<1>12. CASE PumpEnd
      BY <1>12 DEF PumpEnd, ClosePipe, handlerVars, echoVars, Upstream, Passed, TypeOK
<1>13. CASE OpenDump
      BY <1>13 DEF OpenDump, handlerVars, pumpVars, Upstream, Passed, Closing
<1>14. CASE EchoRead \/ DumpFails \/ EchoSkip
      BY <1>14 DEF EchoRead, DumpFails, EchoSkip, handlerVars, echoVars, Upstream, Passed
<1>15. CASE EchoEnd
      BY <1>15 DEF EchoEnd, handlerVars, pumpVars, Upstream, Passed
<1>16. CASE ReadMessage
  <2>1. /\ UNCHANGED <<conf, reqDone, pumpVars, why>> /\ pc = "read"
        /\ \/ echo = "encode" /\ echo' = "read" /\ UNCHANGED outW
           \/ echo = "report" /\ echo' = "done" /\ outW' = why
        BY <1>16 DEF ReadMessage
  <2>2. QED BY <2>1 DEF pumpVars, Upstream, Passed
<1>17. QED
      BY <1>3, <1>4, <1>5, <1>7, <1>8, <1>9, <1>10, <1>11, <1>12, <1>13, <1>14, <1>15, <1>16
      DEF Next, HandlerStep, PumpStep, EchoStep

\* A request that ends with a broken input says so.
LEMMA ReportStep ==
    ASSUME IInv, [Next]_vars
    PROVE  TestReportsBrokenInput'
<1> USE DEF IInv
<1> SUFFICES ASSUME conf'.service = "test", broken', ~reqDone', pc' = "done"
             PROVE  HasError'
    BY DEF TestReportsBrokenInput, HasError
<1>1. ASSUME UNCHANGED <<conf, reqDone, broken, pc, body>> PROVE HasError'
      BY <1>1 DEF TestReportsBrokenInput, HasError
<1>2. ASSUME pc' # "done" PROVE FALSE BY <1>2
<1>3. CASE ReadMessage
  <2>1. pc = "read" /\ (pc' = pc \/ reqDone') BY <1>3 DEF ReadMessage
  <2>2. QED BY <2>1
<1>4. CASE ReadEOF
  <2>1. /\ pc = "read" /\ outW = "eof" /\ UNCHANGED <<conf, reqDone, broken>>
        BY <1>4 DEF ReadEOF, pumpVars
  <2>2. echo = "done" /\ ~Dump BY <2>1 DEF Closing, Dump
  <2>3. QED BY <2>1, <2>2 DEF Passed
<1>5. CASE ReadError
  <2>1. /\ pc = "read" /\ outW \in {"error", "canceled"} /\ conf' = conf
        BY <1>5 DEF ReadError, Handler!ReadOtherError, Handler!ReadClientDisconnected,
           Handler!ReportAndReturn
  <2>2. HasError BY <2>1 DEF Reported, Dump
  <2>3. CASE UNCHANGED body BY <2>2, <2>3 DEF HasError
  <2>4. CASE Handler!WriteMessage("error")
    <3>1. /\ Len(body) \in Nat /\ Len(body') = Len(body) + 1
          /\ body'[Len(body) + 1].kind = "error"
          BY <2>4, WriteMessageBody
    <3>2. QED BY <3>1 DEF HasError
  <2>5. QED BY <1>5, <2>3, <2>4 DEF ReadError, Handler!ReadOtherError,
            Handler!ReadClientDisconnected, Handler!ReportAndReturn
<1>6. QED
      BY <1>1, <1>3, <1>4, <1>5 DEF Next, vars, handlerVars, pumpVars, echoVars, HandlerStep,
         PumpStep, EchoStep, Begin, Handle, ClientEnds, ClientLost, InputCloses, PumpTake,
         PumpTakeEmpty, PumpEnd, PumpCtx, PumpWriteFails, CloseOnDone, OpenDump, EchoRead,
         DumpFails, EchoSkip, EchoEnd, EncodeFails, Handler!Accept, Handler!HandleSucceeds

\* IInv holds in every execution.
LEMMA IInvHolds == Spec => []IInv
<1>1. IInv /\ [Next]_vars => IInv'
      BY ControlStep, PacketStep, UpstreamStep, ReportStep DEF IInv
<1>2. QED BY <1>1, IInvInit, PTL DEF Spec

-----------------------------------------------------------------------------
(* What the routes promise *)

\* However many packets the client sends and whenever it leaves: the dump file
\* has every packet that was read, in order, but one whose write failed, and the
\* response answers all of them but that one and the one in hand.
THEOREM EchoesInOrder == Spec => []EchoInOrder
<1>1. IInv => EchoInOrder
      BY AnswersType DEF IInv, TypeOK, InFlight, Answered, Recorded, EchoInOrder
<1>2. QED BY <1>1, IInvHolds, PTL

\* A /test request whose client broke the framing, and that is over before its
\* context is cancelled, has an error message in its response.
THEOREM BrokenInputReported == Spec => []TestReportsBrokenInput
<1>1. IInv => TestReportsBrokenInput BY DEF IInv
<1>2. QED BY <1>1, IInvHolds, PTL

-----------------------------------------------------------------------------
(* The request handler above the goroutines *)

\* What the handler reads is a message SpeechHandler allows: there is room for
\* it, nothing follows a report, and only /test reports, after its client.
LEMMA MessageAllowed ==
    ASSUME IInv, pc = "read", echo \in {"encode", "report"}
    PROVE  /\ Len(body) < MaxBody
           /\ (IF echo = "encode" THEN "result" ELSE "error") \in Handler!MessageKinds
<1> USE DEF IInv
<1>1. \A i \in 1..Len(body) : body[i].kind = "result" BY DEF Reported
<1>2. Len(body) \in Nat /\ held \in Nat /\ fed \in Nat BY DEF TypeOK
<1>3. ~Handler!ErrorSent
  <2>1. ASSUME body # <<>> PROVE body[Len(body)].kind = "result"
    <3>1. Len(body) \in 1..Len(body) BY <2>1, <1>2 DEF TypeOK
    <3>2. QED BY <3>1, <1>1
  <2>2. Handler!Message("error").kind = "error" BY DEF Handler!Message
  <2>3. QED BY <2>1, <2>2 DEF Handler!ErrorSent
<1>4. Len(body) = Answers
  <2>1. {i \in 1..Len(body) : body[i].kind = "result"} = 1..Len(body)
    BY ONLY <1>1
  <2>2. Cardinality(1..Len(body)) = Len(body)
    <3>1. PICK n \in Nat : n = Len(body) BY <1>2
    <3>2. 1 \in Int /\ n \in Int BY ONLY <3>1
    <3>3. Cardinality(1..n) = IF 1 > n THEN 0 ELSE n - 1 + 1 BY ONLY <3>2, FS_Interval
    <3>4. Cardinality(1..n) = n BY ONLY <3>1, <3>3
    <3>5. QED BY ONLY <3>1, <3>4
  <2>3. QED BY <2>1, <2>2 DEF Answers
<1>5. Answers <= held BY <1>2 DEF Answered
<1>6. Len(body) < MaxBody BY <1>2, <1>4, <1>5, EchoSessionAssumption DEF InFlight
<1>7. echo = "report" => conf.service = "test" /\ streamOver
      BY EchoSessionAssumption DEF Closing, Ended, Dump, TypeOK
<1>8. QED BY <1>3, <1>6, <1>7 DEF Handler!MessageKinds, Handler!Service

\* The end echo closes its pipe with is one SpeechHandler allows, and its guard
\* for the errors of /test never holds the handler back.
LEMMA EndAllowed ==
    ASSUME IInv, pc = "read"
    PROVE  /\ outW = "eof" => streamOver
           /\ outW # "open" /\ conf.service = "test" => streamOver
BY DEF IInv, Closing, Ended, Dump

\* Every step is a step of SpeechHandler or leaves its variables alone.
LEMMA HandlerStepImplemented ==
    ASSUME IInv, [Next]_vars
    PROVE  [Handler!Next]_(Handler!vars)
<1> USE DEF Handler!vars
<1>1. ASSUME UNCHANGED handlerVars PROVE UNCHANGED Handler!vars
      BY <1>1 DEF handlerVars
<1>2. CASE Begin BY <1>2 DEF Begin, Handler!Next
<1>3. CASE Handle BY <1>3 DEF Handle, Handler!Next, Handler!HandleReturns
<1>4. CASE ClientEnds \/ ClientLost
  <2>1. /\ pc # "done" /\ streamOver' = TRUE
        /\ UNCHANGED <<conf, pc, retryCount, attempt, connects, status, body, cause>>
        BY <1>4 DEF ClientEnds, ClientLost
  <2>2. CASE ~streamOver
        BY <2>1, <2>2 DEF Handler!ClientLeaves, Handler!Next
  <2>3. CASE streamOver
    <3>1. streamOver \in BOOLEAN BY DEF IInv, TypeOK
    <3>2. streamOver' = streamOver BY Zenon, <2>1, <2>3, <3>1
    <3>3. QED BY <2>1, <3>2
  <2>4. QED BY <2>2, <2>3
<1>5. CASE ReadMessage
  <2> DEFINE kind == IF echo = "encode" THEN "result" ELSE "error"
  <2>1. Len(body) < MaxBody /\ kind \in Handler!MessageKinds /\ Handler!MessageKinds # {}
        BY <1>5, MessageAllowed DEF ReadMessage
  <2>2. reqDone => streamOver BY DEF IInv, Closing
  <2>3. Handler!ReadMessage
        BY <1>5, <2>1, <2>2 DEF ReadMessage, Handler!ReadMessage
  <2>4. QED BY <2>3 DEF Handler!Next, Handler!ReadReturns
<1>6. CASE ReadEOF
  <2>1. Handler!ReadEOF BY <1>6, EndAllowed DEF ReadEOF, Handler!ReadEOF
  <2>2. QED BY <2>1 DEF Handler!Next, Handler!ReadReturns
<1>7. CASE ReadError
      BY <1>7 DEF ReadError, Handler!Next, Handler!ReadReturns
<1>8. QED
      BY <1>1, <1>2, <1>3, <1>4, <1>5, <1>6, <1>7 DEF Next, vars, HandlerStep, PumpStep, EchoStep,
         InputCloses, PumpTake, PumpTakeEmpty, PumpEnd, PumpCtx, PumpWriteFails, CloseOnDone,
         OpenDump, EchoRead, DumpFails, EchoSkip, EchoEnd, EncodeFails

\* The goroutines of /test and /dump, whatever the number of packets and however
\* they interleave, give the request handler only what SpeechHandler lets the
\* reader of these services yield.
THEOREM EchoImplementsHandler == Spec => HandlerImplemented
<1>1. Init => Handler!Init BY DEF Init
<1>2. IInv /\ [Next]_vars => [Handler!Next]_(Handler!vars)
      BY HandlerStepImplemented
<1>3. QED BY <1>1, <1>2, IInvHolds, PTL DEF Spec, HandlerImplemented, Handler!Spec

-----------------------------------------------------------------------------
(* What SpeechHandlerProofs proves of the request handler holds here *)

Proved == INSTANCE SpeechHandlerProofs

\* Both instances are the same specification.
LEMMA SameHandler == Handler!Spec => Proved!Spec
<1>1. Handler!Init => Proved!Init BY DEF Handler!Init, Proved!Init
<1>2. [Handler!Next]_(Handler!vars) => [Proved!Next]_(Proved!vars)
      BY Zenon
      DEF Handler!Next, Handler!ClientLeaves, Handler!Reject, Handler!Accept,
          Handler!HandleReturns, Handler!RetryWaitEnds, Handler!ReadReturns,
          Handler!HandleSucceeds, Handler!HandleEnds, Handler!HandleSendEOF,
          Handler!HandleRetryable, Handler!HandleSuzuError, Handler!HandleConfError,
          Handler!HandleOtherError, Handler!RetryTimerFires, Handler!RetryInterrupted,
          Handler!ReadMessage, Handler!ReadEOF, Handler!ReadClientDisconnected,
          Handler!DisconnectedReconnect, Handler!DisconnectedGiveUp,
          Handler!ReadOtherError, Handler!vars, Handler!Return, Handler!Commit,
          Handler!Committed, Handler!ReportAndReturn, Handler!WriteMessage,
          Handler!Message, Handler!AdmissionStatus, Handler!LanguageAccepted,
          Handler!Service, Handler!MaxRetry, Handler!Aws, Handler!Gcp, Handler!Remote,
          Handler!RegisteredServices, Handler!SuzuErrors, Handler!MessageKinds,
          Handler!ErrorSent, Proved!Next, Proved!ClientLeaves, Proved!Reject,
          Proved!Accept, Proved!HandleReturns, Proved!RetryWaitEnds, Proved!ReadReturns,
          Proved!HandleSucceeds, Proved!HandleEnds, Proved!HandleSendEOF,
          Proved!HandleRetryable, Proved!HandleSuzuError, Proved!HandleConfError,
          Proved!HandleOtherError, Proved!RetryTimerFires, Proved!RetryInterrupted,
          Proved!ReadMessage, Proved!ReadEOF, Proved!ReadClientDisconnected,
          Proved!DisconnectedReconnect, Proved!DisconnectedGiveUp,
          Proved!ReadOtherError, Proved!vars, Proved!Return, Proved!Commit,
          Proved!Committed, Proved!ReportAndReturn, Proved!WriteMessage, Proved!Message,
          Proved!AdmissionStatus, Proved!LanguageAccepted, Proved!Service,
          Proved!MaxRetry, Proved!Aws, Proved!Gcp, Proved!Remote,
          Proved!RegisteredServices, Proved!SuzuErrors, Proved!MessageKinds,
          Proved!ErrorSent
<1>3. QED BY <1>1, <1>2, PTL DEF Handler!Spec, Proved!Spec

\* With the goroutines of /test or /dump at work, the request keeps what the
\* handler promises: an honest status, no retries, messages in order, failures
\* reported.
THEOREM EchoKeepsPromises ==
    Spec => [](/\ Handler!HonestStatus
               /\ Handler!RetryBudget
               /\ Handler!BodyOrder
               /\ Handler!OnlyReconnectsFailSilently)
<1>1. Proved!SpeechHandlerAssumption
      BY EchoSessionAssumption DEF Proved!SpeechHandlerAssumption
<1>2. Proved!HonestStatus => Handler!HonestStatus
      BY Zenon DEF Proved!HonestStatus, Handler!HonestStatus, Proved!Committed, Handler!Committed,
         Proved!ErrorSent, Handler!ErrorSent, Proved!Message, Handler!Message
<1>3. Proved!RetryBudget => Handler!RetryBudget
      BY Zenon DEF Proved!RetryBudget, Handler!RetryBudget, Proved!MaxRetry, Handler!MaxRetry
<1>4. Proved!BodyOrder => Handler!BodyOrder
      BY Zenon DEF Proved!BodyOrder, Handler!BodyOrder
<1>5. Proved!OnlyReconnectsFailSilently => Handler!OnlyReconnectsFailSilently
      BY Zenon DEF Proved!OnlyReconnectsFailSilently, Handler!OnlyReconnectsFailSilently,
         Proved!FailureIsReported, Handler!FailureIsReported, Proved!Failures, Handler!Failures,
         Proved!ErrorSent, Handler!ErrorSent, Proved!Message, Handler!Message
<1>6. QED
      BY <1>1, <1>2, <1>3, <1>4, <1>5, SameHandler, EchoImplementsHandler,
         Proved!StatusIsHonest, Proved!RetriesBounded, Proved!BodyOrdered,
         Proved!FailuresReported, PTL
      DEF HandlerImplemented
=============================================================================
