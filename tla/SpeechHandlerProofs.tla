------------------------ MODULE SpeechHandlerProofs ------------------------
(* For every service, max_retry and request: the type invariant of         *)
(* SpeechHandler, and the safety invariants built on it.                   *)
EXTENDS SpeechHandler, TLAPS

USE SpeechHandlerAssumption

-----------------------------------------------------------------------------
(* Type correctness *)

\* The response only grows by messages of the right type, and a committed
\* status stays an integer.
LEMMA WriteMessageType ==
    ASSUME TypeOK, NEW kind \in {"result", "error"}, WriteMessage(kind)
    PROVE  body' \in Seq(MessageType) /\ status' \in Int
BY DEF TypeOK, WriteMessage, Message, MessageType, Commit, Committed

\* Returning sets a status and a cause of the right type.
LEMMA ReportAndReturnType ==
    ASSUME TypeOK, NEW why \in Causes, ReportAndReturn(why)
    PROVE  /\ pc' = "done" /\ cause' \in Causes
           /\ body' \in Seq(MessageType) /\ status' \in Int
<1>1. CASE WriteMessage("error") /\ cause' = why
      BY <1>1, WriteMessageType DEF ReportAndReturn
<1>2. CASE UNCHANGED body /\ cause' = "writeError" /\ status' = Commit(500)
      BY <1>2 DEF ReportAndReturn, TypeOK, Causes, Commit, Committed
<1>3. QED BY <1>1, <1>2 DEF ReportAndReturn

\* Codes of SuzuErrors are integers other than 200.
LEMMA SuzuErrorCodes ==
    ASSUME NEW e \in SuzuErrors
    PROVE  e.code \in Int /\ e.code # 200
BY DEF SuzuErrors

\* Every step keeps the types.
LEMMA TypeOKStep == TypeOK /\ [Next]_vars => TypeOK'
<1> SUFFICES ASSUME TypeOK, [Next]_vars PROVE TypeOK' OBVIOUS
<1>1. CASE ClientLeaves BY <1>1 DEF TypeOK, ClientLeaves
<1>2. CASE Reject
      BY <1>2 DEF TypeOK, Reject, Return, Commit, Committed, Causes, AdmissionStatus
<1>3. CASE Accept BY <1>3 DEF TypeOK, Accept
<1>4. CASE HandleSucceeds BY <1>4 DEF TypeOK, HandleSucceeds, Commit, Committed
<1>5. CASE HandleEnds BY <1>5 DEF TypeOK, HandleEnds, Return, Commit, Committed, Causes
<1>6. CASE HandleSendEOF
      BY <1>6 DEF TypeOK, HandleSendEOF, Return, Commit, Committed, Causes
<1>7. CASE HandleRetryable BY <1>7 DEF TypeOK, HandleRetryable
<1>8. CASE HandleSuzuError
      BY <1>8, SuzuErrorCodes DEF TypeOK, HandleSuzuError, Return, Commit, Committed, Causes
<1>9. CASE HandleConfError
      BY <1>9, ReportAndReturnType DEF TypeOK, HandleConfError, Causes
<1>10. CASE HandleOtherError
      BY <1>10 DEF TypeOK, HandleOtherError, Return, Commit, Committed, Causes
<1>11. CASE RetryTimerFires
      BY <1>11 DEF TypeOK, RetryTimerFires, Return, Commit, Committed, Causes
<1>12. CASE RetryInterrupted
      BY <1>12 DEF TypeOK, RetryInterrupted, Return, Commit, Committed, Causes
<1>13. CASE ReadMessage
  <2>1. CASE \E kind \in MessageKinds : WriteMessage(kind) /\ UNCHANGED <<pc, cause>>
    <3>1. PICK kind \in MessageKinds : WriteMessage(kind) /\ UNCHANGED <<pc, cause>> BY <2>1
    <3>2. kind \in {"result", "error"} BY DEF MessageKinds
    <3>3. QED BY <1>13, <3>1, <3>2, WriteMessageType DEF TypeOK, ReadMessage
  <2>2. CASE Return("writeError", 500) /\ UNCHANGED body
        BY <1>13, <2>2 DEF TypeOK, ReadMessage, Return, Commit, Committed, Causes
  <2>3. QED BY <1>13, <2>1, <2>2 DEF ReadMessage
<1>14. CASE ReadEOF BY <1>14 DEF TypeOK, ReadEOF, Return, Commit, Committed, Causes
<1>15. CASE ReadClientDisconnected
      BY <1>15 DEF TypeOK, ReadClientDisconnected, Return, Commit, Committed, Causes
<1>16. CASE DisconnectedReconnect BY <1>16 DEF TypeOK, DisconnectedReconnect
<1>17. CASE DisconnectedGiveUp
      BY <1>17, ReportAndReturnType DEF TypeOK, DisconnectedGiveUp, Causes
<1>18. CASE ReadOtherError
      BY <1>18, ReportAndReturnType DEF TypeOK, ReadOtherError, Causes
<1>19. CASE UNCHANGED vars BY <1>19 DEF TypeOK, vars
<1>20. QED
      BY <1>1, <1>2, <1>3, <1>4, <1>5, <1>6, <1>7, <1>8, <1>9, <1>10, <1>11, <1>12,
         <1>13, <1>14, <1>15, <1>16, <1>17, <1>18, <1>19
      DEF Next, HandleReturns, RetryWaitEnds, ReadReturns

\* The initial states are well typed.
LEMMA TypeOKInit == Init => TypeOK
<1>1. <<>> \in Seq(MessageType) OBVIOUS
<1>2. Init => streamOver \in BOOLEAN BY Zenon DEF Init
<1>3. QED BY <1>1, <1>2 DEF Init, TypeOK, Causes

\* The variables of the request handler keep their types in every execution.
THEOREM TypeCorrect == Spec => []TypeOK
BY TypeOKInit, TypeOKStep, PTL DEF Spec

-----------------------------------------------------------------------------
(* The safety invariants.  None of them is inductive alone: each needs to  *)
(* know which attempt the handler is in and that only aws and gcp count.   *)

\* Where the handler is determines how many attempts have connected; messages
\* of a connected attempt only exist once it has connected.
Phase ==
    /\ pc # "done" => cause = "none"
    /\ pc = "start" => attempt = 0 /\ connects = 0 /\ body = <<>>
    /\ pc \in {"handle", "retryWait"} =>
          /\ attempt = connects + 1
          /\ \A i \in 1..Len(body) : body[i].attempt < attempt
    /\ pc = "read" => attempt = connects /\ connects > 0
    /\ \A i \in 1..Len(body) : body[i].attempt <= attempt

\* Only aws and gcp ever report a disconnection worth a retry.
OnlyRemoteCounts == ~Remote => retryCount = 0

IInv == TypeOK /\ Phase /\ OnlyRemoteCounts /\ HonestStatus /\ RetryBudget /\ BodyOrder

\* Appending a message keeps the messages before it.
LEMMA AppendMessage ==
    ASSUME NEW s \in Seq(MessageType), NEW m \in MessageType
    PROVE  /\ Append(s, m) \in Seq(MessageType)
           /\ Len(Append(s, m)) = Len(s) + 1
           /\ \A i \in 1..Len(s) : Append(s, m)[i] = s[i]
           /\ Append(s, m)[Len(s) + 1] = m
OBVIOUS

\* A handler that writes its report leaves the error message last.
LEMMA ReportIsLast ==
    ASSUME TypeOK, NEW why, ReportAndReturn(why), UNCHANGED <<streamOver, attempt>>
    PROVE  streamOver' \/ ErrorSent'
<1>1. CASE WriteMessage("error")
  <2>1. Message("error") \in MessageType BY DEF TypeOK, Message, MessageType
  <2>2. /\ Len(body') = Len(body) + 1 /\ Len(body) \in Nat
        /\ body'[Len(body) + 1] = Message("error")
        BY <1>1, <2>1, AppendMessage DEF TypeOK, WriteMessage
  <2>3. Message("error")' = Message("error") BY DEF Message
  <2>4. QED BY <2>2, <2>3 DEF ErrorSent
<1>2. CASE streamOver BY <1>2
<1>3. QED BY <1>1, <1>2 DEF ReportAndReturn

\* A step that leaves the body alone and returns keeps IInv, provided that
\* without a connection the status it asks for is a sound one.
LEMMA ReturnStep ==
    ASSUME IInv, pc # "done", TypeOK',
           UNCHANGED <<conf, streamOver, retryCount, attempt, connects, body>>,
           NEW why, NEW code \in Int, Return(why, code),
           connects = 0 => code # 0 /\ (code = 200 => streamOver \/ why = "sendEOF")
    PROVE  IInv'
<1>1. Phase' BY DEF IInv, Phase, Return
<1>2. OnlyRemoteCounts' BY DEF IInv, OnlyRemoteCounts, Remote, Aws, Gcp, Service
<1>3. HonestStatus' BY DEF IInv, HonestStatus, Return, Commit, Committed, TypeOK
<1>4. RetryBudget' BY DEF IInv, RetryBudget, MaxRetry, Return
<1>5. BodyOrder'
  <2>1. connects \in {attempt - 1, attempt} \/ pc = "start"
        BY DEF IInv, BodyOrder
  <2>2. QED BY <2>1 DEF IInv, BodyOrder, Phase, Return, TypeOK
<1>6. QED BY <1>1, <1>2, <1>3, <1>4, <1>5 DEF IInv

\* Reporting an error and returning keeps IInv, whether the write succeeds or
\* the client is found to be gone.
LEMMA ReportStep ==
    ASSUME IInv, pc \in {"handle", "read"}, TypeOK',
           UNCHANGED <<conf, streamOver, retryCount, attempt, connects>>,
           NEW why, ReportAndReturn(why)
    PROVE  IInv'
<1>0. TypeOK /\ TypeOK' BY DEF IInv
<1>1. CASE UNCHANGED body /\ cause' = "writeError" /\ status' = Commit(500)
  <2>1. Return("writeError", 500) BY <1>1 DEF Return, ReportAndReturn
  <2>2. QED BY <2>1, <1>1, <1>0, ReturnStep
<1>2. CASE WriteMessage("error") /\ cause' = why
  <2> DEFINE m == Message("error")
  <2>1. m \in MessageType /\ m.attempt = attempt /\ m.kind = "error"
        BY <1>0 DEF TypeOK, Message, MessageType
  <2>2. /\ body' = Append(body, m) /\ Len(body') = Len(body) + 1
        /\ \A i \in 1..Len(body) : body'[i] = body[i]
        /\ body'[Len(body) + 1] = m
        BY <1>0, <1>2, <2>1, AppendMessage DEF TypeOK, WriteMessage
  <2>3. pc' = "done" /\ Len(body) \in Nat BY <1>0 DEF ReportAndReturn, TypeOK
  <2>4. Phase' BY <1>0, <2>1, <2>2, <2>3 DEF IInv, Phase, TypeOK
  <2>5. OnlyRemoteCounts' BY DEF IInv, OnlyRemoteCounts, Remote, Aws, Gcp, Service
  <2>6. HonestStatus'
    <3>1. status' # 0 BY <1>2 DEF WriteMessage, Commit, Committed
    <3>2. ErrorSent'
      <4>1. m' = m BY DEF Message
      <4>2. QED BY <2>2, <2>3, <4>1 DEF ErrorSent
    <3>3. QED BY <2>3, <3>1, <3>2 DEF HonestStatus, Committed
  <2>7. RetryBudget' BY <2>3 DEF IInv, RetryBudget, MaxRetry
  <2>8. BodyOrder'
    <3>1. \A i, j \in 1..Len(body') : i < j => body'[i].attempt <= body'[j].attempt
      <4>1. TAKE i, j \in 1..Len(body')
      <4>2. HAVE i < j
      <4>3. i \in 1..Len(body) /\ body'[i] = body[i] BY <4>1, <4>2, <2>2, <2>3
      <4>4. CASE j \in 1..Len(body)
            BY <4>2, <4>3, <4>4, <2>2 DEF IInv, BodyOrder
      <4>5. CASE j = Len(body) + 1
        <5>1. body[i].attempt <= attempt BY <4>3, <1>0 DEF IInv, Phase
        <5>2. body'[j].attempt = attempt BY <4>5, <2>1, <2>2, Zenon
        <5>3. QED BY <5>1, <5>2, <4>3
      <4>6. QED BY <4>1, <4>4, <4>5, <2>2, <2>3
    <3>2. connects' \in {attempt' - 1, attempt'} BY <1>0 DEF IInv, BodyOrder
    <3>3. \A i \in 1..Len(body') - 1 :
             body'[i].kind = "error" /\ body'[i].attempt = body'[i+1].attempt
                => pc' = "done" /\ i + 1 = Len(body') /\ body'[i+1].kind = "error"
      <4>1. TAKE i \in 1..Len(body') - 1
      <4>2. CASE i = Len(body) BY <4>2, <2>1, <2>2, <2>3
      <4>3. CASE i \in 1..Len(body) - 1
            BY <4>3, <2>2, <2>3 DEF IInv, BodyOrder
      <4>4. QED BY <4>1, <4>2, <4>3, <2>2, <2>3
    <3>4. QED BY <3>1, <3>2, <3>3 DEF BodyOrder
  <2>9. QED BY <1>0, <2>4, <2>5, <2>6, <2>7, <2>8 DEF IInv
<1>3. QED BY <1>1, <1>2 DEF ReportAndReturn

\* Forwarding a message of the connected attempt keeps IInv: the service
\* handler writes nothing after its own error message.
LEMMA MessageStep ==
    ASSUME IInv, pc = "read", TypeOK', ~ErrorSent,
           UNCHANGED <<conf, pc, cause, streamOver, retryCount, attempt, connects>>,
           NEW kind \in {"result", "error"}, WriteMessage(kind)
    PROVE  IInv'
<1> DEFINE m == Message(kind)
<1>0. TypeOK /\ TypeOK' BY DEF IInv
<1>1. m \in MessageType /\ m.attempt = attempt /\ m.kind = kind
      BY <1>0 DEF TypeOK, Message, MessageType
<1>2. /\ body' = Append(body, m) /\ Len(body') = Len(body) + 1
      /\ \A i \in 1..Len(body) : body'[i] = body[i]
      /\ body'[Len(body) + 1] = m
      BY <1>0, <1>1, AppendMessage DEF TypeOK, WriteMessage
<1>3. Len(body) \in Nat BY <1>0 DEF TypeOK
<1>4. Phase' BY <1>0, <1>1, <1>2, <1>3 DEF IInv, Phase, TypeOK
<1>5. OnlyRemoteCounts' BY DEF IInv, OnlyRemoteCounts, Remote, Aws, Gcp, Service
<1>6. HonestStatus'
      BY <1>0 DEF IInv, HonestStatus, Phase, Committed, Commit, WriteMessage
<1>7. RetryBudget' BY DEF IInv, RetryBudget, MaxRetry
<1>8. BodyOrder'
  <2>1. \A i, j \in 1..Len(body') : i < j => body'[i].attempt <= body'[j].attempt
    <3>1. TAKE i, j \in 1..Len(body')
    <3>2. HAVE i < j
    <3>3. i \in 1..Len(body) BY <3>2, <1>2, <1>3
    <3>4. CASE j = Len(body) + 1
          BY <3>3, <3>4, <1>0, <1>1, <1>2 DEF IInv, Phase
    <3>5. CASE j \in 1..Len(body)
          BY <3>2, <3>3, <3>5, <1>2 DEF IInv, BodyOrder
    <3>6. QED BY <3>4, <3>5, <1>2, <1>3
  <2>2. connects' \in {attempt' - 1, attempt'} BY DEF IInv, BodyOrder
  <2>3. ~(Len(body) >= 1 /\ body[Len(body)].kind = "error" /\ body[Len(body)].attempt = attempt)
    <3>1. ASSUME Len(body) >= 1 PROVE body # <<>> /\ body[Len(body)] \in MessageType
          BY <3>1, <1>0 DEF TypeOK
    <3>2. QED BY <3>1 DEF ErrorSent, Message, MessageType
  <2>4. \A i \in 1..Len(body') - 1 :
           body'[i].kind = "error" /\ body'[i].attempt = body'[i+1].attempt
              => pc' = "done" /\ i + 1 = Len(body') /\ body'[i+1].kind = "error"
    <3>1. TAKE i \in 1..Len(body') - 1
    <3>2. CASE i = Len(body) BY <3>2, <2>3, <1>1, <1>2, <1>3
    <3>3. CASE i \in 1..Len(body) - 1
          BY <3>3, <1>2, <1>3 DEF IInv, BodyOrder
    <3>4. QED BY <3>1, <3>2, <3>3, <1>2, <1>3
  <2>5. QED BY <2>1, <2>2, <2>4 DEF BodyOrder
<1>9. QED BY <1>0, <1>4, <1>5, <1>6, <1>7, <1>8 DEF IInv

\* Every step keeps IInv.
LEMMA IInvStep == IInv /\ [Next]_vars => IInv'
<1> SUFFICES ASSUME IInv, [Next]_vars PROVE IInv' OBVIOUS
<1>0. TypeOK /\ TypeOK' BY TypeOKStep DEF IInv
<1>1. CASE UNCHANGED vars
  <2>1. Phase' BY <1>1 DEF IInv, Phase, vars, Committed
  <2>2. OnlyRemoteCounts' BY <1>1 DEF IInv, OnlyRemoteCounts, vars, Remote, Aws, Gcp, Service
  <2>3. HonestStatus' BY <1>1 DEF IInv, HonestStatus, vars, Committed, ErrorSent, Message
  <2>4. RetryBudget' BY <1>1 DEF IInv, RetryBudget, MaxRetry, vars
  <2>5. BodyOrder' BY <1>1 DEF IInv, BodyOrder, vars
  <2>6. QED BY <1>0, <2>1, <2>2, <2>3, <2>4, <2>5 DEF IInv
<1>2. CASE ClientLeaves
      BY <1>2, <1>0 DEF IInv, Phase, OnlyRemoteCounts, HonestStatus, RetryBudget, MaxRetry,
               BodyOrder, ClientLeaves, Committed, Remote, Aws, Gcp, Service
<1>3. CASE Reject
  <2>1. PICK r \in Requests : /\ AdmissionStatus(r) # 0
                              /\ Return("rejected", AdmissionStatus(r)) BY <1>3 DEF Reject
  <2>2. AdmissionStatus(r) \in {400, 500} BY <2>1 DEF AdmissionStatus
  <2>3. QED BY <1>3, <1>0, <2>1, <2>2, ReturnStep DEF Reject
<1>4. CASE Accept
      BY <1>4, <1>0 DEF IInv, Accept, Phase, OnlyRemoteCounts, HonestStatus, RetryBudget, MaxRetry,
               BodyOrder, Committed, Remote, Aws, Gcp, Service, TypeOK
<1>5. CASE HandleSucceeds
  <2>1. Phase' BY <1>5, <1>0 DEF IInv, HandleSucceeds, Phase, TypeOK, MessageType
  <2>2. OnlyRemoteCounts' BY <1>5 DEF IInv, HandleSucceeds, OnlyRemoteCounts, Remote, Aws, Gcp, Service
  <2>3. HonestStatus' BY <1>5, <1>0 DEF IInv, HandleSucceeds, HonestStatus, Phase, TypeOK
  <2>4. RetryBudget'
    <3>1. retryCount' = 0 BY <1>5 DEF IInv, HandleSucceeds, OnlyRemoteCounts
    <3>2. QED BY <1>0, <3>1 DEF RetryBudget, MaxRetry, TypeOK
  <2>5. BodyOrder' BY <1>5 DEF IInv, HandleSucceeds, BodyOrder, Phase, TypeOK
  <2>6. QED BY <1>0, <2>1, <2>2, <2>3, <2>4, <2>5 DEF IInv
<1>6. CASE HandleEnds
      BY <1>6, <1>0, ReturnStep DEF HandleEnds
<1>7. CASE HandleSendEOF
      BY <1>7, <1>0, ReturnStep DEF HandleSendEOF
<1>8. CASE HandleOtherError
      BY <1>8, <1>0, ReturnStep DEF HandleOtherError
<1>9. CASE HandleRetryable
  <2>1. Remote BY <1>9 DEF HandleRetryable, SuzuErrors, Remote
  <2>2. Phase' BY <1>9 DEF IInv, HandleRetryable, Phase
  <2>3. OnlyRemoteCounts'
        BY <1>9, <2>1 DEF HandleRetryable, OnlyRemoteCounts, Remote, Aws, Gcp, Service
  <2>4. HonestStatus' BY <1>9 DEF IInv, HandleRetryable, HonestStatus, Committed
  <2>5. RetryBudget' BY <1>9, <1>0 DEF IInv, HandleRetryable, RetryBudget, MaxRetry, TypeOK
  <2>6. BodyOrder' BY <1>9 DEF IInv, HandleRetryable, BodyOrder
  <2>7. QED BY <1>0, <2>2, <2>3, <2>4, <2>5, <2>6 DEF IInv
<1>10. CASE HandleSuzuError
  <2> DEFINE Code(e) == IF e.code < 100 \/ e.code > 999 THEN 500 ELSE e.code
  <2>1. PICK e \in SuzuErrors : Return("suzuError", Code(e)) BY <1>10 DEF HandleSuzuError
  <2>2. Code(e) \in Int /\ Code(e) \notin {0, 200} BY SuzuErrorCodes
  <2>3. UNCHANGED <<conf, streamOver, retryCount, attempt, connects, body>> /\ pc # "done"
        BY <1>10 DEF HandleSuzuError
  <2> HIDE DEF Code
  <2>4. QED BY <1>0, <2>1, <2>2, <2>3, ReturnStep
<1>11. CASE HandleConfError
      BY <1>11, <1>0, ReportStep DEF HandleConfError
<1>12. CASE RetryTimerFires
      BY <1>12, <1>0, ReturnStep DEF RetryTimerFires
<1>13. CASE RetryInterrupted
      BY <1>13, <1>0, ReturnStep DEF RetryInterrupted
<1>14. CASE ReadMessage
  <2>1. CASE \E kind \in MessageKinds : WriteMessage(kind) /\ UNCHANGED <<pc, cause>>
    <3>1. PICK kind \in MessageKinds : WriteMessage(kind) /\ UNCHANGED <<pc, cause>> BY <2>1
    <3>2. kind \in {"result", "error"} /\ ~ErrorSent BY DEF MessageKinds
    <3>3. QED BY <1>14, <1>0, <3>1, <3>2, MessageStep DEF ReadMessage
  <2>2. CASE Return("writeError", 500) /\ UNCHANGED body
        BY <1>14, <1>0, <2>2, ReturnStep DEF ReadMessage
  <2>3. QED BY <1>14, <2>1, <2>2 DEF ReadMessage
<1>15. CASE ReadEOF
  <2>1. connects # 0 BY <1>15, <1>0 DEF ReadEOF, IInv, Phase, TypeOK
  <2>2. QED BY <1>15, <1>0, <2>1, ReturnStep DEF ReadEOF
<1>16. CASE ReadClientDisconnected
      BY <1>16, <1>0, ReturnStep DEF ReadClientDisconnected
<1>17. CASE DisconnectedReconnect
  <2>1. Phase'
    <3>1. \A i \in 1..Len(body) : body[i].attempt < attempt'
      <4>1. TAKE i \in 1..Len(body)
      <4>2. body[i] \in MessageType BY <1>0 DEF TypeOK
      <4>3. body[i].attempt \in Nat BY <4>2 DEF MessageType
      <4>4. QED BY <1>17, <1>0, <4>3 DEF IInv, DisconnectedReconnect, Phase, TypeOK
    <3>2. \A i \in 1..Len(body) : body[i].attempt <= attempt'
      <4>1. TAKE i \in 1..Len(body)
      <4>2. body[i].attempt < attempt' BY <3>1
      <4>3. body[i] \in MessageType BY <1>0 DEF TypeOK
      <4>4. body[i].attempt \in Nat BY <4>3 DEF MessageType
      <4>5. QED BY <1>0, <4>2, <4>4 DEF TypeOK
    <3>3. attempt' = connects' + 1 /\ pc' = "handle" /\ UNCHANGED <<body, cause>> /\ cause = "none"
          BY <1>17, <1>0 DEF IInv, DisconnectedReconnect, Phase, TypeOK
    <3>4. QED BY <3>1, <3>2, <3>3 DEF Phase
  <2>2. OnlyRemoteCounts' BY <1>17 DEF DisconnectedReconnect, OnlyRemoteCounts, Remote, Aws, Gcp, Service
  <2>3. HonestStatus' BY <1>17 DEF IInv, DisconnectedReconnect, HonestStatus, Committed
  <2>4. RetryBudget' BY <1>17, <1>0 DEF IInv, DisconnectedReconnect, RetryBudget, MaxRetry, TypeOK
  <2>5. BodyOrder' BY <1>17, <1>0 DEF IInv, DisconnectedReconnect, BodyOrder, Phase, TypeOK
  <2>6. QED BY <1>0, <2>1, <2>2, <2>3, <2>4, <2>5 DEF IInv
<1>18. CASE DisconnectedGiveUp
  <2>1. PICK why : ReportAndReturn(why) BY <1>18 DEF DisconnectedGiveUp
  <2>2. QED BY <1>18, <1>0, <2>1, ReportStep DEF DisconnectedGiveUp
<1>19. CASE ReadOtherError
      BY <1>19, <1>0, ReportStep DEF ReadOtherError
<1>20. QED
      BY <1>1, <1>2, <1>3, <1>4, <1>5, <1>6, <1>7, <1>8, <1>9, <1>10,
         <1>11, <1>12, <1>13, <1>14, <1>15, <1>16, <1>17, <1>18, <1>19
      DEF Next, HandleReturns, RetryWaitEnds, ReadReturns

\* IInv holds in every execution.
LEMMA IInvHolds == Spec => []IInv
<1>1. Init => IInv
  <2>1. Init => Phase /\ OnlyRemoteCounts /\ HonestStatus /\ RetryBudget /\ BodyOrder
        BY DEF Init, Phase, OnlyRemoteCounts, HonestStatus, RetryBudget, MaxRetry, BodyOrder,
               Committed
  <2>2. QED BY <2>1, TypeOKInit DEF IInv
<1>2. QED BY <1>1, IInvStep, PTL DEF Spec

\* For every service, max_retry and set of status codes: no header is sent before
\* a service connection, and a request that ends without one is answered 200 only
\* after the client's own end, with a SuzuConfError's message in the body, or for
\* gRPC's io.EOF.
THEOREM StatusIsHonest == Spec => []HonestStatus
<1>1. IInv => HonestStatus BY DEF IInv
<1>2. QED BY <1>1, IInvHolds, PTL

\* max_retry bounds the retries between two connections: the count never exceeds
\* it, and is 0 whenever a connection is being read.
THEOREM RetriesBounded == Spec => []RetryBudget
<1>1. IInv => RetryBudget BY DEF IInv
<1>2. QED BY <1>1, IInvHolds, PTL

\* However often the handler reconnects, the response is the concatenation of
\* what the attempts answered, in the order of the attempts.
THEOREM BodyOrdered == Spec => []BodyOrder
<1>1. IInv => BodyOrder BY DEF IInv
<1>2. QED BY <1>1, IInvHolds, PTL

-----------------------------------------------------------------------------
(* Failures the client does not learn of *)

\* Every step keeps the property, given the inductive invariant.
LEMMA SilentStep ==
    IInv /\ IInv' /\ OnlyReconnectsFailSilently /\ [Next]_vars
       => OnlyReconnectsFailSilently'
<1> SUFFICES ASSUME IInv, IInv', OnlyReconnectsFailSilently, [Next]_vars
             PROVE  OnlyReconnectsFailSilently'
    OBVIOUS
<1>0. TypeOK /\ TypeOK' BY DEF IInv
<1>1. CASE UNCHANGED vars
      BY <1>1 DEF vars, OnlyReconnectsFailSilently, FailureIsReported, ErrorSent, Message
<1>2. CASE pc' # "done"
      BY <1>2 DEF IInv, Phase, OnlyReconnectsFailSilently, FailureIsReported, Failures
<1>3. ASSUME cause' \notin Failures PROVE OnlyReconnectsFailSilently'
      BY <1>3 DEF OnlyReconnectsFailSilently, FailureIsReported
<1>4. CASE Reject \/ HandleEnds \/ RetryInterrupted \/ ReadEOF \/ ReadClientDisconnected
      BY <1>3, <1>4 DEF Reject, HandleEnds, RetryInterrupted, ReadEOF,
                        ReadClientDisconnected, Return, Failures
<1>5. CASE HandleSendEOF
      BY <1>5 DEF HandleSendEOF, Return, OnlyReconnectsFailSilently
<1>6. CASE HandleSuzuError \/ HandleOtherError \/ RetryTimerFires
  <2>1. /\ pc \in {"handle", "retryWait"} /\ pc' = "done"
        /\ UNCHANGED <<attempt, connects, streamOver, body>>
        /\ cause' \in {"suzuError", "otherError", "panic"}
        BY <1>6 DEF HandleSuzuError, HandleOtherError, RetryTimerFires, Return
  <2>2. attempt' = connects' + 1 BY <2>1 DEF IInv, Phase
  <2>3. CASE connects' = 0
    <3>1. status' = 200 => streamOver' \/ ErrorSent'
          BY <2>1, <2>3 DEF IInv, HonestStatus
    <3>2. FailureIsReported' BY <3>1 DEF FailureIsReported
    <3>3. QED BY <3>2 DEF OnlyReconnectsFailSilently
  <2>4. CASE connects' # 0
    <3>1. connects' > 0 BY <1>0, <2>4 DEF TypeOK
    <3>2. QED BY <2>2, <3>1 DEF OnlyReconnectsFailSilently
  <2>5. QED BY <2>3, <2>4
<1>7. CASE HandleConfError \/ DisconnectedGiveUp \/ ReadOtherError
  <2>1. streamOver' \/ ErrorSent'
        BY <1>0, <1>7, ReportIsLast DEF HandleConfError, DisconnectedGiveUp, ReadOtherError
  <2>2. QED BY <2>1 DEF OnlyReconnectsFailSilently, FailureIsReported
<1>8. CASE ReadMessage /\ Return("writeError", 500)
      BY <1>3, <1>8 DEF Return, Failures
<1>9. QED
  <2>1. CASE ClientLeaves \/ Accept \/ HandleSucceeds \/ HandleRetryable \/ DisconnectedReconnect
        BY <1>2, <2>1 DEF ClientLeaves, Accept, HandleSucceeds, HandleRetryable,
                          DisconnectedReconnect
  <2>2. CASE ReadMessage
    <3>1. CASE UNCHANGED pc BY <1>2, <2>2, <3>1 DEF ReadMessage
    <3>2. CASE Return("writeError", 500) BY <1>8, <2>2, <3>2
    <3>3. QED BY <2>2, <3>1, <3>2 DEF ReadMessage
  <2>3. QED BY <1>1, <1>4, <1>5, <1>6, <1>7, <2>1, <2>2
            DEF Next, HandleReturns, RetryWaitEnds, ReadReturns

\* Whatever the service and max_retry, a client that is still there learns of
\* every failure of the service except those of Handle on a reconnection and
\* gRPC's io.EOF on the first audio.
THEOREM FailuresReported == Spec => []OnlyReconnectsFailSilently
<1>1. Init => OnlyReconnectsFailSilently
      BY DEF Init, OnlyReconnectsFailSilently, FailureIsReported, Failures
<1>2. QED BY <1>1, SilentStep, IInvHolds, PTL DEF Spec

-----------------------------------------------------------------------------
(* Error messages of aws *)

\* The last message of a body that grows by one; the others are as before.
LEMMA AwsMessage ==
    ASSUME TypeOK, ErrorEndsAwsStream, Aws, pc # "done", NEW kind \in {"result", "error"},
           WriteMessage(kind), kind = "error" => pc' = "done"
    PROVE  ErrorEndsAwsStream'
<1>1. Message(kind) \in MessageType /\ Message(kind).kind = kind
      BY DEF TypeOK, Message, MessageType
<1>2. /\ Len(body') = Len(body) + 1 /\ Len(body) \in Nat
      /\ \A i \in 1..Len(body) : body'[i] = body[i]
      /\ body'[Len(body) + 1] = Message(kind)
      BY <1>1, AppendMessage DEF TypeOK, WriteMessage
<1>3. \A i \in 1..Len(body) : body[i].kind # "error"
      BY DEF ErrorEndsAwsStream
<1>4. ASSUME NEW i \in 1..Len(body'), body'[i].kind = "error"
      PROVE  i = Len(body') /\ pc' = "done"
  <2>1. CASE i \in 1..Len(body) BY <1>2, <1>3, <1>4, <2>1
  <2>2. CASE i = Len(body) + 1 BY <1>1, <1>2, <1>4, <2>2
  <2>3. QED BY <1>2, <2>1, <2>2
<1>5. QED BY <1>4 DEF ErrorEndsAwsStream

\* No step changes the configuration.
LEMMA ConfFixed == [Next]_vars => conf' = conf
BY DEF Next, vars, ClientLeaves, Reject, Accept, HandleReturns, HandleSucceeds, HandleEnds,
       HandleSendEOF, HandleRetryable, HandleSuzuError, HandleConfError, HandleOtherError,
       RetryWaitEnds, RetryTimerFires, RetryInterrupted, ReadReturns, ReadMessage, ReadEOF,
       ReadClientDisconnected, DisconnectedReconnect, DisconnectedGiveUp, ReadOtherError

\* No step is taken once the request is done, and a step before that adds an
\* error message only when it ends the request.
LEMMA AwsStep == TypeOK /\ ErrorEndsAwsStream /\ [Next]_vars => ErrorEndsAwsStream'
<1> SUFFICES ASSUME TypeOK, ErrorEndsAwsStream, [Next]_vars, Aws
             PROVE  ErrorEndsAwsStream'
    BY ConfFixed DEF ErrorEndsAwsStream, Aws, Service
<1>1. CASE UNCHANGED vars BY <1>1 DEF vars, ErrorEndsAwsStream
<1>2. CASE pc # "done" /\ UNCHANGED body BY <1>2 DEF ErrorEndsAwsStream
<1>3. CASE HandleConfError \/ DisconnectedGiveUp \/ ReadOtherError
  <2>1. PICK why : ReportAndReturn(why)
        BY <1>3 DEF HandleConfError, DisconnectedGiveUp, ReadOtherError
  <2>2. pc # "done" BY <1>3 DEF HandleConfError, DisconnectedGiveUp, ReadOtherError
  <2>3. CASE UNCHANGED body BY <1>2, <2>2, <2>3
  <2>4. CASE WriteMessage("error")
        BY <2>1, <2>2, <2>4, AwsMessage DEF ReportAndReturn
  <2>5. QED BY <2>1, <2>3, <2>4 DEF ReportAndReturn
<1>4. CASE ReadMessage
  <2>1. pc # "done" BY <1>4 DEF ReadMessage
  <2>2. CASE UNCHANGED body BY <1>2, <2>1, <2>2
  <2>3. CASE \E kind \in MessageKinds : WriteMessage(kind)
    <3>1. PICK kind \in MessageKinds : WriteMessage(kind) BY <2>3
    <3>2. kind = "result" BY DEF MessageKinds, Aws, Gcp
    <3>3. QED BY <2>1, <3>1, <3>2, AwsMessage
  <2>4. QED BY <1>4, <2>2, <2>3 DEF ReadMessage
<1>5. CASE \/ ClientLeaves \/ Reject \/ Accept \/ HandleSucceeds \/ HandleEnds \/ HandleSendEOF
           \/ HandleRetryable \/ HandleSuzuError \/ HandleOtherError \/ RetryTimerFires
           \/ RetryInterrupted \/ ReadEOF \/ ReadClientDisconnected \/ DisconnectedReconnect
  BY <1>2, <1>5 DEF ClientLeaves, Reject, Accept, HandleSucceeds, HandleEnds, HandleSendEOF,
       HandleRetryable, HandleSuzuError, HandleOtherError, RetryTimerFires, RetryInterrupted,
       ReadEOF, ReadClientDisconnected, DisconnectedReconnect
<1>6. QED BY <1>1, <1>3, <1>4, <1>5 DEF Next, HandleReturns, RetryWaitEnds, ReadReturns

\* For aws an error message is the last thing a client reads, whatever
\* max_retry and however many connections the request needed.
THEOREM AwsErrorIsLast == Spec => []ErrorEndsAwsStream
<1>1. Init => ErrorEndsAwsStream BY DEF Init, ErrorEndsAwsStream
<1>2. QED BY <1>1, AwsStep, TypeCorrect, PTL DEF Spec
=============================================================================
