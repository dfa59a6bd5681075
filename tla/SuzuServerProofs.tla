--------------------------- MODULE SuzuServerProofs ---------------------------
(***************************************************************************)
(* Proof for SuzuServer: the process names a failure when it exits.        *)
(***************************************************************************)
EXTENDS SuzuServer, TLAPS

\* Types of the state.
TypeOK ==
    /\ https \in BOOLEAN
    /\ main \in {"setup", "wait", "exited"}
    /\ listener \in [Servers -> {"none", "serving", "failure", "closed", "returned"}]
    /\ fn \in [Servers -> {"none", "select", "shutdown", "returned"}]
    /\ result \in [Servers -> {"nil", "failure", "canceled"}]
    /\ groupErr \in {"nil", "setup", "failure", "canceled"}
    /\ streams \in 0..MaxStreams
    /\ failed \subseteq Servers

\* Why the group's error can only be a failure: a function returns "canceled"
\* only once the group has an error, and a function that is still in its select
\* has returned nothing.
GroupInv ==
    /\ TypeOK
    /\ groupErr \in {"nil", "setup", "failure"}
    /\ groupErr = "setup" => main = "exited" /\ failed = {}
    /\ groupErr = "failure" => failed # {}
    /\ main = "exited" => groupErr # "nil"
    /\ main = "setup" => failed = {} /\ groupErr = "nil" /\ \A s \in Servers : fn[s] = "none"
    /\ \A s \in Servers :
          /\ listener[s] = "failure" => s \in failed
          /\ result[s] = "failure" => s \in failed
          /\ result[s] = "canceled" => groupErr # "nil"
          /\ fn[s] = "shutdown" => result[s] # "nil"
          /\ fn[s] = "returned" => groupErr # "nil"

LEMMA GroupInit == Init => GroupInv
BY SuzuServerAssumption DEF Init, GroupInv, TypeOK, Servers

LEMMA GroupNext == GroupInv /\ [Next]_vars => GroupInv'
<1> SUFFICES ASSUME GroupInv, [Next]_vars
             PROVE  GroupInv'
  OBVIOUS
<1> USE SuzuServerAssumption
<1>1. CASE Run
  BY <1>1 DEF Run, GroupInv, TypeOK, Servers
<1>2. CASE SetupFails
  BY <1>2 DEF SetupFails, GroupInv, TypeOK, Servers
<1>3. CASE Exit
  BY <1>3 DEF Exit, Alive, GroupInv, TypeOK, Servers
<1>4. CASE StreamStarts
  BY <1>4 DEF StreamStarts, Alive, GroupInv, TypeOK, Servers
<1>5. CASE StreamEnds
  BY <1>5 DEF StreamEnds, Alive, GroupInv, TypeOK, Servers
<1>6. ASSUME NEW s \in Servers, ListenerFails(s)
      PROVE  GroupInv'
  BY <1>6 DEF ListenerFails, Alive, GroupInv, TypeOK
<1>7. ASSUME NEW s \in Servers, ListenerClosed(s)
      PROVE  GroupInv'
  BY <1>7 DEF ListenerClosed, Alive, GroupInv, TypeOK
<1>8. ASSUME NEW s \in Servers, Receive(s)
      PROVE  GroupInv'
  BY <1>8 DEF Receive, Alive, GroupInv, TypeOK
<1>9. ASSUME NEW s \in Servers, Canceled(s)
      PROVE  GroupInv'
  BY <1>9 DEF Canceled, CtxDone, Alive, GroupInv, TypeOK
<1>10. ASSUME NEW s \in Servers, ShutdownReturns(s)
       PROVE  GroupInv'
  BY <1>10 DEF ShutdownReturns, Alive, GroupInv, TypeOK
<1>11. CASE UNCHANGED vars
  BY <1>11 DEF vars, GroupInv, TypeOK
<1> QED
  BY <1>1, <1>2, <1>3, <1>4, <1>5, <1>6, <1>7, <1>8, <1>9, <1>10, <1>11
     DEF Next, FunctionStep

LEMMA GroupInvariant == Spec => []GroupInv
BY GroupInit, GroupNext, PTL DEF Spec

\* When the process exits, the error main logs is that of the setup or of a
\* listener that failed, never the cancellation of the other server, for any
\* number of open streams.
THEOREM ExitCorrect == Spec => []ExitNamesFailure
<1>1. GroupInv => ExitNamesFailure
  BY DEF GroupInv, ExitNamesFailure
<1> QED
  BY <1>1, GroupInvariant, PTL
=============================================================================
