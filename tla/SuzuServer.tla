----------------------------- MODULE SuzuServer -----------------------------
(***************************************************************************)
(* The process: main runs Server.Start (the API) and Server.StartExporter  *)
(* (Prometheus metrics) in an errgroup and exits when both have returned.  *)
(* Each of them starts a listener goroutine and waits for the group's      *)
(* context or for the listener's error on an unbuffered channel; a         *)
(* deferred Shutdown follows.                                              *)
(*                                                                         *)
(* Of the API's requests only the number of open streams is kept.  What    *)
(* net/http does is taken from how the code uses it (external): a listener *)
(* ends with an error of its own or, after Shutdown, with ErrServerClosed; *)
(* Shutdown(ctx) waits for open connections until ctx is done, but not for *)
(* the hijacked ones of h2c, which serves HTTP/2 without TLS.              *)
(***************************************************************************)
EXTENDS Naturals

CONSTANT MaxStreams   \* bound: open streams

ASSUME SuzuServerAssumption == MaxStreams \in Nat

VARIABLES
    https,     \* config https
    main,      \* "setup", "wait" in g.Wait, "exited"
    listener,  \* of each server: "none", "serving", an error it is sending
               \* ("failure" or "closed"), "returned"
    fn,        \* Start and StartExporter: "none", "select", "shutdown", "returned"
    result,    \* what they return: "nil" until they have left the select
    groupErr,  \* the errgroup's first error, "nil" before it
    streams,   \* open streams of the API
    failed     \* history: servers whose listener has failed

vars == <<https, main, listener, fn, result, groupErr, streams, failed>>

Servers == {"api", "exporter"}

\* The errgroup cancels its context with the first error.
CtxDone == groupErr # "nil"

-----------------------------------------------------------------------------
Init ==
    /\ https \in BOOLEAN
    /\ main = "setup"
    /\ listener = [s \in Servers |-> "none"]
    /\ fn = [s \in Servers |-> "none"]
    /\ result = [s \in Servers |-> "nil"]
    /\ groupErr = "nil"
    /\ streams = 0
    /\ failed = {}

\* Configuration, logger and NewServer are fine; the group's two functions and
\* their listeners start.
Run ==
    /\ main = "setup"
    /\ main' = "wait"
    /\ listener' = [s \in Servers |-> "serving"]
    /\ fn' = [s \in Servers |-> "select"]
    /\ UNCHANGED <<https, result, groupErr, streams, failed>>

\* One of them is not: log.Fatal.
SetupFails ==
    /\ main = "setup"
    /\ main' = "exited"
    /\ groupErr' = "setup"
    /\ UNCHANGED <<https, listener, fn, result, streams, failed>>

-----------------------------------------------------------------------------
(* Listener goroutines.  A server is shut down once its function has left  *)
(* the select.                                                             *)

Alive == main = "wait"

\* ListenAndServe returns an error of its own, which the goroutine sends.
ListenerFails_dropped(s) ==
    /\ Alive
    /\ listener[s] = "serving" /\ fn[s] = "select"
    /\ listener' = [listener EXCEPT ![s] = "returned"]
    /\ failed' = failed \cup {s}
    /\ UNCHANGED <<https, main, fn, result, groupErr, streams>>

ListenerFails(s) ==
    /\ Alive
    /\ listener[s] = "serving" /\ fn[s] = "select"
    /\ listener' = [listener EXCEPT ![s] = "failure"]
    /\ failed' = failed \cup {s}
    /\ UNCHANGED <<https, main, fn, result, groupErr, streams>>

\* It returns ErrServerClosed.  The API's goroutine does not send that one, the
\* exporter's does, although nobody receives any more.
ListenerClosed(s) ==
    /\ Alive
    /\ listener[s] = "serving" /\ fn[s] # "select"
    /\ listener' = [listener EXCEPT ![s] = IF s = "api" THEN "returned" ELSE "closed"]
    /\ UNCHANGED <<https, main, fn, result, groupErr, streams, failed>>

-----------------------------------------------------------------------------
(* Start and StartExporter.  The API's channel is closed when its goroutine*)
(* returns, but by then Start has received its error or has left the       *)
(* select.                                                                 *)

Receive_cancelsFirst(s) ==
    /\ Alive
    /\ fn[s] = "select" /\ listener[s] = "failure"
    /\ fn' = [t \in Servers |-> "shutdown"]
    /\ result' = [t \in Servers |-> IF t = s THEN "failure" ELSE "canceled"]
    /\ listener' = [listener EXCEPT ![s] = "returned"]
    /\ UNCHANGED <<https, main, groupErr, streams, failed>>

Receive(s) ==
    /\ Alive
    /\ fn[s] = "select" /\ listener[s] = "failure"
    /\ fn' = [fn EXCEPT ![s] = "shutdown"]
    /\ result' = [result EXCEPT ![s] = "failure"]
    /\ listener' = [listener EXCEPT ![s] = "returned"]
    /\ UNCHANGED <<https, main, groupErr, streams, failed>>

Canceled(s) ==
    /\ Alive
    /\ fn[s] = "select" /\ CtxDone
    /\ fn' = [fn EXCEPT ![s] = "shutdown"]
    /\ result' = [result EXCEPT ![s] = "canceled"]
    /\ UNCHANGED <<https, main, listener, groupErr, streams, failed>>

\* The connections Shutdown waits for.  Scrapes of the exporter are short.
Busy(s) == s = "api" /\ https /\ streams > 0

\* Shutdown returns, then the function; the group takes its error.
ShutdownReturns_patient(s) ==
    /\ Alive
    /\ fn[s] = "shutdown"
    /\ ~Busy(s)
    /\ fn' = [fn EXCEPT ![s] = "returned"]
    /\ groupErr' = IF groupErr = "nil" THEN result[s] ELSE groupErr
    /\ UNCHANGED <<https, main, listener, result, streams, failed>>

ShutdownReturns(s) ==
    /\ Alive
    /\ fn[s] = "shutdown"
    /\ ~Busy(s) \/ CtxDone
    /\ fn' = [fn EXCEPT ![s] = "returned"]
    /\ groupErr' = IF groupErr = "nil" THEN result[s] ELSE groupErr
    /\ UNCHANGED <<https, main, listener, result, streams, failed>>

\* g.Wait returns the first error: log.Fatal.
Exit_waitsForListeners ==
    /\ Alive
    /\ \A s \in Servers : fn[s] = "returned" /\ listener[s] = "returned"
    /\ main' = "exited"
    /\ UNCHANGED <<https, listener, fn, result, groupErr, streams, failed>>

Exit ==
    /\ Alive
    /\ \A s \in Servers : fn[s] = "returned"
    /\ main' = "exited"
    /\ UNCHANGED <<https, listener, fn, result, groupErr, streams, failed>>

-----------------------------------------------------------------------------
(* Clients *)

StreamStarts ==
    /\ Alive
    /\ listener["api"] = "serving" /\ fn["api"] = "select"
    /\ streams < MaxStreams
    /\ streams' = streams + 1
    /\ UNCHANGED <<https, main, listener, fn, result, groupErr, failed>>

StreamEnds ==
    /\ Alive
    /\ streams > 0
    /\ streams' = streams - 1
    /\ UNCHANGED <<https, main, listener, fn, result, groupErr, failed>>

-----------------------------------------------------------------------------
FunctionStep(s) == Receive(s) \/ Canceled(s) \/ ShutdownReturns(s)

Next == \/ Run \/ SetupFails \/ Exit \/ StreamStarts \/ StreamEnds
        \/ \E s \in Servers : ListenerFails(s) \/ ListenerClosed(s) \/ FunctionStep(s)

\* Goroutines run; listeners need not fail and streams need not end.
Spec == /\ Init /\ [][Next]_vars
        /\ WF_vars(Exit)
        /\ \A s \in Servers : WF_vars(ListenerClosed(s)) /\ WF_vars(FunctionStep(s))

-----------------------------------------------------------------------------
(* Properties *)

\* The process never exits without a reason, and the reason main logs is the
\* failure of the setup or of a listener: neither the cancellation of the other
\* server nor ErrServerClosed gets in its place, in whatever order both servers
\* fail and return.
ExitNamesFailure ==
    main = "exited" => \/ groupErr = "setup" /\ failed = {}
                       \/ groupErr = "failure" /\ failed # {}

\* Once the exporter fails the process exits, even if clients keep streaming:
\* Start's Shutdown gets a cancelled context and does not wait for them.
ExporterFailureExits == "exporter" \in failed ~> main = "exited"

\* Once the API's listener fails the process exits; only streams over TLS hold
\* it up, for Start's Shutdown then waits for them with a live context.
APIFailureExits == "api" \in failed ~> main = "exited" \/ (https /\ streams > 0)

\* A listener goroutine that sends its error to a function that has gone on is
\* blocked for good, but it does not outlive the process by much.
BlockedListenerEnds ==
    \A s \in Servers :
       listener[s] \in {"failure", "closed"} /\ fn[s] # "select" ~> main = "exited"
=============================================================================
