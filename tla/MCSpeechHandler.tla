-------------------------- MODULE MCSpeechHandler --------------------------
(* SpeechHandler on small instances: every service without reconnection,   *)
(* aws and gcp with it, a route to a service nobody registered; one good   *)
(* request and one for every early return.                                 *)
EXTENDS SpeechHandler

MCAwsRetry == {[service |-> "aws", maxRetry |-> 2]}
MCGcpRetry == {[service |-> "gcp", maxRetry |-> 2]}
MCConfigs == MCAwsRetry \cup MCGcpRetry \cup
             [service : {"aws", "gcp", "test", "dump", "unknown"}, maxRetry : {0}]

MCAwsLanguages == {"ja-JP"}

MCRequests == [proto : {1, 2}, headersBind : BOOLEAN, lang : {"", "ja-JP", "xx"}]

\* No response (0), a client error, the retryable one, a server error.
MCAwsCodes == {0, 400, 429, 500}
=============================================================================
