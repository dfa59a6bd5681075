--------------------------- MODULE MCEchoSession ---------------------------
(* EchoSession for an accepted request to either route. *)
EXTENDS EchoSession

MCConfigs == [service : {"test", "dump"}, maxRetry : {1}]
MCRequests == {[proto |-> 2, headersBind |-> TRUE, lang |-> "ja-JP"]}
=============================================================================
