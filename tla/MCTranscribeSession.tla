------------------------ MODULE MCTranscribeSession ------------------------
(* TranscribeSession on small instances; the request is one the handler    *)
(* accepts, SpeechHandler's runs cover the others.                         *)
EXTENDS TranscribeSession

MCConfigs == [service : {"aws", "gcp"}, maxRetry : {0, 1}]
MCAwsLanguages == {"ja-JP"}
MCRequests == {[proto |-> 2, headersBind |-> TRUE, lang |-> "ja-JP"]}
MCAwsCodes == {429, 500}
=============================================================================
