---------------------------- MODULE MCOggWriter ----------------------------
(* OggWriter with sizes scaled down: a page header of 2 bytes, segments of *)
(* at most 2 bytes, a segment count below 4.                               *)
EXTENDS OggWriter, SequencesExt

\* One segment, a full segment with its terminator, and a count that wraps.
MCPackets == {[size |-> 1, config |-> 1,  code |-> 0, frames |-> 0],
              [size |-> 2, config |-> 16, code |-> 3, frames |-> 3],
              [size |-> 6, config |-> 15, code |-> 1, frames |-> 0]}

\* The file keeps the received audio: every packet that went to the service is
\* in it (CHANGES.md:239, config_example.ini:87).
RecordingKeepsAudio ==
    \A a \in Attempts : \A i \in 3..Len(w[a].piped) :
       \A byte \in ToSet(Payload(w[a].piped[i].id, w[a].piped[i].size)) : byte \in ToSet(file)
=============================================================================
