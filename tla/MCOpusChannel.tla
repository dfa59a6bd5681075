--------------------------- MODULE MCOpusChannel ---------------------------
(* OpusChannel for clients that send one or two packets and may stop in    *)
(* the middle of a third.  Headers consist of the length field alone and   *)
(* the payload limit is 2.                                                 *)
EXTENDS OpusChannel, SequencesExt

Header(n) == <<0, 0, 0, n>>
Packets == {<<>>, <<7>>, <<8, 9>>}
PacketLists == {<<p, <<7>>>> : p \in Packets} \cup {<<<<8, 9>>>>}
Tails == {<<>>, Header(2) \o <<5>>, Header(3)}

Starts(fs) == LET start[i \in 1..(Len(fs) + 1)] ==
                     IF i = 1 THEN 0 ELSE start[i - 1] + 4 + Len(fs[i - 1])
              IN  start

MCClients == {[frames |-> fs, at |-> Starts(fs),
               wire   |-> FlattenSeq([i \in DOMAIN fs |-> Header(Len(fs[i])) \o fs[i]]) \o t] :
                 fs \in PacketLists, t \in Tails}
=============================================================================
