--------------------------- MODULE MCPacketHeader ---------------------------
(* PacketHeader for clients that send up to three frames and may stop in   *)
(* the middle of one.  Headers have one byte before the length field; the  *)
(* payload limit is 3, and a length of 65536 shows the byte order.         *)
EXTENDS PacketHeader, SequencesExt

MCHeaderLength == 5
MCMaxPayloadLength == 3

Header(n) == <<9, n \div 16777216, (n \div 65536) % 256, (n \div 256) % 256, n % 256>>
Frame(p) == Header(Len(p)) \o p

Payloads == {<<>>, <<1>>, <<2, 3, 4>>}
FrameLists == UNION {[1..n -> Payloads] : n \in 1..3}

\* Ends of a stream: complete, inside a header, inside a payload, a whole frame
\* that is too long, the start of one.
Tails == {<<>>, <<9, 0, 0>>, Header(2) \o <<5>>, Frame(<<5, 6, 7, 8>>),
          Header(65536) \o <<5, 6>>}

Starts(fs) == LET start[i \in 1..(Len(fs) + 1)] ==
                     IF i = 1 THEN 0 ELSE start[i - 1] + MCHeaderLength + Len(fs[i - 1])
              IN  start

MCClients == {[frames |-> fs, at |-> Starts(fs),
               wire   |-> FlattenSeq([i \in DOMAIN fs |-> Frame(fs[i])]) \o t] :
                 fs \in FrameLists, t \in Tails}
=============================================================================
