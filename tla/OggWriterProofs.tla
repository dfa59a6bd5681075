-------------------------- MODULE OggWriterProofs --------------------------
(* Theorems about OggWriter, for every size of its constants. *)
EXTENDS OggWriter, SequenceTheorems, WellFoundedInduction, TLAPS

-----------------------------------------------------------------------------
(* Pages and bytes *)

\* A page has at least one segment.
LEMMA NSegmentsNat ==
    ASSUME NEW size \in Nat
    PROVE  NSegments(size) \in Nat \ {0}
<1>1. size \div SegmentSize \in Nat
  BY OggAssumption
<1> QED
  BY <1>1 DEF NSegments

\* The count byte of the code takes any number of segments below its limit.
LEMMA PageType ==
    ASSUME NEW type \in {"bos", "cont", "eos"}, NEW granule \in Nat, NEW index \in Nat,
           NEW size \in Nat, NEW id \in Int
    PROVE  CreatePage(type, granule, index, size, id) \in Page
<1>1. NSegments(size) \in Nat
  BY NSegmentsNat
<1>2. NSegments(size) % SegmentCounts \in Nat
  BY <1>1, OggAssumption
<1> QED
  BY <1>2 DEF CreatePage, Page

LEMMA PayloadType ==
    ASSUME NEW id \in Int, NEW size \in Nat
    PROVE  Payload(id, size) \in Seq(Byte)
BY DEF Payload, Byte

LEMMA PageBytesType ==
    ASSUME NEW p \in Page, NEW payload \in Seq(Byte)
    PROVE  PageBytes(p, payload) \in Seq(Byte)
<1> DEFINE n == PageHeaderSize + NSegments(p.size)
           head == [i \in 1..n |-> [page |-> <<p>>, id |-> p.id, at |-> i]]
<1>1. n \in Nat
  <2>1. p.size \in Nat
    BY DEF Page
  <2>2. NSegments(p.size) \in Nat
    BY <2>1, NSegmentsNat
  <2>3. PageHeaderSize \in Nat
    BY OggAssumption
  <2> QED
    BY <2>2, <2>3
<1>2. <<p>> \in Seq(Page) /\ p.id \in Int
  BY DEF Page
<1>3. \A i \in 1..n : [page |-> <<p>>, id |-> p.id, at |-> i] \in Byte
  BY <1>1, <1>2 DEF Byte
<1> HIDE DEF n
<1>4. head \in Seq(Byte)
  BY <1>1, <1>3
<1>5. head \o payload \in Seq(Byte)
  BY <1>4
<1> QED
  BY <1>5 DEF PageBytes, n

LEMMA WriteAtType ==
    ASSUME NEW f \in Seq(Byte), NEW offset \in Nat, NEW bytes \in Seq(Byte)
    PROVE  WriteAt(f, offset, bytes) \in Seq(Byte)
<1> DEFINE n == IF Len(f) > offset + Len(bytes) THEN Len(f) ELSE offset + Len(bytes)
           byte(i) == IF i > offset /\ i <= offset + Len(bytes) THEN bytes[i - offset]
                      ELSE IF i <= Len(f) THEN f[i] ELSE Zero
<1>1. n \in Nat
  OBVIOUS
<1>2. Zero \in Byte
  BY DEF Zero, Byte
<1>3. ASSUME NEW i \in 1..n
      PROVE  byte(i) \in Byte
  <2>1. CASE i > offset /\ i <= offset + Len(bytes)
    <3>1. i - offset \in 1..Len(bytes)
      BY <2>1, <1>1
    <3> QED
      BY <3>1, <2>1
  <2>2. CASE ~(i > offset /\ i <= offset + Len(bytes)) /\ i <= Len(f)
    <3>1. i \in 1..Len(f)
      BY <2>2, <1>1
    <3> QED
      BY <3>1, <2>2
  <2>3. CASE ~(i > offset /\ i <= offset + Len(bytes)) /\ ~(i <= Len(f))
    BY <2>3, <1>2
  <2> QED
    BY <2>1, <2>2, <2>3
<1> HIDE DEF n, byte
<1>4. [i \in 1..n |-> byte(i)] \in Seq(Byte)
  BY <1>1, <1>3
<1> QED
  BY <1>4 DEF WriteAt, n, byte

\* A payload below the limit is described exactly by its segment table.
LEMMA CodedSizeExact ==
    ASSUME NEW size \in Nat, size < (SegmentCounts - 1) * SegmentSize,
           NEW p, p.size = size, p.segments = NSegments(size) % SegmentCounts
    PROVE  CodedSize(p) = size
<1> DEFINE q == size \div SegmentSize
           r == size % SegmentSize
<1>1. SegmentSize \in Nat \ {0} /\ SegmentCounts \in Nat \ {0}
  BY OggAssumption
<1>2. q \in Nat /\ r \in Nat /\ size = SegmentSize * q + r
  BY <1>1
<1>3. NSegments(size) = q + 1 /\ CodedSize(p) = IF p.segments = q + 1
                                               THEN (p.segments - 1) * SegmentSize + r
                                               ELSE p.segments * SegmentSize
  BY DEF NSegments, CodedSize
<1> HIDE DEF q, r
<1>4. q < SegmentCounts - 1
  <2>1. SUFFICES ASSUME q >= SegmentCounts - 1 PROVE FALSE
    BY <1>1, <1>2
  <2>2. q * SegmentSize >= (SegmentCounts - 1) * SegmentSize
    BY <2>1, <1>1, <1>2
  <2>3. q * SegmentSize = SegmentSize * q
    BY <1>1, <1>2
  <2>4. (SegmentCounts - 1) * SegmentSize \in Int /\ SegmentSize * q \in Int
    BY <1>1, <1>2
  <2> QED
    BY <1>2, <2>2, <2>3, <2>4
<1>5. (q + 1) % SegmentCounts = q + 1
  BY <1>1, <1>2, <1>4
<1>6. p.segments = q + 1
  BY <1>3, <1>5
<1>7. p.segments - 1 = q
  BY <1>2, <1>6
<1>8. CodedSize(p) = q * SegmentSize + r
  BY <1>3, <1>6, <1>7, Zenon
<1> QED
  BY <1>1, <1>2, <1>8

\* The table of GranulePosition is the one of RFC 6716.
LEMMA GranuleTable ==
    ASSUME NEW config \in 0..31
    PROVE  GranulePosition(config) = FrameSamples(config) /\ GranulePosition(config) \in Nat
<1>1. CASE config \in 0..7
  BY <1>1 DEF GranulePosition, FrameSamples
<1>2. CASE config \in 8..15
  BY <1>2 DEF GranulePosition, FrameSamples
<1>3. CASE config \in 16..23
  BY <1>3 DEF GranulePosition, FrameSamples
<1>4. CASE config \in 24..31
  BY <1>4 DEF GranulePosition, FrameSamples
<1> QED
  BY <1>1, <1>2, <1>3, <1>4

-----------------------------------------------------------------------------
(* Types *)

\* The two header writers and Write keep the type of the writer.
LEMMA WriteToStreamType ==
    ASSUME TypeOK, NEW a \in Attempts, NEW p \in Page, NEW W \in Writer, NEW next \in Pcs,
           WriteToStream(a, p, W, next)
    PROVE  TypeOK'
<1> DEFINE bytes == PageBytes(p, Payload(p.id, p.size))
<1>1. p.size \in Nat /\ p.id \in Int
  BY DEF Page
<1>2. bytes \in Seq(Byte)
  BY <1>1, PayloadType, PageBytesType
<1>3. file' \in Seq(Byte)
  BY <1>2, WriteAtType DEF WriteToStream, TypeOK, Writer
<1>4. W.offset + Len(bytes) \in Nat
  BY <1>2 DEF Writer
<1>5. Append(W.written, p) \in Seq(Page) /\ Append(W.piped, p) \in Seq(Page)
  BY DEF Writer
<1> DEFINE done == [W EXCEPT !.lastPayloadSize = p.size, !.written = Append(@, p),
                             !.offset = @ + Len(bytes)]
<1> HIDE DEF bytes
<1>6. done \in Writer
  BY <1>1, <1>4, <1>5 DEF Writer
<1>7. [done EXCEPT !.pc = "seek"] \in Writer
  BY <1>6 DEF Writer, Pcs
<1>8. [done EXCEPT !.pc = next, !.piped = Append(@, p)] \in Writer
  BY <1>5, <1>6 DEF Writer, Pcs
<1>9. w' \in [Attempts -> Writer]
  BY <1>7, <1>8 DEF WriteToStream, TypeOK, bytes
<1> QED
  BY <1>3, <1>9 DEF WriteToStream, TypeOK

LEMMA WriterType ==
    ASSUME TypeOK, NEW a \in Attempts
    PROVE  /\ w[a] \in Writer
           /\ w[a].pc \in Pcs /\ w[a].piped \in Seq(Page) /\ w[a].packet \in Nat
           /\ w[a].pageIndex \in Nat /\ w[a].previousGranulePosition \in Nat
           /\ w[a].lastPayloadSize \in Nat /\ w[a].offset \in Nat
           /\ w[a].payload \in Seq(Byte) /\ w[a].written \in Seq(Page)
<1>1. w[a] \in Writer
  BY DEF TypeOK
<1> QED
  BY <1>1 DEF Writer

LEMMA UpdateType ==
    ASSUME TypeOK, NEW a \in Attempts, NEW r \in Writer
    PROVE  [w EXCEPT ![a] = r] \in [Attempts -> Writer]
BY DEF TypeOK

LEMMA HeaderWriterType ==
    ASSUME TypeOK, NEW a \in Attempts
    PROVE  HeaderWriter(a) \in Writer
<1>1. w[a] \in Writer
  BY WriterType
<1> DEFINE n == w[a].pageIndex + 1
<1>2. n \in Nat
  BY WriterType
<1>3. HeaderWriter(a) \in {w[a], [w[a] EXCEPT !.pageIndex = n]}
  BY DEF HeaderWriter
<1> HIDE DEF n
<1>4. [w[a] EXCEPT !.pageIndex = n] \in Writer
  BY <1>1, <1>2 DEF Writer
<1> QED
  BY <1>1, <1>3, <1>4

\* The packet a converter is about to write exists.
HasPacket == \A a \in Attempts :
                w[a].pc \in {"id", "comment", "audio"} => w[a].packet \in 1..Len(packets)

LEMMA DurationNat ==
    ASSUME NEW p \in Packets
    PROVE  /\ p.size \in Nat
           /\ FrameCount(p) * GranulePosition(p.config) \in Nat
           /\ GranulePosition(p.config) = FrameSamples(p.config)
<1>1. p \in [size : Nat \ {0}, config : 0..31, code : 0..3, frames : 0..63]
  BY OggAssumption
<1>2. FrameCount(p) \in Nat
  BY <1>1 DEF FrameCount
<1>3. GranulePosition(p.config) \in Nat /\ GranulePosition(p.config) = FrameSamples(p.config)
  BY <1>1, GranuleTable
<1> QED
  BY <1>1, <1>2, <1>3

LEMMA NextGranuleNat ==
    ASSUME TypeOK, HasPacket, NEW a \in Attempts, w[a].pc = "audio"
    PROVE  /\ NextGranule(a) \in Nat
           /\ packets[w[a].packet] \in Packets
<1>1. packets[w[a].packet] \in Packets
  BY DEF TypeOK, HasPacket
<1>2. w[a].previousGranulePosition \in Nat
  BY DEF TypeOK, Writer
<1> QED
  BY <1>1, <1>2, DurationNat DEF NextGranule

LEMMA TypeInit == Init => TypeOK
<1> SUFFICES ASSUME Init PROVE TypeOK
  OBVIOUS
<1>1. NewWriter \in Writer
  BY DEF NewWriter, Writer, Pcs
<1> QED
  BY <1>1 DEF Init, TypeOK

LEMMA TypeNext == TypeOK /\ HasPacket /\ [Next]_vars => TypeOK'
<1> SUFFICES ASSUME TypeOK, HasPacket, [Next]_vars
             PROVE  TypeOK'
  OBVIOUS
<1>1. CASE UNCHANGED vars
  BY <1>1 DEF vars, TypeOK
<1>2. ASSUME NEW a \in Attempts, Create(a)
      PROVE  TypeOK'
  <2> DEFINE sole == \A b \in 1..a - 1 : w[b].pc = "done"
             r == [w[a] EXCEPT !.pc = "first", !.sole = sole]
  <2>1. "first" \in Pcs /\ sole \in BOOLEAN /\ w[a] \in Writer
    BY WriterType DEF Pcs
  <2>2. w' = [w EXCEPT ![a] = r]
    BY <1>2 DEF Create
  <2> HIDE DEF sole
  <2>3. r \in Writer
    BY <2>1 DEF Writer
  <2> HIDE DEF r
  <2>4. w' \in [Attempts -> Writer]
    BY <2>2, <2>3, UpdateType
  <2> QED
    BY <1>2, <2>4 DEF Create, TypeOK
<1>3. ASSUME NEW a \in Attempts, CreateFails(a)
      PROVE  TypeOK'
  <2>1. [w[a] EXCEPT !.pc = "failed"] \in Writer
    BY WriterType DEF Writer, Pcs
  <2>2. w' = [w EXCEPT ![a] = [w[a] EXCEPT !.pc = "failed"]]
    BY <1>3 DEF CreateFails
  <2>3. w' \in [Attempts -> Writer]
    BY <2>1, <2>2, UpdateType
  <2> QED
    BY <1>3, <2>3 DEF CreateFails, TypeOK
<1>4. ASSUME NEW a \in Attempts, Cancel(a)
      PROVE  TypeOK'
  <2>1. [w[a] EXCEPT !.cancelled = TRUE] \in Writer
    BY WriterType DEF Writer
  <2>2. w' = [w EXCEPT ![a] = [w[a] EXCEPT !.cancelled = TRUE]]
    BY <1>4 DEF Cancel
  <2>3. w' \in [Attempts -> Writer]
    BY <2>1, <2>2, UpdateType
  <2> QED
    BY <1>4, <2>3 DEF Cancel, TypeOK
<1>5. ASSUME NEW a \in Attempts, PipeCloses(a)
      PROVE  TypeOK'
  <2>1. [w[a] EXCEPT !.closed = TRUE] \in Writer
    BY WriterType DEF Writer
  <2>2. w' = [w EXCEPT ![a] = [w[a] EXCEPT !.closed = TRUE]]
    BY <1>5 DEF PipeCloses
  <2>3. w' \in [Attempts -> Writer]
    BY <2>1, <2>2, UpdateType
  <2> QED
    BY <1>5, <2>3 DEF PipeCloses, TypeOK
<1>6. ASSUME NEW a \in Attempts, Stop(a)
      PROVE  TypeOK'
  <2>1. [w[a] EXCEPT !.pc = "seek", !.closed = TRUE] \in Writer
    BY WriterType DEF Writer, Pcs
  <2>2. w' = [w EXCEPT ![a] = [w[a] EXCEPT !.pc = "seek", !.closed = TRUE]]
    BY <1>6 DEF Stop
  <2>3. w' \in [Attempts -> Writer]
    BY <2>1, <2>2, UpdateType
  <2> QED
    BY <1>6, <2>3 DEF Stop, TypeOK
<1>7. ASSUME NEW a \in Attempts, Take(a)
      PROVE  TypeOK'
  <2> DEFINE pc == IF w[a].pc = "first" THEN "id" ELSE "audio"
             n == Len(packets) + 1
             r == [w[a] EXCEPT !.pc = pc, !.packet = n]
  <2>1. packets' \in Seq(Packets)
    BY <1>7 DEF Take, TypeOK
  <2>2. n \in Nat /\ pc \in Pcs /\ w[a] \in Writer
    BY WriterType DEF TypeOK, Pcs
  <2>3. w' = [w EXCEPT ![a] = r]
    BY <1>7 DEF Take
  <2> HIDE DEF pc, n
  <2>4. r \in Writer
    BY <2>2 DEF Writer
  <2> HIDE DEF r
  <2>5. w' \in [Attempts -> Writer]
    BY <2>3, <2>4, UpdateType
  <2> QED
    BY <1>7, <2>1, <2>5 DEF Take, TypeOK
<1>8. ASSUME NEW a \in Attempts, WriteIDHeader(a)
      PROVE  TypeOK'
  <2>1. CreatePage("bos", 0, w[a].pageIndex, IDHeaderSize, -1) \in Page
    BY WriterType, PageType, OggAssumption
  <2>2. "comment" \in Pcs
    BY DEF Pcs
  <2> QED
    BY <1>8, <2>1, <2>2, HeaderWriterType, WriteToStreamType DEF WriteIDHeader
<1>9. ASSUME NEW a \in Attempts, WriteCommentHeader(a)
      PROVE  TypeOK'
  <2>1. CreatePage("cont", 0, w[a].pageIndex, CommentHeaderSize, 0) \in Page
    BY WriterType, PageType, OggAssumption
  <2>2. "audio" \in Pcs
    BY DEF Pcs
  <2> QED
    BY <1>9, <2>1, <2>2, HeaderWriterType, WriteToStreamType DEF WriteCommentHeader
<1>10. ASSUME NEW a \in Attempts, Write(a)
       PROVE  TypeOK'
  <2> DEFINE g == NextGranule(a)
             n == w[a].pageIndex + 1
             W == [w[a] EXCEPT !.previousGranulePosition = g, !.pageIndex = n]
             p == CreatePage("cont", g, w[a].pageIndex, packets[w[a].packet].size, w[a].packet)
  <2>1. g \in Nat /\ packets[w[a].packet] \in Packets
    BY <1>10, NextGranuleNat DEF Write
  <2>2. packets[w[a].packet].size \in Nat
    BY <2>1, DurationNat
  <2>3. w[a] \in Writer /\ w[a].pageIndex \in Nat /\ n \in Nat /\ w[a].packet \in Int
    BY WriterType
  <2>4. WriteToStream(a, p, W, "loop")
    BY <1>10 DEF Write
  <2> HIDE DEF g, n
  <2>5. p \in Page
    BY <2>1, <2>2, <2>3, PageType
  <2>6. W \in Writer
    BY <2>1, <2>3 DEF Writer
  <2>7. "loop" \in Pcs
    BY DEF Pcs
  <2> HIDE DEF p, W
  <2> QED
    BY <2>4, <2>5, <2>6, <2>7, WriteToStreamType
<1>11. ASSUME NEW a \in Attempts, CloseSeek(a)
       PROVE  TypeOK'
  <2> DEFINE offset == Len(file) - (w[a].lastPayloadSize + PageHeaderSize + 1)
             r == IF offset < 0 THEN [w[a] EXCEPT !.pc = "done"]
                  ELSE [w[a] EXCEPT !.pc = "readback", !.offset = offset]
  <2>1. w[a] \in Writer /\ "readback" \in Pcs /\ "done" \in Pcs
    BY WriterType DEF Pcs
  <2>2. offset \in Int
    BY WriterType, OggAssumption DEF TypeOK
  <2>3. w' = [w EXCEPT ![a] = r] /\ UNCHANGED <<file, packets>>
    BY <1>11 DEF CloseSeek
  <2> HIDE DEF offset
  <2>4. [w[a] EXCEPT !.pc = "done"] \in Writer
    BY <2>1 DEF Writer
  <2>5. ~(offset < 0) => [w[a] EXCEPT !.pc = "readback", !.offset = offset] \in Writer
    <3>1. SUFFICES ASSUME ~(offset < 0)
                   PROVE  [w[a] EXCEPT !.pc = "readback", !.offset = offset] \in Writer
      OBVIOUS
    <3>2. offset \in Nat
      BY <2>2, <3>1
    <3> QED
      BY <2>1, <3>2 DEF Writer
  <2>6. r \in Writer
    BY <2>4, <2>5
  <2> HIDE DEF r
  <2>7. w' \in [Attempts -> Writer]
    BY <2>3, <2>6, UpdateType
  <2> QED
    BY <2>3, <2>7 DEF TypeOK
<1>13. ASSUME NEW a \in Attempts, CloseRead(a)
       PROVE  TypeOK'
  <2> DEFINE size == w[a].lastPayloadSize
             start == w[a].offset + PageHeaderSize + 1
             tail == SubSeq(file, start + 1, start + size)
             short == size > 0 /\ start + size > Len(file)
             r == IF short THEN [w[a] EXCEPT !.pc = "done"]
                  ELSE [w[a] EXCEPT !.pc = "rewrite", !.payload = tail]
  <2>1. size \in Nat /\ start \in Nat /\ Len(file) \in Nat
    BY WriterType, OggAssumption DEF TypeOK
  <2>2. w[a] \in Writer /\ "rewrite" \in Pcs /\ "done" \in Pcs
    BY WriterType DEF Pcs
  <2>3. w' = [w EXCEPT ![a] = r] /\ UNCHANGED <<file, packets>>
    BY <1>13 DEF CloseRead
  <2>4. ~short => tail \in Seq(Byte)
    <3> HIDE DEF size, start
    <3>1. CASE size = 0
      <4>1. start + 1 > start + size
        BY <2>1, <3>1
      <4>2. file \in Seq(Byte)
        BY DEF TypeOK
      <4> QED
        BY <2>1, <3>1, <4>1, <4>2
    <3>2. CASE size > 0 /\ ~(start + size > Len(file))
      <4>1. start + 1 \in 1..Len(file) + 1 /\ start + size \in start..Len(file)
        BY <2>1, <3>2
      <4> QED
        BY <2>1, <4>1, SubSeqProperties DEF TypeOK
    <3> QED
      BY <2>1, <3>1, <3>2
  <2> HIDE DEF short, tail
  <2>5. [w[a] EXCEPT !.pc = "done"] \in Writer
    BY <2>2 DEF Writer
  <2>6. tail \in Seq(Byte) => [w[a] EXCEPT !.pc = "rewrite", !.payload = tail] \in Writer
    BY <2>2 DEF Writer
  <2>7. r \in Writer
    BY <2>4, <2>5, <2>6
  <2> HIDE DEF r
  <2>8. w' \in [Attempts -> Writer]
    BY <2>3, <2>7, UpdateType
  <2> QED
    BY <2>3, <2>8 DEF TypeOK
<1>12. ASSUME NEW a \in Attempts, CloseRewrite(a)
       PROVE  TypeOK'
  <2> DEFINE n == (w[a].pageIndex - 1) % PageIndexes
             p == CreatePage("eos", w[a].previousGranulePosition, n, w[a].lastPayloadSize,
                             w[a].packet)
  <2>1. n \in Nat
    BY WriterType, OggAssumption
  <2>2. file' = WriteAt(file, w[a].offset, PageBytes(p, w[a].payload))
    BY <1>12 DEF CloseRewrite
  <2> HIDE DEF n
  <2>3. p \in Page
    BY <2>1, WriterType, PageType
  <2> HIDE DEF p
  <2>4. PageBytes(p, w[a].payload) \in Seq(Byte)
    BY <2>3, WriterType, PageBytesType
  <2>5. file' \in Seq(Byte)
    BY <2>2, <2>4, WriterType, WriteAtType DEF TypeOK
  <2>6. [w[a] EXCEPT !.pc = "done"] \in Writer
    BY WriterType DEF Writer, Pcs
  <2>7. w' = [w EXCEPT ![a] = [w[a] EXCEPT !.pc = "done"]]
    BY <1>12 DEF CloseRewrite
  <2>8. w' \in [Attempts -> Writer]
    BY <2>6, <2>7, UpdateType
  <2> QED
    BY <1>12, <2>5, <2>8 DEF CloseRewrite, TypeOK
<1> QED
  BY <1>1, <1>2, <1>3, <1>4, <1>5, <1>6, <1>7, <1>8, <1>9, <1>10, <1>11, <1>12, <1>13 DEF Next

-----------------------------------------------------------------------------
(* The invariant behind ServiceStream *)

\* What ServiceStream says of page i of a stream.
GoodPage(pages, i) ==
    LET p == pages[i]
    IN  /\ p.index = i - 1
        /\ p.type = IF i = 1 THEN "bos" ELSE "cont"
        /\ i <= 2 => p.id = i - 2 /\ p.granule = 0
        /\ i > 2 =>
              /\ p.id > pages[i - 1].id
              /\ p.size = packets[p.id].size
              /\ p.granule = (IF i = 3 THEN 1 ELSE pages[i - 1].granule)
                               + FrameCount(packets[p.id]) * FrameSamples(packets[p.id].config)

\* The pages of a stream carry packets that were taken, and their segment
\* counts are those of createPage.
KnownPage(p, i) ==
    /\ p.id <= Len(packets)
    /\ i > 2 => p.id >= 1
    /\ p.segments = NSegments(p.size) % SegmentCounts

GoodStream(a) ==
    \A i \in 1..Len(w[a].piped) : GoodPage(w[a].piped, i) /\ KnownPage(w[a].piped[i], i)

\* Between two pages the writer's counters describe the stream so far: the next
\* page number and the granule position the next packet is added to.
Position(a) ==
    LET pages == w[a].piped
        n == Len(pages)
    IN  /\ w[a].pc \in {"none", "first", "id"} => n = 0
        /\ w[a].pc = "comment" => n = 1
        /\ w[a].pc \in {"audio", "loop"} => n >= 2
        /\ w[a].pc \in {"none", "first", "id", "comment", "audio", "loop"} =>
              /\ w[a].pageIndex = n
              /\ w[a].previousGranulePosition = IF n <= 2 THEN 1 ELSE pages[n].granule
        /\ w[a].pc = "audio" /\ n > 2 => pages[n].id < w[a].packet

StreamInv ==
    /\ TypeOK
    /\ HasPacket
    /\ \A a \in Attempts : GoodStream(a) /\ Position(a)

\* What a write leaves of the converter's record, with the pipe closed or not.
LEMMA Wrote ==
    ASSUME TypeOK, NEW a \in Attempts, NEW p \in Page, NEW W \in Writer, NEW next \in Pcs,
           WriteToStream(a, p, W, next)
    PROVE  /\ packets' = packets
           /\ \A b \in Attempts \ {a} : w'[b] = w[b]
           /\ w'[a].packet = W.packet
           /\ w'[a].pageIndex = W.pageIndex
           /\ w'[a].previousGranulePosition = W.previousGranulePosition
           /\ w[a].closed => w'[a].pc = "seek" /\ w'[a].piped = W.piped
           /\ ~w[a].closed => w'[a].pc = next /\ w'[a].piped = Append(W.piped, p)
<1> DEFINE bytes == PageBytes(p, Payload(p.id, p.size))
           done == [W EXCEPT !.lastPayloadSize = p.size, !.written = Append(@, p),
                             !.offset = @ + Len(bytes)]
           shut == [done EXCEPT !.pc = "seek"]
           open == [done EXCEPT !.pc = next, !.piped = Append(@, p)]
<1>1. w' = [w EXCEPT ![a] = IF w[a].closed THEN shut ELSE open] /\ packets' = packets
  BY DEF WriteToStream
<1>2. /\ shut.packet = W.packet /\ shut.pageIndex = W.pageIndex
      /\ shut.previousGranulePosition = W.previousGranulePosition
      /\ shut.piped = W.piped /\ shut.pc = "seek"
  BY DEF Writer
<1>3. /\ open.packet = W.packet /\ open.pageIndex = W.pageIndex
      /\ open.previousGranulePosition = W.previousGranulePosition
      /\ open.piped = Append(W.piped, p) /\ open.pc = next
  BY DEF Writer
<1> HIDE DEF shut, open
<1>4. /\ \A b \in Attempts \ {a} : w'[b] = w[b]
      /\ w'[a] = IF w[a].closed THEN shut ELSE open
  BY <1>1 DEF TypeOK
<1>5. CASE w[a].closed
  BY <1>1, <1>2, <1>4, <1>5
<1>6. CASE ~w[a].closed
  BY <1>1, <1>3, <1>4, <1>6
<1> QED
  BY <1>5, <1>6

\* A page is added to a stream in its place.
LEMMA AppendPage ==
    ASSUME NEW pages \in Seq(Page), NEW p \in Page,
           \A i \in 1..Len(pages) : GoodPage(pages, i) /\ KnownPage(pages[i], i),
           GoodPage(Append(pages, p), Len(pages) + 1), KnownPage(p, Len(pages) + 1)
    PROVE  \A i \in 1..Len(Append(pages, p)) :
              GoodPage(Append(pages, p), i) /\ KnownPage(Append(pages, p)[i], i)
<1> DEFINE s == Append(pages, p)
<1>1. /\ Len(s) = Len(pages) + 1 /\ Len(pages) \in Nat
      /\ s[Len(pages) + 1] = p
      /\ \A i \in 1..Len(pages) : s[i] = pages[i]
  OBVIOUS
<1> HIDE DEF s
<1>2. ASSUME NEW i \in 1..Len(pages)
      PROVE  GoodPage(s, i) /\ KnownPage(s[i], i)
  <2>1. s[i] = pages[i] /\ (i > 2 => s[i - 1] = pages[i - 1])
    BY <1>1
  <2>2. GoodPage(s, i)
    BY <2>1 DEF GoodPage
  <2> QED
    BY <2>1, <2>2
<1>3. GoodPage(s, Len(pages) + 1) /\ KnownPage(s[Len(pages) + 1], Len(pages) + 1)
  BY <1>1 DEF s
<1>4. \A i \in 1..Len(s) : i \in 1..Len(pages) \/ i = Len(pages) + 1
  BY <1>1
<1>5. \A i \in 1..Len(s) : GoodPage(s, i) /\ KnownPage(s[i], i)
  BY <1>2, <1>3, <1>4
<1> QED
  BY <1>5 DEF s

\* Streams do not change while packets are only taken.
LEMMA StreamKept ==
    ASSUME TypeOK, NEW a \in Attempts, GoodStream(a), w'[a].piped = w[a].piped,
           packets' = packets \/ \E p \in Packets : packets' = Append(packets, p)
    PROVE  GoodStream(a)'
<1> DEFINE s == w[a].piped
<1>1. packets \in Seq(Packets) /\ Len(packets) \in Nat /\ s \in Seq(Page) /\ Len(s) \in Nat
  BY WriterType DEF TypeOK
<1>2. Len(packets') \in Nat /\ Len(packets') >= Len(packets)
  BY <1>1
<1>3. \A k \in 1..Len(packets) : packets'[k] = packets[k]
  BY <1>1
<1> SUFFICES ASSUME NEW i \in 1..Len(s)
             PROVE  GoodPage(s, i)' /\ KnownPage(s[i], i)'
  BY DEF GoodStream
<1>4. GoodPage(s, i) /\ KnownPage(s[i], i) /\ s' = s
  BY DEF GoodStream
<1>5. s[i].id \in Int
  <2>1. s[i] \in Page
    BY <1>1
  <2> QED
    BY <2>1 DEF Page
<1>6. s'[i] = s[i] /\ (i > 2 => s'[i - 1] = s[i - 1])
  BY <1>4
<1>7. i > 2 => packets'[s[i].id] = packets[s[i].id]
  BY <1>1, <1>3, <1>4, <1>5 DEF KnownPage
<1> HIDE DEF s
<1>8. s[i].id <= Len(packets')
  BY <1>1, <1>2, <1>4, <1>5 DEF KnownPage
<1>9. KnownPage(s[i], i)'
  BY <1>4, <1>6, <1>8 DEF KnownPage
<1>10. GoodPage(s, i)'
  BY <1>4, <1>6, <1>7 DEF GoodPage
<1> QED
  BY <1>9, <1>10

LEMMA StreamInit == Init => StreamInv
<1> SUFFICES ASSUME Init PROVE StreamInv
  OBVIOUS
<1>1. ASSUME NEW a \in Attempts
      PROVE  /\ w[a].pc = "none" /\ w[a].piped = <<>> /\ w[a].pageIndex = 0
             /\ w[a].previousGranulePosition = 1
  BY DEF Init, NewWriter
<1>2. Len(<<>>) = 0
  OBVIOUS
<1>3. HasPacket
  BY <1>1 DEF HasPacket
<1>4. ASSUME NEW a \in Attempts
      PROVE  GoodStream(a) /\ Position(a)
  BY <1>1, <1>2 DEF GoodStream, Position
<1> QED
  BY <1>3, <1>4, TypeInit DEF StreamInv

\* A step of another attempt that takes no packet leaves this one alone.
LEMMA Bystander ==
    ASSUME StreamInv, NEW b \in Attempts, w'[b] = w[b],
           packets' = packets \/ \E p \in Packets : packets' = Append(packets, p)
    PROVE  /\ GoodStream(b)' /\ Position(b)'
           /\ w[b].pc \in {"id", "comment", "audio"} => w[b].packet \in 1..Len(packets')
<1>1. GoodStream(b)'
  BY StreamKept DEF StreamInv
<1>2. Position(b)'
  BY DEF StreamInv, Position
<1>3. Len(packets) \in Nat /\ Len(packets') \in Nat /\ Len(packets') >= Len(packets)
  BY DEF StreamInv, TypeOK
<1>4. w[b].pc \in {"id", "comment", "audio"} => w[b].packet \in 1..Len(packets)
  BY DEF StreamInv, HasPacket
<1> QED
  BY <1>1, <1>2, <1>3, <1>4

\* It is enough to look at the attempt that takes the step.
LEMMA OneAttempt ==
    ASSUME StreamInv, TypeOK', NEW a \in Attempts,
           \A b \in Attempts \ {a} : w'[b] = w[b],
           packets' = packets \/ \E p \in Packets : packets' = Append(packets, p),
           GoodStream(a)', Position(a)',
           w'[a].pc \in {"id", "comment", "audio"} => w'[a].packet \in 1..Len(packets')
    PROVE  StreamInv'
<1>1. ASSUME NEW b \in Attempts
      PROVE  /\ GoodStream(b)' /\ Position(b)'
             /\ w'[b].pc \in {"id", "comment", "audio"} => w'[b].packet \in 1..Len(packets')
  <2>1. CASE b = a
    BY <2>1
  <2>2. CASE b # a
    <3>1. w'[b] = w[b]
      BY <2>2
    <3> QED
      BY <3>1, Bystander
  <2> QED
    BY <2>1, <2>2
<1>2. HasPacket'
  BY <1>1 DEF HasPacket
<1> QED
  BY <1>1, <1>2 DEF StreamInv

\* The steps that neither take a packet nor write a page.
LEMMA Quiet ==
    ASSUME StreamInv, TypeOK', NEW a \in Attempts,
           packets' = packets, \A b \in Attempts \ {a} : w'[b] = w[b],
           w'[a].piped = w[a].piped, w'[a].pageIndex = w[a].pageIndex,
           w'[a].previousGranulePosition = w[a].previousGranulePosition,
           w'[a].packet = w[a].packet,
           \/ w'[a].pc = w[a].pc
           \/ w[a].pc = "none" /\ w'[a].pc = "first"
           \/ w'[a].pc \in {"failed", "seek", "readback", "rewrite", "done"}
    PROVE  StreamInv'
<1>1. GoodStream(a)'
  BY StreamKept DEF StreamInv
<1>2. Position(a)'
  BY DEF StreamInv, Position
<1>3. w'[a].pc \in {"id", "comment", "audio"} => w'[a].packet \in 1..Len(packets')
  BY DEF StreamInv, HasPacket
<1> QED
  BY <1>1, <1>2, <1>3, OneAttempt

\* A step that writes the page which comes next in its stream.
LEMMA PageWritten ==
    ASSUME StreamInv, TypeOK', NEW a \in Attempts, NEW p \in Page, NEW W \in Writer,
           NEW next \in Pcs, WriteToStream(a, p, W, next),
           w[a].pc \in {"id", "comment", "audio"},
           W.piped = w[a].piped, W.packet = w[a].packet,
           GoodPage(Append(w[a].piped, p), Len(w[a].piped) + 1),
           KnownPage(p, Len(w[a].piped) + 1),
           ~w[a].closed =>
              /\ W.pageIndex = Len(w[a].piped) + 1
              /\ W.previousGranulePosition = IF Len(w[a].piped) + 1 <= 2 THEN 1 ELSE p.granule,
           \/ next = "comment" /\ Len(w[a].piped) = 0
           \/ next = "audio" /\ Len(w[a].piped) = 1
           \/ next = "loop" /\ Len(w[a].piped) >= 2
    PROVE  StreamInv'
<1> DEFINE s == w[a].piped
           t == Append(s, p)
<1>1. TypeOK /\ GoodStream(a)
  BY DEF StreamInv
<1>2. s \in Seq(Page) /\ Len(s) \in Nat
  BY <1>1, WriterType
<1>3. /\ packets' = packets
      /\ \A b \in Attempts \ {a} : w'[b] = w[b]
      /\ w'[a].packet = W.packet
      /\ w'[a].pageIndex = W.pageIndex
      /\ w'[a].previousGranulePosition = W.previousGranulePosition
      /\ w[a].closed => w'[a].pc = "seek" /\ w'[a].piped = W.piped
      /\ ~w[a].closed => w'[a].pc = next /\ w'[a].piped = Append(W.piped, p)
  BY <1>1, Wrote
<1>4. CASE w[a].closed
  <2>1. GoodStream(a)'
    BY <1>1, <1>3, <1>4, StreamKept
  <2>2. Position(a)'
    BY <1>3, <1>4 DEF Position
  <2>3. w'[a].pc \notin {"id", "comment", "audio"}
    BY <1>3, <1>4
  <2> QED
    BY <1>3, <2>1, <2>2, <2>3, OneAttempt
<1>5. CASE ~w[a].closed
  <2>1. w'[a].piped = t /\ w'[a].pc = next
    BY <1>3, <1>5
  <2>2. \A i \in 1..Len(t) : GoodPage(t, i) /\ KnownPage(t[i], i)
    BY <1>1, <1>2, AppendPage DEF GoodStream
  <2>3. Len(t) = Len(s) + 1 /\ t[Len(s) + 1] = p
    BY <1>2
  <2> HIDE DEF t
  <2>4. GoodStream(a)'
    BY <1>3, <2>1, <2>2 DEF GoodStream, GoodPage, KnownPage
  <2>5. Position(a)'
    <3>1. w'[a].pageIndex = Len(t)
      BY <1>2, <1>3, <1>5, <2>3
    <3>2. w'[a].previousGranulePosition = IF Len(t) <= 2 THEN 1 ELSE t[Len(t)].granule
      <4>1. w'[a].previousGranulePosition = IF Len(s) + 1 <= 2 THEN 1 ELSE p.granule
        BY <1>3, <1>5
      <4> QED
        BY <4>1, <2>3
    <3> HIDE DEF s
    <3>3. Len(t) \in Nat
      BY <1>2, <2>3
    <3>4. CASE next = "comment" /\ Len(s) = 0
      <4>1. Len(t) = 1
        BY <2>3, <3>4
      <4> QED
        BY <2>1, <3>1, <3>2, <3>4, <4>1 DEF Position
    <3>5. CASE next = "audio" /\ Len(s) = 1
      <4>1. Len(t) = 2
        BY <2>3, <3>5
      <4> QED
        BY <2>1, <3>1, <3>2, <3>5, <4>1 DEF Position
    <3>6. CASE next = "loop" /\ Len(s) >= 2
      <4>1. Len(t) >= 2
        BY <1>2, <2>3, <3>6
      <4> QED
        BY <2>1, <3>1, <3>2, <3>6, <4>1 DEF Position
    <3> QED
      BY <3>4, <3>5, <3>6 DEF s
  <2>6. w'[a].packet \in 1..Len(packets')
    BY <1>3 DEF StreamInv, HasPacket
  <2> QED
    BY <1>3, <2>4, <2>5, <2>6, OneAttempt
<1> QED
  BY <1>4, <1>5

LEMMA StreamNext == StreamInv /\ [Next]_vars => StreamInv'
<1> SUFFICES ASSUME StreamInv, [Next]_vars
             PROVE  StreamInv'
  OBVIOUS
<1>1. TypeOK /\ TypeOK'
  BY TypeNext DEF StreamInv
<1>2. CASE UNCHANGED vars
  <2>1. packets' = packets /\ w' = w
    BY <1>2 DEF vars
  <2>2. \A a \in Attempts : GoodStream(a)' /\ Position(a)'
    BY <2>1, Bystander
  <2>3. HasPacket'
    BY <2>1 DEF StreamInv, HasPacket
  <2> QED
    BY <1>1, <2>2, <2>3 DEF StreamInv
<1>3. ASSUME NEW a \in Attempts, Create(a)
      PROVE  StreamInv'
  <2>1. /\ packets' = packets /\ \A b \in Attempts \ {a} : w'[b] = w[b]
        /\ w'[a].piped = w[a].piped /\ w'[a].pageIndex = w[a].pageIndex
        /\ w'[a].previousGranulePosition = w[a].previousGranulePosition
        /\ w'[a].packet = w[a].packet
        /\ w[a].pc = "none" /\ w'[a].pc = "first"
    BY <1>3, <1>1 DEF Create, TypeOK, Writer
  <2> QED
    BY <2>1, <1>1, Quiet
<1>4. ASSUME NEW a \in Attempts, CreateFails(a)
      PROVE  StreamInv'
  <2>1. /\ packets' = packets /\ \A b \in Attempts \ {a} : w'[b] = w[b]
        /\ w'[a].piped = w[a].piped /\ w'[a].pageIndex = w[a].pageIndex
        /\ w'[a].previousGranulePosition = w[a].previousGranulePosition
        /\ w'[a].packet = w[a].packet
        /\ w'[a].pc = "failed"
    BY <1>4, <1>1 DEF CreateFails, TypeOK, Writer
  <2> QED
    BY <2>1, <1>1, Quiet
<1>5. ASSUME NEW a \in Attempts, Cancel(a)
      PROVE  StreamInv'
  <2>1. /\ packets' = packets /\ \A b \in Attempts \ {a} : w'[b] = w[b]
        /\ w'[a].piped = w[a].piped /\ w'[a].pageIndex = w[a].pageIndex
        /\ w'[a].previousGranulePosition = w[a].previousGranulePosition
        /\ w'[a].packet = w[a].packet
        /\ w'[a].pc = w[a].pc
    BY <1>5, <1>1 DEF Cancel, TypeOK, Writer
  <2> QED
    BY <2>1, <1>1, Quiet
<1>6. ASSUME NEW a \in Attempts, PipeCloses(a)
      PROVE  StreamInv'
  <2>1. /\ packets' = packets /\ \A b \in Attempts \ {a} : w'[b] = w[b]
        /\ w'[a].piped = w[a].piped /\ w'[a].pageIndex = w[a].pageIndex
        /\ w'[a].previousGranulePosition = w[a].previousGranulePosition
        /\ w'[a].packet = w[a].packet
        /\ w'[a].pc = w[a].pc
    BY <1>6, <1>1 DEF PipeCloses, TypeOK, Writer
  <2> QED
    BY <2>1, <1>1, Quiet
<1>7. ASSUME NEW a \in Attempts, Stop(a)
      PROVE  StreamInv'
  <2>1. /\ packets' = packets /\ \A b \in Attempts \ {a} : w'[b] = w[b]
        /\ w'[a].piped = w[a].piped /\ w'[a].pageIndex = w[a].pageIndex
        /\ w'[a].previousGranulePosition = w[a].previousGranulePosition
        /\ w'[a].packet = w[a].packet
        /\ w'[a].pc = "seek"
    BY <1>7, <1>1 DEF Stop, TypeOK, Writer
  <2> QED
    BY <2>1, <1>1, Quiet
<1>8. ASSUME NEW a \in Attempts, CloseSeek(a)
      PROVE  StreamInv'
  <2>1. /\ packets' = packets /\ \A b \in Attempts \ {a} : w'[b] = w[b]
        /\ w'[a].piped = w[a].piped /\ w'[a].pageIndex = w[a].pageIndex
        /\ w'[a].previousGranulePosition = w[a].previousGranulePosition
        /\ w'[a].packet = w[a].packet
        /\ w'[a].pc \in {"readback", "done"}
    BY <1>8, <1>1 DEF CloseSeek, TypeOK, Writer
  <2> QED
    BY <2>1, <1>1, Quiet
<1>9. ASSUME NEW a \in Attempts, CloseRewrite(a)
      PROVE  StreamInv'
  <2>1. /\ packets' = packets /\ \A b \in Attempts \ {a} : w'[b] = w[b]
        /\ w'[a].piped = w[a].piped /\ w'[a].pageIndex = w[a].pageIndex
        /\ w'[a].previousGranulePosition = w[a].previousGranulePosition
        /\ w'[a].packet = w[a].packet
        /\ w'[a].pc = "done"
    BY <1>9, <1>1 DEF CloseRewrite, TypeOK, Writer
  <2> QED
    BY <2>1, <1>1, Quiet
<1>10. ASSUME NEW a \in Attempts, Take(a)
       PROVE  StreamInv'
  <2>1. PICK q \in Packets : packets' = Append(packets, q)
    BY <1>10 DEF Take
  <2>2. /\ \A b \in Attempts \ {a} : w'[b] = w[b]
        /\ w'[a].piped = w[a].piped /\ w'[a].pageIndex = w[a].pageIndex
        /\ w'[a].previousGranulePosition = w[a].previousGranulePosition
        /\ w'[a].packet = Len(packets) + 1
        /\ \/ w[a].pc = "first" /\ w'[a].pc = "id"
           \/ w[a].pc = "loop" /\ w'[a].pc = "audio"
    BY <1>10, <1>1 DEF Take, TypeOK, Writer
  <2>3. GoodStream(a) /\ Position(a) /\ Len(w[a].piped) \in Nat /\ Len(packets) \in Nat
    BY <1>1, WriterType DEF StreamInv, TypeOK
  <2>4. GoodStream(a)'
    BY <1>1, <2>1, <2>2, <2>3, StreamKept
  <2>5. Len(w[a].piped) > 2 => w[a].piped[Len(w[a].piped)].id < Len(packets) + 1
    <3>1. SUFFICES ASSUME Len(w[a].piped) > 2
                   PROVE  w[a].piped[Len(w[a].piped)].id < Len(packets) + 1
      OBVIOUS
    <3>2. w[a].piped[Len(w[a].piped)] \in Page
      BY <1>1, <2>3, <3>1, WriterType
    <3>3. w[a].piped[Len(w[a].piped)].id \in Int
      BY <3>2 DEF Page
    <3>4. w[a].piped[Len(w[a].piped)].id <= Len(packets)
      BY <2>3, <3>1 DEF GoodStream, KnownPage
    <3> QED
      BY <2>3, <3>3, <3>4
  <2>6. Position(a)'
    BY <2>2, <2>3, <2>5 DEF Position
  <2>7. w'[a].packet \in 1..Len(packets')
    BY <1>1, <2>1, <2>2 DEF TypeOK
  <2> QED
    BY <1>1, <2>1, <2>2, <2>4, <2>6, <2>7, OneAttempt
<1>11. ASSUME NEW a \in Attempts, WriteIDHeader(a)
       PROVE  StreamInv'
  <2> DEFINE p == CreatePage("bos", 0, w[a].pageIndex, IDHeaderSize, -1)
             s == w[a].piped
             W == HeaderWriter(a)
  <2>1. WriteToStream(a, p, W, "comment") /\ w[a].pc = "id" /\ "comment" \in Pcs
    BY <1>11 DEF WriteIDHeader, Pcs
  <2>2. Len(s) = 0 /\ w[a].pageIndex = 0 /\ w[a].previousGranulePosition = 1
    BY <2>1 DEF StreamInv, Position
  <2>3. p \in Page /\ s \in Seq(Page) /\ Len(packets) \in Nat
    <3>1. w[a].pageIndex \in Nat /\ s \in Seq(Page) /\ Len(packets) \in Nat
      BY <1>1, WriterType DEF TypeOK
    <3>2. IDHeaderSize \in Nat
      BY OggAssumption
    <3>3. p \in Page
      BY <3>1, <3>2, PageType
    <3> QED
      BY <3>1, <3>3
  <2>4. W \in Writer
    BY <1>1, HeaderWriterType
  <2>5. /\ W.piped = w[a].piped /\ W.packet = w[a].packet
        /\ W.previousGranulePosition = 1
        /\ ~w[a].closed => W.pageIndex = 1
    <3>1. w[a] \in Writer
      BY <1>1, WriterType
    <3> QED
      BY <2>2, <3>1 DEF HeaderWriter, Writer
  <2>6. /\ p.type = "bos" /\ p.granule = 0 /\ p.index = 0 /\ p.id = -1
        /\ p.segments = NSegments(p.size) % SegmentCounts
    BY <2>2 DEF CreatePage
  <2> HIDE DEF p, W
  <2>7. Append(s, p)[Len(s) + 1] = p /\ Len(s) + 1 = 1
    BY <2>2, <2>3
  <2>8. GoodPage(Append(s, p), Len(s) + 1)
    BY <2>6, <2>7 DEF GoodPage
  <2>9. KnownPage(p, Len(s) + 1)
    BY <2>3, <2>6, <2>7 DEF KnownPage
  <2> QED
    BY <1>1, <2>1, <2>2, <2>3, <2>4, <2>5, <2>7, <2>8, <2>9, PageWritten
<1>12. ASSUME NEW a \in Attempts, WriteCommentHeader(a)
       PROVE  StreamInv'
  <2> DEFINE p == CreatePage("cont", 0, w[a].pageIndex, CommentHeaderSize, 0)
             s == w[a].piped
             W == HeaderWriter(a)
  <2>1. WriteToStream(a, p, W, "audio") /\ w[a].pc = "comment" /\ "audio" \in Pcs
    BY <1>12 DEF WriteCommentHeader, Pcs
  <2>2. Len(s) = 1 /\ w[a].pageIndex = 1 /\ w[a].previousGranulePosition = 1
    <3>1. Position(a)
      BY DEF StreamInv
    <3>2. Len(s) = 1
      BY <2>1, <3>1 DEF Position
    <3> QED
      BY <2>1, <3>1, <3>2 DEF Position
  <2>3. p \in Page /\ s \in Seq(Page) /\ Len(packets) \in Nat
    <3>1. w[a].pageIndex \in Nat /\ s \in Seq(Page) /\ Len(packets) \in Nat
      BY <1>1, WriterType DEF TypeOK
    <3>2. CommentHeaderSize \in Nat
      BY OggAssumption
    <3>3. p \in Page
      BY <3>1, <3>2, PageType
    <3> QED
      BY <3>1, <3>3
  <2>4. W \in Writer
    BY <1>1, HeaderWriterType
  <2>5. /\ W.piped = w[a].piped /\ W.packet = w[a].packet
        /\ W.previousGranulePosition = 1
        /\ ~w[a].closed => W.pageIndex = 2
    <3>1. w[a] \in Writer
      BY <1>1, WriterType
    <3> QED
      BY <2>2, <3>1 DEF HeaderWriter, Writer
  <2>6. /\ p.type = "cont" /\ p.granule = 0 /\ p.index = 1 /\ p.id = 0
        /\ p.segments = NSegments(p.size) % SegmentCounts
    BY <2>2 DEF CreatePage
  <2> HIDE DEF p, W
  <2>7. Append(s, p)[Len(s) + 1] = p /\ Len(s) + 1 = 2
    <3>1. Append(s, p)[Len(s) + 1] = p
      BY <2>3
    <3>2. Len(s) = 1
      BY <2>2
    <3> HIDE DEF s
    <3>3. Len(s) + 1 = 2
      BY <3>2
    <3> QED
      BY <3>1, <3>3
  <2>8. GoodPage(Append(s, p), Len(s) + 1)
    BY <2>6, <2>7 DEF GoodPage
  <2>9. KnownPage(p, Len(s) + 1)
    BY <2>3, <2>6, <2>7 DEF KnownPage
  <2>10. ~w[a].closed =>
            /\ W.pageIndex = Len(s) + 1
            /\ W.previousGranulePosition = IF Len(s) + 1 <= 2 THEN 1 ELSE p.granule
    BY <2>5, <2>7
  <2>11. Len(s) = 1 /\ w[a].pc \in {"id", "comment", "audio"}
    BY <2>1, <2>2
  <2> QED
    BY <1>1, <2>1, <2>3, <2>4, <2>5, <2>8, <2>9, <2>10, <2>11, PageWritten
<1>13. ASSUME NEW a \in Attempts, Write(a)
       PROVE  StreamInv'
  <2> DEFINE q == packets[w[a].packet]
             g == NextGranule(a)
             n == w[a].pageIndex + 1
             s == w[a].piped
             p == CreatePage("cont", g, w[a].pageIndex, q.size, w[a].packet)
             W == [w[a] EXCEPT !.previousGranulePosition = g, !.pageIndex = n]
  <2>1. WriteToStream(a, p, W, "loop") /\ w[a].pc = "audio" /\ "loop" \in Pcs
    BY <1>13 DEF Write, Pcs
  <2>2. /\ Len(s) \in Nat /\ Len(s) >= 2 /\ w[a].pageIndex = Len(s)
        /\ w[a].previousGranulePosition = IF Len(s) <= 2 THEN 1 ELSE s[Len(s)].granule
        /\ Len(s) > 2 => s[Len(s)].id < w[a].packet
    BY <1>1, <2>1, WriterType DEF StreamInv, Position
  <2>3. q \in Packets /\ g \in Nat
    BY <2>1, NextGranuleNat DEF StreamInv
  <2>4. g = w[a].previousGranulePosition + FrameCount(q) * FrameSamples(q.config)
    BY <2>3, DurationNat DEF NextGranule
  <2>5. q.size \in Nat
    BY <2>3, DurationNat
  <2>6. w[a].packet \in 1..Len(packets) /\ Len(packets) \in Nat
    BY <1>1, <2>1 DEF StreamInv, HasPacket, TypeOK
  <2>7. w[a] \in Writer /\ s \in Seq(Page) /\ n \in Nat /\ n = Len(s) + 1
    BY <1>1, <2>2, WriterType
  <2>8. p \in Page
    BY <2>2, <2>3, <2>5, <2>6, PageType
  <2>9. /\ p.type = "cont" /\ p.granule = g /\ p.index = Len(s) /\ p.id = w[a].packet
        /\ p.size = q.size /\ p.segments = NSegments(p.size) % SegmentCounts
    BY <2>2 DEF CreatePage
  <2> HIDE DEF p, g, n
  <2>10. W \in Writer
    BY <2>3, <2>7 DEF Writer
  <2>11. /\ W.piped = s /\ W.packet = w[a].packet
         /\ W.previousGranulePosition = g /\ W.pageIndex = n
    BY <2>7 DEF Writer
  <2> HIDE DEF W
  <2>12. /\ Append(s, p)[Len(s) + 1] = p
         /\ Append(s, p)[Len(s) + 1 - 1] = s[Len(s)]
    BY <2>2, <2>7, <2>8
  <2>13. s[Len(s)].id < w[a].packet
    <3>1. CASE Len(s) > 2
      BY <2>2, <3>1
    <3>2. CASE Len(s) = 2
      <4>1. GoodPage(s, 2)
        BY <3>2 DEF StreamInv, GoodStream
      <4> QED
        BY <2>6, <3>2, <4>1 DEF GoodPage
    <3>3. Len(s) > 2 \/ Len(s) = 2
      <4>1. Len(s) \in Nat /\ Len(s) >= 2
        BY <2>2
      <4> HIDE DEF s
      <4> QED
        BY <4>1
    <3> QED
      BY <3>1, <3>2, <3>3
  <2>14. g = (IF Len(s) + 1 = 3 THEN 1 ELSE s[Len(s)].granule)
               + FrameCount(q) * FrameSamples(q.config)
    BY <2>2, <2>4
  <2>15. GoodPage(Append(s, p), Len(s) + 1)
    <3>1. p.id > Append(s, p)[Len(s) + 1 - 1].id
      <4>1. s[Len(s)] \in Page
        BY <2>2, <2>7
      <4>2. s[Len(s)].id \in Int
        BY <4>1 DEF Page
      <4> QED
        BY <2>6, <2>9, <2>12, <2>13, <4>2
    <3>2. p.index = Len(s) + 1 - 1 /\ Len(s) + 1 > 2
      BY <2>2, <2>9
    <3>3. p.granule = (IF Len(s) + 1 = 3 THEN 1 ELSE Append(s, p)[Len(s) + 1 - 1].granule)
                        + FrameCount(packets[p.id]) * FrameSamples(packets[p.id].config)
      BY <2>9, <2>12, <2>14
    <3> QED
      BY <2>2, <2>9, <2>12, <3>1, <3>2, <3>3 DEF GoodPage
  <2>16. KnownPage(p, Len(s) + 1)
    BY <2>6, <2>9 DEF KnownPage
  <2>17. W.pageIndex = Len(s) + 1
    BY <2>7, <2>11
  <2>18. W.previousGranulePosition = IF Len(s) + 1 <= 2 THEN 1 ELSE p.granule
    BY <2>2, <2>9, <2>11
  <2> QED
    BY <1>1, <2>1, <2>2, <2>8, <2>10, <2>11, <2>15, <2>16, <2>17, <2>18, PageWritten
<1>14. ASSUME NEW a \in Attempts, CloseRead(a)
       PROVE  StreamInv'
  <2>1. /\ packets' = packets /\ \A b \in Attempts \ {a} : w'[b] = w[b]
        /\ w'[a].piped = w[a].piped /\ w'[a].pageIndex = w[a].pageIndex
        /\ w'[a].previousGranulePosition = w[a].previousGranulePosition
        /\ w'[a].packet = w[a].packet
        /\ w'[a].pc \in {"rewrite", "done"}
    BY <1>14, <1>1 DEF CloseRead, TypeOK, Writer
  <2> QED
    BY <2>1, <1>1, Quiet
<1> QED
  BY <1>2, <1>3, <1>4, <1>5, <1>6, <1>7, <1>8, <1>9, <1>10, <1>11, <1>12, <1>13, <1>14 DEF Next

-----------------------------------------------------------------------------
(* Theorems *)

LEMMA StreamInvariant == Spec => []StreamInv
BY StreamInit, StreamNext, PTL DEF Spec

\* The state keeps its types in every reachable state: Close of one attempt
\* never seeks before the start of a file another attempt has truncated.
THEOREM TypeCorrect == Spec => []TypeOK
<1>1. StreamInv => TypeOK
  BY DEF StreamInv
<1> QED
  BY <1>1, StreamInvariant, PTL

\* Every attempt gives its service one Ogg Opus stream: consecutive page
\* numbers, packets in the client's order, granule positions that count the
\* samples of RFC 6716, whatever the packets and however many attempts share
\* the file.
THEOREM StreamCorrect == Spec => []ServiceStream
<1>1. StreamInv => ServiceStream
  BY DEF StreamInv, GoodStream, GoodPage, ServiceStream
<1> QED
  BY <1>1, StreamInvariant, PTL

\* The segment tables written for the service say how long the payload is, for
\* every payload whose segment count fits its byte.
THEOREM TablesCorrect == Spec => []PagesReadable
<1>1. ASSUME StreamInv
      PROVE  PagesReadable
  <2> SUFFICES ASSUME NEW a \in Attempts, NEW i \in 1..Len(w[a].piped),
                      w[a].piped[i].size < (SegmentCounts - 1) * SegmentSize
               PROVE  CodedSize(w[a].piped[i]) = w[a].piped[i].size
    BY DEF PagesReadable
  <2>1. w[a].piped[i] \in Page
    BY <1>1, WriterType DEF StreamInv
  <2>2. w[a].piped[i].segments = NSegments(w[a].piped[i].size) % SegmentCounts
    BY <1>1 DEF StreamInv, GoodStream, KnownPage
  <2>3. w[a].piped[i].size \in Nat
    BY <2>1 DEF Page
  <2> QED
    BY <2>2, <2>3, CodedSizeExact
<1> QED
  BY <1>1, StreamInvariant, PTL

-----------------------------------------------------------------------------
(* Sequences of pages as bytes *)

LEMMA Less == ASSUME NEW m \in Nat, NEW n \in Nat, m < n PROVE <<m, n>> \in OpToRel(<, Nat)
BY Zenon DEF OpToRel

\* Induction on a set of numbers.
LEMMA SetInduction ==
    ASSUME NEW S, 0 \in S, \A n \in Nat : n \in S => n + 1 \in S
    PROVE  Nat \subseteq S
<1> DEFINE T == Nat \ S
<1> SUFFICES ASSUME T # {}
             PROVE  FALSE
  OBVIOUS
<1>1. PICK R : R = OpToRel(<, Nat)
  OBVIOUS
<1>2. IsWellFoundedOn(R, Nat)
  BY <1>1, NatLessThanWellFounded, Zenon
<1>3. PICK n \in T : \A m \in T : ~(<<m, n>> \in R)
  <2>1. T \subseteq Nat
    OBVIOUS
  <2> HIDE DEF T
  <2> QED
    BY <1>2, <2>1, WFMin
<1>4. n # 0 /\ n - 1 \in Nat /\ n - 1 < n
  OBVIOUS
<1>5. <<n - 1, n>> \in R
  BY <1>1, <1>4, Less, Zenon
<1>6. n - 1 \in S
  BY <1>3, <1>4, <1>5
<1>7. (n - 1) + 1 \in S
  BY <1>4, <1>6
<1> QED
  BY <1>7

\* The values of a loop over 1..n that starts with x and takes each step by s.
IsLoop(f, n, T, x, s) ==
    /\ f \in [0..n -> T]
    /\ f[0] = x
    /\ \A i \in 1..n : f[i] = s[<<i, f[i - 1]>>]

\* Such a loop has values.
LEMMA Recursion ==
    ASSUME NEW n \in Nat, NEW T, NEW x \in T, NEW s,
           \A i \in 1..n : \A y \in T : s[<<i, y>>] \in T
    PROVE  \E f : IsLoop(f, n, T, x, s)
<1> DEFINE Upto(k) == \E f : IsLoop(f, k, T, x, s)
           S == {k \in Nat : k <= n => Upto(k)}
<1>1. 0 \in S
  <2>1. PICK f : f = [i \in 0..0 |-> x]
    OBVIOUS
  <2>2. f \in [0..0 -> T] /\ f[0] = x /\ 1..0 = {}
    BY <2>1
  <2>3. Upto(0)
    BY <2>2 DEF IsLoop
  <2> QED
    BY <2>3
<1>2. ASSUME NEW k \in Nat, k \in S
      PROVE  k + 1 \in S
  <2> SUFFICES ASSUME k + 1 <= n
               PROVE  Upto(k + 1)
    OBVIOUS
  <2>0. PICK f : IsLoop(f, k, T, x, s)
    BY <1>2
  <2>1. f \in [0..k -> T] /\ f[0] = x /\ \A i \in 1..k : f[i] = s[<<i, f[i - 1]>>]
    BY <2>0 DEF IsLoop
  <2>2. PICK y : y = s[<<k + 1, f[k]>>]
    OBVIOUS
  <2>3. y \in T
    <3>1. k \in 0..k /\ k + 1 \in 1..n
      OBVIOUS
    <3>2. f[k] \in T
      BY <2>1, <3>1
    <3> QED
      BY <2>2, <3>1, <3>2
  <2> DEFINE g == [i \in 0..(k + 1) |-> IF i = k + 1 THEN y ELSE f[i]]
  <2>4. g[k + 1] = y /\ \A i \in 0..k : g[i] = f[i]
    OBVIOUS
  <2>5. g \in [0..(k + 1) -> T]
    BY <2>1, <2>3
  <2> HIDE DEF g
  <2>6. ASSUME NEW i \in 1..(k + 1)
        PROVE  g[i] = s[<<i, g[i - 1]>>]
    <3>1. CASE i = k + 1
      <4>1. g[i - 1] = f[k]
        BY <2>4, <3>1
      <4> QED
        BY <2>2, <2>4, <3>1, <4>1
    <3>2. CASE i \in 1..k
      <4>1. i \in 0..k /\ i - 1 \in 0..k
        BY <3>2
      <4> QED
        BY <2>1, <2>4, <3>2, <4>1
    <3> QED
      BY <3>1, <3>2
  <2>7. g[0] = x
    BY <2>1, <2>4
  <2>8. IsLoop(g, k + 1, T, x, s)
    BY <2>5, <2>6, <2>7 DEF IsLoop
  <2> QED
    BY <2>8
<1>3. Nat \subseteq S
  <2> HIDE DEF S
  <2> QED
    BY <1>1, <1>2, SetInduction
<1> QED
  BY <1>3

\* A page is its header and segment table, and its payload.
LEMMA PageParts ==
    ASSUME NEW p \in Page, NEW payload \in Seq(Byte)
    PROVE  /\ PageBytes(p, <<>>) \in Seq(Byte)
           /\ Len(PageBytes(p, <<>>)) = PageHeaderSize + NSegments(p.size)
           /\ PageBytes(p, payload) = PageBytes(p, <<>>) \o payload
<1> DEFINE n == PageHeaderSize + NSegments(p.size)
           head == [i \in 1..n |-> [page |-> <<p>>, id |-> p.id, at |-> i]]
<1>1. n \in Nat
  <2>1. p.size \in Nat
    BY DEF Page
  <2>2. NSegments(p.size) \in Nat
    BY <2>1, NSegmentsNat
  <2>3. PageHeaderSize \in Nat
    BY OggAssumption
  <2> QED
    BY <2>2, <2>3
<1>2. <<p>> \in Seq(Page) /\ p.id \in Int
  BY DEF Page
<1>3. \A i \in 1..n : [page |-> <<p>>, id |-> p.id, at |-> i] \in Byte
  BY <1>1, <1>2 DEF Byte
<1>4. PageBytes(p, <<>>) = head \o <<>> /\ PageBytes(p, payload) = head \o payload
  BY DEF PageBytes
<1> HIDE DEF n
<1>5. head \in Seq(Byte) /\ Len(head) = n
  BY <1>1, <1>3
<1> HIDE DEF head
<1>6. head \o <<>> = head
  BY <1>5
<1> QED
  BY <1>4, <1>5, <1>6 DEF n

LEMMA PayloadLength ==
    ASSUME NEW id \in Int, NEW size \in Nat
    PROVE  Payload(id, size) \in Seq(Byte) /\ Len(Payload(id, size)) = size
<1>1. Payload(id, size) \in Seq(Byte)
  BY PayloadType
<1> QED
  BY <1>1 DEF Payload

LEMMA WholeParts ==
    ASSUME NEW p \in Page
    PROVE  /\ Whole(p) = PageBytes(p, <<>>) \o Payload(p.id, p.size)
           /\ PageBytes(p, <<>>) \in Seq(Byte) /\ Payload(p.id, p.size) \in Seq(Byte)
           /\ Len(PageBytes(p, <<>>)) = PageHeaderSize + NSegments(p.size)
           /\ Len(Payload(p.id, p.size)) = p.size
           /\ Whole(p) \in Seq(Byte)
<1>1. p.id \in Int /\ p.size \in Nat
  BY DEF Page
<1>2. Payload(p.id, p.size) \in Seq(Byte) /\ Len(Payload(p.id, p.size)) = p.size
  BY <1>1, PayloadLength
<1>3. /\ PageBytes(p, <<>>) \in Seq(Byte)
      /\ Len(PageBytes(p, <<>>)) = PageHeaderSize + NSegments(p.size)
      /\ Whole(p) = PageBytes(p, <<>>) \o Payload(p.id, p.size)
  BY <1>2, PageParts DEF Whole
<1> QED
  BY <1>2, <1>3

\* g holds the bytes of the first 0, 1, ... pages.
Bytes(g, pages) ==
    /\ g \in [0..Len(pages) -> Seq(Byte)]
    /\ g[0] = <<>>
    /\ \A i \in 1..Len(pages) : g[i] = g[i - 1] \o Whole(pages[i])

\* The recursive definition of Concat has a solution, so it is one.
LEMMA ConcatDefined ==
    ASSUME NEW pages \in Seq(Page)
    PROVE  \E g : Bytes(g, pages) /\ Concat(pages) = g[Len(pages)]
<1> DEFINE n == Len(pages)
           s == [q \in (1..n) \X Seq(Byte) |-> q[2] \o Whole(pages[q[1]])]
           F(f) == [i \in 0..n |-> IF i = 0 THEN <<>> ELSE f[i - 1] \o Whole(pages[i])]
<1>1. n \in Nat /\ <<>> \in Seq(Byte)
  OBVIOUS
<1>2. ASSUME NEW i \in 1..n, NEW y \in Seq(Byte)
      PROVE  s[<<i, y>>] \in Seq(Byte) /\ s[<<i, y>>] = y \o Whole(pages[i])
  <2>1. s[<<i, y>>] = y \o Whole(pages[i])
    OBVIOUS
  <2>2. pages[i] \in Page
    OBVIOUS
  <2>3. Whole(pages[i]) \in Seq(Byte)
    BY <2>2, WholeParts
  <2>4. PICK z : z = Whole(pages[i]) /\ z \in Seq(Byte)
    BY <2>3
  <2>5. y \o z \in Seq(Byte)
    BY <2>4
  <2> HIDE DEF s
  <2> QED
    BY <2>1, <2>4, <2>5, Zenon
<1> HIDE DEF s
<1>3. PICK f : IsLoop(f, n, Seq(Byte), <<>>, s)
  BY <1>1, <1>2, Recursion
<1>4. f \in [0..n -> Seq(Byte)] /\ f[0] = <<>>
  BY <1>3 DEF IsLoop
<1>5. \A i \in 1..n : f[i] = f[i - 1] \o Whole(pages[i])
  <2>1. \A i \in 1..n : f[i - 1] \in Seq(Byte)
    BY <1>1, <1>4
  <2> QED
    BY <1>2, <1>3, <2>1 DEF IsLoop
<1>6. f = F(f)
  <2>1. ASSUME NEW i \in 0..n
        PROVE  f[i] = F(f)[i]
    <3>1. i = 0 \/ i \in 1..n
      BY <1>1
    <3> QED
      BY <1>4, <1>5, <3>1
  <2> QED
    BY <1>4, <2>1
<1>7. PICK g : g = CHOOSE h : h = F(h)
  OBVIOUS
<1>8. Concat(pages) = g[n]
  BY <1>7 DEF Concat
<1>9. g = F(g)
  BY <1>6, <1>7, Zenon
<1>10. \A i \in 1..n : g[i] = g[i - 1] \o Whole(pages[i])
  BY <1>1, <1>9
<1>11. g[0] = <<>>
  BY <1>1, <1>9
<1> DEFINE S == {k \in Nat : k <= n => g[k] \in Seq(Byte)}
<1>12. 0 \in S
  BY <1>1, <1>11
<1>13. ASSUME NEW k \in Nat, k \in S
       PROVE  k + 1 \in S
  <2> SUFFICES ASSUME k + 1 <= n
               PROVE  g[k + 1] \in Seq(Byte)
    OBVIOUS
  <2>1. k + 1 \in 1..n /\ (k + 1) - 1 = k /\ g[k] \in Seq(Byte)
    BY <1>1, <1>13
  <2>2. g[k + 1] = g[k] \o Whole(pages[k + 1])
    BY <1>10, <2>1
  <2>3. Whole(pages[k + 1]) \in Seq(Byte)
    BY <2>1, WholeParts
  <2> QED
    BY <2>1, <2>2, <2>3
<1>14. Nat \subseteq S
  <2> HIDE DEF S
  <2> QED
    BY <1>12, <1>13, SetInduction
<1>15. g \in [0..n -> Seq(Byte)]
  <2>1. \A i \in 0..n : g[i] \in Seq(Byte)
    BY <1>14
  <2>2. DOMAIN g = 0..n /\ g = [i \in 0..n |-> g[i]]
    BY <1>9
  <2> QED
    BY <2>1, <2>2
<1> QED
  BY <1>8, <1>10, <1>11, <1>15 DEF Bytes

LEMMA ConcatEmpty == Concat(<<>>) = <<>>
<1>1. <<>> \in Seq(Page) /\ Len(<<>>) = 0
  OBVIOUS
<1>2. PICK g : Bytes(g, <<>>) /\ Concat(<<>>) = g[Len(<<>>)]
  BY <1>1, ConcatDefined
<1> QED
  BY <1>1, <1>2 DEF Bytes

\* A page more is its bytes more.
LEMMA ConcatAppend ==
    ASSUME NEW pages \in Seq(Page), NEW p \in Page
    PROVE  /\ Concat(pages) \in Seq(Byte)
           /\ Concat(Append(pages, p)) = Concat(pages) \o Whole(p)
<1>0. PICK n \in Nat : n = Len(pages)
  OBVIOUS
<1>1. PICK t : t = Append(pages, p) /\ n = Len(pages)
  BY <1>0
<1>2. t \in Seq(Page) /\ Len(t) = n + 1 /\ t[n + 1] = p /\ \A i \in 1..n : t[i] = pages[i]
  BY <1>1
<1>3. PICK g : Bytes(g, pages) /\ Concat(pages) = g[n]
  BY <1>1, ConcatDefined
<1>4. PICK h : Bytes(h, t) /\ Concat(t) = h[n + 1]
  BY <1>2, ConcatDefined
<1> DEFINE S == {k \in Nat : k <= n => h[k] = g[k]}
<1>5. 0 \in S
  BY <1>3, <1>4 DEF Bytes
<1>6. ASSUME NEW k \in Nat, k \in S
      PROVE  k + 1 \in S
  <2> SUFFICES ASSUME k + 1 <= n
               PROVE  h[k + 1] = g[k + 1]
    OBVIOUS
  <2>1. k + 1 \in 1..n /\ k + 1 \in 1..(n + 1) /\ (k + 1) - 1 = k /\ h[k] = g[k]
    BY <1>6
  <2> QED
    BY <1>1, <1>2, <1>3, <1>4, <2>1 DEF Bytes
<1>7. n \in S
  <2> HIDE DEF S
  <2> QED
    BY <1>5, <1>6, SetInduction
<1>8. h[n + 1] = h[n] \o Whole(t[n + 1])
  <2>1. n + 1 \in 1..(n + 1) /\ (n + 1) - 1 = n
    BY <1>1
  <2> QED
    BY <1>2, <1>4, <2>1 DEF Bytes
<1>9. g[n] \in Seq(Byte) /\ h[n] = g[n]
  BY <1>1, <1>3, <1>7 DEF Bytes
<1> QED
  BY <1>1, <1>2, <1>3, <1>4, <1>8, <1>9

\* A write at the end of the file appends.
LEMMA WriteAtEnd ==
    ASSUME NEW f \in Seq(Byte), NEW bytes \in Seq(Byte)
    PROVE  WriteAt(f, Len(f), bytes) = f \o bytes
<1>1. PICK n \in Nat, m \in Nat : n = Len(f) /\ m = Len(bytes)
  OBVIOUS
<1>2. PICK u, v : u = WriteAt(f, n, bytes) /\ v = f \o bytes
  OBVIOUS
<1>3. v \in Seq(Byte) /\ Len(v) = n + m /\ \A i \in 1..(n + m) : v[i] = IF i <= n THEN f[i] ELSE bytes[i - n]
  BY <1>1, <1>2
<1>4. u \in Seq(Byte)
  BY <1>1, <1>2, WriteAtType
<1>5. u = [i \in 1..(n + m) |-> IF i > n /\ i <= n + m THEN bytes[i - n]
                                ELSE IF i <= n THEN f[i] ELSE Zero]
  <2>1. (IF n > n + m THEN n ELSE n + m) = n + m
    OBVIOUS
  <2> QED
    BY <1>1, <1>2, <2>1, Zenon DEF WriteAt
<1>6. \A i \in 1..(n + m) : u[i] = v[i]
  BY <1>3, <1>5
<1>7. Len(u) = n + m
  BY <1>4, <1>5
<1> QED
  BY <1>1, <1>2, <1>3, <1>4, <1>6, <1>7, SeqEqual

\* z is x and then y.
IsCat(z, x, y) ==
    /\ z \in Seq(Byte) /\ Len(z) = Len(x) + Len(y)
    /\ \A i \in 1..Len(x) : z[i] = x[i]
    /\ \A i \in 1..Len(y) : z[Len(x) + i] = y[i]

LEMMA Cat ==
    ASSUME NEW x \in Seq(Byte), NEW y \in Seq(Byte)
    PROVE  IsCat(x \o y, x, y)
<1>1. PICK z : z = x \o y
  OBVIOUS
<1>2. PICK n \in Nat, m \in Nat : n = Len(x) /\ m = Len(y)
  OBVIOUS
<1>3. z \in Seq(Byte) /\ Len(z) = n + m
  BY <1>1, <1>2
<1>4. \A i \in 1..n : z[i] = x[i]
  BY <1>1, <1>2
<1>5. \A i \in 1..m : z[n + i] = y[i]
  BY <1>1, <1>2
<1> QED
  BY <1>1, <1>2, <1>3, <1>4, <1>5 DEF IsCat

\* What Close reads back is the payload of the last page.
LEMMA ReadBack ==
    ASSUME NEW x \in Seq(Byte), NEW h \in Seq(Byte), NEW y \in Seq(Byte)
    PROVE  SubSeq(x \o (h \o y), Len(x) + Len(h) + 1, Len(x) + Len(h) + Len(y)) = y
<1>1. PICK a \in Nat, b \in Nat, c \in Nat : a = Len(x) /\ b = Len(h) /\ c = Len(y)
  OBVIOUS
<1>2. PICK f : f = x \o (h \o y)
  OBVIOUS
<1>3. f \in Seq(Byte) /\ Len(f) = a + b + c /\ \A i \in 1..c : f[a + b + i] = y[i]
  <2>0. PICK z : z = h \o y /\ IsCat(z, h, y)
    BY Cat
  <2>1. z \in Seq(Byte) /\ Len(z) = b + c /\ \A i \in 1..c : z[b + i] = y[i]
    BY <1>1, <2>0 DEF IsCat
  <2>2. f \in Seq(Byte) /\ Len(f) = a + (b + c) /\ \A j \in 1..(b + c) : f[a + j] = z[j]
    <3>1. IsCat(f, x, z)
      BY <1>2, <2>0, <2>1, Cat
    <3>2. /\ f \in Seq(Byte) /\ Len(f) = Len(x) + Len(z)
          /\ \A i \in 1..Len(x) : f[i] = x[i]
          /\ \A j \in 1..Len(z) : f[Len(x) + j] = z[j]
      BY ONLY <3>1 DEF IsCat
    <3> QED
      BY ONLY <1>1, <2>1, <3>2
  <2>3. \A i \in 1..c : b + i \in 1..(b + c) /\ a + (b + i) = a + b + i
    OBVIOUS
  <2> QED
    BY <2>1, <2>2, <2>3
<1>4. PICK u : u = SubSeq(f, a + b + 1, a + b + c)
  OBVIOUS
<1>5. u \in Seq(Byte) /\ Len(u) = c /\ \A i \in 1..c : u[i] = y[i]
  <2>1. \A i \in (a + b + 1)..(a + b + c) : f[i] \in Byte
    BY <1>3
  <2>2. /\ a + b + 1 \in Int /\ a + b + c \in Int /\ (a + b + c) - (a + b + 1) + 1 = c
        /\ \A i \in 1..c : (a + b + 1) + i - 1 = a + b + i
    OBVIOUS
  <2>3. /\ u \in Seq(Byte)
        /\ Len(u) = IF a + b + 1 <= a + b + c THEN (a + b + c) - (a + b + 1) + 1 ELSE 0
        /\ \A i \in 1..((a + b + c) - (a + b + 1) + 1) : u[i] = f[(a + b + 1) + i - 1]
    BY <1>4, <2>1, <2>2, SubSeqProperties
  <2>4. Len(u) = c
    BY <2>3
  <2> QED
    BY <1>3, <2>2, <2>3, <2>4
<1>6. u = y
  BY <1>1, <1>5, SeqEqual
<1> QED
  BY <1>1, <1>2, <1>4, <1>6

\* A page written over the last one from k bytes into its header leaves what is
\* before it, those k bytes and itself.
Overwrites(x, h, y, k, bytes) ==
    WriteAt(x \o (h \o y), Len(x) + k, bytes) = x \o SubSeq(h, 1, k) \o bytes

LEMMA WriteOver ==
    ASSUME NEW x \in Seq(Byte), NEW h \in Seq(Byte), NEW y \in Seq(Byte),
           NEW k \in 0..Len(h), NEW bytes \in Seq(Byte), Len(bytes) = Len(h) + Len(y)
    PROVE  Overwrites(x, h, y, k, bytes)
<1>1. PICK a \in Nat, b \in Nat, c \in Nat : a = Len(x) /\ b = Len(h) /\ c = Len(y)
  OBVIOUS
<1>2. PICK f, u, v, s : /\ f = x \o (h \o y) /\ u = WriteAt(f, a + k, bytes)
                        /\ s = SubSeq(h, 1, k) /\ v = (x \o s) \o bytes
  OBVIOUS
<1>3. k \in Nat /\ k <= b /\ Len(bytes) = b + c
  BY <1>1
<1>4. /\ f \in Seq(Byte) /\ Len(f) = a + b + c
      /\ \A i \in 1..a : f[i] = x[i]
      /\ \A i \in 1..b : f[a + i] = h[i]
  <2>0. PICK z : z = h \o y /\ IsCat(z, h, y)
    BY Cat
  <2>1. z \in Seq(Byte) /\ Len(z) = b + c /\ \A i \in 1..b : z[i] = h[i]
    BY <1>1, <2>0 DEF IsCat
  <2>2. /\ f \in Seq(Byte) /\ Len(f) = a + (b + c)
        /\ \A i \in 1..a : f[i] = x[i]
        /\ \A j \in 1..(b + c) : f[a + j] = z[j]
    <3>1. IsCat(f, x, z)
      BY <1>2, <2>0, <2>1, Cat
    <3>2. /\ f \in Seq(Byte) /\ Len(f) = Len(x) + Len(z)
          /\ \A i \in 1..Len(x) : f[i] = x[i]
          /\ \A j \in 1..Len(z) : f[Len(x) + j] = z[j]
      BY ONLY <3>1 DEF IsCat
    <3> QED
      BY ONLY <1>1, <2>1, <3>2
  <2>3. ASSUME NEW i \in 1..b PROVE f[a + i] = h[i]
    <3>1. i \in 1..(b + c)
      BY ONLY <1>1, <2>3
    <3> QED
      BY ONLY <2>1, <2>2, <2>3, <3>1
  <2>4. a + (b + c) = a + b + c
    BY ONLY <1>1
  <2> QED
    BY ONLY <2>2, <2>3, <2>4
<1>5. s \in Seq(Byte) /\ Len(s) = k /\ \A i \in 1..k : s[i] = h[i]
  BY <1>1, <1>2, <1>3
<1>6. PICK t : t = x \o s
  OBVIOUS
<1>7. /\ t \in Seq(Byte) /\ Len(t) = a + k
      /\ \A i \in 1..a : t[i] = x[i]
      /\ \A i \in 1..k : t[a + i] = h[i]
  <2>1. IsCat(t, x, s)
    BY <1>5, <1>6, Cat
  <2> QED
    BY <1>1, <1>5, <2>1 DEF IsCat
<1>8. /\ v \in Seq(Byte) /\ Len(v) = a + k + b + c
      /\ \A i \in 1..(a + k) : v[i] = t[i]
      /\ \A i \in (a + k + 1)..(a + k + b + c) : v[i] = bytes[i - (a + k)]
  <2>1. IsCat(v, t, bytes)
    BY <1>2, <1>6, <1>7, Cat
  <2>2. /\ v \in Seq(Byte) /\ Len(v) = (a + k) + (b + c)
        /\ \A i \in 1..(a + k) : v[i] = t[i]
        /\ \A j \in 1..(b + c) : v[(a + k) + j] = bytes[j]
    BY <1>3, <1>7, <2>1 DEF IsCat
  <2>3. ASSUME NEW i \in (a + k + 1)..(a + k + b + c)
        PROVE  v[i] = bytes[i - (a + k)]
    <3>1. i - (a + k) \in 1..(b + c) /\ (a + k) + (i - (a + k)) = i
      BY <1>3
    <3> QED
      BY <2>2, <3>1
  <2>4. (a + k) + (b + c) = a + k + b + c
    BY <1>3
  <2> QED
    BY <2>2, <2>3, <2>4, Zenon
<1>9. u = [i \in 1..(a + k + b + c) |->
              IF i > a + k /\ i <= a + k + (b + c) THEN bytes[i - (a + k)]
              ELSE IF i <= a + b + c THEN f[i] ELSE Zero]
  <2>1. (IF a + b + c > a + k + (b + c) THEN a + b + c ELSE a + k + (b + c)) = a + k + b + c
    BY <1>3
  <2> QED
    BY <1>2, <1>3, <1>4, <2>1, Zenon DEF WriteAt
<1>10. u \in Seq(Byte)
  <2>1. a + k \in Nat
    BY <1>3
  <2> QED
    BY <1>2, <1>4, <2>1, WriteAtType
<1>11. Len(u) = a + k + b + c
  BY <1>3, <1>9, <1>10
<1>12. ASSUME NEW i \in 1..(a + k + b + c)
       PROVE  u[i] = v[i]
  <2>1. CASE i > a + k
    BY <1>3, <1>8, <1>9, <2>1
  <2>2. CASE i <= a
    <3>1. u[i] = f[i]
      BY <1>3, <1>9, <2>2
    <3>2. i \in 1..a /\ i \in 1..(a + k)
      BY <1>3, <2>2
    <3> QED
      BY <1>4, <1>7, <1>8, <3>1, <3>2
  <2>3. CASE i > a /\ i <= a + k
    <3>1. u[i] = f[i]
      BY <1>3, <1>9, <2>3
    <3>2. PICK j \in 1..k : i = a + j
      <4>1. i - a \in 1..k /\ i = a + (i - a)
        BY <1>3, <2>3
      <4> QED
        BY <4>1
    <3>3. j \in 1..b /\ i \in 1..(a + k)
      BY <1>3, <2>3
    <3> QED
      BY <1>4, <1>7, <1>8, <3>1, <3>2, <3>3
  <2> QED
    BY <1>3, <2>1, <2>2, <2>3
<1>13. u = v
  BY <1>8, <1>10, <1>11, <1>12, SeqEqual
<1> QED
  BY <1>1, <1>2, <1>13 DEF Overwrites

\* A sequence is a prefix of what is appended to it.
LEMMA PrefixKept ==
    ASSUME NEW x \in Seq(Byte), NEW y \in Seq(Byte), NEW z \in Seq(Byte)
    PROVE  SubSeq(x \o y \o z, 1, Len(x)) = x
<1>1. PICK f : f = x \o y \o z
  OBVIOUS
<1>2. PICK n : n = Len(x)
  OBVIOUS
<1>3. /\ f \in Seq(Byte) /\ n \in Nat /\ n <= Len(f)
      /\ \A i \in 1..n : f[i] = x[i]
  BY <1>1, <1>2
<1>4. PICK g : g = SubSeq(f, 1, n)
  OBVIOUS
<1>5. g \in Seq(Byte) /\ Len(g) = n /\ \A i \in 1..n : g[i] = f[i]
  <2>1. 1 \in Int /\ n \in Int
    BY <1>3
  <2> QED
    BY <1>3, <1>4, <2>1, SubSeqProperties
<1>6. g = x
  BY <1>2, <1>3, <1>5, SeqEqual
<1> QED
  BY <1>1, <1>2, <1>4, <1>6

-----------------------------------------------------------------------------
(* The invariant behind SoleRecording *)

\* What a converter knows of the pages it has packed: the pipe has carried them
\* all until the goroutine returns, the page number cannot have wrapped, and
\* until the next packet the counters describe the last page.
Packed(a) ==
    LET v == w[a]
        n == Len(v.written)
    IN  /\ v.pc = "none" => v.offset = 0
        /\ v.sole => v.pc # "none"
        /\ v.pc \in {"none", "first", "id", "comment", "audio", "loop"} => v.piped = v.written
        /\ v.piped = SubSeq(v.written, 1, Len(v.piped))
        /\ v.pageIndex <= Len(packets) + 2
        /\ v.pc = "audio" => v.pageIndex <= Len(packets) + 1
        /\ v.pc \in {"loop", "seek", "readback", "rewrite"} /\ n > 2 =>
              v.written[n] = CreatePage("cont", v.previousGranulePosition, v.pageIndex - 1,
                                        v.lastPayloadSize, v.packet)

\* Where the file and the descriptor are while nobody else has it open.
OnFile(a) ==
    LET v == w[a]
        n == Len(v.written)
    IN  /\ v.pc # "done" => file = Concat(v.written)
        /\ v.pc \in {"first", "id", "comment", "audio", "loop"} => v.offset = Len(file)
        /\ v.pc \in {"readback", "rewrite"} /\ n > 2 =>
              v.offset = Len(file) - (v.lastPayloadSize + PageHeaderSize + 1)
        /\ v.pc = "rewrite" /\ n > 2 =>
              v.payload = Payload(v.written[n].id, v.written[n].size)
        /\ v.pc = "done" /\ n > 2 => Closed(file, v.written)

\* A converter alone with the file came after those that have returned.
Follows(a) == w[a].sole => \A b \in 1..a - 1 : w[b].pc = "done"

RecordInv ==
    /\ StreamInv
    /\ Len(packets) <= MaxPackets
    /\ \A a \in Attempts : Packed(a) /\ Follows(a) /\ (Alone(a) => OnFile(a))

\* What a step of attempt c does to others.  One that has returned stays so and
\* writes nothing, and one that has no writer afterwards had none before.
Apart(c) ==
    /\ \A b \in Attempts \ {c} : w'[b] = w[b]
    /\ w[c].pc = "done" => file' = file /\ w'[c].pc = "done"
    /\ w'[c].pc \in {"none", "failed"} => file' = file /\ w[c].pc \in {"none", "failed"}
    /\ Len(packets') >= Len(packets)

LEMMA OthersKept ==
    ASSUME RecordInv, NEW c \in Attempts, Apart(c), NEW a \in Attempts, a # c
    PROVE  Packed(a)' /\ Follows(a)' /\ (Alone(a)' => OnFile(a)')
<1>1. /\ w'[a] = w[a] /\ Packed(a) /\ Follows(a) /\ (Alone(a) => OnFile(a))
      /\ \A b \in Attempts \ {c} : w'[b] = w[b]
  BY DEF RecordInv, Apart
<1>2. Len(packets') \in Int /\ Len(packets) \in Int /\ Len(packets') >= Len(packets)
      /\ w[a].pageIndex \in Int
  BY WriterType DEF RecordInv, StreamInv, TypeOK, Apart
<1>3. Packed(a)'
  BY <1>1, <1>2 DEF Packed
<1>4. Follows(a)'
  <2> SUFFICES ASSUME w'[a].sole, NEW b \in 1..a - 1
               PROVE  w'[b].pc = "done"
    BY DEF Follows
  <2>1. w[b].pc = "done" /\ b \in Attempts
    BY <1>1, OggAssumption DEF Follows, Attempts
  <2> QED
    BY <1>1, <2>1 DEF Apart
<1>5. ASSUME Alone(a)'
      PROVE  OnFile(a)'
  <2>1. w[a].sole /\ \A b \in a + 1..MaxAttempts : w'[b].pc \in {"none", "failed"}
    BY <1>1, <1>5 DEF Alone
  <2>2. c \in 1..a - 1 \/ c \in a + 1..MaxAttempts
    BY OggAssumption DEF Attempts
  <2>3. file' = file
    BY <1>1, <2>1, <2>2 DEF Apart, Follows
  <2>4. Alone(a)
    <3>1. ASSUME NEW b \in a + 1..MaxAttempts
          PROVE  w[b].pc \in {"none", "failed"}
      <4>1. b \in Attempts
        BY DEF Attempts
      <4> QED
        BY <1>1, <2>1, <4>1 DEF Apart
    <3> QED
      BY <2>1, <3>1 DEF Alone
  <2> QED
    BY <1>1, <2>3, <2>4 DEF OnFile
<1> QED
  BY <1>3, <1>4, <1>5

\* So it is enough to look at the attempt that takes the step.
LEMMA OneRecorder ==
    ASSUME RecordInv, StreamInv', Len(packets') <= MaxPackets, NEW c \in Attempts, Apart(c),
           Packed(c)', Follows(c)', Alone(c)' => OnFile(c)'
    PROVE  RecordInv'
BY OthersKept DEF RecordInv

\* Steps that leave the file, the pages and the counters alone.
LEMMA QuietRecord ==
    ASSUME RecordInv, StreamInv', NEW c \in Attempts, file' = file,
           \A b \in Attempts \ {c} : w'[b] = w[b],
           Len(packets') >= Len(packets), Len(packets') <= MaxPackets,
           w'[c].piped = w[c].piped, w'[c].written = w[c].written,
           w'[c].pageIndex = w[c].pageIndex, w'[c].offset = w[c].offset,
           w'[c].previousGranulePosition = w[c].previousGranulePosition,
           w'[c].lastPayloadSize = w[c].lastPayloadSize,
           w'[c].payload = w[c].payload, w'[c].sole = w[c].sole,
           \/ w'[c].pc = w[c].pc /\ w'[c].packet = w[c].packet
           \/ w[c].pc = "none" /\ w'[c].pc = "failed"
           \/ /\ w[c].pc \in {"first", "loop"} /\ w'[c].pc = "seek"
              /\ w'[c].packet = w[c].packet
           \/ w[c].pc = "first" /\ w'[c].pc = "id"
           \/ w[c].pc = "loop" /\ w'[c].pc = "audio" /\ Len(packets') = Len(packets) + 1
    PROVE  RecordInv'
<1>1. Packed(c) /\ Follows(c) /\ (Alone(c) => OnFile(c)) /\ TypeOK /\ Position(c)
  BY DEF RecordInv, StreamInv
<1>2. /\ Len(packets) \in Int /\ Len(packets') \in Int /\ w[c].pageIndex \in Int
      /\ Len(w[c].written) \in Nat
  BY <1>1, WriterType DEF TypeOK, RecordInv, StreamInv
<1>3. Apart(c)
  BY DEF Apart
<1>4. w[c].pc = "first" => Len(w[c].written) = 0
  BY <1>1 DEF Packed, Position
<1>5. Packed(c)'
  BY <1>1, <1>2, <1>4 DEF Packed
<1>6. Follows(c)'
  <2>1. \A b \in 1..c - 1 : b \in Attempts \ {c}
    BY OggAssumption DEF Attempts
  <2> QED
    BY <1>1, <2>1 DEF Follows
<1>7. ASSUME Alone(c)'
      PROVE  OnFile(c)'
  <2>1. \A b \in c + 1..MaxAttempts : b \in Attempts \ {c}
    BY OggAssumption DEF Attempts
  <2>2. Alone(c)
    BY <1>7, <2>1 DEF Alone
  <2>3. w[c].pc # "none"
    BY <1>1, <2>2 DEF Alone, Packed
  <2> QED
    BY <1>1, <2>2, <2>3 DEF OnFile
<1> QED
  BY <1>3, <1>5, <1>6, <1>7, OneRecorder

\* What a write leaves on the file and of the page in the record.
LEMMA WroteFile ==
    ASSUME TypeOK, NEW a \in Attempts, NEW p \in Page, NEW W \in Writer, NEW next \in Pcs,
           WriteToStream(a, p, W, next)
    PROVE  /\ file' = WriteAt(file, W.offset, Whole(p))
           /\ w'[a].written = Append(W.written, p)
           /\ w'[a].offset = W.offset + Len(Whole(p))
           /\ w'[a].lastPayloadSize = p.size
           /\ w'[a].sole = W.sole
<1> DEFINE l == W.offset + Len(Whole(p))
           done == [W EXCEPT !.lastPayloadSize = p.size, !.written = Append(@, p),
                             !.offset = l]
           shut == [done EXCEPT !.pc = "seek"]
           open == [done EXCEPT !.pc = next, !.piped = Append(@, p)]
<1>1. /\ w' = [w EXCEPT ![a] = IF w[a].closed THEN shut ELSE open]
      /\ file' = WriteAt(file, W.offset, Whole(p))
  BY DEF WriteToStream, Whole
<1> HIDE DEF l
<1>2. /\ shut.written = Append(W.written, p) /\ shut.offset = l
      /\ shut.lastPayloadSize = p.size /\ shut.sole = W.sole
  BY DEF Writer
<1>3. /\ open.written = Append(W.written, p) /\ open.offset = l
      /\ open.lastPayloadSize = p.size /\ open.sole = W.sole
  BY DEF Writer
<1> HIDE DEF shut, open
<1>4. w'[a] = IF w[a].closed THEN shut ELSE open
  BY <1>1 DEF TypeOK
<1>5. CASE w[a].closed
  BY <1>1, <1>2, <1>4, <1>5 DEF l
<1>6. CASE ~w[a].closed
  BY <1>1, <1>3, <1>4, <1>6 DEF l
<1> QED
  BY <1>5, <1>6

\* A page goes to the end of the file.
LEMMA PageRecorded ==
    ASSUME RecordInv, StreamInv', NEW a \in Attempts, NEW p \in Page, NEW W \in Writer,
           NEW next \in {"comment", "audio", "loop"}, WriteToStream(a, p, W, next),
           w[a].pc \in {"id", "comment", "audio"},
           W.piped = w[a].piped, W.written = w[a].written, W.offset = w[a].offset,
           W.sole = w[a].sole,
           W.pageIndex <= Len(packets) + 2, next = "audio" => W.pageIndex <= Len(packets) + 1,
           Len(w[a].written) >= 2 =>
              /\ next = "loop"
              /\ p = CreatePage("cont", W.previousGranulePosition, W.pageIndex - 1, p.size, W.packet)
    PROVE  RecordInv'
<1>1. /\ Packed(a) /\ Follows(a) /\ (Alone(a) => OnFile(a)) /\ TypeOK
      /\ Len(packets) <= MaxPackets /\ next \in Pcs
  BY DEF RecordInv, StreamInv, Pcs
<1>2. /\ packets' = packets /\ \A b \in Attempts \ {a} : w'[b] = w[b]
      /\ w'[a].packet = W.packet /\ w'[a].pageIndex = W.pageIndex
      /\ w'[a].previousGranulePosition = W.previousGranulePosition
      /\ w[a].closed => w'[a].pc = "seek" /\ w'[a].piped = w[a].piped
      /\ ~w[a].closed => w'[a].pc = next /\ w'[a].piped = Append(w[a].piped, p)
  BY <1>1, Wrote
<1>3. /\ file' = WriteAt(file, w[a].offset, Whole(p))
      /\ w'[a].written = Append(w[a].written, p)
      /\ w'[a].offset = w[a].offset + Len(Whole(p))
      /\ w'[a].lastPayloadSize = p.size
      /\ w'[a].sole = w[a].sole
  BY <1>1, WroteFile
<1>4. PICK s, t, n : s = w[a].written /\ t = w'[a].written /\ n = Len(s)
  OBVIOUS
<1>5. /\ s \in Seq(Page) /\ n \in Nat /\ w[a].piped = s
      /\ t = Append(s, p) /\ t \in Seq(Page) /\ Len(t) = n + 1 /\ t[n + 1] = p
      /\ file \in Seq(Byte)
  BY <1>1, <1>3, <1>4, WriterType DEF Packed, TypeOK
<1>6. w'[a].pc \in {"seek", "comment", "audio", "loop"}
  BY <1>2
<1>7. w'[a].piped = SubSeq(t, 1, Len(w'[a].piped))
  <2>1. s = SubSeq(t, 1, n) /\ t = SubSeq(t, 1, n + 1)
    BY <1>5
  <2> QED
    BY <1>2, <1>4, <1>5, <2>1
<1>8. Packed(a)'
  <2>1. w'[a].pc # "seek" => w'[a].piped = t /\ w'[a].pc = next
    BY <1>2, <1>4, <1>5
  <2>2. n + 1 > 2 => /\ p = CreatePage("cont", W.previousGranulePosition, W.pageIndex - 1, p.size, W.packet)
                     /\ next = "loop"
    BY <1>4, <1>5
  <2> QED
    BY <1>2, <1>3, <1>4, <1>5, <1>6, <1>7, <2>1, <2>2 DEF Packed
<1>9. Apart(a)
  <2>1. Len(packets) \in Nat
    BY <1>1 DEF TypeOK
  <2> QED
    BY <1>2, <1>6, <2>1 DEF Apart
<1>10. Follows(a)'
  <2>1. \A b \in 1..a - 1 : b \in Attempts \ {a}
    BY OggAssumption DEF Attempts
  <2> QED
    BY <1>1, <1>2, <1>3, <2>1 DEF Follows
<1>11. ASSUME Alone(a)'
       PROVE  OnFile(a)'
  <2>1. \A b \in a + 1..MaxAttempts : b \in Attempts \ {a}
    BY OggAssumption DEF Attempts
  <2>2. Alone(a)
    BY <1>2, <1>3, <1>11, <2>1 DEF Alone
  <2>3. file = Concat(s) /\ w[a].offset = Len(file)
    BY <1>1, <1>4, <2>2 DEF OnFile
  <2>4. Whole(p) \in Seq(Byte)
    BY WholeParts
  <2>5. file' = file \o Whole(p)
    BY <1>3, <1>5, <2>3, <2>4, WriteAtEnd
  <2>6. file' = Concat(t)
    BY <1>5, <2>3, <2>5, ConcatAppend
  <2>7. Len(file') = w'[a].offset
    BY <1>3, <1>5, <2>3, <2>4, <2>5
  <2> QED
    BY <1>4, <1>6, <2>6, <2>7 DEF OnFile
<1> QED
  BY <1>1, <1>2, <1>8, <1>9, <1>10, <1>11, OneRecorder

\* The last page is at the end of the file: x before it, its header h and its
\* payload y.
EndsWith(c, x, h, y, p) ==
    /\ p \in Page /\ p = w[c].written[Len(w[c].written)]
    /\ x \in Seq(Byte) /\ x = Concat(SubSeq(w[c].written, 1, Len(w[c].written) - 1))
    /\ h \in Seq(Byte) /\ h = PageBytes(p, <<>>)
    /\ y \in Seq(Byte) /\ y = Payload(p.id, p.size)
    /\ Len(h) = PageHeaderSize + NSegments(p.size) /\ Len(y) = p.size
    /\ file = x \o (h \o y)
    /\ p.size = w[c].lastPayloadSize /\ p.size \in Nat

LEMMA LastPage ==
    ASSUME RecordInv, NEW c \in Attempts, Alone(c), Len(w[c].written) > 2,
           w[c].pc \in {"seek", "readback", "rewrite"}
    PROVE  \E x, h, y, p : EndsWith(c, x, h, y, p)
<1>1. Packed(c) /\ OnFile(c) /\ TypeOK
  BY DEF RecordInv, StreamInv
<1>2. PICK s, n : s = w[c].written /\ n = Len(s)
  OBVIOUS
<1>3. s \in Seq(Page) /\ n \in Nat /\ n > 2
  BY <1>1, <1>2, WriterType
<1>4. PICK t, p : t = SubSeq(s, 1, n - 1) /\ p = s[n]
  OBVIOUS
<1>5. t \in Seq(Page) /\ p \in Page /\ s = Append(t, p)
  <2>1. t \in Seq(Page) /\ Len(t) = n - 1 /\ \A i \in 1..(n - 1) : t[i] = s[i]
    <3>1. PICK m \in Nat : m = n - 1 /\ m <= n /\ t = SubSeq(s, 1, m)
      BY <1>3, <1>4
    <3>2. \A i \in 1..m : s[i] \in Page
      BY <1>2, <1>3, <3>1
    <3>3. /\ t \in Seq(Page) /\ Len(t) = IF 1 <= m THEN m - 1 + 1 ELSE 0
          /\ \A i \in 1..(m - 1 + 1) : t[i] = s[1 + i - 1]
      BY <3>1, <3>2, SubSeqProperties
    <3> QED
      BY <3>1, <3>3
  <2>2. p \in Page
    BY <1>2, <1>3, <1>4
  <2>3. PICK r : r = Append(t, p)
    OBVIOUS
  <2>4. r \in Seq(Page) /\ Len(r) = n /\ r[n] = p /\ \A i \in 1..(n - 1) : r[i] = s[i]
    BY <1>3, <2>1, <2>2, <2>3
  <2>5. \A i \in 1..n : r[i] = s[i]
    BY <1>3, <1>4, <2>4
  <2> QED
    BY <1>2, <1>3, <2>1, <2>2, <2>3, <2>4, <2>5, SeqEqual
<1>6. PICK x, h, y : x = Concat(t) /\ h = PageBytes(p, <<>>) /\ y = Payload(p.id, p.size)
  OBVIOUS
<1>7. /\ h \in Seq(Byte) /\ y \in Seq(Byte) /\ Whole(p) = h \o y
      /\ Len(h) = PageHeaderSize + NSegments(p.size) /\ Len(y) = p.size
  BY <1>5, <1>6, WholeParts
<1>8. x \in Seq(Byte) /\ Concat(s) = x \o Whole(p)
  BY <1>5, <1>6, ConcatAppend
<1>9. file = x \o (h \o y)
  BY <1>1, <1>2, <1>7, <1>8 DEF OnFile
<1>10. p.size = w[c].lastPayloadSize /\ p.size \in Nat
  <2>1. p = CreatePage("cont", w[c].previousGranulePosition, w[c].pageIndex - 1,
                       w[c].lastPayloadSize, w[c].packet)
    BY <1>1, <1>2, <1>3, <1>4 DEF Packed
  <2> QED
    BY <1>5, <2>1 DEF CreatePage, Page
<1>11. EndsWith(c, x, h, y, p)
  BY <1>2, <1>4, <1>5, <1>6, <1>7, <1>8, <1>9, <1>10 DEF EndsWith
<1> QED
  BY <1>11

\* How far back Close seeks: to the last byte of the segment table but for one
\* header.
LEMMA SeekBack ==
    ASSUME NEW c \in Attempts, NEW x, NEW h, NEW y, NEW p, EndsWith(c, x, h, y, p)
    PROVE  /\ Len(file) - (w[c].lastPayloadSize + PageHeaderSize + 1)
                  = Len(x) + (NSegments(p.size) - 1)
           /\ Len(x) + (NSegments(p.size) - 1) \in Nat
           /\ (Len(x) + (NSegments(p.size) - 1)) + PageHeaderSize + 1 = Len(x) + Len(h)
           /\ Len(file) = Len(x) + Len(h) + p.size
           /\ NSegments(p.size) - 1 \in 0..Len(h)
<1>1. /\ x \in Seq(Byte) /\ h \in Seq(Byte) /\ y \in Seq(Byte) /\ p.size \in Nat
      /\ Len(h) = PageHeaderSize + NSegments(p.size) /\ Len(y) = p.size
      /\ file = x \o (h \o y) /\ w[c].lastPayloadSize = p.size
  BY DEF EndsWith
<1>2. PICK k \in Nat \ {0} : k = NSegments(p.size)
  BY <1>1, NSegmentsNat
<1>3. PageHeaderSize \in Nat
  BY OggAssumption
<1>4. PICK l \in Nat : l = Len(x)
  BY <1>1
<1>5. PICK m \in Nat, d \in Nat : m = p.size /\ d = PageHeaderSize
  BY <1>1, <1>3
<1>6. Len(h) = d + k /\ Len(file) = l + ((d + k) + m)
  <2>1. PICK z : z = h \o y /\ IsCat(z, h, y)
    BY <1>1, Cat
  <2>2. z \in Seq(Byte) /\ Len(z) = (d + k) + m /\ Len(h) = d + k
    BY <1>1, <1>2, <1>5, <2>1 DEF IsCat
  <2>3. IsCat(file, x, z)
    BY <1>1, <2>1, <2>2, Cat
  <2> QED
    BY <1>4, <2>2, <2>3 DEF IsCat
<1>7. /\ (l + ((d + k) + m)) - (m + d + 1) = l + (k - 1)
      /\ l + (k - 1) \in Nat
      /\ (l + (k - 1)) + d + 1 = l + (d + k)
      /\ l + ((d + k) + m) = l + (d + k) + m
      /\ k - 1 \in 0..(d + k)
  OBVIOUS
<1> QED
  BY <1>1, <1>2, <1>4, <1>5, <1>6, <1>7, Zenon

LEMMA CloseSeekRecord ==
    ASSUME RecordInv, StreamInv', NEW c \in Attempts, CloseSeek(c)
    PROVE  RecordInv'
<1>1. Packed(c) /\ Follows(c) /\ (Alone(c) => OnFile(c)) /\ TypeOK
  BY DEF RecordInv, StreamInv
<1>2. PICK offset : offset = Len(file) - (w[c].lastPayloadSize + PageHeaderSize + 1)
  OBVIOUS
<1>3. /\ w[c].pc = "seek" /\ file' = file /\ packets' = packets
      /\ \A b \in Attempts \ {c} : w'[b] = w[b]
      /\ w'[c] = IF offset < 0 THEN [w[c] EXCEPT !.pc = "done"]
                 ELSE [w[c] EXCEPT !.pc = "readback", !.offset = offset]
  BY <1>1, <1>2 DEF CloseSeek, TypeOK
<1>4. /\ w'[c].piped = w[c].piped /\ w'[c].written = w[c].written
      /\ w'[c].pageIndex = w[c].pageIndex /\ w'[c].packet = w[c].packet
      /\ w'[c].previousGranulePosition = w[c].previousGranulePosition
      /\ w'[c].lastPayloadSize = w[c].lastPayloadSize /\ w'[c].sole = w[c].sole
      /\ \/ offset < 0 /\ w'[c].pc = "done"
         \/ ~(offset < 0) /\ w'[c].pc = "readback" /\ w'[c].offset = offset
  <2>1. w[c] \in Writer
    BY <1>1, WriterType
  <2> QED
    BY <1>3, <2>1 DEF Writer
<1>5. Packed(c)'
  BY <1>1, <1>3, <1>4 DEF Packed
<1>6. Apart(c)
  <2>1. Len(packets) \in Nat
    BY <1>1 DEF TypeOK
  <2> QED
    BY <1>3, <1>4, <2>1 DEF Apart
<1>7. Follows(c)'
  <2>1. \A b \in 1..c - 1 : b \in Attempts \ {c}
    BY OggAssumption DEF Attempts
  <2> QED
    BY <1>1, <1>3, <1>4, <2>1 DEF Follows
<1>8. ASSUME Alone(c)'
      PROVE  OnFile(c)'
  <2>1. \A b \in c + 1..MaxAttempts : b \in Attempts \ {c}
    BY OggAssumption DEF Attempts
  <2>2. Alone(c)
    BY <1>3, <1>4, <1>8, <2>1 DEF Alone
  <2>3. Len(w[c].written) > 2 => ~(offset < 0)
    <3> SUFFICES ASSUME Len(w[c].written) > 2
                 PROVE  ~(offset < 0)
      OBVIOUS
    <3>1. PICK x, h, y, p : EndsWith(c, x, h, y, p)
      BY <1>3, <2>2, LastPage
    <3>2. offset \in Nat
      BY <1>2, <3>1, SeekBack
    <3> QED
      BY <3>2
  <2> QED
    BY <1>1, <1>2, <1>3, <1>4, <2>2, <2>3 DEF OnFile
<1> QED
  BY <1>3, <1>5, <1>6, <1>7, <1>8, OneRecorder DEF RecordInv

LEMMA CloseReadRecord ==
    ASSUME RecordInv, StreamInv', NEW c \in Attempts, CloseRead(c)
    PROVE  RecordInv'
<1>1. Packed(c) /\ Follows(c) /\ (Alone(c) => OnFile(c)) /\ TypeOK
  BY DEF RecordInv, StreamInv
<1>2. PICK size, start, read :
         /\ size = w[c].lastPayloadSize /\ start = w[c].offset + PageHeaderSize + 1
         /\ read = SubSeq(file, start + 1, start + size)
  OBVIOUS
<1>3. /\ w[c].pc = "readback" /\ file' = file /\ packets' = packets
      /\ \A b \in Attempts \ {c} : w'[b] = w[b]
      /\ w'[c] = IF size > 0 /\ start + size > Len(file) THEN [w[c] EXCEPT !.pc = "done"]
                 ELSE [w[c] EXCEPT !.pc = "rewrite", !.payload = read]
  BY <1>1, <1>2 DEF CloseRead, TypeOK
<1>4. /\ w'[c].piped = w[c].piped /\ w'[c].written = w[c].written
      /\ w'[c].pageIndex = w[c].pageIndex /\ w'[c].packet = w[c].packet
      /\ w'[c].previousGranulePosition = w[c].previousGranulePosition
      /\ w'[c].lastPayloadSize = w[c].lastPayloadSize /\ w'[c].sole = w[c].sole
      /\ w'[c].offset = w[c].offset
      /\ \/ size > 0 /\ start + size > Len(file) /\ w'[c].pc = "done"
         \/ w'[c].pc = "rewrite" /\ w'[c].payload = read
  <2>1. w[c] \in Writer
    BY <1>1, WriterType
  <2> QED
    BY <1>3, <2>1 DEF Writer
<1>5. Packed(c)'
  BY <1>1, <1>3, <1>4 DEF Packed
<1>6. Apart(c)
  <2>1. Len(packets) \in Nat
    BY <1>1 DEF TypeOK
  <2> QED
    BY <1>3, <1>4, <2>1 DEF Apart
<1>7. Follows(c)'
  <2>1. \A b \in 1..c - 1 : b \in Attempts \ {c}
    BY OggAssumption DEF Attempts
  <2> QED
    BY <1>1, <1>3, <1>4, <2>1 DEF Follows
<1>8. ASSUME Alone(c)'
      PROVE  OnFile(c)'
  <2>1. \A b \in c + 1..MaxAttempts : b \in Attempts \ {c}
    BY OggAssumption DEF Attempts
  <2>2. Alone(c)
    BY <1>3, <1>4, <1>8, <2>1 DEF Alone
  <2>3. ASSUME Len(w[c].written) > 2
        PROVE  /\ ~(start + size > Len(file))
               /\ read = Payload(w[c].written[Len(w[c].written)].id,
                                 w[c].written[Len(w[c].written)].size)
    <3>1. PICK x, h, y, p : EndsWith(c, x, h, y, p)
      BY <1>3, <2>2, <2>3, LastPage
    <3>2. w[c].offset = Len(file) - (w[c].lastPayloadSize + PageHeaderSize + 1)
      BY <1>1, <1>3, <2>2, <2>3 DEF OnFile
    <3>3. start = Len(x) + Len(h) /\ Len(file) = start + size
      <4>1. p.size = size
        BY <1>2, <3>1 DEF EndsWith
      <4> QED
        BY <1>2, <3>1, <3>2, <4>1, SeekBack
    <3>4. /\ x \in Seq(Byte) /\ h \in Seq(Byte) /\ y \in Seq(Byte) /\ Len(y) = size
          /\ file = x \o (h \o y) /\ y = Payload(p.id, p.size)
          /\ p = w[c].written[Len(w[c].written)]
      BY <1>2, <3>1 DEF EndsWith
    <3>5. read = y
      <4>1. SubSeq(x \o (h \o y), Len(x) + Len(h) + 1, Len(x) + Len(h) + Len(y)) = y
        BY <3>4, ReadBack
      <4> QED
        BY <1>2, <3>3, <3>4, <4>1, Zenon
    <3>6. ~(start + size > Len(file))
      BY <3>3, <3>4
    <3> QED
      BY <3>4, <3>5, <3>6
  <2> QED
    BY <1>1, <1>3, <1>4, <2>2, <2>3 DEF OnFile
<1> QED
  BY <1>3, <1>5, <1>6, <1>7, <1>8, OneRecorder DEF RecordInv

\* The page written again is the last one as the end of the stream, and takes
\* the place SeekBack gives it.
LEMMA CloseRewriteRecord ==
    ASSUME RecordInv, StreamInv', NEW c \in Attempts, CloseRewrite(c)
    PROVE  RecordInv'
<1>1. Packed(c) /\ Follows(c) /\ (Alone(c) => OnFile(c)) /\ TypeOK /\ Len(packets) <= MaxPackets
  BY DEF RecordInv, StreamInv
<1>2. PICK q : q = CreatePage("eos", w[c].previousGranulePosition,
                              (w[c].pageIndex - 1) % PageIndexes,
                              w[c].lastPayloadSize, w[c].packet)
  OBVIOUS
<1>3. /\ w[c].pc = "rewrite" /\ packets' = packets
      /\ file' = WriteAt(file, w[c].offset, PageBytes(q, w[c].payload))
      /\ \A b \in Attempts \ {c} : w'[b] = w[b]
      /\ w'[c] = [w[c] EXCEPT !.pc = "done"]
  BY <1>1, <1>2 DEF CloseRewrite, TypeOK
<1>4. /\ w'[c].piped = w[c].piped /\ w'[c].written = w[c].written
      /\ w'[c].pageIndex = w[c].pageIndex /\ w'[c].sole = w[c].sole /\ w'[c].pc = "done"
  <2>1. w[c] \in Writer
    BY <1>1, WriterType
  <2> QED
    BY <1>3, <2>1 DEF Writer
<1>5. Packed(c)'
  BY <1>1, <1>3, <1>4 DEF Packed
<1>6. Apart(c)
  <2>1. Len(packets) \in Nat
    BY <1>1 DEF TypeOK
  <2> QED
    BY <1>3, <1>4, <2>1 DEF Apart
<1>7. Follows(c)'
  <2>1. \A b \in 1..c - 1 : b \in Attempts \ {c}
    BY OggAssumption DEF Attempts
  <2> QED
    BY <1>1, <1>3, <1>4, <2>1 DEF Follows
<1>8. ASSUME Alone(c)'
      PROVE  OnFile(c)'
  <2>1. \A b \in c + 1..MaxAttempts : b \in Attempts \ {c}
    BY OggAssumption DEF Attempts
  <2>2. Alone(c)
    BY <1>3, <1>4, <1>8, <2>1 DEF Alone
  <2>3. ASSUME Len(w[c].written) > 2
        PROVE  Closed(file', w[c].written)
    <3>1. PICK x, h, y, p : EndsWith(c, x, h, y, p)
      BY <1>3, <2>2, <2>3, LastPage
    <3>2. PICK k : k = NSegments(p.size) - 1
      OBVIOUS
    <3>3. /\ x \in Seq(Byte) /\ h \in Seq(Byte) /\ y \in Seq(Byte) /\ p \in Page
          /\ file = x \o (h \o y) /\ y = Payload(p.id, p.size) /\ h = PageBytes(p, <<>>)
          /\ p = w[c].written[Len(w[c].written)] /\ Len(y) = p.size /\ p.size \in Nat
          /\ x = Concat(SubSeq(w[c].written, 1, Len(w[c].written) - 1))
          /\ Len(h) = PageHeaderSize + NSegments(p.size)
      BY <3>1 DEF EndsWith
    <3>4. w[c].offset = Len(x) + k /\ k \in 0..Len(h)
      <4>1. w[c].offset = Len(file) - (w[c].lastPayloadSize + PageHeaderSize + 1)
        BY <1>1, <1>3, <2>2, <2>3 DEF OnFile
      <4> QED
        BY <3>1, <3>2, <4>1, SeekBack
    <3>5. w[c].payload = y
      BY <1>1, <1>3, <2>2, <2>3, <3>3 DEF OnFile
    <3>6. q = [p EXCEPT !.type = "eos"] /\ q \in Page /\ q.id = p.id /\ q.size = p.size
      <4>1. p = CreatePage("cont", w[c].previousGranulePosition, w[c].pageIndex - 1,
                           w[c].lastPayloadSize, w[c].packet)
        BY <1>1, <1>3, <2>3, <3>3 DEF Packed
      <4>2. w[c].pageIndex - 1 \in Nat
        BY <3>3, <4>1 DEF CreatePage, Page
      <4>3. w[c].pageIndex - 1 < PageIndexes /\ PageIndexes \in Nat
        <5>1. w[c].pageIndex <= Len(packets) + 2 /\ Len(packets) \in Nat /\ w[c].pageIndex \in Nat
          BY <1>1, WriterType DEF Packed, TypeOK
        <5> QED
          BY <1>1, <5>1, OggAssumption
      <4>4. (w[c].pageIndex - 1) % PageIndexes = w[c].pageIndex - 1
        BY <4>2, <4>3
      <4>5. q = CreatePage("eos", w[c].previousGranulePosition, w[c].pageIndex - 1,
                           w[c].lastPayloadSize, w[c].packet)
        BY <1>2, <4>4
      <4>6. q = [p EXCEPT !.type = "eos"]
        BY <4>1, <4>5 DEF CreatePage
      <4> QED
        BY <3>3, <4>6 DEF Page
    <3>7. PICK bytes : bytes = PageBytes(q, y)
      OBVIOUS
    <3>8. bytes = Whole([p EXCEPT !.type = "eos"]) /\ bytes = Whole(q)
      BY <3>3, <3>6, <3>7 DEF Whole
    <3>9. bytes \in Seq(Byte) /\ Len(bytes) = Len(h) + Len(y)
      <4>1. /\ Whole(q) = PageBytes(q, <<>>) \o Payload(q.id, q.size)
            /\ PageBytes(q, <<>>) \in Seq(Byte) /\ Payload(q.id, q.size) \in Seq(Byte)
            /\ Len(PageBytes(q, <<>>)) = PageHeaderSize + NSegments(q.size)
            /\ Len(Payload(q.id, q.size)) = q.size
        BY <3>6, WholeParts
      <4>2. IsCat(Whole(q), PageBytes(q, <<>>), Payload(q.id, q.size))
        BY <4>1, Cat
      <4> QED
        BY <3>3, <3>6, <3>8, <4>1, <4>2 DEF IsCat
    <3>10. Overwrites(x, h, y, k, bytes)
      <4>1. /\ x \in Seq(Byte) /\ h \in Seq(Byte) /\ y \in Seq(Byte) /\ k \in 0..Len(h)
            /\ bytes \in Seq(Byte) /\ Len(bytes) = Len(h) + Len(y)
        BY <3>3, <3>4, <3>9, Zenon
      <4> QED
        BY <4>1, WriteOver
    <3>11. file' = x \o SubSeq(h, 1, k) \o bytes
      BY <1>3, <3>3, <3>4, <3>5, <3>7, <3>10 DEF Overwrites
    <3>12. x = Earlier(w[c].written) /\ x \o bytes = Marked(w[c].written)
      BY <3>3, <3>8, Zenon DEF Earlier, Marked
    <3>13. SubSeq(h, 1, k) \in Seq(Byte)
      <4>1. h \in Seq(Byte) /\ k \in 0..Len(h)
        BY <3>3, <3>4, Zenon
      <4>2. Len(h) \in Nat /\ \A i \in 1..Len(h) : h[i] \in Byte
        BY ONLY <4>1
      <4>3. 1 \in Int /\ k \in Int /\ \A i \in 1..k : h[i] \in Byte
        BY ONLY <4>1, <4>2
      <4> QED
        BY ONLY <4>3, SubSeqProperties
    <3>14. SubSeq(file', 1, Len(x)) = x
      <4>1. PICK s : s = SubSeq(h, 1, k)
        OBVIOUS
      <4>2. /\ x \in Seq(Byte) /\ s \in Seq(Byte) /\ bytes \in Seq(Byte)
            /\ file' = x \o s \o bytes
        BY <3>3, <3>9, <3>11, <3>13, <4>1, Zenon
      <4>3. SubSeq(x \o s \o bytes, 1, Len(x)) = x
        BY ONLY <4>2, PrefixKept
      <4> QED
        BY <4>2, <4>3, Zenon
    <3>15. ASSUME NSegments(p.size) = 1
          PROVE  file' = x \o bytes
      <4>1. k = 0
        BY <3>2, <3>15
      <4>2. SubSeq(h, 1, k) = <<>>
        <5>1. h \in Seq(Byte)
          BY <3>3, Zenon
        <5> QED
          BY ONLY <4>1, <5>1
      <4>3. x \o <<>> = x
        <5>1. x \in Seq(Byte)
          BY <3>3, Zenon
        <5> QED
          BY ONLY <5>1
      <4> QED
        BY <3>11, <4>2, <4>3, Zenon
    <3> QED
      BY <3>3, <3>12, <3>14, <3>15, Zenon DEF Closed
  <2> QED
    BY <1>4, <2>3 DEF OnFile
<1> QED
  BY <1>1, <1>3, <1>5, <1>6, <1>7, <1>8, OneRecorder

\* os.Create leaves an empty file and a descriptor at its start.
LEMMA CreateRecord ==
    ASSUME RecordInv, StreamInv', NEW c \in Attempts, Create(c)
    PROVE  RecordInv'
<1>1. Packed(c) /\ TypeOK /\ Position(c) /\ Len(packets) <= MaxPackets
  BY DEF RecordInv, StreamInv
<1>2. /\ w[c].pc = "none" /\ packets' = packets /\ file' = <<>>
      /\ \A b \in Attempts \ {c} : w'[b] = w[b]
  BY <1>1 DEF Create, TypeOK
<1>3. /\ w'[c].piped = w[c].piped /\ w'[c].written = w[c].written
      /\ w'[c].pageIndex = w[c].pageIndex /\ w'[c].offset = w[c].offset
      /\ w'[c].pc = "first"
      /\ w'[c].sole => \A b \in 1..c - 1 : w[b].pc = "done"
  <2>1. w[c] \in Writer
    BY <1>1, WriterType
  <2> QED
    BY <1>1, <2>1 DEF Create, TypeOK, Writer
<1>4. w[c].written = <<>> /\ w[c].offset = 0
  <2>1. w[c].piped = w[c].written /\ Len(w[c].piped) = 0 /\ w[c].piped \in Seq(Page)
    BY <1>1, <1>2, WriterType DEF Packed, Position
  <2> QED
    BY <1>1, <1>2, <2>1 DEF Packed
<1>5. Packed(c)'
  BY <1>1, <1>2, <1>3, <1>4 DEF Packed
<1>6. Apart(c)
  <2>1. Len(packets) \in Nat
    BY <1>1 DEF TypeOK
  <2> QED
    BY <1>2, <1>3, <2>1 DEF Apart
<1>7. Follows(c)'
  <2>1. \A b \in 1..c - 1 : b \in Attempts \ {c}
    BY OggAssumption DEF Attempts
  <2> QED
    BY <1>2, <1>3, <2>1 DEF Follows
<1>8. OnFile(c)'
  <2>1. Len(<<>>) = 0
    OBVIOUS
  <2> QED
    BY <1>2, <1>3, <1>4, <2>1, ConcatEmpty DEF OnFile
<1> QED
  BY <1>1, <1>2, <1>5, <1>6, <1>7, <1>8, OneRecorder

LEMMA RecordInit == Init => RecordInv
<1> SUFFICES ASSUME Init PROVE RecordInv
  OBVIOUS
<1>1. StreamInv
  BY StreamInit
<1>2. Len(packets) = 0 /\ MaxPackets \in Nat
  BY OggAssumption DEF Init
<1>3. ASSUME NEW a \in Attempts
      PROVE  Packed(a) /\ Follows(a) /\ (Alone(a) => OnFile(a))
  <2>1. /\ w[a].pc = "none" /\ w[a].piped = <<>> /\ w[a].written = <<>> /\ w[a].pageIndex = 0
        /\ w[a].offset = 0 /\ ~w[a].sole
    BY DEF Init, NewWriter
  <2>2. SubSeq(<<>>, 1, Len(<<>>)) = <<>> /\ Len(<<>>) = 0
    OBVIOUS
  <2> QED
    BY <1>2, <2>1, <2>2 DEF Packed, Follows, Alone
<1> QED
  BY <1>1, <1>2, <1>3 DEF RecordInv

LEMMA RecordNext == RecordInv /\ [Next]_vars => RecordInv'
<1> SUFFICES ASSUME RecordInv, [Next]_vars
             PROVE  RecordInv'
  OBVIOUS
<1>1. TypeOK /\ StreamInv /\ StreamInv' /\ HasPacket /\ Len(packets) <= MaxPackets /\ Len(packets) \in Nat
  BY StreamNext DEF RecordInv, StreamInv, TypeOK
<1>2. CASE UNCHANGED vars
  BY <1>1, <1>2 DEF vars, RecordInv, Packed, Follows, Alone, OnFile
<1>3. ASSUME NEW c \in Attempts, Create(c)
      PROVE  RecordInv'
  BY <1>1, <1>3, CreateRecord
<1>4. ASSUME NEW c \in Attempts, CreateFails(c) \/ Cancel(c) \/ PipeCloses(c) \/ Stop(c)
      PROVE  RecordInv'
  <2>1. /\ packets' = packets /\ file' = file /\ \A b \in Attempts \ {c} : w'[b] = w[b]
        /\ w'[c].piped = w[c].piped /\ w'[c].written = w[c].written
        /\ w'[c].pageIndex = w[c].pageIndex /\ w'[c].offset = w[c].offset
        /\ w'[c].previousGranulePosition = w[c].previousGranulePosition
        /\ w'[c].lastPayloadSize = w[c].lastPayloadSize
        /\ w'[c].payload = w[c].payload /\ w'[c].sole = w[c].sole
        /\ w'[c].packet = w[c].packet
        /\ \/ w'[c].pc = w[c].pc
           \/ w[c].pc = "none" /\ w'[c].pc = "failed"
           \/ w[c].pc \in {"first", "loop"} /\ w'[c].pc = "seek"
    <3>1. w[c] \in Writer
      BY <1>1, WriterType
    <3>2. CASE CreateFails(c)
      BY <1>1, <3>1, <3>2 DEF CreateFails, TypeOK, Writer
    <3>3. CASE Cancel(c)
      BY <1>1, <3>1, <3>3 DEF Cancel, TypeOK, Writer
    <3>4. CASE PipeCloses(c)
      BY <1>1, <3>1, <3>4 DEF PipeCloses, TypeOK, Writer
    <3>5. CASE Stop(c)
      BY <1>1, <3>1, <3>5 DEF Stop, TypeOK, Writer
    <3> QED
      BY <1>4, <3>2, <3>3, <3>4, <3>5
  <2>2. Len(packets') >= Len(packets) /\ Len(packets') <= MaxPackets
    BY <1>1, <2>1
  <2> QED
    BY <1>1, <2>1, <2>2, QuietRecord
<1>5. ASSUME NEW c \in Attempts, Take(c)
      PROVE  RecordInv'
  <2>1. /\ file' = file /\ \A b \in Attempts \ {c} : w'[b] = w[b]
        /\ w'[c].piped = w[c].piped /\ w'[c].written = w[c].written
        /\ w'[c].pageIndex = w[c].pageIndex /\ w'[c].offset = w[c].offset
        /\ w'[c].previousGranulePosition = w[c].previousGranulePosition
        /\ w'[c].lastPayloadSize = w[c].lastPayloadSize
        /\ w'[c].payload = w[c].payload /\ w'[c].sole = w[c].sole
        /\ \/ w[c].pc = "first" /\ w'[c].pc = "id"
           \/ w[c].pc = "loop" /\ w'[c].pc = "audio"
    BY <1>1, <1>5 DEF Take, TypeOK, Writer
  <2>2. /\ Len(packets') = Len(packets) + 1 /\ Len(packets') >= Len(packets)
        /\ Len(packets') <= MaxPackets
    <3>1. PICK q \in Packets : packets' = Append(packets, q)
      BY <1>5 DEF Take
    <3>2. Len(packets') = Len(packets) + 1 /\ Len(packets) < MaxPackets
      BY <1>1, <1>5, <3>1 DEF Take, TypeOK
    <3> QED
      BY <1>1, <3>2, OggAssumption
  <2> QED
    BY <1>1, <2>1, <2>2, QuietRecord
<1>6. ASSUME NEW c \in Attempts, WriteIDHeader(c)
      PROVE  RecordInv'
  <2>1. PICK p, W : /\ p = CreatePage("bos", 0, w[c].pageIndex, IDHeaderSize, -1)
                    /\ W = HeaderWriter(c)
    OBVIOUS
  <2>2. WriteToStream(c, p, W, "comment") /\ w[c].pc = "id"
    BY <1>6, <2>1 DEF WriteIDHeader
  <2>3. w[c] \in Writer /\ w[c].pageIndex = 0 /\ Len(w[c].written) = 0
    BY <1>1, <2>2, WriterType DEF StreamInv, Position, RecordInv, Packed
  <2>4. p \in Page
    BY <2>1, <2>3, PageType, OggAssumption
  <2>5. /\ W \in Writer /\ W.piped = w[c].piped /\ W.written = w[c].written
        /\ W.offset = w[c].offset /\ W.sole = w[c].sole /\ W.pageIndex \in {0, 1}
    <3>1. W \in Writer
      BY <1>1, <2>1, HeaderWriterType
    <3> QED
      BY <2>1, <2>3, <3>1 DEF HeaderWriter, Writer
  <2>6. W.pageIndex <= Len(packets) + 2
    BY <1>1, <2>5
  <2> QED
    BY <1>1, <2>2, <2>3, <2>4, <2>5, <2>6, PageRecorded
<1>7. ASSUME NEW c \in Attempts, WriteCommentHeader(c)
      PROVE  RecordInv'
  <2>1. PICK p, W : /\ p = CreatePage("cont", 0, w[c].pageIndex, CommentHeaderSize, 0)
                    /\ W = HeaderWriter(c)
    OBVIOUS
  <2>2. WriteToStream(c, p, W, "audio") /\ w[c].pc = "comment"
    BY <1>7, <2>1 DEF WriteCommentHeader
  <2>3. w[c] \in Writer /\ w[c].pageIndex = 1 /\ Len(w[c].written) = 1
    <3>1. Position(c) /\ Packed(c)
      BY DEF RecordInv, StreamInv
    <3>2. Len(w[c].piped) = 1
      BY <2>2, <3>1 DEF Position
    <3> QED
      BY <1>1, <2>2, <3>1, <3>2, WriterType DEF Position, Packed
  <2>4. p \in Page
    BY <2>1, <2>3, PageType, OggAssumption
  <2>5. /\ W \in Writer /\ W.piped = w[c].piped /\ W.written = w[c].written
        /\ W.offset = w[c].offset /\ W.sole = w[c].sole /\ W.pageIndex \in {1, 2}
    <3>1. W \in Writer
      BY <1>1, <2>1, HeaderWriterType
    <3> QED
      BY <2>1, <2>3, <3>1 DEF HeaderWriter, Writer
  <2>6. W.pageIndex <= Len(packets) + 1 /\ W.pageIndex <= Len(packets) + 2
    <3>1. w[c].packet \in 1..Len(packets)
      BY <1>1, <2>2 DEF HasPacket
    <3> QED
      BY <1>1, <2>5, <3>1
  <2>7. ~(Len(w[c].written) >= 2)
    BY <2>3
  <2> QED
    BY <1>1, <2>2, <2>4, <2>5, <2>6, <2>7, PageRecorded
<1>8. ASSUME NEW c \in Attempts, Write(c)
      PROVE  RecordInv'
  <2>1. PICK q, g, n : /\ q = packets[w[c].packet] /\ g = NextGranule(c)
                       /\ n = w[c].pageIndex + 1
    OBVIOUS
  <2>2. PICK p, W : /\ p = CreatePage("cont", g, w[c].pageIndex, q.size, w[c].packet)
                    /\ W = [w[c] EXCEPT !.previousGranulePosition = g, !.pageIndex = n]
    OBVIOUS
  <2>3. WriteToStream(c, p, W, "loop") /\ w[c].pc = "audio"
    BY <1>8, <2>1, <2>2 DEF Write
  <2>4. /\ w[c] \in Writer /\ w[c].pageIndex \in Nat /\ w[c].packet \in Nat
        /\ w[c].pageIndex <= Len(packets) + 1
    BY <1>1, <2>3, WriterType DEF RecordInv, Packed
  <2>5. q \in Packets /\ g \in Nat
    BY <1>1, <2>1, <2>3, NextGranuleNat
  <2>6. q.size \in Nat
    BY <2>5, DurationNat
  <2>7. n \in Nat /\ n - 1 = w[c].pageIndex /\ n <= Len(packets) + 2
    BY <1>1, <2>1, <2>4
  <2>8. p \in Page /\ p.size = q.size
    BY <2>2, <2>4, <2>5, <2>6, PageType DEF CreatePage
  <2>9. /\ W \in Writer /\ W.piped = w[c].piped /\ W.written = w[c].written
        /\ W.offset = w[c].offset /\ W.sole = w[c].sole /\ W.pageIndex = n
        /\ W.previousGranulePosition = g /\ W.packet = w[c].packet
    BY <2>2, <2>4, <2>5, <2>7 DEF Writer
  <2>10. p = CreatePage("cont", W.previousGranulePosition, W.pageIndex - 1, p.size, W.packet)
    BY <2>2, <2>7, <2>8, <2>9
  <2> QED
    BY <1>1, <2>3, <2>7, <2>8, <2>9, <2>10, PageRecorded
<1>9. ASSUME NEW c \in Attempts, CloseSeek(c) \/ CloseRead(c) \/ CloseRewrite(c)
      PROVE  RecordInv'
  BY <1>1, <1>9, CloseSeekRecord, CloseReadRecord, CloseRewriteRecord
<1> QED
  BY <1>2, <1>3, <1>4, <1>5, <1>6, <1>7, <1>8, <1>9 DEF Next

\* The Ogg file of a converter that has it to itself is its pages byte for byte
\* until Close; afterwards all but the last are, and the last one too, marked as
\* the end of the stream, when its packet fits in one segment.  For every size of
\* page, segment and packet, and any number of attempts and packets.
THEOREM RecordingCorrect == Spec => []SoleRecording
<1>1. RecordInv => SoleRecording
  BY DEF RecordInv, Packed, OnFile, SoleRecording
<1> QED
  BY <1>1, RecordInit, RecordNext, PTL DEF Spec
=============================================================================
