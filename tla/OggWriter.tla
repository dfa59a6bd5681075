------------------------------ MODULE OggWriter ------------------------------
(***************************************************************************)
(* The Ogg writer of opus2ogg with enable_ogg_file_output: every attempt   *)
(* to connect has a converter goroutine that packs Opus packets into Ogg   *)
(* pages and writes each page to a file and then to the pipe the service's *)
(* sender reads.  All attempts of a request use the same file name.        *)
(*                                                                         *)
(* The file is a sequence of bytes.  A byte of a page's header or segment  *)
(* table is labelled with that page, a payload byte with its packet: the   *)
(* two Opus headers are -1 and 0, packet i of the request is i.  Writes to *)
(* the file succeed.                                                       *)
(***************************************************************************)
EXTENDS Integers, Sequences

CONSTANTS
    MaxAttempts,        \* bound: attempts of the request
    MaxPackets,         \* bound: packets of the request
    Packets,            \* the Opus packets of a client
    PageHeaderSize,     \* 27
    SegmentSize,        \* 255
    SegmentCounts,      \* 2^8, the values of the segment count byte
    PageIndexes,        \* 2^32, the values of pageIndex
    IDHeaderSize,       \* 19
    CommentHeaderSize   \* 21

\* A packet has a TOC byte; one with code 3 has the byte with its frame
\* count.  A request has fewer packets than there are page numbers.
ASSUME OggAssumption ==
    /\ {MaxAttempts, MaxPackets, PageHeaderSize, SegmentSize} \subseteq Nat \ {0}
    /\ {SegmentCounts, PageIndexes, IDHeaderSize, CommentHeaderSize} \subseteq Nat \ {0}
    /\ Packets \subseteq [size : Nat \ {0}, config : 0..31, code : 0..3, frames : 0..63]
    /\ \A p \in Packets : p.code = 3 => p.size > 1
    /\ MaxPackets + 2 < PageIndexes

VARIABLES
    file,    \* bytes of ${session}-${connection}.ogg
    packets, \* the packets taken from opusCh
    w        \* the converter and OggWriter of each attempt

vars == <<file, packets, w>>

Attempts == 1..MaxAttempts

NewWriter ==
    [pc        |-> "none",   \* see Pcs
     cancelled |-> FALSE,    \* the attempt's context is done
     piped     |-> <<>>,     \* history: pages its pipe has carried
     closed    |-> FALSE,    \* either end of the pipe is closed
     packet    |-> 0,        \* number of the packet it is writing
     pageIndex |-> 0,
     previousGranulePosition |-> 1,
     lastPayloadSize |-> 0,
     offset    |-> 0,        \* its descriptor's position in the file
     payload   |-> <<>>,     \* what Close has read back
     written   |-> <<>>,     \* history: pages written to the file before Close
     sole      |-> FALSE]    \* history: no earlier converter was running
                             \* when it created the file

-----------------------------------------------------------------------------
(* Pages *)

\* A full segment always needs one more to end the packet.
NSegments_ceiling(size) == (size + SegmentSize - 1) \div SegmentSize

NSegments(size) == (size \div SegmentSize) + 1

CreatePage(type, granule, index, size, id) ==
    [type |-> type, granule |-> granule, index |-> index,
     segments |-> NSegments(size) % SegmentCounts, size |-> size, id |-> id]

Payload(id, size) == [i \in 1..size |-> [page |-> <<>>, id |-> id, at |-> i]]

PageBytes(p, payload) ==
    [i \in 1..PageHeaderSize + NSegments(p.size) |-> [page |-> <<p>>, id |-> p.id, at |-> i]]
       \o payload

\* The payload length a reader gets from the segment table: it sees as many
\* lacing values as the count byte says, and all but the table's last are full.
CodedSize(p) ==
    IF p.segments = NSegments(p.size)
    THEN (p.segments - 1) * SegmentSize + (p.size % SegmentSize)
    ELSE p.segments * SegmentSize

\* A write at an offset of the file; a gap before it reads as zeros.
Zero == [page |-> <<>>, id |-> -2, at |-> 0]

WriteAt(f, offset, bytes) ==
    [i \in 1..(IF Len(f) > offset + Len(bytes) THEN Len(f) ELSE offset + Len(bytes)) |->
        IF i > offset /\ i <= offset + Len(bytes) THEN bytes[i - offset]
        ELSE IF i <= Len(f) THEN f[i] ELSE Zero]

-----------------------------------------------------------------------------
(* Durations, in samples at 48 kHz *)

GranulePosition(config) ==
    CASE config \in {16, 20, 24, 28} -> 120
      [] config \in {17, 21, 25, 29} -> 240
      [] config \in {0, 4, 8, 12, 14, 18, 22, 26, 30} -> 480
      [] config \in {1, 5, 9, 13, 15, 19, 23, 27, 31} -> 960
      [] config \in {2, 6, 10} -> 1920
      [] config \in {3, 7, 11} -> 2880
      [] OTHER -> 0

FrameCount(p) == CASE p.code = 0 -> 1
                   [] p.code \in {1, 2} -> 2
                   [] OTHER -> p.frames

-----------------------------------------------------------------------------
Init ==
    /\ file = <<>>
    /\ packets = <<>>
    /\ w = [a \in Attempts |-> NewWriter]

Running(a) == w[a].pc \notin {"none", "failed"}

\* opus2ogg: os.Create truncates the file, the goroutine starts.  The handler
\* makes another attempt only after it has cancelled the one before.
Create(a) ==
    /\ w[a].pc = "none"
    /\ a > 1 => w[a - 1].cancelled
    /\ file' = <<>>
    /\ w' = [w EXCEPT ![a] = [@ EXCEPT !.pc = "first",
                                       !.sole = \A b \in 1..a - 1 : w[b].pc = "done"]]
    /\ UNCHANGED packets

CreateFails(a) ==
    /\ w[a].pc = "none"
    /\ a > 1 => w[a - 1].cancelled
    /\ w' = [w EXCEPT ![a].pc = "failed"]
    /\ UNCHANGED <<file, packets>>

\* cancelServiceHandler, or the end of the request.
Cancel(a) ==
    /\ Running(a)
    /\ ~w[a].cancelled
    /\ w' = [w EXCEPT ![a].cancelled = TRUE]
    /\ UNCHANGED <<file, packets>>

\* closeOnDone closes the writing end, or the sender the reading end.
PipeCloses(a) ==
    /\ Running(a)
    /\ ~w[a].closed
    /\ w' = [w EXCEPT ![a].closed = TRUE]
    /\ UNCHANGED <<file, packets>>

\* The select yields a packet that Unmarshal accepts.
Take(a) ==
    /\ w[a].pc \in {"first", "loop"}
    /\ Len(packets) < MaxPackets
    /\ \E p \in Packets : packets' = Append(packets, p)
    /\ w' = [w EXCEPT ![a] = [@ EXCEPT !.pc = IF w[a].pc = "first" THEN "id" ELSE "audio",
                                       !.packet = Len(packets) + 1]]
    /\ UNCHANGED file

\* The select yields anything else: the context is done, opusCh is closed, an
\* error item, a packet that is not Opus.  Every one closes the pipe.
Stop(a) ==
    /\ w[a].pc \in {"first", "loop"}
    /\ w' = [w EXCEPT ![a] = [@ EXCEPT !.pc = "seek", !.closed = TRUE]]
    /\ UNCHANGED <<file, packets>>

\* createPage and writeToStream: the file takes the page, then the pipe; when
\* the pipe refuses it the goroutine returns through Close.  W is the writer
\* with the fields the caller changes.
WriteToStream(a, p, W, next) ==
    LET bytes == PageBytes(p, Payload(p.id, p.size))
        done  == [W EXCEPT !.lastPayloadSize = p.size,
                           !.written = Append(@, p),
                           !.offset = @ + Len(bytes)]
    IN  /\ file' = WriteAt(file, W.offset, bytes)
        /\ w' = [w EXCEPT ![a] = IF w[a].closed
                                 THEN [done EXCEPT !.pc = "seek"]
                                 ELSE [done EXCEPT !.pc = next, !.piped = Append(@, p)]]
        /\ UNCHANGED packets

\* writeHeaders counts a page once it is written.
HeaderWriter_notCounted(a) == w[a]

HeaderWriter(a) ==
    IF w[a].closed THEN w[a]
    ELSE [w[a] EXCEPT !.pageIndex = @ + 1]

WriteIDHeader(a) ==
    /\ w[a].pc = "id"
    /\ WriteToStream(a, CreatePage("bos", 0, w[a].pageIndex, IDHeaderSize, -1),
                     HeaderWriter(a), "comment")

WriteCommentHeader(a) ==
    /\ w[a].pc = "comment"
    /\ WriteToStream(a, CreatePage("cont", 0, w[a].pageIndex, CommentHeaderSize, 0),
                     HeaderWriter(a), "audio")

\* Write advances the granule position first, and counts the page whatever
\* becomes of it.
NextGranule(a) ==
    LET p == packets[w[a].packet]
    IN  w[a].previousGranulePosition + FrameCount(p) * GranulePosition(p.config)

Write_granuleLate(a) ==
    /\ w[a].pc = "audio"
    /\ WriteToStream(a, CreatePage("cont", w[a].previousGranulePosition, w[a].pageIndex,
                                   packets[w[a].packet].size, w[a].packet),
                     [w[a] EXCEPT !.previousGranulePosition = NextGranule(a), !.pageIndex = @ + 1],
                     "loop")

Write(a) ==
    /\ w[a].pc = "audio"
    /\ WriteToStream(a, CreatePage("cont", NextGranule(a), w[a].pageIndex,
                                   packets[w[a].packet].size, w[a].packet),
                     [w[a] EXCEPT !.previousGranulePosition = NextGranule(a), !.pageIndex = @ + 1],
                     "loop")

\* The deferred Close seeks back over the last payload, a header and one
\* segment, counted from the end of the file, unless the file is too short.
CloseSeek_noCheck(a) ==
    /\ w[a].pc = "seek"
    /\ w' = [w EXCEPT ![a] = [@ EXCEPT
                !.pc = "readback",
                !.offset = Len(file) - (w[a].lastPayloadSize + PageHeaderSize + 1)]]
    /\ UNCHANGED <<file, packets>>

CloseSeek(a) ==
    LET offset == Len(file) - (w[a].lastPayloadSize + PageHeaderSize + 1)
    IN  /\ w[a].pc = "seek"
        /\ w' = [w EXCEPT ![a] = IF offset < 0
                                 THEN [w[a] EXCEPT !.pc = "done"]
                                 ELSE [w[a] EXCEPT !.pc = "readback", !.offset = offset]]
        /\ UNCHANGED <<file, packets>>

\* It reads the payload from there, and gives up when the file has become too
\* short for it.
CloseRead(a) ==
    LET size  == w[a].lastPayloadSize
        start == w[a].offset + PageHeaderSize + 1
    IN  /\ w[a].pc = "readback"
        /\ w' = [w EXCEPT ![a] =
                    IF size > 0 /\ start + size > Len(file)
                    THEN [w[a] EXCEPT !.pc = "done"]
                    ELSE [w[a] EXCEPT !.pc = "rewrite",
                                      !.payload = SubSeq(file, start + 1, start + size)]]
        /\ UNCHANGED <<file, packets>>

\* It writes the page again as the end of the stream.  The pipe is closed by
\* now and refuses it, so Close returns without closing the file.
CloseRewrite_nextIndex(a) ==
    LET p == CreatePage("eos", w[a].previousGranulePosition, w[a].pageIndex,
                        w[a].lastPayloadSize, w[a].packet)
    IN  /\ w[a].pc = "rewrite"
        /\ file' = WriteAt(file, w[a].offset, PageBytes(p, w[a].payload))
        /\ w' = [w EXCEPT ![a].pc = "done"]
        /\ UNCHANGED packets

CloseRewrite(a) ==
    LET p == CreatePage("eos", w[a].previousGranulePosition, (w[a].pageIndex - 1) % PageIndexes,
                        w[a].lastPayloadSize, w[a].packet)
    IN  /\ w[a].pc = "rewrite"
        /\ file' = WriteAt(file, w[a].offset, PageBytes(p, w[a].payload))
        /\ w' = [w EXCEPT ![a].pc = "done"]
        /\ UNCHANGED packets

Next == \E a \in Attempts :
           \/ Create(a) \/ CreateFails(a) \/ Cancel(a) \/ PipeCloses(a)
           \/ Take(a) \/ Stop(a)
           \/ WriteIDHeader(a) \/ WriteCommentHeader(a) \/ Write(a)
           \/ CloseSeek(a) \/ CloseRead(a) \/ CloseRewrite(a)

Spec == Init /\ [][Next]_vars

-----------------------------------------------------------------------------
(* Properties *)

Page == [type : {"bos", "cont", "eos"}, granule : Nat, index : Nat, segments : Nat,
         size : Nat, id : Int]

Byte == [page : Seq(Page), id : Int, at : Nat]

\* Where a converter is: in its two selects ("first", "loop"), before the write
\* of a page ("id", "comment", "audio"), in Close ("seek", "readback",
\* "rewrite"), not started, returned, or never started because os.Create failed.
Pcs == {"none", "failed", "first", "loop", "id", "comment", "audio",
        "seek", "readback", "rewrite", "done"}

Writer ==
    [pc : Pcs, cancelled : BOOLEAN, piped : Seq(Page), closed : BOOLEAN, packet : Nat,
     pageIndex : Nat, previousGranulePosition : Nat, lastPayloadSize : Nat, offset : Nat,
     payload : Seq(Byte), written : Seq(Page), sole : BOOLEAN]

\* Types of the state; in particular Close never seeks before the start of the
\* file, whatever the other attempts have left of it.
TypeOK ==
    /\ file \in Seq(Byte)
    /\ packets \in Seq(Packets)
    /\ w \in [Attempts -> Writer]

\* Samples of a frame as RFC 6716 defines the configurations: SILK 10 to 60 ms,
\* hybrid 10 or 20 ms, CELT 2.5 to 20 ms.
FrameSamples(config) == IF config < 12 THEN 480 * <<1, 2, 4, 6>>[(config % 4) + 1]
                        ELSE IF config < 16 THEN 480 * ((config % 2) + 1)
                        ELSE 120 * <<1, 2, 4, 8>>[(config % 4) + 1]

\* What the service gets from an attempt is one Ogg Opus stream: the pages are
\* numbered from 0 without a gap although headers and packets count them
\* differently, only the first begins the stream, the header pages have granule
\* position 0, packets come in the order the client sent them, and the granule
\* position of a page is 1 plus the samples of all packets up to it.
ServiceStream ==
    \A a \in Attempts : \A i \in 1..Len(w[a].piped) :
       LET pages == w[a].piped
           p == pages[i]
       IN  /\ p.index = i - 1
           /\ p.type = IF i = 1 THEN "bos" ELSE "cont"
           /\ i <= 2 => p.id = i - 2 /\ p.granule = 0
           /\ i > 2 =>
                 /\ p.id > pages[i - 1].id
                 /\ p.size = packets[p.id].size
                 /\ p.granule = (IF i = 3 THEN 1 ELSE pages[i - 1].granule)
                                  + FrameCount(packets[p.id]) * FrameSamples(packets[p.id].config)

\* The segment table of a page describes its payload, at every multiple of the
\* segment size too, as long as the count fits its byte: in the code for
\* payloads of less than 65025 bytes.
PagesReadable ==
    \A a \in Attempts : \A i \in 1..Len(w[a].piped) :
       w[a].piped[i].size < (SegmentCounts - 1) * SegmentSize =>
          CodedSize(w[a].piped[i]) = w[a].piped[i].size

\* The bytes of a page, and of a sequence of pages.
Whole(p) == PageBytes(p, Payload(p.id, p.size))

Concat(pages) ==
    LET upTo[i \in 0..Len(pages)] == IF i = 0 THEN <<>> ELSE upTo[i - 1] \o Whole(pages[i])
    IN  upTo[Len(pages)]

\* The pages a reader should find after Close: the last one ends the stream, its
\* number, granule position and payload unchanged.
Earlier(pages) == Concat(SubSeq(pages, 1, Len(pages) - 1))

Marked(pages) == Earlier(pages) \o Whole([pages[Len(pages)] EXCEPT !.type = "eos"])

\* Close leaves all pages but the last as they are, and marks the last one when
\* its payload fits in one segment.
Closed(f, pages) ==
    /\ SubSeq(f, 1, Len(Earlier(pages))) = Earlier(pages)
    /\ NSegments(pages[Len(pages)].size) = 1 => f = Marked(pages)

\* No earlier attempt of the request had the file open, and no later one has.
Alone(a) ==
    /\ w[a].sole
    /\ \A b \in a + 1..MaxAttempts : w[b].pc \in {"none", "failed"}

\* As long as no other attempt of the request has the file open, it holds every
\* page the converter has packed, byte for byte, at least what the service got,
\* until Close.  When the converter has returned after a packet, all pages but
\* the last are still there byte for byte, and the last one too, marked as the
\* end of the stream, if its packet is shorter than a full segment (255 bytes in
\* the code); for larger ones see CloseUpdatesLastPage.
SoleRecording ==
    \A a \in Attempts : Alone(a) =>
       /\ w[a].piped = SubSeq(w[a].written, 1, Len(w[a].piped))
       /\ w[a].pc # "done" => file = Concat(w[a].written)
       /\ w[a].pc = "done" /\ Len(w[a].written) > 2 => Closed(file, w[a].written)

\* Close finds the last page and marks it as the end of the stream, whatever the
\* size of its packet (oggwriter.go:229 and :245).
CloseUpdatesLastPage ==
    \A a \in Attempts :
       Alone(a) /\ w[a].pc = "done" /\ Len(w[a].written) > 2 => file = Marked(w[a].written)
=============================================================================
