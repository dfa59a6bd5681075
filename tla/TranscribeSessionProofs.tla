---------------------- MODULE TranscribeSessionProofs ----------------------
(* Theorems about TranscribeSession for any number of attempts, packets    *)
(* and results: what becomes of the audio, and that the goroutines         *)
(* implement the request handler of SpeechHandler.                         *)
EXTENDS TranscribeSession, SequenceTheorems, TLAPS

Attempt ==
    [cancelled : BOOLEAN, conv : {"idle", "select", "write", "done"},
     pages : Seq(Int), started : BOOLEAN, heard : BOOLEAN,
     oggW : {"open", "eof", "error", "canceled"}, oggR : BOOLEAN, page : Int,
     send : {"idle", "read", "send", "done"}, sent : Seq(Int),
     svc : {"none", "open", "closed", "failed", "retryable", "aborted"},
     recv : {"idle", "recv", "result", "report", "done"},
     why : {"eof", "error", "disconnected"},
     resW : {"open", "eof", "error", "disconnected"}, resR : BOOLEAN]

Types ==
    /\ att \in [Attempts -> Attempt]
    /\ fed \in Nat
    /\ attempt \in Nat

-----------------------------------------------------------------------------
(* The inductive invariant *)

\* Handle of attempt a is at work; it holds a page once it waits for the service.
Starting(a) == a = attempt /\ step \in {"first", "connect", "sendFirst"}

Holding(a) == a = attempt /\ step \in {"connect", "sendFirst"}

\* Somebody still reads the converter's pipe.
Live(a) == Starting(a) \/ att[a].send \in {"read", "send"}

\* A page has been read and is about to be sent.
InFlight(a) == Holding(a) \/ att[a].send = "send"

\* Pages read from the pipe so far.
Count(a) == Len(att[a].sent) + IF InFlight(a) THEN 1 ELSE 0

\* Page number n of a stream: the headers, then packets.
PageFits(p, n) == /\ n = 1 => p = -1
                  /\ n = 2 => p = 0
                  /\ n >= 3 => p >= 1

\* What the service has got is a stream, and so is what it is about to get.
SentOK(a) ==
    LET s == att[a].sent
    IN  /\ \A i \in 1..Len(s) : PageFits(s[i], i)
        /\ \A i \in 1..Len(s) - 1 : s[i] < s[i + 1]
        /\ InFlight(a) => /\ PageFits(att[a].page, Len(s) + 1)
                          /\ \A i \in 1..Len(s) : s[i] < att[a].page

\* The pages of a first or of a later packet that are still to be written.
Rest(p) == /\ Len(p) >= 1 /\ Len(p) <= 3
           /\ p[Len(p)] >= 1
           /\ Len(p) = 2 => p[1] = 0
           /\ Len(p) = 3 => p[1] = -1 /\ p[2] = 0

\* What the converter has left to write ends a stream that began with Count
\* pages.
PagesOK(a) ==
    LET p == att[a].pages
    IN  Live(a) =>
          /\ att[a].conv = "select" => IF att[a].started THEN Count(a) >= 2 ELSE Count(a) = 0
          /\ att[a].conv = "write" =>
                /\ att[a].started
                /\ Rest(p)
                /\ Len(p) = 3 => Count(a) = 0
                /\ Len(p) = 2 => Count(a) = 1
                /\ Len(p) = 1 => Count(a) >= 2
                /\ \A i \in 1..Len(att[a].sent) : att[a].sent[i] < p[Len(p)]
                /\ InFlight(a) => att[a].page < p[Len(p)]

\* The handler at work on an attempt has sent nothing for it yet.
StartOK ==
    /\ step \in {"first", "connect", "sendFirst"} => attempt \in Attempts
    /\ \A a \in Attempts : Starting(a) => att[a].send = "idle" /\ att[a].sent = <<>>

\* The handler calls the service when the converter has seen a packet, and
\* without silence that packet is the client's.
HeardOK(a) ==
    /\ Holding(a) => att[a].started
    /\ DisableSilentPacket => (att[a].started => att[a].heard)

Has(a, x) == \/ att[a].page = x
             \/ \E i \in 1..Len(att[a].sent) : att[a].sent[i] = x
             \/ \E i \in 1..Len(att[a].pages) : att[a].pages[i] = x

\* A packet taken from opusCh is in the hands of one attempt.
Owned ==
    /\ \A a \in Attempts : \A x \in Int : Has(a, x) => x <= fed
    /\ \A a, b \in Attempts : \A x \in Int : x >= 1 /\ Has(a, x) /\ Has(b, x) => a = b

AudioInv ==
    /\ Types
    /\ StartOK
    /\ \A a \in Attempts : SentOK(a) /\ PagesOK(a) /\ HeardOK(a)
    /\ Owned

LEMMA NewAttemptType == NewAttempt \in Attempt
<1>1. <<>> \in Seq(Int)
  OBVIOUS
<1> QED
  BY <1>1 DEF NewAttempt, Attempt

LEMMA AudioInit == Init => AudioInv
<1> SUFFICES ASSUME Init PROVE AudioInv
  OBVIOUS
<1>1. att = [a \in Attempts |-> [NewAttempt EXCEPT !.conv = "idle"]]
      /\ fed = 0 /\ attempt = 0 /\ step = "none"
  BY DEF Init, Handler!Init
<1>2. ASSUME NEW a \in Attempts
      PROVE  /\ att[a] \in Attempt
             /\ att[a].sent = <<>> /\ att[a].pages = <<>> /\ att[a].page = 0
             /\ att[a].send = "idle" /\ att[a].conv = "idle" /\ ~att[a].started
  <2>1. att[a] = [NewAttempt EXCEPT !.conv = "idle"]
    BY <1>1
  <2>2. NewAttempt \in Attempt
    BY NewAttemptType
  <2>3. att[a] \in Attempt
    BY <2>1, <2>2 DEF Attempt
  <2> QED
    BY <2>1, <2>2, <2>3 DEF NewAttempt
<1>3. Types
  BY <1>1, <1>2 DEF Types
<1>4. \A a \in Attempts : ~Live(a) /\ ~InFlight(a)
  BY <1>1, <1>2 DEF Live, Starting, Holding, InFlight
<1>5. StartOK
  BY <1>1, <1>4 DEF StartOK, Live
<1>6. \A a \in Attempts : SentOK(a) /\ PagesOK(a) /\ HeardOK(a)
  <2> SUFFICES ASSUME NEW a \in Attempts PROVE SentOK(a) /\ PagesOK(a) /\ HeardOK(a)
    OBVIOUS
  <2>1. Len(att[a].sent) = 0
    BY <1>2
  <2>2. PagesOK(a)
    BY <1>4 DEF PagesOK
  <2>3. SentOK(a)
    BY <2>1, <1>4 DEF SentOK
  <2>4. HeardOK(a)
    BY <1>2, <1>4 DEF HeardOK, InFlight
  <2> QED
    BY <2>2, <2>3, <2>4
<1>7. Owned
  BY <1>1, <1>2 DEF Owned, Has
<1> QED
  BY <1>3, <1>5, <1>6, <1>7 DEF AudioInv

-----------------------------------------------------------------------------
(* Steps that move no audio *)

\* The audio of an attempt stays where it is; its converter or its sender may
\* return.
Still(a) ==
    /\ att'[a].sent = att[a].sent /\ att'[a].pages = att[a].pages
    /\ att'[a].page = att[a].page /\ att'[a].started = att[a].started
    /\ att'[a].heard = att[a].heard
    /\ att'[a].conv \in {att[a].conv, "done"}
    /\ \/ att'[a].send = att[a].send
       \/ att[a].send # "idle" /\ att'[a].send = "done"

StepStill == \/ step' \in {step, "none"}
             \/ step = "connect" /\ step' = "sendFirst"

Quiet ==
    /\ att' \in [Attempts -> Attempt]
    /\ \A a \in Attempts : Still(a)
    /\ fed' \in Nat /\ fed' >= fed
    /\ attempt' = attempt
    /\ StepStill

\* An attempt whose audio stays where it is keeps its part of the invariant.
LEMMA StillStep ==
    ASSUME AudioInv, NEW a \in Attempts, att'[a] \in Attempt, Still(a),
           Starting(a)' => Starting(a) /\ (Holding(a)' <=> Holding(a))
    PROVE  SentOK(a)' /\ PagesOK(a)' /\ HeardOK(a)'
<1>1. att[a] \in Attempt
  BY DEF AudioInv, Types
<1>2. Holding(a)' => Starting(a)'
  BY DEF Holding, Starting
<1>3. Starting(a) => att[a].send = "idle"
  BY DEF AudioInv, StartOK
<1>4. Holding(a) => Starting(a)
  BY DEF Holding, Starting
<1>5. InFlight(a)' => InFlight(a)
  BY <1>1, <1>2 DEF InFlight, Still
<1>6. Live(a)' => Live(a) /\ (InFlight(a)' <=> InFlight(a))
  BY <1>1, <1>2, <1>3, <1>4 DEF Live, InFlight, Still
<1>7. Live(a)' => Count(a)' = Count(a)
  BY <1>6 DEF Count, Still
<1>8. SentOK(a)'
  BY <1>1, <1>5 DEF AudioInv, SentOK, Still
<1>9. PagesOK(a)'
  <2> SUFFICES ASSUME Live(a)' PROVE PagesOK(a)'
    BY DEF PagesOK
  <2> QED
    BY <1>1, <1>6, <1>7 DEF AudioInv, PagesOK, Still
<1>10. HeardOK(a)'
  BY <1>2 DEF AudioInv, HeardOK, Still
<1> QED
  BY <1>8, <1>9, <1>10

LEMMA QuietStep == AudioInv /\ Quiet => AudioInv'
<1> SUFFICES ASSUME AudioInv, Quiet PROVE AudioInv'
  OBVIOUS
<1>1. Types'
  BY DEF AudioInv, Quiet, Types
<1>2. StartOK'
  BY DEF AudioInv, Quiet, StartOK, Starting, Still, StepStill
<1>3. ASSUME NEW a \in Attempts PROVE SentOK(a)' /\ PagesOK(a)' /\ HeardOK(a)'
  <2>1. Starting(a)' => Starting(a) /\ (Holding(a)' <=> Holding(a))
    BY DEF Quiet, Starting, Holding, StepStill
  <2>2. Still(a) /\ att'[a] \in Attempt
    BY DEF Quiet
  <2> QED
    BY <2>1, <2>2, StillStep
<1>4. Owned'
  <2>1. \A a \in Attempts : \A x \in Int : Has(a, x)' => Has(a, x)
    BY DEF Quiet, Has, Still
  <2> QED
    BY <2>1 DEF AudioInv, Quiet, Owned, Types
<1> QED
  BY <1>1, <1>2, <1>3, <1>4 DEF AudioInv

-----------------------------------------------------------------------------
(* Steps that move the audio of one attempt *)

\* If a step moves the audio of attempt a only and brings nothing new but the
\* next packet of opusCh, what is left to show is about a.
LEMMA MoveStep ==
    ASSUME AudioInv, NEW a \in Attempts,
           att' \in [Attempts -> Attempt], fed' \in Nat, fed' >= fed, attempt' \in Nat,
           \A b \in Attempts : b # a =>
              Still(b) /\ (Starting(b)' => Starting(b) /\ (Holding(b)' <=> Holding(b))),
           (step \in {"first", "connect", "sendFirst"} => attempt \in Attempts)',
           Starting(a)' => att'[a].send = "idle" /\ att'[a].sent = <<>>,
           SentOK(a)', PagesOK(a)', HeardOK(a)',
           \A x \in Int : Has(a, x)' => \/ Has(a, x) \/ x <= 0
                                        \/ x = fed + 1 /\ fed' = fed + 1
    PROVE  AudioInv'
<1>1. Types'
  BY DEF AudioInv, Types
<1>2. StartOK'
  <2> SUFFICES ASSUME NEW b \in Attempts, Starting(b)'
               PROVE  att'[b].send = "idle" /\ att'[b].sent = <<>>
    BY DEF StartOK
  <2>1. CASE b = a
    BY <2>1
  <2>2. CASE b # a
    BY <2>2 DEF AudioInv, StartOK, Still
  <2> QED
    BY <2>1, <2>2
<1>3. ASSUME NEW b \in Attempts PROVE SentOK(b)' /\ PagesOK(b)' /\ HeardOK(b)'
  <2>1. CASE b = a
    BY <2>1
  <2>2. CASE b # a
    BY <2>2, StillStep
  <2> QED
    BY <2>1, <2>2
<1>4. Owned'
  <2>1. \A b \in Attempts : \A x \in Int : b # a /\ Has(b, x)' => Has(b, x)
    BY DEF Has, Still
  <2>2. fed \in Nat
    BY DEF AudioInv, Types
  <2>3. \A b \in Attempts : \A x \in Int : Has(b, x)' => x <= fed'
    BY <2>1, <2>2 DEF AudioInv, Owned
  <2>4. ASSUME NEW b \in Attempts, NEW c \in Attempts, NEW x \in Int,
               x >= 1, Has(b, x)', Has(c, x)'
        PROVE  b = c
    BY <2>1, <2>2, <2>4 DEF AudioInv, Owned
  <2> QED
    BY <2>3, <2>4 DEF Owned
<1> QED
  BY <1>1, <1>2, <1>3, <1>4 DEF AudioInv

\* A new attempt starts: Begin and Reconnect.
LEMMA NewStep ==
    ASSUME AudioInv, NEW a \in Attempts,
           att' \in [Attempts -> Attempt], att'[a] = NewAttempt,
           \A b \in Attempts : b # a => Still(b),
           fed' = fed, attempt' = a, step' = "first"
    PROVE  AudioInv'
<1>1. /\ att'[a].sent = <<>> /\ att'[a].pages = <<>> /\ att'[a].page = 0
      /\ att'[a].send = "idle" /\ att'[a].conv = "select" /\ att'[a].started = FALSE
  BY DEF NewAttempt
<1>2. \A b \in Attempts : b # a => ~Starting(b)'
  BY DEF Starting
<1>3. ~InFlight(a)' /\ Len(att'[a].sent) = 0
  BY <1>1 DEF InFlight, Holding
<1>4. SentOK(a)'
  BY <1>3 DEF SentOK
<1>5. Count(a)' = 0
  BY <1>3 DEF Count
<1>6. PagesOK(a)'
  BY <1>1, <1>5 DEF PagesOK
<1>7. \A x \in Int : Has(a, x)' => x <= 0
  BY <1>1 DEF Has
<1>8. fed' \in Nat /\ fed' >= fed /\ attempt' \in Nat
  BY SessionAssumption DEF AudioInv, Types, Attempts
<1>9. HeardOK(a)'
  BY <1>1, <1>3 DEF HeardOK, InFlight
<1> QED
  BY <1>1, <1>2, <1>4, <1>6, <1>7, <1>8, <1>9, MoveStep

LEMMA OneToThree ==
    ASSUME NEW n \in Nat, n >= 1, n <= 3
    PROVE  n = 1 \/ n = 2 \/ n = 3
OBVIOUS

LEMMA TailFacts ==
    ASSUME NEW p \in Seq(Int), Len(p) >= 1
    PROVE  /\ Head(p) = p[1] /\ Tail(p) \in Seq(Int) /\ Len(Tail(p)) = Len(p) - 1
           /\ Len(p) >= 2 => Tail(p)[1] = p[2]
           /\ Len(p) >= 3 => Tail(p)[2] = p[3]
<1>1. p # <<>>
  OBVIOUS
<1> QED
  BY <1>1, HeadTailProperties

LEMMA TailElements ==
    ASSUME NEW p \in Seq(Int), Len(p) >= 1, NEW i \in 1..Len(Tail(p))
    PROVE  \E j \in 1..Len(p) : p[j] = Tail(p)[i]
<1>1. p # <<>>
  OBVIOUS
<1>2. Tail(p)[i] = p[i + 1] /\ i + 1 \in 1..Len(p)
  BY <1>1, HeadTailProperties
<1> QED
  BY <1>2

\* The pages left after the first, when there are any; n pages went before.
LEMMA RestTail ==
    ASSUME NEW p \in Seq(Int), NEW t \in Seq(Int), NEW n \in Nat, Rest(p), Len(p) # 1,
           Len(t) = Len(p) - 1, Len(p) >= 2 => t[1] = p[2], Len(p) >= 3 => t[2] = p[3],
           Len(p) = 3 => n = 0, Len(p) = 2 => n = 1
    PROVE  /\ p[1] < p[Len(p)]
           /\ Rest(t)
           /\ t[Len(t)] = p[Len(p)]
           /\ Len(t) = 2 => n + 1 = 1
           /\ Len(t) = 1 => n + 1 >= 2
           /\ Len(t) # 3
<1>1. Len(p) = 2 \/ Len(p) = 3
  <2>1. Len(p) \in Nat
    OBVIOUS
  <2>2. Len(p) >= 1 /\ Len(p) <= 3
    BY DEF Rest
  <2> QED
    BY <2>1, <2>2, OneToThree
<1>2. CASE Len(p) = 2
  <2>1. p[1] = 0 /\ p[2] >= 1 /\ n = 1
    BY <1>2 DEF Rest
  <2>2. Len(t) = 1 /\ t[1] = p[2]
    BY <1>2
  <2>3. Rest(t)
    BY <2>1, <2>2 DEF Rest
  <2> QED
    BY <1>2, <2>1, <2>2, <2>3
<1>3. CASE Len(p) = 3
  <2>1. p[1] = -1 /\ p[2] = 0 /\ p[3] >= 1 /\ n = 0
    BY <1>3 DEF Rest
  <2>2. Len(t) = 2 /\ t[1] = p[2] /\ t[2] = p[3]
    BY <1>3
  <2>3. Rest(t)
    <3>1. t[Len(t)] >= 1 /\ t[1] = 0
      BY ONLY <2>1, <2>2
    <3>2. Len(t) >= 1 /\ Len(t) <= 3 /\ Len(t) # 3
      BY ONLY <2>2
    <3> QED
      BY <3>1, <3>2 DEF Rest
  <2>4. p[1] < p[Len(p)] /\ t[Len(t)] = p[Len(p)]
    <3>1. p[3] \in Int
      BY <1>3
    <3> QED
      BY ONLY <1>3, <2>1, <2>2, <3>1
  <2>5. n + 1 = 1 /\ Len(t) # 1 /\ Len(t) # 3
    BY ONLY <2>1, <2>2
  <2> QED
    BY <2>3, <2>4, <2>5
<1> QED
  BY <1>1, <1>2, <1>3

\* If the pages p end the stream that s began, the first of them continues s.
LEMMA NextPage ==
    ASSUME NEW p \in Seq(Int), NEW s \in Seq(Int), Rest(p),
           Len(p) = 3 => Len(s) = 0, Len(p) = 2 => Len(s) = 1, Len(p) = 1 => Len(s) >= 2,
           \A i \in 1..Len(s) : PageFits(s[i], i),
           \A i \in 1..Len(s) : s[i] < p[Len(p)]
    PROVE  /\ PageFits(p[1], Len(s) + 1)
           /\ \A i \in 1..Len(s) : s[i] < p[1]
<1>1. Len(p) >= 1 /\ Len(p) <= 3 /\ Len(s) \in Nat
  BY DEF Rest
<1>2. CASE Len(p) = 1
  <2>1. Len(s) + 1 >= 3 /\ p[1] >= 1
    BY <1>1, <1>2 DEF Rest
  <2>2. PageFits(p[1], Len(s) + 1)
    BY <1>1, <2>1 DEF PageFits
  <2> QED
    BY <1>2, <2>2
<1>3. CASE Len(p) = 2
  <2>1. p[1] = 0 /\ Len(s) = 1
    BY <1>3 DEF Rest
  <2>2. PageFits(s[1], 1)
    BY <2>1
  <2>3. s[1] = -1
    BY <2>2 DEF PageFits
  <2> QED
    BY <2>1, <2>3 DEF PageFits
<1>4. CASE Len(p) = 3
  <2>1. p[1] = -1 /\ Len(s) = 0
    BY <1>4 DEF Rest
  <2> QED
    BY <2>1 DEF PageFits
<1>5. Len(p) = 1 \/ Len(p) = 2 \/ Len(p) = 3
  <2>1. Len(p) \in Nat
    OBVIOUS
  <2> QED
    BY <1>1, <2>1, OneToThree
<1> QED
  BY <1>2, <1>3, <1>4, <1>5

\* A page is read from the pipe.
LEMMA TakeStep ==
    ASSUME AudioInv, NEW a \in Attempts, PageReady(a), Live(a), ~InFlight(a),
           att'[a] \in Attempt, att'[a].sent = att[a].sent, att'[a].started = att[a].started,
           att'[a].page = TakePage(a).page, att'[a].pages = TakePage(a).pages,
           att'[a].conv = TakePage(a).conv, InFlight(a)'
    PROVE  /\ SentOK(a)' /\ PagesOK(a)'
           /\ \A x \in Int : Has(a, x)' => Has(a, x)
<1> DEFINE p == att[a].pages
           s == att[a].sent
<1>1. att[a] \in Attempt /\ p \in Seq(Int) /\ s \in Seq(Int) /\ Len(s) \in Nat
  BY DEF AudioInv, Types, Attempt
<1>2. PagesOK(a) /\ SentOK(a) /\ att[a].conv = "write"
  BY DEF AudioInv, PageReady
<1>3. Count(a) = Len(s) /\ Count(a)' = Len(s) + 1
  BY <1>1 DEF Count
<1>4. /\ att[a].started /\ Rest(p)
      /\ \A i \in 1..Len(s) : s[i] < p[Len(p)]
  BY <1>2 DEF PagesOK
<1>5. /\ Len(p) = 3 => Len(s) = 0
      /\ Len(p) = 2 => Len(s) = 1
      /\ Len(p) = 1 => Len(s) >= 2
  BY <1>2, <1>3 DEF PagesOK
<1>6. \A i \in 1..Len(s) : PageFits(s[i], i)
  BY <1>2 DEF SentOK
<1>7. /\ PageFits(p[1], Len(s) + 1)
      /\ \A i \in 1..Len(s) : s[i] < p[1]
  <2> HIDE DEF p, s
  <2> QED
    BY <1>1, <1>4, <1>5, <1>6, NextPage
<1>8. Len(p) >= 1 /\ Len(p) <= 3
  BY <1>4 DEF Rest
<1>9. /\ Head(p) = p[1] /\ Tail(p) \in Seq(Int) /\ Len(Tail(p)) = Len(p) - 1
      /\ Len(p) >= 2 => Tail(p)[1] = p[2]
      /\ Len(p) >= 3 => Tail(p)[2] = p[3]
  <2> HIDE DEF p
  <2>1. p \in Seq(Int) /\ Len(p) >= 1
    BY <1>1, <1>8
  <2> QED
    BY <2>1, TailFacts
<1>10. /\ att'[a].page = p[1] /\ att'[a].pages = Tail(p)
       /\ att'[a].conv = IF Len(p) = 1 THEN "select" ELSE "write"
  BY <1>1, <1>9 DEF TakePage, Attempt
<1>11. SentOK(a)'
  BY <1>2, <1>7, <1>10 DEF SentOK
<1>12. PagesOK(a)'
  <2>1. CASE Len(p) = 1
    BY <1>3, <1>4, <1>5, <1>10, <2>1 DEF PagesOK
  <2>2. CASE Len(p) # 1
    <3> HIDE DEF p, s
    <3>1. /\ p[1] < p[Len(p)] /\ Rest(Tail(p)) /\ Tail(p)[Len(Tail(p))] = p[Len(p)]
          /\ Len(Tail(p)) = 2 => Len(s) + 1 = 1
          /\ Len(Tail(p)) = 1 => Len(s) + 1 >= 2
          /\ Len(Tail(p)) # 3
      <4>1. Rest(p)
        BY <1>4
      <4>2. p \in Seq(Int) /\ Len(p) >= 1 /\ Len(s) \in Nat
        BY <1>1, <1>8
      <4>3. /\ Tail(p) \in Seq(Int) /\ Len(Tail(p)) = Len(p) - 1
            /\ Len(p) >= 2 => Tail(p)[1] = p[2]
            /\ Len(p) >= 3 => Tail(p)[2] = p[3]
        BY <4>2, TailFacts
      <4> QED
        BY <1>5, <2>2, <4>1, <4>2, <4>3, RestTail
    <3>2. /\ Len(Tail(p)) = 2 => Count(a)' = 1
          /\ Len(Tail(p)) = 1 => Count(a)' >= 2
      BY <1>3, <3>1
    <3>3. /\ att'[a].sent = s
          /\ att'[a].started
      BY <1>4 DEF s
    <3> QED
      BY <1>4, <1>10, <2>2, <3>1, <3>2, <3>3 DEF PagesOK
  <2> QED
    BY <2>1, <2>2
<1>13. \A x \in Int : Has(a, x)' => Has(a, x)
  <2> SUFFICES ASSUME NEW x \in Int, Has(a, x)' PROVE Has(a, x)
    OBVIOUS
  <2>1. CASE att'[a].page = x
    <3>1. Len(p) \in Nat /\ Len(p) >= 1
      BY <1>1, <1>8
    <3>2. 1 \in 1..Len(p) /\ p[1] = x
      BY <1>10, <2>1, <3>1
    <3> QED
      BY <3>2 DEF Has
  <2>2. CASE \E i \in 1..Len(s) : s[i] = x
    BY <2>2 DEF Has
  <2>3. CASE \E i \in 1..Len(Tail(p)) : Tail(p)[i] = x
    <3>1. \E j \in 1..Len(p) : p[j] = x
      <4> HIDE DEF p
      <4>1. p \in Seq(Int) /\ Len(p) >= 1
        BY <1>1, <1>8
      <4> QED
        BY <2>3, <4>1, TailElements
    <3> QED
      BY <3>1 DEF Has
  <2> QED
    BY <1>10, <2>1, <2>2, <2>3 DEF Has
<1> QED
  BY <1>11, <1>12, <1>13

LEMMA TakePageType ==
    ASSUME AudioInv, NEW a \in Attempts, PageReady(a), Live(a)
    PROVE  /\ TakePage(a) \in Attempt
           /\ TakePage(a).sent = att[a].sent /\ TakePage(a).send = att[a].send
           /\ TakePage(a).started = att[a].started /\ TakePage(a).heard = att[a].heard
           /\ att[a].started
<1>1. att[a] \in Attempt /\ att[a].pages \in Seq(Int)
  BY DEF AudioInv, Types, Attempt
<1>2. Len(att[a].pages) >= 1
  BY DEF AudioInv, PagesOK, PageReady, Rest
<1>3. att[a].pages[1] \in Int
  BY <1>1, <1>2
<1>4. Head(att[a].pages) \in Int /\ Tail(att[a].pages) \in Seq(Int)
  BY <1>1, <1>2, <1>3, TailFacts
<1>5. att[a].started
  BY DEF AudioInv, PagesOK, PageReady
<1> QED
  BY <1>1, <1>4, <1>5 DEF TakePage, Attempt

\* FirstPage: the handler reads the first page of its attempt.
LEMMA FirstPageStep == AudioInv /\ FirstPage => AudioInv'
<1> SUFFICES ASSUME AudioInv, FirstPage PROVE AudioInv'
  OBVIOUS
<1>1. /\ step = "first" /\ step' = "connect" /\ PageReady(attempt)
      /\ att' = [att EXCEPT ![attempt] = TakePage(attempt)]
      /\ fed' = fed /\ attempt' = attempt
  BY DEF FirstPage, handlerVars
<1>2. attempt \in Attempts
  BY <1>1 DEF AudioInv, StartOK
<1>3. PICK a \in Attempts : a = attempt
  BY <1>2
<1>4. Starting(a) /\ Live(a) /\ ~InFlight(a) /\ att[a].send = "idle" /\ att[a].sent = <<>>
  BY <1>1, <1>3 DEF AudioInv, StartOK, Starting, Live, InFlight, Holding
<1>5. /\ TakePage(a) \in Attempt
      /\ TakePage(a).sent = att[a].sent /\ TakePage(a).send = att[a].send
      /\ TakePage(a).started = att[a].started /\ TakePage(a).heard = att[a].heard
      /\ att[a].started
  BY <1>1, <1>3, <1>4, TakePageType
<1>6. att' \in [Attempts -> Attempt] /\ att'[a] = TakePage(a)
      /\ \A b \in Attempts : b # a => att'[b] = att[b]
  BY <1>1, <1>3, <1>5 DEF AudioInv, Types
<1>7. InFlight(a)'
  BY <1>1, <1>3 DEF InFlight, Holding
<1>8. SentOK(a)' /\ PagesOK(a)' /\ \A x \in Int : Has(a, x)' => Has(a, x)
  BY <1>1, <1>3, <1>4, <1>5, <1>6, <1>7, TakeStep
<1>9. \A b \in Attempts : b # a => Still(b) /\ ~Starting(b)'
  BY <1>1, <1>3, <1>6 DEF Still, Starting
<1>10. fed' \in Nat /\ fed' >= fed /\ attempt' \in Nat
  BY <1>1 DEF AudioInv, Types
<1>11. HeardOK(a)'
  BY <1>5, <1>6 DEF AudioInv, HeardOK
<1> QED
  BY <1>1, <1>2, <1>4, <1>5, <1>6, <1>8, <1>9, <1>10, <1>11, MoveStep

\* SenderRead: the sender reads a page.
LEMMA SenderReadStep ==
    ASSUME AudioInv, NEW a \in Attempts, SenderRead(a) PROVE AudioInv'
<1>1. /\ att[a].send = "read" /\ PageReady(a)
      /\ att' = [att EXCEPT ![a] = [TakePage(a) EXCEPT !.send = "send"]]
      /\ fed' = fed /\ attempt' = attempt /\ step' = step
  BY DEF SenderRead, handlerVars
<1>2. ~Starting(a) /\ ~Starting(a)'
  BY <1>1 DEF AudioInv, StartOK, Starting
<1>3. Live(a) /\ ~InFlight(a)
  BY <1>1, <1>2 DEF Live, InFlight, Holding, Starting
<1>4. /\ TakePage(a) \in Attempt
      /\ TakePage(a).sent = att[a].sent /\ TakePage(a).send = att[a].send
      /\ TakePage(a).started = att[a].started /\ TakePage(a).heard = att[a].heard
      /\ att[a].started
  BY <1>1, <1>3, TakePageType
<1>5. att'[a] = [TakePage(a) EXCEPT !.send = "send"]
      /\ \A b \in Attempts : b # a => att'[b] = att[b]
  BY <1>1 DEF AudioInv, Types
<1>6. /\ att'[a] \in Attempt /\ att'[a].send = "send"
      /\ att'[a].sent = att[a].sent /\ att'[a].started = att[a].started
      /\ att'[a].page = TakePage(a).page /\ att'[a].pages = TakePage(a).pages
      /\ att'[a].conv = TakePage(a).conv /\ att'[a].heard = att[a].heard
  BY <1>4, <1>5 DEF Attempt
<1>7. att' \in [Attempts -> Attempt]
  BY <1>1, <1>5, <1>6 DEF AudioInv, Types
<1>8. InFlight(a)'
  BY <1>6 DEF InFlight
<1>9. SentOK(a)' /\ PagesOK(a)' /\ \A x \in Int : Has(a, x)' => Has(a, x)
  BY <1>1, <1>3, <1>6, <1>8, TakeStep
<1>10. \A b \in Attempts : b # a =>
          Still(b) /\ (Starting(b)' <=> Starting(b)) /\ (Holding(b)' <=> Holding(b))
  BY <1>1, <1>5 DEF Still, Starting, Holding
<1>11. fed' \in Nat /\ fed' >= fed /\ attempt' \in Nat
       /\ (step \in {"first", "connect", "sendFirst"} => attempt \in Attempts)'
  BY <1>1 DEF AudioInv, Types, StartOK
<1>12. HeardOK(a)'
  BY <1>4, <1>6 DEF AudioInv, HeardOK
<1> QED
  BY <1>2, <1>7, <1>9, <1>10, <1>11, <1>12, MoveStep

LEMMA AppendFits ==
    ASSUME NEW s \in Seq(Int), NEW x \in Int, NEW t, t = Append(s, x),
           \A i \in 1..Len(s) : PageFits(s[i], i) /\ s[i] < x,
           \A i \in 1..Len(s) - 1 : s[i] < s[i + 1],
           PageFits(x, Len(s) + 1)
    PROVE  /\ Len(t) = Len(s) + 1
           /\ \A i \in 1..Len(t) : PageFits(t[i], i)
           /\ \A i \in 1..Len(t) - 1 : t[i] < t[i + 1]
           /\ \A i \in 1..Len(t) : t[i] = x \/ \E j \in 1..Len(s) : s[j] = t[i]
<1>1. /\ Len(t) = Len(s) + 1 /\ Len(s) \in Nat
      /\ \A i \in 1..Len(s) : t[i] = s[i]
      /\ t[Len(s) + 1] = x
  BY AppendProperties
<1>2. \A i \in 1..Len(t) : i \in 1..Len(s) \/ i = Len(s) + 1
  BY <1>1
<1>3. \A i \in 1..Len(t) : PageFits(t[i], i)
  BY <1>1, <1>2
<1>4. ASSUME NEW i \in 1..Len(t) - 1 PROVE t[i] < t[i + 1]
  <2>1. i \in 1..Len(s) /\ i \in Nat
    BY <1>1
  <2>2. CASE i = Len(s)
    BY <1>1, <2>1, <2>2
  <2>3. CASE i # Len(s)
    <3>1. i \in 1..Len(s) - 1 /\ i + 1 \in 1..Len(s)
      BY <1>1, <2>1, <2>3
    <3> QED
      BY <1>1, <2>1, <3>1
  <2> QED
    BY <2>2, <2>3
<1>5. \A i \in 1..Len(t) : t[i] = x \/ \E j \in 1..Len(s) : s[j] = t[i]
  BY <1>1, <1>2
<1> QED
  BY <1>1, <1>3, <1>4, <1>5

\* A page is sent.
LEMMA SendStep ==
    ASSUME AudioInv, NEW a \in Attempts, Live(a), InFlight(a), ~InFlight(a)',
           att'[a] \in Attempt, att'[a].sent = Append(att[a].sent, att[a].page),
           att'[a].started = att[a].started, att'[a].conv = att[a].conv,
           att'[a].page = att[a].page, att'[a].pages = att[a].pages
    PROVE  /\ SentOK(a)' /\ PagesOK(a)'
           /\ \A x \in Int : Has(a, x)' => Has(a, x)
<1>1. att[a].sent \in Seq(Int) /\ att[a].page \in Int /\ att'[a].sent \in Seq(Int)
  BY DEF AudioInv, Types, Attempt
<1>2. PICK s \in Seq(Int), x \in Int, t \in Seq(Int) :
         s = att[a].sent /\ x = att[a].page /\ t = att'[a].sent /\ t = Append(s, x)
  BY <1>1
<1>3. SentOK(a) /\ PagesOK(a)
  BY DEF AudioInv
<1>4. /\ \A i \in 1..Len(s) : PageFits(s[i], i) /\ s[i] < x
      /\ \A i \in 1..Len(s) - 1 : s[i] < s[i + 1]
      /\ PageFits(x, Len(s) + 1)
  BY <1>2, <1>3 DEF SentOK
<1>5. /\ Len(t) = Len(s) + 1
      /\ \A i \in 1..Len(t) : PageFits(t[i], i)
      /\ \A i \in 1..Len(t) - 1 : t[i] < t[i + 1]
      /\ \A i \in 1..Len(t) : t[i] = x \/ \E j \in 1..Len(s) : s[j] = t[i]
  BY <1>2, <1>4, AppendFits
<1>6. SentOK(a)'
  BY <1>2, <1>5 DEF SentOK
<1>7. Count(a)' = Count(a)
  BY <1>2, <1>5 DEF Count
<1>8. PagesOK(a)'
  <2>1. PICK p : p = att[a].pages
    OBVIOUS
  <2>2. /\ att[a].conv = "select" => IF att[a].started THEN Count(a) >= 2 ELSE Count(a) = 0
        /\ att[a].conv = "write" =>
              /\ att[a].started /\ Rest(p)
              /\ Len(p) = 3 => Count(a) = 0
              /\ Len(p) = 2 => Count(a) = 1
              /\ Len(p) = 1 => Count(a) >= 2
              /\ \A i \in 1..Len(s) : s[i] < p[Len(p)]
              /\ x < p[Len(p)]
    BY <1>2, <1>3, <2>1 DEF PagesOK
  <2>3. att[a].conv = "write" => \A i \in 1..Len(t) : t[i] < p[Len(p)]
    BY <1>5, <2>2
  <2>4. t = att'[a].sent /\ p = att'[a].pages
    BY <1>2, <2>1
  <2> QED
    BY <1>7, <2>2, <2>3, <2>4 DEF PagesOK
<1>9. \A y \in Int : Has(a, y)' => Has(a, y)
  BY <1>2, <1>5 DEF Has
<1> QED
  BY <1>6, <1>8, <1>9

\* SendFirst: the handler sends the page it holds.
LEMMA SendFirstStep == AudioInv /\ SendFirst => AudioInv'
<1> SUFFICES ASSUME AudioInv, SendFirst PROVE AudioInv'
  OBVIOUS
<1>1. /\ step = "sendFirst" /\ step' = "none"
      /\ att' = [att EXCEPT ![attempt] = Connected]
      /\ fed' = fed /\ attempt' = attempt
  BY DEF SendFirst, Handler!HandleSucceeds
<1>2. PICK a \in Attempts : a = attempt
  BY <1>1 DEF AudioInv, StartOK
<1>3. Starting(a) /\ Live(a) /\ InFlight(a) /\ att[a].send = "idle" /\ att[a].sent = <<>>
  BY <1>1, <1>2 DEF AudioInv, StartOK, Starting, Live, InFlight, Holding
<1>4. att[a] \in Attempt /\ att[a].page \in Int
  BY DEF AudioInv, Types, Attempt
<1>5. PICK t \in Seq(Int) : t = <<att[a].page>> /\ t = Append(att[a].sent, att[a].page)
  <2>1. /\ <<att[a].page>> = Append(att[a].sent, att[a].page)
        /\ <<att[a].page>> \in Seq(Int)
    BY <1>3, <1>4
  <2> QED
    BY <2>1
<1>6. /\ att'[a] = [att[a] EXCEPT !.sent = t, !.send = "read", !.recv = "recv"]
      /\ \A b \in Attempts : b # a => att'[b] = att[b]
  BY <1>1, <1>2, <1>5 DEF AudioInv, Types, Connected
<1>7. /\ att'[a] \in Attempt /\ att'[a].send = "read"
      /\ att'[a].sent = t /\ att'[a].started = att[a].started
      /\ att'[a].heard = att[a].heard
      /\ att'[a].page = att[a].page /\ att'[a].pages = att[a].pages
      /\ att'[a].conv = att[a].conv
  <2>1. PICK r \in Attempt : r = att[a]
    BY <1>4
  <2>2. PICK u \in Attempt : u = [r EXCEPT !.sent = t, !.send = "read", !.recv = "recv"]
    BY DEF Attempt
  <2>3. att'[a] = u
    BY <1>6, <2>1, <2>2
  <2>4. u.send = "read" /\ u.sent = t /\ u.started = r.started /\ u.page = r.page
        /\ u.pages = r.pages /\ u.conv = r.conv /\ u.heard = r.heard
    BY <2>2 DEF Attempt
  <2> QED
    BY <2>1, <2>3, <2>4
<1>8. att' \in [Attempts -> Attempt]
  BY <1>1, <1>2, <1>6, <1>7 DEF AudioInv, Types
<1>9. ~InFlight(a)'
  BY <1>1, <1>7 DEF InFlight, Holding
<1>10. SentOK(a)' /\ PagesOK(a)' /\ \A x \in Int : Has(a, x)' => Has(a, x)
  BY <1>3, <1>5, <1>7, <1>9, SendStep
<1>11. \A b \in Attempts : (b # a => Still(b)) /\ ~Starting(b)'
  BY <1>1, <1>6 DEF Still, Starting
<1>12. fed' \in Nat /\ fed' >= fed /\ attempt' \in Nat
  BY <1>1 DEF AudioInv, Types
<1>13. HeardOK(a)'
  BY <1>7, <1>9 DEF AudioInv, HeardOK, InFlight
<1> QED
  BY <1>1, <1>8, <1>10, <1>11, <1>12, <1>13, MoveStep

\* SenderSend: the sender sends the page it holds.
LEMMA SenderSendStep ==
    ASSUME AudioInv, NEW a \in Attempts, SenderSend(a) PROVE AudioInv'
<1>1. /\ att[a].send = "send"
      /\ att' = [att EXCEPT ![a].send = "read", ![a].sent = Append(@, att[a].page)]
      /\ fed' = fed /\ attempt' = attempt /\ step' = step
  BY DEF SenderSend, handlerVars
<1>2. ~Starting(a) /\ ~Starting(a)'
  BY <1>1 DEF AudioInv, StartOK, Starting
<1>3. Live(a) /\ InFlight(a)
  BY <1>1 DEF Live, InFlight
<1>4. att[a] \in Attempt /\ att[a].page \in Int /\ att[a].sent \in Seq(Int)
  BY DEF AudioInv, Types, Attempt
<1>5. Append(att[a].sent, att[a].page) \in Seq(Int)
  BY <1>4
<1>6. /\ att'[a] = [att[a] EXCEPT !.send = "read", !.sent = Append(att[a].sent, att[a].page)]
      /\ \A b \in Attempts : b # a => att'[b] = att[b]
  BY <1>1, <1>4 DEF AudioInv, Types, Attempt
<1>7. /\ att'[a] \in Attempt /\ att'[a].send = "read"
      /\ att'[a].sent = Append(att[a].sent, att[a].page)
      /\ att'[a].started = att[a].started /\ att'[a].heard = att[a].heard
      /\ att'[a].page = att[a].page /\ att'[a].pages = att[a].pages
      /\ att'[a].conv = att[a].conv
  BY <1>4, <1>5, <1>6 DEF Attempt
<1>8. att' \in [Attempts -> Attempt]
  BY <1>1, <1>6, <1>7 DEF AudioInv, Types
<1>9. ~InFlight(a)'
  BY <1>2, <1>7 DEF InFlight, Holding, Starting
<1>10. SentOK(a)' /\ PagesOK(a)' /\ \A x \in Int : Has(a, x)' => Has(a, x)
  BY <1>3, <1>7, <1>9, SendStep
<1>11. \A b \in Attempts : b # a =>
          Still(b) /\ (Starting(b)' <=> Starting(b)) /\ (Holding(b)' <=> Holding(b))
  BY <1>1, <1>6 DEF Still, Starting, Holding
<1>12. fed' \in Nat /\ fed' >= fed /\ attempt' \in Nat
       /\ (step \in {"first", "connect", "sendFirst"} => attempt \in Attempts)'
  BY <1>1 DEF AudioInv, Types, StartOK
<1>13. HeardOK(a)'
  BY <1>7, <1>9 DEF AudioInv, HeardOK, InFlight
<1> QED
  BY <1>2, <1>8, <1>10, <1>11, <1>12, <1>13, MoveStep

\* ConvTake: the converter has a packet.
LEMMA FirstPages ==
    ASSUME NEW n \in Nat, NEW st \in BOOLEAN,
           NEW q, q = (IF st THEN <<>> ELSE <<-1, 0>>) \o <<n + 1>>
    PROVE  /\ q \in Seq(Int) /\ Rest(q) /\ q[Len(q)] = n + 1
           /\ IF st THEN Len(q) = 1 ELSE Len(q) = 3
           /\ \A i \in 1..Len(q) : q[i] <= 0 \/ q[i] = n + 1
<1>1. CASE st
  <2>1. q = <<n + 1>>
    BY <1>1
  <2>2. q \in Seq(Int) /\ Len(q) = 1 /\ q[1] = n + 1
    BY <2>1
  <2>3. \A i \in 1..Len(q) : q[i] = n + 1
    BY <2>2
  <2>4. Rest(q)
    BY <2>2 DEF Rest
  <2> QED
    BY <1>1, <2>2, <2>3, <2>4
<1>2. CASE ~st
  <2>0. <<-1, 0>> \in Seq(Int) /\ <<n + 1>> \in Seq(Int)
    OBVIOUS
  <2>1. PICK u \in Seq(Int) : u = <<-1, 0>>
    BY <2>0
  <2>2. PICK w \in Seq(Int) : w = <<n + 1>>
    BY <2>0
  <2>3. Len(u) = 2 /\ u[1] = -1 /\ u[2] = 0 /\ Len(w) = 1 /\ w[1] = n + 1
    BY <2>1, <2>2
  <2>4. q = u \o w
    BY <1>2, <2>1, <2>2
  <2>5. q \in Seq(Int) /\ Len(q) = 3 /\ q[1] = -1 /\ q[2] = 0 /\ q[3] = n + 1
    BY <2>3, <2>4, ConcatProperties
  <2>6. \A i \in 1..Len(q) : q[i] <= 0 \/ q[i] = n + 1
    <3> SUFFICES ASSUME NEW i \in 1..Len(q) PROVE q[i] <= 0 \/ q[i] = n + 1
      OBVIOUS
    <3>1. i = 1 \/ i = 2 \/ i = 3
      BY <2>5, OneToThree
    <3> QED
      BY <2>5, <3>1
  <2> QED
    BY <1>2, <2>5, <2>6 DEF Rest
<1> QED
  BY <1>1, <1>2

LEMMA ConvTakeStep ==
    ASSUME AudioInv, NEW a \in Attempts, ConvTake(a) PROVE AudioInv'
<1>1. att[a].conv = "select" /\ fed' = fed + 1 /\ attempt' = attempt /\ step' = step
  BY DEF ConvTake, handlerVars
<1>2. /\ att[a] \in Attempt /\ att[a].started \in BOOLEAN /\ att[a].sent \in Seq(Int)
      /\ att[a].page \in Int /\ att \in [Attempts -> Attempt] /\ fed \in Nat
  BY DEF AudioInv, Types, Attempt
<1>3. PICK q : q = (IF att[a].started THEN <<>> ELSE <<-1, 0>>) \o <<fed + 1>>
  OBVIOUS
<1>4. /\ q \in Seq(Int) /\ Rest(q) /\ q[Len(q)] = fed + 1
      /\ IF att[a].started THEN Len(q) = 1 ELSE Len(q) = 3
      /\ \A i \in 1..Len(q) : q[i] <= 0 \/ q[i] = fed + 1
  BY <1>2, <1>3, FirstPages
<1>5. PICK h \in BOOLEAN :
         /\ att' = [att EXCEPT ![a].conv = "write", ![a].started = TRUE,
                               ![a].heard = h, ![a].pages = q]
         /\ DisableSilentPacket => h
  <2>1. PICK client \in IF DisableSilentPacket THEN {TRUE} ELSE BOOLEAN :
           att' = [att EXCEPT ![a].conv = "write", ![a].started = TRUE,
                              ![a].heard = @ \/ client, ![a].pages = q]
    BY <1>3 DEF ConvTake
  <2>2. client \in BOOLEAN /\ (DisableSilentPacket => client)
    BY <2>1
  <2>3. PICK h \in BOOLEAN : h = (att[a].heard \/ client)
    OBVIOUS
  <2>4. att' = [att EXCEPT ![a].conv = "write", ![a].started = TRUE,
                           ![a].heard = h, ![a].pages = q]
    BY <1>2, <2>1, <2>3 DEF Attempt
  <2> QED
    BY <2>2, <2>3, <2>4
<1>6. /\ att'[a] = [att[a] EXCEPT !.conv = "write", !.started = TRUE, !.heard = h, !.pages = q]
      /\ \A b \in Attempts : b # a => att'[b] = att[b]
  BY <1>2, <1>5 DEF Attempt
<1>7. /\ att'[a] \in Attempt /\ att'[a].send = att[a].send /\ att'[a].sent = att[a].sent
      /\ att'[a].started /\ att'[a].page = att[a].page /\ att'[a].pages = q
      /\ att'[a].conv = "write" /\ att'[a].heard = h
  BY <1>2, <1>4, <1>6 DEF Attempt
<1>8. att' \in [Attempts -> Attempt]
  BY <1>2, <1>5, <1>6, <1>7
<1>9. /\ Starting(a)' = Starting(a) /\ InFlight(a)' = InFlight(a) /\ Live(a)' = Live(a)
      /\ Count(a)' = Count(a)
  BY <1>1, <1>7 DEF Starting, InFlight, Holding, Live, Count
<1>10. SentOK(a)'
  BY <1>7, <1>9 DEF AudioInv, SentOK
<1>11. /\ att[a].page < fed + 1
       /\ \A i \in 1..Len(att[a].sent) : att[a].sent[i] < fed + 1
  <2>1. \A x \in Int : Has(a, x) => x <= fed
    BY DEF AudioInv, Owned
  <2>2. \A i \in 1..Len(att[a].sent) : att[a].sent[i] \in Int
    BY <1>2
  <2>3. Has(a, att[a].page) /\ \A i \in 1..Len(att[a].sent) : Has(a, att[a].sent[i])
    BY DEF Has
  <2> QED
    BY <1>2, <2>1, <2>2, <2>3
<1>12. PagesOK(a)'
  <2>1. Live(a) => IF att[a].started THEN Count(a) >= 2 ELSE Count(a) = 0
    BY <1>1 DEF AudioInv, PagesOK
  <2>2. CASE att[a].started
    <3>1. Len(q) = 1 /\ (Live(a)' => Count(a)' >= 2)
      BY <1>4, <1>9, <2>1, <2>2
    <3> QED
      BY <1>4, <1>7, <1>9, <1>11, <3>1 DEF PagesOK
  <2>3. CASE ~att[a].started
    <3>1. Len(q) = 3 /\ (Live(a)' => Count(a)' = 0)
      BY <1>4, <1>9, <2>1, <2>3
    <3> QED
      BY <1>4, <1>7, <1>9, <1>11, <3>1 DEF PagesOK
  <2> QED
    BY <2>2, <2>3
<1>13. \A x \in Int : Has(a, x)' => Has(a, x) \/ x <= 0 \/ x = fed + 1
  BY <1>4, <1>7 DEF Has
<1>14. \A b \in Attempts : b # a =>
          Still(b) /\ (Starting(b)' <=> Starting(b)) /\ (Holding(b)' <=> Holding(b))
  BY <1>1, <1>6 DEF Still, Starting, Holding
<1>15. /\ fed' \in Nat /\ fed' >= fed /\ attempt' \in Nat
       /\ (step \in {"first", "connect", "sendFirst"} => attempt \in Attempts)'
       /\ Starting(a)' => att'[a].send = "idle" /\ att'[a].sent = <<>>
  BY <1>1, <1>2, <1>7, <1>9 DEF AudioInv, Types, StartOK
<1>16. HeardOK(a)'
  BY <1>5, <1>7 DEF HeardOK
<1> QED
  BY <1>1, <1>8, <1>10, <1>12, <1>13, <1>14, <1>15, <1>16, MoveStep

-----------------------------------------------------------------------------
(* The other actions *)

\* Record r of attempt a has the audio where it is.
SameAudio(r, a) ==
    /\ r.sent = att[a].sent /\ r.pages = att[a].pages /\ r.page = att[a].page
    /\ r.started = att[a].started /\ r.heard = att[a].heard
    /\ r.conv \in {att[a].conv, "done"}
    /\ \/ r.send = att[a].send
       \/ att[a].send # "idle" /\ r.send = "done"

LEMMA AttQuiet ==
    ASSUME AudioInv, NEW a \in Attempts, NEW r \in Attempt, att' = [att EXCEPT ![a] = r],
           SameAudio(r, a), fed' \in Nat, fed' >= fed, attempt' = attempt, StepStill
    PROVE  AudioInv'
<1>1. att \in [Attempts -> Attempt]
  BY DEF AudioInv, Types
<1>2. \A b \in Attempts : att'[b] = IF b = a THEN r ELSE att[b]
  BY <1>1
<1>3. att' \in [Attempts -> Attempt]
  BY <1>1
<1>4. \A b \in Attempts : Still(b)
  BY <1>2 DEF Still, SameAudio
<1> QED
  BY <1>3, <1>4, QuietStep DEF Quiet

\* No attempt changes.
LEMMA SameQuiet ==
    ASSUME AudioInv, att' = att, fed' \in Nat, fed' >= fed, attempt' = attempt, StepStill
    PROVE  AudioInv'
BY QuietStep DEF AudioInv, Types, Quiet, Still

LEMMA FedFacts == AudioInv => fed \in Nat /\ fed >= fed /\ fed + 1 \in Nat /\ fed + 1 >= fed
BY DEF AudioInv, Types

\* The converter, its closer and the service.
LEMMA ConverterQuiet ==
    ASSUME AudioInv, NEW a \in Attempts,
           \/ ConvBadPacket(a) \/ ConvEnd(a) \/ ConvCtx(a) \/ ConvWriteFails(a)
           \/ CloseOnDone(a)
    PROVE  AudioInv'
<1>1. att[a] \in Attempt /\ att \in [Attempts -> Attempt]
  BY DEF AudioInv, Types
<1>2. \A e \in {"eof", "error", "canceled"} : CloseOgg(a, e) \in {"open", "eof", "error", "canceled"}
  BY <1>1 DEF CloseOgg, Attempt
<1>3. PICK c \in {att[a].conv, "done"}, w \in {"open", "eof", "error", "canceled"} :
         att' = [att EXCEPT ![a].conv = c, ![a].oggW = w]
  <2>1. CASE ConvBadPacket(a)
    BY <1>2, <2>1 DEF ConvBadPacket
  <2>2. CASE ConvEnd(a)
    BY <1>2, <2>2 DEF ConvEnd
  <2>3. CASE ConvCtx(a)
    BY <1>2, <2>3 DEF ConvCtx
  <2>4. CASE ConvWriteFails(a)
    BY <1>2, <2>4 DEF ConvWriteFails
  <2>5. CASE CloseOnDone(a)
    <3>1. att' = [att EXCEPT ![a].conv = att[a].conv, ![a].oggW = "eof"]
      BY <1>1, <2>5 DEF CloseOnDone, Attempt
    <3> QED
      BY <3>1
  <2> QED
    BY <2>1, <2>2, <2>3, <2>4, <2>5
<1>4. PICK r : r = [att[a] EXCEPT !.conv = c, !.oggW = w]
  OBVIOUS
<1>5. att' = [att EXCEPT ![a] = r]
  BY <1>1, <1>3, <1>4 DEF Attempt
<1>6. r \in Attempt /\ SameAudio(r, a)
  BY ZenonT(60), <1>1, <1>4 DEF Attempt, SameAudio
<1>7. fed' \in Nat /\ fed' >= fed /\ attempt' = attempt /\ step' = step
  BY FedFacts DEF ConvBadPacket, ConvEnd, ConvCtx, ConvWriteFails, CloseOnDone, handlerVars
<1>8. StepStill
  BY <1>7 DEF StepStill
<1> QED
  BY <1>3, <1>5, <1>6, <1>7, <1>8, AttQuiet

\* The sender returns, the service ends, the receiver.
LEMMA GoroutineQuiet ==
    ASSUME AudioInv, NEW a \in Attempts,
           \/ SenderStops(a) \/ ServiceEnds(a) \/ ReceiverResult(a)
           \/ ReceiverEnd(a) \/ ReceiverCtx(a) \/ ReceiverEncodeFails(a)
    PROVE  AudioInv'
<1>1. att[a] \in Attempt /\ att \in [Attempts -> Attempt]
  BY DEF AudioInv, Types
<1>2. fed' \in Nat /\ fed' >= fed /\ attempt' = attempt /\ StepStill
  BY FedFacts DEF SenderStops, ServiceEnds, ReceiverResult, ReceiverEnd, ReceiverCtx,
                  ReceiverEncodeFails, handlerVars, StepStill
<1>3. ASSUME NEW e \in {"eof", "error", "disconnected"},
             att' = [att EXCEPT ![a] = ReceiverStopped(a, e)]
      PROVE  AudioInv'
  <2>1. PICK v \in {"none", "open", "closed", "failed", "retryable", "aborted"} :
           v = IF Aws /\ att[a].svc = "open" THEN "closed" ELSE att[a].svc
    BY <1>1 DEF Attempt
  <2>2. PICK u : u = [att[a] EXCEPT !.svc = v]
    OBVIOUS
  <2>3. PICK r : r = [u EXCEPT !.resW = e]
    OBVIOUS
  <2>4. u \in Attempt /\ SameAudio(u, a)
    BY ZenonT(60), <1>1, <2>2 DEF Attempt, SameAudio
  <2>5. r \in Attempt /\ SameAudio(r, a)
    <3>1. e \in {"open", "eof", "error", "disconnected"}
      OBVIOUS
    <3> QED
      BY ZenonT(60), <2>3, <2>4, <3>1 DEF Attempt, SameAudio
  <2>6. PICK z : z = [r EXCEPT !.recv = "done"]
    OBVIOUS
  <2>7. z \in Attempt /\ SameAudio(z, a)
    BY ZenonT(60), <2>5, <2>6 DEF Attempt, SameAudio
  <2>8. z = ReceiverStopped(a, e)
    BY <1>1, <2>1, <2>2, <2>3, <2>6 DEF ReceiverStopped, Attempt
  <2> QED
    BY <1>2, <1>3, <2>7, <2>8, AttQuiet
<1>4. CASE SenderStops(a)
  <2>1. PICK v \in {"none", "open", "closed", "failed", "retryable", "aborted"} :
           v = IF att[a].svc # "open" THEN att[a].svc ELSE IF Aws THEN "closed" ELSE "aborted"
    BY <1>1 DEF Attempt
  <2>2. PICK r : r = [att[a] EXCEPT !.send = "done", !.oggR = TRUE, !.svc = v]
    OBVIOUS
  <2>3. r = SenderStopped(a)
    BY <1>1, <2>1, <2>2 DEF SenderStopped, Attempt
  <2>4. r \in Attempt /\ SameAudio(r, a)
    BY ZenonT(60), <1>1, <1>4, <2>2 DEF Attempt, SameAudio, SenderStops
  <2>5. att' = [att EXCEPT ![a] = r]
    BY <1>4, <2>3 DEF SenderStops
  <2> QED
    BY <1>2, <2>4, <2>5, AttQuiet
<1>5. CASE ServiceEnds(a)
  <2>1. PICK e \in {"closed", "failed", "retryable"} : att' = [att EXCEPT ![a].svc = e]
    BY <1>5 DEF ServiceEnds
  <2>2. PICK r : r = [att[a] EXCEPT !.svc = e]
    OBVIOUS
  <2>3. r \in Attempt /\ SameAudio(r, a)
    BY ZenonT(60), <1>1, <2>2 DEF Attempt, SameAudio
  <2>4. att' = [att EXCEPT ![a] = r]
    BY <1>1, <2>1, <2>2
  <2> QED
    BY <1>2, <2>3, <2>4, AttQuiet
<1>6. CASE ReceiverResult(a)
  <2>1. PICK r : r = [att[a] EXCEPT !.recv = "result"]
    OBVIOUS
  <2>2. r \in Attempt /\ SameAudio(r, a)
    BY ZenonT(60), <1>1, <2>1 DEF Attempt, SameAudio
  <2>3. att' = [att EXCEPT ![a] = r]
    BY <1>1, <1>6, <2>1 DEF ReceiverResult
  <2> QED
    BY <1>2, <2>2, <2>3, AttQuiet
<1>7. StreamError(a) \in {"eof", "error", "disconnected"}
  BY DEF StreamError
<1>8. ASSUME att' = [att EXCEPT ![a].recv = "report", ![a].why = StreamError(a)]
      PROVE  AudioInv'
  <2>1. PICK e \in {"eof", "error", "disconnected"} : e = StreamError(a)
    BY <1>7
  <2>2. PICK r : r = [att[a] EXCEPT !.recv = "report", !.why = e]
    OBVIOUS
  <2>3. r \in Attempt /\ SameAudio(r, a)
    BY ZenonT(60), <1>1, <2>2 DEF Attempt, SameAudio
  <2>4. att' = [att EXCEPT ![a] = r]
    BY <1>1, <1>8, <2>1, <2>2 DEF Attempt
  <2> QED
    BY <1>2, <2>3, <2>4, AttQuiet
<1>9. CASE ReceiverEnd(a)
  BY <1>3, <1>7, <1>8, <1>9 DEF ReceiverEnd
<1>10. CASE ReceiverCtx(a)
  BY <1>3, <1>10 DEF ReceiverCtx
<1>11. CASE ReceiverEncodeFails(a)
  BY <1>3, <1>11 DEF ReceiverEncodeFails
<1> QED
  BY <1>4, <1>5, <1>6, <1>9, <1>10, <1>11

\* Begin and Reconnect start an attempt.
LEMMA BeginStep == AudioInv /\ Begin => AudioInv'
<1> SUFFICES ASSUME AudioInv, Begin PROVE AudioInv'
  OBVIOUS
<1>1. /\ attempt' = 1 /\ step' = "first" /\ fed' = fed
      /\ att' = [att EXCEPT ![1] = NewAttempt]
  BY DEF Begin, Handler!Accept
<1>2. 1 \in Attempts
  BY SessionAssumption DEF Attempts
<1>3. att' \in [Attempts -> Attempt] /\ att'[1] = NewAttempt
      /\ \A b \in Attempts : b # 1 => att'[b] = att[b]
  BY <1>1, <1>2, NewAttemptType DEF AudioInv, Types
<1>4. \A b \in Attempts : b # 1 => Still(b)
  BY <1>3 DEF Still
<1> QED
  BY <1>1, <1>2, <1>3, <1>4, NewStep

LEMMA ReconnectStep == AudioInv /\ Reconnect => AudioInv'
<1> SUFFICES ASSUME AudioInv, Reconnect PROVE AudioInv'
  OBVIOUS
<1>1. /\ attempt < MaxAttempts /\ attempt' = attempt + 1 /\ step' = "first" /\ fed' = fed
      /\ att' = [att EXCEPT ![attempt].resR = TRUE, ![attempt].cancelled = TRUE,
                            ![attempt + 1] = NewAttempt]
  BY DEF Reconnect, Handler!DisconnectedReconnect
<1>2. attempt \in Nat /\ att \in [Attempts -> Attempt]
  BY DEF AudioInv, Types
<1>3. PICK a \in Attempts : a = attempt + 1 /\ a # attempt
  BY <1>1, <1>2, SessionAssumption DEF Attempts
<1>4. ASSUME NEW b \in Attempts PROVE
         att'[b] = IF b = a THEN NewAttempt
                   ELSE IF b = attempt THEN [att[b] EXCEPT !.resR = TRUE, !.cancelled = TRUE]
                   ELSE att[b]
  BY <1>1, <1>2, <1>3
<1>5. ASSUME NEW b \in Attempts, b # a PROVE att'[b] \in Attempt /\ Still(b)
  <2>1. att[b] \in Attempt
    BY <1>2
  <2>2. CASE b = attempt
    <3>1. PICK r : r = [att[b] EXCEPT !.resR = TRUE, !.cancelled = TRUE]
      OBVIOUS
    <3>2. r \in Attempt /\ SameAudio(r, b)
      BY ZenonT(60), <2>1, <3>1 DEF Attempt, SameAudio
    <3>3. att'[b] = r
      BY <1>4, <1>5, <2>2, <3>1
    <3> QED
      BY <3>2, <3>3 DEF SameAudio, Still
  <2>3. CASE b # attempt
    BY <1>4, <1>5, <2>1, <2>3 DEF Still
  <2> QED
    BY <2>2, <2>3
<1>6. att' \in [Attempts -> Attempt] /\ att'[a] = NewAttempt
  <2>1. \A b \in Attempts : att'[b] \in Attempt
    BY <1>4, <1>5, NewAttemptType
  <2>2. att' = [b \in Attempts |-> att'[b]]
    BY <1>1, <1>2
  <2> QED
    BY <1>4, <2>1, <2>2
<1> QED
  BY <1>1, <1>3, <1>5, <1>6, NewStep

\* The handler's other actions on an attempt.
LEMMA HandlerQuiet ==
    ASSUME AudioInv, Connect \/ SendFirstFails \/ ReadMessage PROVE AudioInv'
<1>1. att \in [Attempts -> Attempt]
  BY DEF AudioInv, Types
<1>2. fed' \in Nat /\ fed' >= fed /\ attempt' = attempt /\ StepStill
  <2>1. fed' = fed /\ attempt' = attempt
    BY DEF Connect, SendFirstFails, ReadMessage, handlerVars
  <2>2. StepStill
    BY DEF Connect, SendFirstFails, ReadMessage, StepStill
  <2> QED
    BY <2>1, <2>2, FedFacts
<1>3. CASE attempt \notin Attempts
  <2>1. att' = att
    BY <1>1, <1>3 DEF Connect, SendFirstFails, ReadMessage
  <2> QED
    BY <1>2, <2>1, SameQuiet
<1>4. CASE attempt \in Attempts
  <2>1. PICK a \in Attempts : a = attempt
    BY <1>4
  <2>2. att[a] \in Attempt
    BY <1>1
  <2>3. CASE Connect
    <3>1. PICK r : r = [att[a] EXCEPT !.svc = "open"]
      OBVIOUS
    <3>2. r \in Attempt /\ SameAudio(r, a)
      BY ZenonT(60), <2>2, <3>1 DEF Attempt, SameAudio
    <3>3. att' = [att EXCEPT ![a] = r]
      BY <1>1, <2>1, <2>3, <3>1 DEF Connect
    <3> QED
      BY <1>2, <3>2, <3>3, AttQuiet
  <2>4. CASE SendFirstFails
    <3>1. PICK w \in BOOLEAN : w = Aws
      <4>1. Aws \in BOOLEAN
        BY DEF Aws, Handler!Aws
      <4> QED
        BY <4>1
    <3>2. PICK r : r = [att[a] EXCEPT !.oggR = w, !.svc = "closed"]
      OBVIOUS
    <3>3. r \in Attempt /\ SameAudio(r, a)
      BY ZenonT(60), <2>2, <3>2 DEF Attempt, SameAudio
    <3>4. att' = [att EXCEPT ![a] = r]
      BY <1>1, <2>1, <2>2, <2>4, <3>1, <3>2 DEF SendFirstFails, Attempt
    <3> QED
      BY <1>2, <3>3, <3>4, AttQuiet
  <2>5. CASE ReadMessage
    <3>1. CASE att[a].recv = "result"
      <4>1. PICK r : r = [att[a] EXCEPT !.recv = "recv"]
        OBVIOUS
      <4>2. r \in Attempt /\ SameAudio(r, a)
        BY ZenonT(60), <2>2, <4>1 DEF Attempt, SameAudio
      <4>3. att' = [att EXCEPT ![a] = r]
        BY <1>1, <2>1, <2>5, <3>1, <4>1 DEF ReadMessage
      <4> QED
        BY <1>2, <4>2, <4>3, AttQuiet
    <3>2. CASE att[a].recv # "result"
      <4>1. PICK e \in {"eof", "error", "disconnected"} : e = att[a].why
        BY <2>2 DEF Attempt
      <4>2. e \in {"open", "eof", "error", "disconnected"}
        OBVIOUS
      <4>3. PICK u : u = [att[a] EXCEPT !.resW = e]
        OBVIOUS
      <4>4. u \in Attempt /\ SameAudio(u, a)
        BY ZenonT(60), <2>2, <4>2, <4>3 DEF Attempt, SameAudio
      <4>5. PICK r : r = [u EXCEPT !.recv = "done"]
        OBVIOUS
      <4>6. r \in Attempt /\ SameAudio(r, a)
        BY ZenonT(60), <4>4, <4>5 DEF Attempt, SameAudio
      <4>7. att' = [att EXCEPT ![a] = r]
        BY <1>1, <2>1, <2>2, <2>5, <3>2, <4>1, <4>3, <4>5 DEF ReadMessage, Attempt
      <4> QED
        BY <1>2, <4>6, <4>7, AttQuiet
    <3> QED
      BY <3>1, <3>2
  <2> QED
    BY <2>3, <2>4, <2>5
<1> QED
  BY <1>3, <1>4

\* The actions that leave every attempt alone.
LEMMA IdleQuiet ==
    ASSUME AudioInv,
           \/ FirstPageFails \/ ConnectFails \/ RetryTimer \/ RetryClosed \/ ReadEOF
           \/ GiveUp \/ ReadError \/ RetryDrain \/ ClientEnds \/ ClientLost \/ InputCloses
    PROVE  AudioInv'
<1>1. att' = att /\ attempt' = attempt
  <2>1. CASE FirstPageFails \/ RetryClosed \/ ReadEOF \/ ClientEnds \/ ClientLost
    BY <2>1 DEF FirstPageFails, RetryClosed, ReadEOF, ClientEnds, ClientLost
  <2>2. CASE RetryDrain \/ InputCloses
    BY <2>2 DEF RetryDrain, InputCloses, handlerVars
  <2>3. CASE ConnectFails
    BY <2>3 DEF ConnectFails, Handler!HandleRetryable, Handler!HandleSuzuError,
                Handler!HandleConfError, Handler!HandleOtherError
  <2>4. CASE RetryTimer \/ GiveUp \/ ReadError
    BY <2>4 DEF RetryTimer, GiveUp, ReadError, Handler!RetryTimerFires,
                Handler!DisconnectedGiveUp, Handler!ReadOtherError
  <2> QED
    BY <2>1, <2>2, <2>3, <2>4
<1>2. fed' = fed \/ fed' = fed + 1
  BY DEF FirstPageFails, ConnectFails, RetryTimer, RetryClosed, ReadEOF, GiveUp, ReadError,
         RetryDrain, ClientEnds, ClientLost, InputCloses
<1>3. StepStill
  BY DEF FirstPageFails, ConnectFails, RetryTimer, RetryClosed, ReadEOF, GiveUp, ReadError,
         RetryDrain, ClientEnds, ClientLost, InputCloses, StepStill
<1>4. fed' \in Nat /\ fed' >= fed
  BY <1>2, FedFacts
<1> QED
  BY <1>1, <1>3, <1>4, SameQuiet

LEMMA AudioNext == AudioInv /\ [Next]_vars => AudioInv'
<1> SUFFICES ASSUME AudioInv, [Next]_vars PROVE AudioInv'
  OBVIOUS
<1>1. CASE HandlerStep \/ RetryTimer
  BY <1>1, BeginStep, FirstPageStep, SendFirstStep, ReconnectStep, HandlerQuiet, IdleQuiet
     DEF HandlerStep
<1>2. CASE RetryDrain \/ ClientEnds \/ ClientLost \/ InputCloses
  BY <1>2, IdleQuiet
<1>3. ASSUME NEW a \in Attempts,
             \/ ConvTake(a) \/ ConvBadPacket(a) \/ ConverterStep(a) \/ CloseOnDone(a)
             \/ SenderStep(a) \/ ServiceEnds(a)
             \/ ReceiverResult(a) \/ ReceiverStep(a)
      PROVE  AudioInv'
  BY <1>3, ConvTakeStep, ConverterQuiet, SenderReadStep, SenderSendStep, GoroutineQuiet
     DEF ConverterStep, SenderStep, ReceiverStep
<1>4. CASE UNCHANGED vars
  <2>1. att' = att /\ attempt' = attempt /\ fed' = fed /\ StepStill
    BY <1>4 DEF vars, handlerVars, StepStill
  <2> QED
    BY <2>1, FedFacts, SameQuiet
<1> QED
  BY <1>1, <1>2, <1>3, <1>4 DEF Next

LEMMA AudioGoal == AudioInv => AudioOnce
<1> SUFFICES ASSUME AudioInv PROVE AudioOnce
  OBVIOUS
<1>1. \A a \in Attempts : att[a].sent \in Seq(Int)
  BY DEF AudioInv, Types, Attempt
<1>2. ASSUME NEW a \in Attempts, NEW i \in 1..Len(att[a].sent), i <= 2
      PROVE  att[a].sent[i] = i - 2
  <2>1. PageFits(att[a].sent[i], i) /\ i \in Nat
    BY <1>1 DEF AudioInv, SentOK
  <2>2. i = 1 \/ i = 2
    BY <1>1, <1>2
  <2> QED
    BY <2>1, <2>2 DEF PageFits
<1>3. ASSUME NEW a \in Attempts, NEW i \in 1..Len(att[a].sent) - 1
      PROVE  att[a].sent[i] < att[a].sent[i + 1]
  BY DEF AudioInv, SentOK
<1>4. ASSUME NEW a \in Attempts, NEW b \in Attempts, a # b,
             NEW i \in 3..Len(att[a].sent), NEW j \in 3..Len(att[b].sent),
             att[a].sent[i] = att[b].sent[j]
      PROVE  FALSE
  <2>1. i \in 1..Len(att[a].sent) /\ j \in 1..Len(att[b].sent) /\ i >= 3 /\ i \in Nat
    BY <1>1
  <2>2. PICK x \in Int : x = att[a].sent[i]
    BY <1>1, <2>1
  <2>3. PageFits(x, i)
    BY <2>1, <2>2 DEF AudioInv, SentOK
  <2>4. x >= 1
    BY <2>1, <2>3 DEF PageFits
  <2>5. Has(a, x) /\ Has(b, x)
    BY <1>4, <2>1, <2>2 DEF Has
  <2> QED
    BY <1>4, <2>4, <2>5 DEF AudioInv, Owned
<1> QED
  BY <1>2, <1>3, <1>4 DEF AudioOnce

\* In any run of Handle with any number of attempts and packets, every stream
\* the service gets is the two Ogg headers and then packets in the order of the
\* client, and no packet goes to two attempts (AudioOnce).
THEOREM AudioGoesOnce == Spec => []AudioOnce
<1>1. Spec => []AudioInv
  BY AudioInit, AudioNext, PTL DEF Spec
<1> QED
  BY <1>1, AudioGoal, PTL

\* Every call of the service, of the first attempt and of any retry, comes after a
\* packet taken from opusCh for that attempt, the client's unless silence is
\* enabled (CallAfterPacket).
THEOREM CallsFollowAudio == Spec => []CallAfterPacket
<1>1. Spec => []AudioInv
  BY AudioInit, AudioNext, PTL DEF Spec
<1>2. AudioInv => CallAfterPacket
  <2> SUFFICES ASSUME AudioInv, step \in {"connect", "sendFirst"}
               PROVE  /\ att[attempt].started
                      /\ DisableSilentPacket => att[attempt].heard
    BY DEF CallAfterPacket
  <2>1. attempt \in Attempts
    BY DEF AudioInv, StartOK
  <2> QED
    BY <2>1 DEF AudioInv, HeardOK, Holding
<1> QED
  BY <1>1, <1>2, PTL

-----------------------------------------------------------------------------
(* The goroutines implement the request handler of SpeechHandler *)

\* More results leave more room for messages.
LEMMA RoomGrows ==
    ASSUME NEW r \in Nat, NEW q \in Nat, r <= q, NEW b \in Nat, NEW n \in Nat
    PROVE  /\ n <= r + b => n <= q + b
           /\ n <= r + b - 1 => n <= q + b - 1
OBVIOUS

-----------------------------------------------------------------------------
(* What the step simulation needs *)

\* The client's stream is over, or the handler has returned.
Ended == streamOver \/ pc = "done"

Waiting == pc \in {"handle", "retryWait"}

HandlerTypes ==
    /\ conf \in Configs
    /\ pc \in {"start", "handle", "retryWait", "read", "done"}
    /\ streamOver \in BOOLEAN /\ reqDone \in BOOLEAN
    /\ body \in Seq(Handler!MessageType)
    /\ results \in Nat /\ results <= MaxResults

\* Where the request handler is, and which attempt is the current one.
Control ==
    /\ step # "none" => pc = "handle"
    /\ pc # "start" => attempt \in Attempts
    /\ reqDone => streamOver
    /\ input # "open" => Ended

\* Messages belong to attempts made so far; those that wait for a connection
\* have none yet.
BodyBound ==
    /\ pc = "start" => attempt = 0 /\ body = <<>>
    /\ \A i \in 1..Len(body) : body[i].attempt <= attempt
    /\ Waiting => /\ \A i \in 1..Len(body) : body[i].attempt < attempt
                  /\ Len(body) <= results + attempt - 1

\* The current attempt, connected: its receiver has sent no report before it
\* returns, each message is a result it got or one report per attempt, and a
\* gcp receiver that ends without an error has reported, unless the client left.
Reading(a) ==
    /\ att[a].recv # "done" =>
          /\ \A i \in 1..Len(body) : body[i].attempt = a => body[i].kind = "result"
          /\ Len(body) + (IF att[a].recv = "result" THEN 1 ELSE 0) <= results + a - 1
    /\ Len(body) <= results + a
    /\ att[a].resW = "eof" /\ ~Aws => streamOver \/ Handler!ErrorSent

\* Only attempts given up are cancelled; a converter's pipe ends without an
\* error only when the client's stream, or the attempt, is over.
AttemptOK(a) ==
    /\ att[a].cancelled => a < attempt
    /\ att[a].oggW \in {"eof", "canceled"} => Ended \/ att[a].cancelled
    /\ att[a].resW # "open" => att[a].recv = "done"
    /\ att[a].recv = "report" => ~Aws
    /\ a = attempt /\ Waiting => att[a].recv = "idle"
    /\ a = attempt /\ pc = "read" => Reading(a)

HandlerInv ==
    /\ HandlerTypes /\ Control /\ BodyBound
    /\ \A a \in Attempts : AttemptOK(a)

\* The initial states satisfy HandlerInv.
LEMMA HandlerInit == Init => HandlerInv
<1> SUFFICES ASSUME Init PROVE HandlerInv OBVIOUS
<1>1. streamOver \in BOOLEAN /\ reqDone \in BOOLEAN BY Zenon DEF Init, Handler!Init
<1>2. /\ conf \in Configs /\ pc = "start" /\ body = <<>> /\ attempt = 0 /\ results = 0
      /\ step = "none" /\ input = "open" /\ reqDone = FALSE
      BY DEF Init, Handler!Init
<1>3. <<>> \in Seq(Handler!MessageType) OBVIOUS
<1>4. HandlerTypes BY <1>1, <1>2, <1>3, SessionBounds DEF HandlerTypes
<1>5. Control BY <1>2 DEF Control
<1>6. BodyBound BY <1>2 DEF BodyBound, Waiting
<1>7. ASSUME NEW a \in Attempts PROVE AttemptOK(a)
  <2>1. att[a] = [NewAttempt EXCEPT !.conv = "idle"] BY DEF Init
  <2>2. /\ att[a].cancelled = FALSE /\ att[a].oggW = "open" /\ att[a].resW = "open"
        /\ att[a].recv = "idle"
        BY <2>1 DEF NewAttempt
  <2>3. QED BY <1>2, <2>2 DEF AttemptOK, Waiting
<1>8. QED BY <1>4, <1>5, <1>6, <1>7 DEF HandlerInv

-----------------------------------------------------------------------------
(* Steps that leave the request handler's variables alone *)

\* What a goroutine of attempt a may do to the pipes the handler reads.
OggEnds(a) ==
    \/ att'[a].oggW \in {att[a].oggW, "open", "error"}
    \/ Ended \/ att[a].cancelled

Receives(a) ==
    \/ att'[a].recv = att[a].recv /\ att'[a].resW = att[a].resW /\ results' = results
    \/ /\ att[a].recv = "recv" /\ att'[a].recv = "result" /\ att'[a].resW = att[a].resW
       /\ results' = results + 1 /\ results < MaxResults
    \/ /\ att[a].recv = "recv" /\ att'[a].recv = "report" /\ att'[a].resW = att[a].resW
       /\ ~Aws /\ results' = results
    \/ /\ att[a].recv \in {"recv", "result", "report"} /\ att'[a].recv = "done"
       /\ att'[a].resW = "eof" /\ ~Aws => CtxDone(a)
       /\ results' = results

Goroutine(a) ==
    /\ UNCHANGED <<handlerVars, reqDone>>
    /\ step' = step \/ step # "none"
    /\ input' # "open" => input # "open" \/ Ended
    /\ \A b \in Attempts : b # a => att'[b] = att[b]
    /\ att'[a].cancelled = att[a].cancelled
    /\ OggEnds(a)
    /\ Receives(a)

\* Such a step keeps HandlerInv.
LEMMA GoroutineStep ==
    ASSUME AudioInv, HandlerInv, NEW a \in Attempts, Goroutine(a)
    PROVE  HandlerInv'
<1> USE DEF HandlerInv
<1>0. UNCHANGED handlerVars /\ UNCHANGED reqDone BY DEF Goroutine
<1>1. results' \in Nat /\ results' <= MaxResults /\ results <= results' /\ results \in Nat
      BY SessionBounds DEF Goroutine, Receives, HandlerTypes
<1>2. HandlerTypes' BY <1>0, <1>1 DEF HandlerTypes, handlerVars
<1>3. Control' BY <1>0 DEF Control, Goroutine, handlerVars, Ended
<1>4. Len(body) \in Nat /\ attempt \in Nat BY DEF HandlerTypes, AudioInv, Types
<1>5. BodyBound'
  <2>1. ASSUME Waiting PROVE Len(body) <= results' + attempt - 1
    <3>1. Len(body) <= results + attempt - 1 BY <2>1 DEF BodyBound
    <3>2. QED BY <1>1, <1>4, <3>1, RoomGrows
  <2>2. QED BY <1>0, <2>1 DEF BodyBound, handlerVars, Waiting
<1>6. /\ Ended' = Ended /\ Waiting' = Waiting /\ Aws' = Aws
      /\ Handler!ErrorSent' = Handler!ErrorSent
      /\ UNCHANGED <<pc, body, attempt, streamOver>>
      BY <1>0 DEF handlerVars, Ended, Waiting, Aws, Handler!Aws, Handler!Service,
         Handler!ErrorSent, Handler!Message
<1>7. ASSUME NEW b \in Attempts, b # a PROVE AttemptOK(b)'
  <2>1. att'[b] = att[b] /\ AttemptOK(b) BY <1>7 DEF Goroutine
  <2>2. b \in Nat BY DEF Attempts
  <2>3. ASSUME Reading(b) PROVE Reading(b)'
    <3>1. PICK n \in Nat : n = Len(body) + (IF att[b].recv = "result" THEN 1 ELSE 0)
          BY <1>4
    <3>2. PICK r \in Nat, q \in Nat : r = results /\ q = results' /\ r <= q BY <1>1
    <3>3. Len(body) <= results' + b
      <4>1. Len(body) <= r + b BY <2>3, <3>2 DEF Reading
      <4>2. Len(body) <= q + b BY <1>4, <2>2, <3>2, <4>1, RoomGrows
      <4>3. QED BY <3>2, <4>2
    <3>4. ASSUME att[b].recv # "done"
          PROVE  /\ \A i \in 1..Len(body) : body[i].attempt = b => body[i].kind = "result"
                 /\ n <= results' + b - 1
      <4>1. n <= r + b - 1 BY <2>3, <3>1, <3>2, <3>4 DEF Reading
      <4>2. n <= q + b - 1 BY <2>2, <3>2, <4>1, RoomGrows
      <4>3. \A i \in 1..Len(body) : body[i].attempt = b => body[i].kind = "result"
            BY <2>3, <3>4 DEF Reading
      <4>4. QED BY <3>2, <4>2, <4>3
    <3>5. att[b].resW = "eof" /\ ~Aws => streamOver \/ Handler!ErrorSent
          BY <2>3 DEF Reading
    <3>6. QED BY <1>6, <2>1, <3>1, <3>3, <3>4, <3>5 DEF Reading
  <2>4. QED BY <1>6, <2>1, <2>3 DEF AttemptOK
<1>8. AttemptOK(a)'
  <2>1. AttemptOK(a) /\ a \in Nat BY DEF Attempts
  <2>2. Goroutine(a) OBVIOUS
  <2>3. ASSUME a = attempt, pc = "read" PROVE Reading(a)'
    <3>1. Reading(a) BY <2>1, <2>3 DEF AttemptOK
    <3>2. CtxDone(a) => streamOver
          BY <2>1, <2>3 DEF CtxDone, AttemptOK, Control
    <3>3. ASSUME att'[a].recv # "done"
          PROVE  /\ \A i \in 1..Len(body) : body[i].attempt = a => body[i].kind = "result"
                 /\ Len(body) + (IF att'[a].recv = "result" THEN 1 ELSE 0) <= results' + a - 1
          BY <1>1, <1>4, <2>1, <2>2, <3>1, <3>3 DEF Reading, Goroutine, Receives
    <3>4. Len(body) <= results' + a BY <1>1, <1>4, <2>1, <3>1 DEF Reading
    <3>5. att'[a].resW = "eof" /\ ~Aws => streamOver \/ Handler!ErrorSent
      <4>1. CASE att'[a].resW = att[a].resW BY <3>1, <4>1 DEF Reading
      <4>2. CASE att'[a].resW = "eof" /\ ~Aws => CtxDone(a) BY <3>2, <4>2
      <4>3. QED BY <2>2, <4>1, <4>2 DEF Goroutine, Receives
    <3>6. QED BY <1>6, <3>3, <3>4, <3>5 DEF Reading
  <2>4. att'[a].cancelled => a < attempt BY <2>1, <2>2 DEF AttemptOK, Goroutine
  <2>5. att'[a].oggW \in {"eof", "canceled"} => Ended \/ att'[a].cancelled
        BY <2>1, <2>2 DEF AttemptOK, Goroutine, OggEnds
  <2>6. /\ att'[a].resW # "open" => att'[a].recv = "done"
        /\ att'[a].recv = "report" => ~Aws
        /\ a = attempt /\ Waiting => att'[a].recv = "idle"
        BY <2>1, <2>2 DEF AttemptOK, Goroutine, Receives
  <2>7. QED BY <1>6, <2>3, <2>4, <2>5, <2>6 DEF AttemptOK
<1>9. QED BY <1>2, <1>3, <1>5, <1>7, <1>8

\* A pipe keeps its first close error.
LEMMA CloseOggEnds ==
    ASSUME NEW a \in Attempts, NEW e,
           att'[a].oggW = CloseOgg(a, e),
           e = "error" \/ Ended \/ att[a].cancelled
    PROVE  OggEnds(a)
BY DEF OggEnds, CloseOgg

\* The fields a step of the converter or the sender leaves alone.
SamePipes(r, a) == /\ r.cancelled = att[a].cancelled /\ r.recv = att[a].recv
                   /\ r.resW = att[a].resW

\* The converter and its closer.
LEMMA ConverterGoroutine ==
    ASSUME AudioInv, HandlerInv, NEW a \in Attempts,
           \/ ConvTake(a) \/ ConvBadPacket(a) \/ ConverterStep(a) \/ CloseOnDone(a)
    PROVE  Goroutine(a)
<1>1. att[a] \in Attempt /\ att \in [Attempts -> Attempt] BY DEF AudioInv, Types
<1>2. input # "open" => Ended BY DEF HandlerInv, Control
<1>3. CtxDone(a) => Ended \/ att[a].cancelled
      BY DEF HandlerInv, Control, CtxDone, Ended
<1>4. ASSUME NEW c, NEW w, att' = [att EXCEPT ![a].conv = c, ![a].oggW = w]
      PROVE  /\ \A b \in Attempts : b # a => att'[b] = att[b]
             /\ SamePipes(att'[a], a) /\ att'[a].oggW = w
      BY <1>1, <1>4 DEF Attempt, SamePipes
<1>5. CASE ConvTake(a)
  <2>1. PICK client : att' = [att EXCEPT ![a].conv = "write", ![a].started = TRUE,
                             ![a].heard = @ \/ client,
                             ![a].pages = (IF att[a].started THEN <<>> ELSE <<-1, 0>>)
                                             \o <<fed + 1>>]
        BY <1>5 DEF ConvTake
  <2>2. /\ \A b \in Attempts : b # a => att'[b] = att[b]
        /\ SamePipes(att'[a], a) /\ att'[a].oggW = att[a].oggW
        BY <1>1, <2>1 DEF Attempt, SamePipes
  <2>3. QED BY <1>5, <2>2 DEF ConvTake, Goroutine, OggEnds, Receives, SamePipes
<1>6. CASE ConvBadPacket(a)
  <2>1. /\ \A b \in Attempts : b # a => att'[b] = att[b]
        /\ SamePipes(att'[a], a) /\ att'[a].oggW = CloseOgg(a, "error")
        BY <1>4, <1>6 DEF ConvBadPacket
  <2>2. QED BY <1>6, <2>1, CloseOggEnds DEF ConvBadPacket, Goroutine, Receives, SamePipes
<1>7. CASE ConvEnd(a)
  <2>1. PICK e : /\ e = IF input = "error" THEN "error" ELSE "eof"
                 /\ att' = [att EXCEPT ![a].conv = "done", ![a].oggW = CloseOgg(a, e)]
        BY <1>7 DEF ConvEnd
  <2>2. /\ \A b \in Attempts : b # a => att'[b] = att[b]
        /\ SamePipes(att'[a], a) /\ att'[a].oggW = CloseOgg(a, e)
        BY <1>4, <2>1
  <2>3. Ended BY <1>2, <1>7 DEF ConvEnd
  <2>4. OggEnds(a) BY <2>2, <2>3, CloseOggEnds
  <2>5. QED BY <1>7, <2>2, <2>3, <2>4 DEF ConvEnd, Goroutine, Receives, SamePipes
<1>8. CASE ConvCtx(a)
  <2>1. /\ \A b \in Attempts : b # a => att'[b] = att[b]
        /\ SamePipes(att'[a], a) /\ att'[a].oggW = CloseOgg(a, "canceled")
        BY <1>4, <1>8 DEF ConvCtx
  <2>2. OggEnds(a) BY <1>3, <1>8, <2>1, CloseOggEnds DEF ConvCtx
  <2>3. QED BY <1>8, <2>1, <2>2 DEF ConvCtx, Goroutine, Receives, SamePipes
<1>9. CASE ConvWriteFails(a)
  <2>1. /\ \A b \in Attempts : b # a => att'[b] = att[b]
        /\ SamePipes(att'[a], a) /\ att'[a].oggW = CloseOgg(a, "error")
        BY <1>4, <1>9 DEF ConvWriteFails
  <2>2. QED BY <1>9, <2>1, CloseOggEnds DEF ConvWriteFails, Goroutine, Receives, SamePipes
<1>10. CASE CloseOnDone(a)
  <2>1. /\ \A b \in Attempts : b # a => att'[b] = att[b]
        /\ SamePipes(att'[a], a)
        BY <1>1, <1>10 DEF CloseOnDone, Attempt, SamePipes
  <2>2. OggEnds(a) BY <1>3, <1>10 DEF CloseOnDone, OggEnds
  <2>3. QED BY <1>10, <2>1, <2>2 DEF CloseOnDone, Goroutine, Receives, SamePipes
<1>11. QED BY <1>5, <1>6, <1>7, <1>8, <1>9, <1>10 DEF ConverterStep

\* The sender and the service leave the handler's pipes alone.
LEMMA SenderGoroutine ==
    ASSUME AudioInv, HandlerInv, NEW a \in Attempts, SenderStep(a) \/ ServiceEnds(a)
    PROVE  Goroutine(a)
<1>1. att[a] \in Attempt /\ att \in [Attempts -> Attempt] BY DEF AudioInv, Types
<1>2. ASSUME NEW r, att' = [att EXCEPT ![a] = r], SamePipes(r, a), r.oggW = att[a].oggW,
             UNCHANGED <<handlerVars, step, reqDone, input, results>>
      PROVE  Goroutine(a)
  <2>1. att'[a] = r /\ \A b \in Attempts : b # a => att'[b] = att[b] BY <1>1, <1>2
  <2>2. QED BY <1>2, <2>1 DEF Goroutine, OggEnds, Receives, SamePipes
<1>3. CASE SenderRead(a)
  <2>1. PICK r : r = [TakePage(a) EXCEPT !.send = "send"] OBVIOUS
  <2>2. SamePipes(r, a) /\ r.oggW = att[a].oggW
        BY <1>1, <2>1 DEF TakePage, SamePipes, Attempt
  <2>3. QED BY <1>2, <1>3, <2>1, <2>2 DEF SenderRead
<1>4. CASE SenderSend(a)
  <2>1. PICK r : r = [att[a] EXCEPT !.send = "read", !.sent = Append(@, att[a].page)] OBVIOUS
  <2>2. SamePipes(r, a) /\ r.oggW = att[a].oggW
        BY <1>1, <2>1 DEF SamePipes, Attempt
  <2>3. att' = [att EXCEPT ![a] = r] BY <1>1, <1>4, <2>1 DEF SenderSend, Attempt
  <2>4. QED BY <1>2, <1>4, <2>2, <2>3 DEF SenderSend
<1>5. CASE SenderStops(a)
  <2>1. PICK r : r = SenderStopped(a) OBVIOUS
  <2>2. SamePipes(r, a) /\ r.oggW = att[a].oggW
        BY <1>1, <2>1 DEF SenderStopped, SamePipes, Attempt
  <2>3. QED BY <1>2, <1>5, <2>1, <2>2 DEF SenderStops
<1>6. CASE ServiceEnds(a)
  <2>1. PICK e : att' = [att EXCEPT ![a].svc = e] BY <1>6 DEF ServiceEnds
  <2>2. PICK r : r = [att[a] EXCEPT !.svc = e] OBVIOUS
  <2>3. SamePipes(r, a) /\ r.oggW = att[a].oggW BY <1>1, <2>2 DEF SamePipes, Attempt
  <2>4. att' = [att EXCEPT ![a] = r] BY <1>1, <2>1, <2>2 DEF Attempt
  <2>5. QED BY <1>2, <1>6, <2>3, <2>4 DEF ServiceEnds
<1>7. QED BY <1>3, <1>4, <1>5, <1>6 DEF SenderStep

\* The receiver.
LEMMA ReceiverGoroutine ==
    ASSUME AudioInv, HandlerInv, NEW a \in Attempts, ReceiverResult(a) \/ ReceiverStep(a)
    PROVE  Goroutine(a)
<1>1. att[a] \in Attempt /\ att \in [Attempts -> Attempt] BY DEF AudioInv, Types
<1>2. ASSUME NEW r, att' = [att EXCEPT ![a] = r], r.cancelled = att[a].cancelled,
             r.oggW = att[a].oggW, Receives(a),
             UNCHANGED <<handlerVars, step, reqDone, input>>
      PROVE  Goroutine(a)
  <2>1. att'[a] = r /\ \A b \in Attempts : b # a => att'[b] = att[b] BY <1>1, <1>2
  <2>2. QED BY <1>2, <2>1 DEF Goroutine, OggEnds
<1>3. ASSUME NEW e, att' = [att EXCEPT ![a] = ReceiverStopped(a, e)],
             att[a].recv \in {"recv", "result", "report"},
             e = "eof" /\ ~Aws => CtxDone(a),
             UNCHANGED <<handlerVars, step, reqDone, input, results>>
      PROVE  Goroutine(a)
  <2>1. PICK r : r = ReceiverStopped(a, e) OBVIOUS
  <2>2. /\ r.cancelled = att[a].cancelled /\ r.oggW = att[a].oggW
        /\ r.recv = "done" /\ r.resW = e
        BY <1>1, <2>1 DEF ReceiverStopped, Attempt
  <2>3. att'[a] = r BY <1>1, <1>3, <2>1
  <2>4. Receives(a) BY <1>3, <2>2, <2>3 DEF Receives
  <2>5. QED BY <1>2, <1>3, <2>1, <2>2, <2>4
<1>4. CASE ReceiverResult(a)
  <2>1. PICK r : r = [att[a] EXCEPT !.recv = "result"] OBVIOUS
  <2>2. /\ r.cancelled = att[a].cancelled /\ r.oggW = att[a].oggW
        /\ r.recv = "result" /\ r.resW = att[a].resW
        BY <1>1, <2>1 DEF Attempt
  <2>3. att' = [att EXCEPT ![a] = r] BY <1>1, <1>4, <2>1 DEF ReceiverResult
  <2>4. att'[a] = r BY <1>1, <2>3
  <2>5. Receives(a) BY <1>4, <2>2, <2>4 DEF Receives, ReceiverResult
  <2>6. QED BY <1>2, <1>4, <2>2, <2>3, <2>5 DEF ReceiverResult
<1>5. CASE ReceiverEnd(a)
  <2>1. CASE /\ att[a].svc # "open"
             /\ Aws \/ att[a].svc \notin {"closed", "aborted"}
             /\ att' = [att EXCEPT ![a] = ReceiverStopped(a, StreamError(a))]
    <3>1. ~Aws => StreamError(a) # "eof" BY <2>1 DEF StreamError
    <3>2. QED BY <1>3, <1>5, <2>1, <3>1 DEF ReceiverEnd
  <2>2. CASE ~Aws /\ att' = [att EXCEPT ![a].recv = "report", ![a].why = StreamError(a)]
    <3>1. PICK r : r = [att[a] EXCEPT !.recv = "report", !.why = StreamError(a)] OBVIOUS
    <3>2. /\ r.cancelled = att[a].cancelled /\ r.oggW = att[a].oggW
          /\ r.recv = "report" /\ r.resW = att[a].resW
          BY <1>1, <3>1 DEF Attempt
    <3>3. att' = [att EXCEPT ![a] = r] BY <1>1, <2>2, <3>1 DEF Attempt
    <3>4. att'[a] = r BY <1>1, <3>3
    <3>5. Receives(a) BY <1>5, <2>2, <3>2, <3>4 DEF Receives, ReceiverEnd
    <3>6. QED BY <1>2, <1>5, <3>2, <3>3, <3>5 DEF ReceiverEnd
  <2>3. QED BY <1>5, <2>1, <2>2 DEF ReceiverEnd
<1>6. CASE ReceiverCtx(a) BY <1>3, <1>6 DEF ReceiverCtx
<1>7. CASE ReceiverEncodeFails(a) BY <1>3, <1>7 DEF ReceiverEncodeFails
<1>8. QED BY <1>4, <1>5, <1>6, <1>7 DEF ReceiverStep

\* Steps of Handle that SpeechHandler does not see, and the end of opusCh.
LEMMA HandleGoroutine ==
    ASSUME AudioInv, HandlerInv, FirstPage \/ Connect \/ InputCloses \/ RetryDrain
    PROVE  HandlerInv'
<1>1. att \in [Attempts -> Attempt] BY DEF AudioInv, Types
<1>2. CASE FirstPage \/ Connect
  <2>1. step # "none" BY <1>2 DEF FirstPage, Connect
  <2>2. attempt \in Attempts BY <2>1 DEF HandlerInv, Control
  <2>3. PICK a \in Attempts : a = attempt BY <2>2
  <2>4. att[a] \in Attempt BY <1>1
  <2>5. PICK r : /\ att' = [att EXCEPT ![a] = r]
                 /\ SamePipes(r, a) /\ r.oggW = att[a].oggW
    <3>1. CASE FirstPage
      <4>1. SamePipes(TakePage(a), a) /\ TakePage(a).oggW = att[a].oggW
            BY <2>4 DEF TakePage, SamePipes, Attempt
      <4>2. QED BY <2>3, <3>1, <4>1 DEF FirstPage
    <3>2. CASE Connect
      <4>1. PICK r : r = [att[a] EXCEPT !.svc = "open"] OBVIOUS
      <4>2. SamePipes(r, a) /\ r.oggW = att[a].oggW BY <2>4, <4>1 DEF SamePipes, Attempt
      <4>3. att' = [att EXCEPT ![a] = r] BY <1>1, <2>3, <3>2, <4>1 DEF Connect
      <4>4. QED BY <4>2, <4>3
    <3>3. QED BY <1>2, <3>1, <3>2
  <2>6. att'[a] = r /\ \A b \in Attempts : b # a => att'[b] = att[b] BY <1>1, <2>5
  <2>7. UNCHANGED <<handlerVars, reqDone, input, results>> BY <1>2 DEF FirstPage, Connect
  <2>8. Goroutine(a)
        BY <2>1, <2>5, <2>6, <2>7 DEF Goroutine, OggEnds, Receives, SamePipes
  <2>9. QED BY <2>8, GoroutineStep
<1>3. CASE InputCloses \/ RetryDrain
  <2>1. PICK a \in Attempts : a = 1 BY SessionAssumption DEF Attempts
  <2>2. UNCHANGED <<handlerVars, step, reqDone, results, att>>
        BY <1>3 DEF InputCloses, RetryDrain
  <2>3. input' # "open" => input # "open" \/ Ended
        BY <1>3 DEF InputCloses, RetryDrain, HandlerInv, Control, Ended
  <2>4. Goroutine(a) BY <2>2, <2>3 DEF Goroutine, OggEnds, Receives
  <2>5. QED BY <2>4, GoroutineStep
<1>4. QED BY <1>2, <1>3

\* The client leaves.
LEMMA ClientStep ==
    ASSUME AudioInv, HandlerInv, ClientEnds \/ ClientLost
    PROVE  HandlerInv'
<1> USE DEF HandlerInv
<1>1. /\ streamOver' = TRUE /\ pc # "start"
      /\ UNCHANGED <<conf, pc, attempt, body, step, results, att>>
      /\ reqDone' = reqDone \/ reqDone' = TRUE
      BY DEF ClientEnds, ClientLost
<1>2. streamOver' \in BOOLEAN /\ reqDone' \in BOOLEAN
      BY Zenon, <1>1 DEF HandlerTypes
<1>3. HandlerTypes' BY <1>1, <1>2 DEF HandlerTypes
<1>4. Control' BY <1>1 DEF Control, Ended
<1>5. BodyBound' BY <1>1 DEF BodyBound, Waiting
<1>6. ASSUME NEW a \in Attempts PROVE AttemptOK(a)'
  <2>1. AttemptOK(a) OBVIOUS
  <2>2. Aws' = Aws BY <1>1 DEF Aws, Handler!Aws, Handler!Service
  <2>3. Reading(a) => Reading(a)' BY <1>1, <2>2 DEF Reading
  <2>4. QED BY <1>1, <2>1, <2>2, <2>3 DEF AttemptOK, Waiting, Ended
<1>7. QED BY <1>3, <1>4, <1>5, <1>6

-----------------------------------------------------------------------------
(* Steps of the request handler *)

\* What is written to the response is a message of the current attempt.
LEMMA WriteMessageBody ==
    ASSUME AudioInv, HandlerInv, pc # "start", NEW kind \in {"result", "error"},
           Handler!WriteMessage(kind)
    PROVE  /\ body' \in Seq(Handler!MessageType)
           /\ Len(body) \in Nat /\ Len(body') = Len(body) + 1
           /\ \A i \in 1..Len(body) : body'[i] = body[i]
           /\ body'[Len(body) + 1] = Handler!Message(kind)
           /\ Handler!Message(kind).kind = kind /\ Handler!Message(kind).attempt = attempt
           /\ \A i \in 1..Len(body') : body'[i].attempt <= attempt
<1>1. attempt \in Nat /\ body \in Seq(Handler!MessageType)
      BY DEF AudioInv, Types, HandlerInv, HandlerTypes
<1>2. PICK m : m = Handler!Message(kind) OBVIOUS
<1>3. m \in Handler!MessageType /\ m.kind = kind /\ m.attempt = attempt
      BY <1>1, <1>2 DEF Handler!Message, Handler!MessageType
<1>4. body' = Append(body, m) BY <1>2 DEF Handler!WriteMessage
<1>5. /\ body' \in Seq(Handler!MessageType)
      /\ Len(body) \in Nat /\ Len(body') = Len(body) + 1
      /\ \A i \in 1..Len(body) : body'[i] = body[i]
      /\ body'[Len(body) + 1] = m
      BY <1>1, <1>3, <1>4
<1>6. \A i \in 1..Len(body) : body[i].attempt <= attempt BY DEF HandlerInv, BodyBound
<1>7. ASSUME NEW i \in 1..Len(body') PROVE body'[i].attempt <= attempt
  <2>1. CASE i \in 1..Len(body) BY <1>5, <1>6, <2>1
  <2>2. CASE i = Len(body) + 1 BY <1>1, <1>3, <1>5, <2>2
  <2>3. QED BY <1>5, <2>1, <2>2
<1>8. QED BY <1>2, <1>3, <1>5, <1>7

\* The handler returns; nothing it leaves behind matters to it any more.
LEMMA ReturnStep ==
    ASSUME AudioInv, HandlerInv, pc # "start", pc' = "done",
           step' = "none",
           UNCHANGED <<conf, streamOver, attempt, reqDone, input, results>>,
           UNCHANGED body \/ Handler!WriteMessage("error"),
           \A a \in Attempts : /\ att'[a].cancelled = att[a].cancelled
                               /\ att'[a].resW # "open" => att'[a].recv = "done"
                               /\ att'[a].recv \in {att[a].recv, "recv", "done"}
    PROVE  HandlerInv'
<1> USE DEF HandlerInv
<1>1. /\ body' \in Seq(Handler!MessageType)
      /\ \A i \in 1..Len(body') : body'[i].attempt <= attempt
  <2>1. CASE UNCHANGED body BY <2>1 DEF HandlerTypes, BodyBound
  <2>2. CASE Handler!WriteMessage("error") BY <2>2, WriteMessageBody
  <2>3. QED BY <2>1, <2>2
<1>2. HandlerTypes' BY <1>1 DEF HandlerTypes
<1>3. Control' BY DEF Control, Ended
<1>4. BodyBound' BY <1>1 DEF BodyBound, Waiting
<1>5. ASSUME NEW a \in Attempts PROVE AttemptOK(a)'
  <2>1. AttemptOK(a) OBVIOUS
  <2>2. Aws' = Aws BY DEF Aws, Handler!Aws, Handler!Service
  <2>3. QED BY <2>1, <2>2 DEF AttemptOK, Waiting, Ended
<1>6. QED BY <1>2, <1>3, <1>4, <1>5

\* An attempt that changes in no way the handler sees is as good as before.
LEMMA SameAttempts ==
    ASSUME HandlerInv, att' = att
    PROVE  \A a \in Attempts : /\ att'[a].cancelled = att[a].cancelled
                               /\ att'[a].resW # "open" => att'[a].recv = "done"
                               /\ att'[a].recv \in {att[a].recv, "recv", "done"}
BY DEF HandlerInv, AttemptOK

\* The handler returns without touching an attempt.
LEMMA PlainReturns ==
    ASSUME AudioInv, HandlerInv,
           \/ FirstPageFails \/ RetryTimer \/ RetryClosed \/ ReadEOF \/ GiveUp \/ ReadError
    PROVE  HandlerInv'
<1>1. att' = att /\ UNCHANGED <<reqDone, input, results>>
      BY DEF FirstPageFails, RetryTimer, RetryClosed, ReadEOF, GiveUp, ReadError
<1>2. step # "none" => pc = "handle" BY DEF HandlerInv, Control
<1>3. CASE FirstPageFails \/ RetryTimer \/ RetryClosed \/ ReadEOF
  <2>1. /\ pc # "start" /\ pc' = "done" /\ UNCHANGED <<conf, streamOver, attempt, body>>
        /\ step' = "none"
    <3>1. CASE FirstPageFails BY <1>2, <3>1 DEF FirstPageFails, Handler!Return
    <3>2. CASE RetryTimer
          BY <1>2, <3>2 DEF RetryTimer, Handler!RetryTimerFires, Handler!Return
    <3>3. CASE RetryClosed BY <1>2, <3>3 DEF RetryClosed, Handler!Return
    <3>4. CASE ReadEOF BY <1>2, <3>4 DEF ReadEOF, Handler!Return
    <3>5. QED BY <1>3, <3>1, <3>2, <3>3, <3>4
  <2>2. QED BY <1>1, <2>1, SameAttempts, ReturnStep
<1>4. CASE GiveUp \/ ReadError
  <2>1. /\ pc # "start" /\ pc' = "done" /\ UNCHANGED <<conf, streamOver, attempt>>
        /\ step' = "none"
        /\ UNCHANGED body \/ Handler!WriteMessage("error")
        BY <1>2, <1>4 DEF GiveUp, ReadError, Handler!DisconnectedGiveUp,
           Handler!ReadOtherError, Handler!ReportAndReturn
  <2>2. QED BY <1>1, <2>1, SameAttempts, ReturnStep
<1>5. QED BY <1>3, <1>4

\* Start fails: the handler returns, or waits for a retry.
LEMMA ConnectFailsStep ==
    ASSUME AudioInv, HandlerInv, ConnectFails
    PROVE  HandlerInv'
<1>0. /\ att' = att /\ UNCHANGED <<reqDone, input, results>> /\ step' = "none"
      /\ pc = "handle"
      BY DEF ConnectFails, HandlerInv, Control
<1>1. pc # "start" BY <1>0
<1>2. CASE Handler!HandleSuzuError \/ Handler!HandleOtherError
  <2>1. pc' = "done" /\ UNCHANGED <<conf, streamOver, attempt, body>>
        BY <1>2 DEF Handler!HandleSuzuError, Handler!HandleOtherError, Handler!Return
  <2>2. QED BY <1>0, <1>1, <2>1, SameAttempts, ReturnStep
<1>3. CASE Handler!HandleConfError
  <2>1. /\ pc' = "done" /\ UNCHANGED <<conf, streamOver, attempt>>
        /\ UNCHANGED body \/ Handler!WriteMessage("error")
        BY <1>3 DEF Handler!HandleConfError, Handler!ReportAndReturn
  <2>2. QED BY <1>0, <1>1, <2>1, SameAttempts, ReturnStep
<1>4. CASE Handler!HandleRetryable
  <2>1. pc' = "retryWait" /\ UNCHANGED <<conf, streamOver, attempt, body>>
        BY <1>4 DEF Handler!HandleRetryable
  <2> USE DEF HandlerInv
  <2>2. HandlerTypes' BY <1>0, <2>1 DEF HandlerTypes
  <2>3. Control' BY <1>0, <2>1 DEF Control, Ended
  <2>4. BodyBound' BY <1>0, <2>1 DEF BodyBound, Waiting
  <2>5. ASSUME NEW a \in Attempts PROVE AttemptOK(a)'
    <3>1. AttemptOK(a) OBVIOUS
    <3>2. Aws' = Aws BY <2>1 DEF Aws, Handler!Aws, Handler!Service
    <3>3. QED BY <1>0, <2>1, <3>1, <3>2 DEF AttemptOK, Waiting, Ended
  <2>6. QED BY <2>2, <2>3, <2>4, <2>5
<1>5. QED BY <1>2, <1>3, <1>4 DEF ConnectFails

\* Sending the first page fails.
LEMMA SendFirstFailsStep ==
    ASSUME AudioInv, HandlerInv, SendFirstFails
    PROVE  HandlerInv'
<1>1. /\ step = "sendFirst" /\ step' = "none" /\ pc' = "done"
      /\ UNCHANGED <<conf, streamOver, attempt, body, reqDone, input, results>>
      /\ att' = [att EXCEPT ![attempt].oggR = Aws, ![attempt].svc = "closed"]
      BY DEF SendFirstFails, Handler!Return
<1>2. pc = "handle" BY <1>1 DEF HandlerInv, Control
<1>3. pc # "start" BY <1>2
<1>4. ASSUME NEW a \in Attempts
      PROVE  /\ att'[a].cancelled = att[a].cancelled
             /\ att'[a].resW # "open" => att'[a].recv = "done"
             /\ att'[a].recv \in {att[a].recv, "recv", "done"}
  <2>1. att \in [Attempts -> Attempt] /\ att[a] \in Attempt BY DEF AudioInv, Types
  <2>2. /\ att'[a].cancelled = att[a].cancelled /\ att'[a].resW = att[a].resW
        /\ att'[a].recv = att[a].recv
    <3>1. CASE a = attempt
      <4>1. att'[a] = [att[a] EXCEPT !.oggR = Aws, !.svc = "closed"]
            BY <1>1, <2>1, <3>1 DEF Attempt
      <4>2. QED BY <2>1, <4>1 DEF Attempt
    <3>2. CASE a # attempt BY <1>1, <2>1, <3>2
    <3>3. QED BY <3>1, <3>2
  <2>3. AttemptOK(a) BY DEF HandlerInv
  <2>4. QED BY <2>2, <2>3 DEF AttemptOK
<1>5. QED BY <1>1, <1>3, <1>4, ReturnStep

\* Begin: the first attempt.
LEMMA BeginKeeps ==
    ASSUME AudioInv, HandlerInv, Begin
    PROVE  HandlerInv'
<1> USE DEF HandlerInv
<1>1. /\ pc = "start" /\ pc' = "handle" /\ attempt' = 1 /\ step' = "first"
      /\ UNCHANGED <<conf, streamOver, body, reqDone, input, results>>
      /\ att' = [att EXCEPT ![1] = NewAttempt]
      BY DEF Begin, Handler!Accept
<1>2. attempt = 0 /\ body = <<>> /\ results \in Nat BY <1>1 DEF BodyBound, HandlerTypes
<1>3. HandlerTypes' BY <1>1 DEF HandlerTypes
<1>4. Control' BY <1>1, SessionAssumption DEF Control, Ended, Attempts
<1>5. BodyBound' BY <1>1, <1>2 DEF BodyBound, Waiting
<1>6. ASSUME NEW a \in Attempts PROVE AttemptOK(a)'
  <2>1. att \in [Attempts -> Attempt] /\ a \in Nat /\ a > 0 BY DEF AudioInv, Types, Attempts
  <2>2. CASE a = 1
    <3>1. att'[a] = NewAttempt BY <1>1, <2>1, <2>2
    <3>2. QED BY <1>1, <3>1 DEF AttemptOK, NewAttempt, Waiting
  <2>3. CASE a # 1
    <3>1. att'[a] = att[a] /\ AttemptOK(a) BY <1>1, <2>1, <2>3
    <3>2. Aws' = Aws BY <1>1 DEF Aws, Handler!Aws, Handler!Service
    <3>3. QED BY <1>1, <1>2, <2>1, <2>3, <3>1, <3>2 DEF AttemptOK, Ended
  <2>4. QED BY <2>2, <2>3
<1>7. QED BY <1>3, <1>4, <1>5, <1>6

\* SendFirst: the attempt is connected and has no message yet.
LEMMA SendFirstKeeps ==
    ASSUME AudioInv, HandlerInv, SendFirst
    PROVE  HandlerInv'
<1> USE DEF HandlerInv
<1>1. /\ pc = "handle" /\ pc' = "read" /\ step' = "none"
      /\ UNCHANGED <<conf, streamOver, attempt, body, reqDone, input, results>>
      /\ att' = [att EXCEPT ![attempt] = Connected]
      BY DEF SendFirst, Handler!HandleSucceeds
<1>2. att \in [Attempts -> Attempt] /\ attempt \in Attempts /\ attempt \in Nat
      BY <1>1 DEF AudioInv, Types, Control
<1>3. HandlerTypes' BY <1>1 DEF HandlerTypes
<1>4. Control' BY <1>1 DEF Control, Ended
<1>5. BodyBound' BY <1>1 DEF BodyBound, Waiting
<1>6. ASSUME NEW a \in Attempts PROVE AttemptOK(a)'
  <2>1. AttemptOK(a) /\ att[a] \in Attempt BY <1>2
  <2>2. Aws' = Aws BY <1>1 DEF Aws, Handler!Aws, Handler!Service
  <2>3. CASE a = attempt
    <3>1. att'[a] = [att[a] EXCEPT !.sent = <<att[a].page>>, !.send = "read", !.recv = "recv"]
          BY <1>1, <1>2, <2>3 DEF Connected
    <3>2. /\ att'[a].cancelled = att[a].cancelled /\ att'[a].oggW = att[a].oggW
          /\ att'[a].resW = att[a].resW /\ att'[a].recv = "recv"
          BY <2>1, <3>1 DEF Attempt
    <3>3. att[a].recv = "idle" /\ att[a].resW = "open"
          BY <1>1, <2>1, <2>3 DEF AttemptOK, Waiting
    <3>4. /\ \A i \in 1..Len(body) : body[i].attempt < attempt
          /\ Len(body) <= results + attempt - 1 /\ Len(body) \in Nat /\ results \in Nat
          BY <1>1 DEF BodyBound, Waiting, HandlerTypes
    <3>5. \A i \in 1..Len(body) : body[i].attempt # attempt
          BY <1>2, <3>4
    <3>6. Reading(a)'
          BY <1>1, <1>2, <2>3, <3>2, <3>3, <3>4, <3>5 DEF Reading
    <3>7. QED BY <1>1, <2>1, <2>2, <3>2, <3>3, <3>6 DEF AttemptOK, Waiting, Ended
  <2>4. CASE a # attempt
    <3>1. att'[a] = att[a] BY <1>1, <1>2, <2>4
    <3>2. QED BY <1>1, <2>1, <2>2, <2>4, <3>1 DEF AttemptOK, Ended
  <2>5. QED BY <2>3, <2>4
<1>7. QED BY <1>3, <1>4, <1>5, <1>6

\* Reconnect: the connected attempt is given up, the next one starts.
LEMMA ReconnectKeeps ==
    ASSUME AudioInv, HandlerInv, Reconnect
    PROVE  HandlerInv'
<1> USE DEF HandlerInv
<1>1. /\ pc = "read" /\ pc' = "handle" /\ step' = "first"
      /\ attempt' = attempt + 1 /\ attempt < MaxAttempts
      /\ UNCHANGED <<conf, streamOver, body, reqDone, input, results>>
      /\ att' = [att EXCEPT ![attempt].resR = TRUE, ![attempt].cancelled = TRUE,
                            ![attempt + 1] = NewAttempt]
      BY DEF Reconnect, Handler!DisconnectedReconnect
<1>2. att \in [Attempts -> Attempt] /\ attempt \in Attempts /\ attempt \in Nat
      BY <1>1 DEF AudioInv, Types, Control
<1>3. HandlerTypes' BY <1>1 DEF HandlerTypes
<1>4. Control' BY <1>1, <1>2, SessionAssumption DEF Control, Ended, Attempts
<1>5. Reading(attempt) BY <1>1, <1>2 DEF AttemptOK
<1>6. BodyBound'
  <2>1. Len(body) \in Nat /\ results \in Nat BY DEF HandlerTypes
  <2>2. Len(body) <= results + attempt BY <1>5 DEF Reading
  <2>3. ASSUME NEW i \in 1..Len(body) PROVE body[i].attempt < attempt + 1
    <3>1. body[i] \in Handler!MessageType BY DEF HandlerTypes
    <3>2. body[i].attempt \in Nat BY <3>1 DEF Handler!MessageType
    <3>3. body[i].attempt <= attempt BY DEF BodyBound
    <3>4. QED BY <1>2, <3>2, <3>3
  <2>4. ASSUME NEW i \in 1..Len(body) PROVE body[i].attempt <= attempt + 1
    <3>1. body[i] \in Handler!MessageType BY DEF HandlerTypes
    <3>2. body[i].attempt \in Nat BY <3>1 DEF Handler!MessageType
    <3>3. QED BY <1>2, <2>3, <3>2
  <2>5. QED BY <1>1, <1>2, <2>1, <2>2, <2>3, <2>4 DEF BodyBound, Waiting
<1>7. ASSUME NEW a \in Attempts PROVE AttemptOK(a)'
  <2>1. AttemptOK(a) /\ att[a] \in Attempt /\ a \in Nat BY <1>2 DEF Attempts
  <2>2. Aws' = Aws BY <1>1 DEF Aws, Handler!Aws, Handler!Service
  <2>3. CASE a = attempt + 1
    <3>1. att'[a] = NewAttempt BY <1>1, <1>2, <2>3
    <3>2. QED BY <1>1, <3>1 DEF AttemptOK, NewAttempt, Waiting
  <2>4. CASE a = attempt
    <3>1. a # attempt + 1 BY <1>2, <2>4
    <3>2. att'[a] = [att[a] EXCEPT !.resR = TRUE, !.cancelled = TRUE]
          BY <1>1, <1>2, <2>1, <2>4, <3>1
    <3>3. /\ att'[a].cancelled = TRUE /\ att'[a].resW = att[a].resW
          /\ att'[a].recv = att[a].recv
          BY <2>1, <3>2 DEF Attempt
    <3>4. QED BY <1>1, <1>2, <2>1, <2>2, <2>4, <3>1, <3>3 DEF AttemptOK, Ended
  <2>5. CASE a # attempt /\ a # attempt + 1
    <3>1. att'[a] = att[a] BY <1>1, <1>2, <2>1, <2>5
    <3>2. QED BY <1>1, <1>2, <2>1, <2>2, <2>5, <3>1 DEF AttemptOK, Ended
  <2>6. QED BY <2>3, <2>4, <2>5
<1>8. QED BY <1>3, <1>4, <1>6, <1>7

\* What ReadMessage does to the attempt it reads from.
LEMMA ReadMessageAttempt ==
    ASSUME AudioInv, HandlerInv, ReadMessage
    PROVE  /\ attempt \in Attempts
           /\ \A b \in Attempts : b # attempt => att'[b] = att[b]
           /\ att'[attempt].cancelled = att[attempt].cancelled
           /\ att'[attempt].oggW = att[attempt].oggW
           /\ att[attempt].resW = "open"
           /\ \/ /\ att[attempt].recv = "result" /\ att'[attempt].recv = "recv"
                 /\ att'[attempt].resW = "open"
              \/ att[attempt].recv = "report" /\ att'[attempt].recv = "done"
<1>1. PICK a \in Attempts : a = attempt
      BY DEF ReadMessage, HandlerInv, Control
<1>2. att \in [Attempts -> Attempt] /\ att[a] \in Attempt BY DEF AudioInv, Types
<1>3. AttemptOK(a) /\ att[a].recv \in {"result", "report"}
      BY <1>1 DEF HandlerInv, ReadMessage
<1>4. att[a].resW = "open" BY <1>3 DEF AttemptOK
<1>5. CASE att[a].recv = "result"
  <2>1. PICK r : r = [att[a] EXCEPT !.recv = "recv"] OBVIOUS
  <2>2. /\ r.cancelled = att[a].cancelled /\ r.oggW = att[a].oggW /\ r.recv = "recv"
        /\ r.resW = att[a].resW
        BY <1>2, <2>1 DEF Attempt
  <2>3. att' = [att EXCEPT ![a] = r] BY <1>1, <1>2, <1>5, <2>1 DEF ReadMessage
  <2>4. att'[a] = r /\ \A b \in Attempts : b # a => att'[b] = att[b] BY <1>2, <2>3
  <2>5. QED BY <1>1, <1>4, <1>5, <2>2, <2>4
<1>6. CASE att[a].recv = "report"
  <2>1. PICK r : r = [att[a] EXCEPT !.recv = "done", !.resW = att[a].why] OBVIOUS
  <2>2. r.cancelled = att[a].cancelled /\ r.oggW = att[a].oggW /\ r.recv = "done"
        BY <1>2, <2>1 DEF Attempt
  <2>3. att' = [att EXCEPT ![a] = r] BY <1>1, <1>2, <1>6, <2>1 DEF ReadMessage, Attempt
  <2>4. att'[a] = r /\ \A b \in Attempts : b # a => att'[b] = att[b] BY <1>2, <2>3
  <2>5. QED BY <1>1, <1>4, <1>6, <2>2, <2>4
<1>7. QED BY <1>3, <1>5, <1>6

\* ReadMessage: a result or a report of the current attempt is forwarded, or the
\* handler finds the connection lost and returns.
LEMMA ReadMessageKeeps ==
    ASSUME AudioInv, HandlerInv, ReadMessage
    PROVE  HandlerInv'
<1> USE DEF HandlerInv
<1>1. /\ pc = "read" /\ UNCHANGED <<conf, streamOver, attempt, step, reqDone, input, results>>
      /\ step = "none"
      BY DEF ReadMessage, Control
<1>2. PICK a \in Attempts : a = attempt BY ReadMessageAttempt
<1>3. AttemptOK(a) /\ Reading(a) /\ a \in Nat BY <1>1, <1>2 DEF AttemptOK, Attempts
<1>4. PICK kind \in {"result", "error"} :
         kind = IF att[attempt].recv = "result" THEN "result" ELSE "error"
      OBVIOUS
<1>5. CASE Handler!Return("writeError", 500) /\ UNCHANGED body
  <2>1. pc # "start" /\ pc' = "done" /\ step' = "none" BY <1>1, <1>5 DEF Handler!Return
  <2>2. ASSUME NEW b \in Attempts
        PROVE  /\ att'[b].cancelled = att[b].cancelled
               /\ att'[b].resW # "open" => att'[b].recv = "done"
               /\ att'[b].recv \in {att[b].recv, "recv", "done"}
    <3>1. CASE b = attempt BY <3>1, ReadMessageAttempt
    <3>2. CASE b # attempt BY <3>2, ReadMessageAttempt DEF AttemptOK
    <3>3. QED BY <3>1, <3>2
  <2>3. QED BY <1>1, <1>5, <2>1, <2>2, ReturnStep
<1>6. CASE Handler!WriteMessage(kind) /\ UNCHANGED <<pc, cause>>
  <2>1. pc # "start" BY <1>1
  <2>2. /\ body' \in Seq(Handler!MessageType)
        /\ Len(body) \in Nat /\ Len(body') = Len(body) + 1
        /\ \A i \in 1..Len(body) : body'[i] = body[i]
        /\ body'[Len(body) + 1] = Handler!Message(kind)
        /\ Handler!Message(kind).kind = kind
        /\ \A i \in 1..Len(body') : body'[i].attempt <= attempt
        BY <1>6, <2>1, WriteMessageBody
  <2>3. HandlerTypes' BY <1>1, <1>6, <2>2 DEF HandlerTypes
  <2>4. Control' BY <1>1, <1>6 DEF Control, Ended
  <2>5. BodyBound' BY <1>1, <1>6, <2>2 DEF BodyBound, Waiting
  <2>6. Aws' = Aws BY <1>1 DEF Aws, Handler!Aws, Handler!Service
  <2>7. ASSUME NEW b \in Attempts, b # a PROVE AttemptOK(b)'
    <3>1. att'[b] = att[b] /\ AttemptOK(b) BY <1>2, <2>7, ReadMessageAttempt
    <3>2. QED BY <1>1, <1>2, <1>6, <2>6, <2>7, <3>1 DEF AttemptOK, Ended
  <2>8. results \in Nat BY DEF HandlerTypes
  <2>9. Reading(a)'
    <3>1. CASE att[a].recv = "result"
      <4>1. att'[a].recv = "recv" /\ att'[a].resW = "open"
            BY <1>2, <3>1, ReadMessageAttempt
      <4>2. kind = "result" BY <1>2, <1>4, <3>1
      <4>3. /\ \A i \in 1..Len(body) : body[i].attempt = a => body[i].kind = "result"
            /\ Len(body) + 1 <= results + a - 1
            BY <1>3, <3>1 DEF Reading
      <4>4. ASSUME NEW i \in 1..Len(body'), body'[i].attempt = a
            PROVE  body'[i].kind = "result"
        <5>1. CASE i \in 1..Len(body) BY <2>2, <4>3, <4>4, <5>1
        <5>2. CASE i = Len(body) + 1 BY <2>2, <4>2, <5>2
        <5>3. QED BY <2>2, <5>1, <5>2
      <4>5. Len(body') <= results + a - 1 /\ Len(body') <= results + a
            BY <1>3, <2>2, <2>8, <4>3
      <4>6. Len(body') \in Nat BY <2>2
      <4>7. QED BY <1>1, <1>3, <2>8, <4>1, <4>4, <4>5, <4>6 DEF Reading
    <3>2. CASE att[a].recv = "report"
      <4>1. att'[a].recv = "done" BY <1>2, <3>2, ReadMessageAttempt
      <4>2. kind = "error" BY <1>2, <1>4, <3>2
      <4>3. Len(body) <= results + a - 1
            BY <1>3, <2>2, <2>8, <3>2 DEF Reading
      <4>4. Len(body') <= results + a BY <1>3, <2>2, <2>8, <4>3
      <4>5. Handler!ErrorSent'
        <5>1. body' # <<>> /\ body'[Len(body')] = Handler!Message("error")
              BY <2>2, <4>2
        <5>2. Handler!Message("error")' = Handler!Message("error")
              BY <1>1 DEF Handler!Message
        <5>3. QED BY <5>1, <5>2 DEF Handler!ErrorSent
      <4>6. QED BY <1>1, <4>1, <4>4, <4>5 DEF Reading
    <3>3. QED BY <1>2, <3>1, <3>2, ReadMessageAttempt
  <2>10. AttemptOK(a)'
    <3>1. /\ att'[a].cancelled = att[a].cancelled /\ att'[a].oggW = att[a].oggW
          /\ att'[a].recv # "report"
          /\ att'[a].resW # "open" => att'[a].recv = "done"
          BY <1>2, ReadMessageAttempt
    <3>2. QED BY <1>1, <1>3, <1>6, <2>6, <2>9, <3>1 DEF AttemptOK, Waiting, Ended
  <2>11. QED BY <2>3, <2>4, <2>5, <2>7, <2>10
<1>7. QED BY <1>4, <1>5, <1>6 DEF ReadMessage

\* Every step keeps HandlerInv.
LEMMA HandlerInvStep == AudioInv /\ HandlerInv /\ [Next]_vars => HandlerInv'
<1> SUFFICES ASSUME AudioInv, HandlerInv, [Next]_vars PROVE HandlerInv' OBVIOUS
<1>1. CASE HandlerStep \/ RetryTimer
      BY <1>1, BeginKeeps, HandleGoroutine, PlainReturns, ConnectFailsStep, SendFirstKeeps,
         SendFirstFailsStep, ReadMessageKeeps, ReconnectKeeps DEF HandlerStep
<1>2. CASE RetryDrain \/ InputCloses BY <1>2, HandleGoroutine
<1>3. CASE ClientEnds \/ ClientLost BY <1>3, ClientStep
<1>4. ASSUME NEW a \in Attempts,
             \/ ConvTake(a) \/ ConvBadPacket(a) \/ ConverterStep(a) \/ CloseOnDone(a)
             \/ SenderStep(a) \/ ServiceEnds(a)
             \/ ReceiverResult(a) \/ ReceiverStep(a)
      PROVE  HandlerInv'
      BY <1>4, ConverterGoroutine, SenderGoroutine, ReceiverGoroutine, GoroutineStep
<1>5. CASE UNCHANGED vars
  <2>1. PICK a \in Attempts : a = 1 BY SessionAssumption DEF Attempts
  <2>2. Goroutine(a) BY <1>5 DEF vars, Goroutine, OggEnds, Receives
  <2>3. QED BY <2>2, GoroutineStep
<1>6. QED BY <1>1, <1>2, <1>3, <1>4, <1>5 DEF Next

\* HandlerInv holds in every execution.
LEMMA HandlerInvHolds == Spec => [](AudioInv /\ HandlerInv)
BY AudioInit, AudioNext, HandlerInit, HandlerInvStep, PTL DEF Spec

-----------------------------------------------------------------------------
(* The step simulation *)

\* Every service of this module is behind a connection.
LEMMA AwsOrGcp == HandlerInv => /\ Handler!Remote
                                /\ Aws <=> Handler!Aws
                                /\ ~Aws => Handler!Gcp
BY SessionBounds
   DEF HandlerInv, HandlerTypes, Handler!Remote, Handler!Aws, Handler!Gcp, Handler!Service, Aws

\* What the handler reads from the result pipe SpeechHandler lets it read:
\* there is room, nothing follows a report, and only gcp reports.
LEMMA MessageAllowed ==
    ASSUME AudioInv, HandlerInv, ReadMessage
    PROVE  /\ Len(body) < MaxBody
           /\ (IF att[attempt].recv = "result" THEN "result" ELSE "error") \in Handler!MessageKinds
<1>1. pc = "read" /\ att[attempt].recv \in {"result", "report"} BY DEF ReadMessage
<1>2. PICK a \in Attempts : a = attempt BY ReadMessageAttempt
<1>3. AttemptOK(a) /\ Reading(a) BY <1>1, <1>2 DEF AttemptOK, HandlerInv
<1>4. /\ a \in Nat /\ a <= MaxAttempts /\ results \in Nat /\ results <= MaxResults
      /\ Len(body) \in Nat /\ body \in Seq(Handler!MessageType)
      BY DEF Attempts, HandlerInv, HandlerTypes
<1>5. Len(body) <= results + a - 1 BY <1>1, <1>2, <1>3, <1>4 DEF Reading
<1>6. Len(body) < MaxBody BY <1>4, <1>5, SessionAssumption, SessionBounds
<1>7. ~Handler!ErrorSent
  <2>1. \A i \in 1..Len(body) : body[i].attempt = a => body[i].kind = "result"
        BY <1>1, <1>2, <1>3 DEF Reading
  <2>2. Handler!Message("error").kind = "error" /\ Handler!Message("error").attempt = attempt
        BY DEF Handler!Message
  <2>3. body # <<>> => Len(body) \in 1..Len(body) BY <1>4
  <2>4. QED BY <1>2, <2>1, <2>2, <2>3 DEF Handler!ErrorSent
<1>8. att[attempt].recv = "report" => Handler!Gcp BY <1>2, <1>3, AwsOrGcp DEF AttemptOK
<1>9. QED BY <1>1, <1>6, <1>7, <1>8 DEF Handler!MessageKinds

\* Every step is a step of SpeechHandler or leaves its variables alone.
LEMMA HandlerStepImplemented ==
    ASSUME AudioInv, HandlerInv, [Next]_vars
    PROVE  [Handler!Next]_(Handler!vars)
<1>1. ASSUME UNCHANGED handlerVars PROVE UNCHANGED Handler!vars
      BY <1>1 DEF handlerVars, Handler!vars
<1>2. CASE Begin BY <1>2 DEF Begin, Handler!Next
<1>3. CASE FirstPageFails
  <2>1. step # "none" BY <1>3 DEF FirstPageFails
  <2>2. pc = "handle" /\ attempt \in Attempts BY <2>1 DEF HandlerInv, Control
  <2>3. PICK a \in Attempts : a = attempt BY <2>2
  <2>4. AttemptOK(a) /\ att[a] \in Attempt BY DEF HandlerInv, AudioInv, Types
  <2>5. ~(a < attempt) BY <2>3 DEF AudioInv, Types
  <2>6. att[a].oggW \in {"eof", "canceled"} => streamOver
        BY <2>2, <2>4, <2>5 DEF AttemptOK, Ended
  <2>7. CASE att[attempt].oggW = "error"
    <3>1. Handler!HandleOtherError
          BY <1>3, <2>2, <2>7, AwsOrGcp DEF FirstPageFails, Handler!HandleOtherError
    <3>2. QED BY <3>1 DEF Handler!Next, Handler!HandleReturns
  <2>8. CASE att[attempt].oggW # "error"
    <3>1. att[a].oggW \in {"eof", "canceled"}
          BY <1>3, <2>3, <2>4, <2>8 DEF FirstPageFails, Attempt
    <3>2. Handler!HandleEnds
          BY <1>3, <2>2, <2>6, <2>8, <3>1, AwsOrGcp DEF FirstPageFails, Handler!HandleEnds
    <3>3. QED BY <3>2 DEF Handler!Next, Handler!HandleReturns
  <2>9. QED BY <2>7, <2>8
<1>4. CASE ConnectFails BY <1>4 DEF ConnectFails, Handler!Next, Handler!HandleReturns
<1>5. CASE SendFirst BY <1>5 DEF SendFirst, Handler!Next, Handler!HandleReturns
<1>6. CASE SendFirstFails
  <2>1. step # "none" BY <1>6 DEF SendFirstFails
  <2>2. pc = "handle" /\ attempt \in Attempts BY <2>1 DEF HandlerInv, Control
  <2>3. PICK a \in Attempts : a = attempt BY <2>2
  <2>4. AttemptOK(a) BY DEF HandlerInv
  <2>5. ~(a < attempt) BY <2>3 DEF AudioInv, Types
  <2>6. CtxDone(attempt) => streamOver
        BY <2>2, <2>3, <2>4, <2>5 DEF AttemptOK, CtxDone, HandlerInv, Control
  <2>7. UNCHANGED <<conf, streamOver, retryCount, attempt, connects, body>>
        BY <1>6 DEF SendFirstFails
  <2>8. CASE CtxDone(attempt) /\ Handler!Return("clientEnd", 200)
    <3>1. Handler!HandleEnds BY <2>2, <2>6, <2>7, <2>8, AwsOrGcp DEF Handler!HandleEnds
    <3>2. QED BY <3>1 DEF Handler!Next, Handler!HandleReturns
  <2>9. CASE ~Aws /\ Handler!Return("sendEOF", 200)
    <3>1. Handler!HandleSendEOF BY <2>2, <2>7, <2>9, AwsOrGcp DEF Handler!HandleSendEOF
    <3>2. QED BY <3>1 DEF Handler!Next, Handler!HandleReturns
  <2>10. CASE Handler!Return("otherError", 500)
    <3>1. Handler!HandleOtherError
          BY <2>2, <2>7, <2>10, AwsOrGcp DEF Handler!HandleOtherError
    <3>2. QED BY <3>1 DEF Handler!Next, Handler!HandleReturns
  <2>11. QED BY <1>6, <2>8, <2>9, <2>10 DEF SendFirstFails
<1>7. CASE RetryTimer BY <1>7 DEF RetryTimer, Handler!Next, Handler!RetryWaitEnds
<1>8. CASE RetryClosed
  <2>1. pc = "retryWait" /\ input # "open" BY <1>8 DEF RetryClosed
  <2>2. streamOver BY <2>1 DEF HandlerInv, Control, Ended
  <2>3. Handler!RetryInterrupted BY <1>8, <2>2 DEF RetryClosed, Handler!RetryInterrupted
  <2>4. QED BY <2>3 DEF Handler!Next, Handler!RetryWaitEnds
<1>9. CASE ReadMessage
  <2> DEFINE kind == IF att[attempt].recv = "result" THEN "result" ELSE "error"
  <2>1. Len(body) < MaxBody /\ kind \in Handler!MessageKinds /\ Handler!MessageKinds # {}
        BY <1>9, MessageAllowed
  <2>2. reqDone => streamOver BY DEF HandlerInv, Control
  <2>3. Handler!ReadMessage
        BY <1>9, <2>1, <2>2 DEF ReadMessage, Handler!ReadMessage
  <2>4. QED BY <2>3 DEF Handler!Next, Handler!ReadReturns
<1>10. CASE ReadEOF
  <2>1. pc = "read" /\ att[attempt].resW = "eof" BY <1>10 DEF ReadEOF
  <2>2. PICK a \in Attempts : a = attempt BY <2>1 DEF HandlerInv, Control
  <2>3. Reading(a) BY <2>1, <2>2 DEF HandlerInv, AttemptOK
  <2>4. ~Aws => streamOver \/ Handler!ErrorSent BY <2>1, <2>2, <2>3 DEF Reading
  <2>5. Handler!ReadEOF BY <1>10, <2>4, AwsOrGcp DEF ReadEOF, Handler!ReadEOF
  <2>6. QED BY <2>5 DEF Handler!Next, Handler!ReadReturns
<1>11. CASE Reconnect \/ GiveUp \/ ReadError
      BY <1>11 DEF Reconnect, GiveUp, ReadError, Handler!Next, Handler!ReadReturns
<1>12. CASE ClientEnds \/ ClientLost
  <2>1. /\ pc # "done" /\ streamOver' = TRUE
        /\ UNCHANGED <<conf, pc, retryCount, attempt, connects, status, body, cause>>
        BY <1>12 DEF ClientEnds, ClientLost
  <2>2. CASE ~streamOver
        BY <2>1, <2>2 DEF Handler!ClientLeaves, Handler!Next
  <2>3. CASE streamOver
    <3>1. streamOver \in BOOLEAN BY DEF HandlerInv, HandlerTypes
    <3>2. streamOver' = streamOver BY Zenon, <2>1, <2>3, <3>1
    <3>3. QED BY <2>1, <3>2 DEF Handler!vars
  <2>4. QED BY <2>2, <2>3
<1>13. CASE UNCHANGED handlerVars BY <1>1, <1>13
<1>14. ASSUME NEW a \in Attempts,
             \/ ConvTake(a) \/ ConvBadPacket(a) \/ ConverterStep(a) \/ CloseOnDone(a)
             \/ SenderStep(a) \/ ServiceEnds(a)
             \/ ReceiverResult(a) \/ ReceiverStep(a)
      PROVE  UNCHANGED handlerVars
      BY <1>14, ConverterGoroutine, SenderGoroutine, ReceiverGoroutine DEF Goroutine
<1>15. ASSUME FirstPage \/ Connect \/ RetryDrain \/ InputCloses \/ UNCHANGED vars
       PROVE  UNCHANGED handlerVars
      BY <1>15 DEF FirstPage, Connect, RetryDrain, InputCloses, vars
<1>16. QED
      BY <1>2, <1>3, <1>4, <1>5, <1>6, <1>7, <1>8, <1>9, <1>10, <1>11, <1>12, <1>13, <1>14, <1>15
      DEF Next, HandlerStep

\* The goroutines behind aws and gcp, for any number of attempts, packets and
\* results and however they interleave, give the request handler only what
\* SpeechHandler lets Handle and its reader do.
THEOREM SessionImplementsHandler == Spec => HandlerImplemented
<1>1. Init => Handler!Init BY DEF Init
<1>2. AudioInv /\ HandlerInv /\ [Next]_vars => [Handler!Next]_(Handler!vars)
      BY HandlerStepImplemented
<1>3. QED BY <1>1, <1>2, HandlerInvHolds, PTL DEF Spec, HandlerImplemented, Handler!Spec

-----------------------------------------------------------------------------
(* What SpeechHandlerProofs proves of the request handler holds here *)

Proved == INSTANCE SpeechHandlerProofs

\* Both instances are the same specification.
LEMMA SameHandler == Handler!Spec => Proved!Spec
<1>1. Handler!Init => Proved!Init BY DEF Handler!Init, Proved!Init
<1>2. [Handler!Next]_(Handler!vars) => [Proved!Next]_(Proved!vars)
      BY Zenon
      DEF Handler!Next, Handler!ClientLeaves, Handler!Reject, Handler!Accept,
          Handler!HandleReturns, Handler!RetryWaitEnds, Handler!ReadReturns,
          Handler!HandleSucceeds, Handler!HandleEnds, Handler!HandleSendEOF,
          Handler!HandleRetryable, Handler!HandleSuzuError, Handler!HandleConfError,
          Handler!HandleOtherError, Handler!RetryTimerFires, Handler!RetryInterrupted,
          Handler!ReadMessage, Handler!ReadEOF, Handler!ReadClientDisconnected,
          Handler!DisconnectedReconnect, Handler!DisconnectedGiveUp,
          Handler!ReadOtherError, Handler!vars, Handler!Return, Handler!Commit,
          Handler!Committed, Handler!ReportAndReturn, Handler!WriteMessage,
          Handler!Message, Handler!AdmissionStatus, Handler!LanguageAccepted,
          Handler!Service, Handler!MaxRetry, Handler!Aws, Handler!Gcp, Handler!Remote,
          Handler!RegisteredServices, Handler!SuzuErrors, Handler!MessageKinds,
          Handler!ErrorSent, Proved!Next, Proved!ClientLeaves, Proved!Reject,
          Proved!Accept, Proved!HandleReturns, Proved!RetryWaitEnds, Proved!ReadReturns,
          Proved!HandleSucceeds, Proved!HandleEnds, Proved!HandleSendEOF,
          Proved!HandleRetryable, Proved!HandleSuzuError, Proved!HandleConfError,
          Proved!HandleOtherError, Proved!RetryTimerFires, Proved!RetryInterrupted,
          Proved!ReadMessage, Proved!ReadEOF, Proved!ReadClientDisconnected,
          Proved!DisconnectedReconnect, Proved!DisconnectedGiveUp,
          Proved!ReadOtherError, Proved!vars, Proved!Return, Proved!Commit,
          Proved!Committed, Proved!ReportAndReturn, Proved!WriteMessage, Proved!Message,
          Proved!AdmissionStatus, Proved!LanguageAccepted, Proved!Service,
          Proved!MaxRetry, Proved!Aws, Proved!Gcp, Proved!Remote,
          Proved!RegisteredServices, Proved!SuzuErrors, Proved!MessageKinds,
          Proved!ErrorSent
<1>3. QED BY <1>1, <1>2, PTL DEF Handler!Spec, Proved!Spec

\* With the goroutines of every attempt, old and new, at work, the request keeps
\* what the handler promises: an honest status, bounded retries, the answers of
\* the attempts in order, failures reported, an aws error last.
THEOREM SessionKeepsPromises ==
    Spec => [](/\ Handler!HonestStatus
               /\ Handler!RetryBudget
               /\ Handler!BodyOrder
               /\ Handler!OnlyReconnectsFailSilently
               /\ Handler!ErrorEndsAwsStream)
<1>1. Proved!SpeechHandlerAssumption
      BY SessionAssumption, SessionBounds DEF Proved!SpeechHandlerAssumption
<1>2. Proved!HonestStatus => Handler!HonestStatus
      BY Zenon DEF Proved!HonestStatus, Handler!HonestStatus, Proved!Committed, Handler!Committed,
         Proved!ErrorSent, Handler!ErrorSent, Proved!Message, Handler!Message
<1>3. Proved!RetryBudget => Handler!RetryBudget
      BY Zenon DEF Proved!RetryBudget, Handler!RetryBudget, Proved!MaxRetry, Handler!MaxRetry
<1>4. Proved!BodyOrder => Handler!BodyOrder
      BY Zenon DEF Proved!BodyOrder, Handler!BodyOrder
<1>5. Proved!OnlyReconnectsFailSilently => Handler!OnlyReconnectsFailSilently
      BY Zenon DEF Proved!OnlyReconnectsFailSilently, Handler!OnlyReconnectsFailSilently,
         Proved!FailureIsReported, Handler!FailureIsReported, Proved!Failures, Handler!Failures,
         Proved!ErrorSent, Handler!ErrorSent, Proved!Message, Handler!Message
<1>6. Proved!ErrorEndsAwsStream => Handler!ErrorEndsAwsStream
      BY Zenon DEF Proved!ErrorEndsAwsStream, Handler!ErrorEndsAwsStream, Proved!Aws,
         Handler!Aws, Proved!Service, Handler!Service
<1>7. QED
      BY <1>1, <1>2, <1>3, <1>4, <1>5, <1>6, SameHandler, SessionImplementsHandler,
         Proved!StatusIsHonest, Proved!RetriesBounded, Proved!BodyOrdered,
         Proved!FailuresReported, Proved!AwsErrorIsLast, PTL
      DEF HandlerImplemented
=============================================================================
