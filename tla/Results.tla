------------------------------- MODULE Results -------------------------------
(***************************************************************************)
(* What the receiver goroutines of the aws and gcp handlers make of the    *)
(* results of the service: final_result_only, the fields added on request, *)
(* and for aws the filters on the items of an alternative by duration and  *)
(* by confidence.                                                          *)
(*                                                                         *)
(* A text is a sequence of words.  An item has a duration (EndTime less    *)
(* StartTime) and a score, NoScore when the service gives none.            *)
(***************************************************************************)
EXTENDS Integers, Sequences

CONSTANTS
    Configs,       \* [service, time, score, finalOnly, details]: the thresholds
                   \* minimum_transcribed_time and minimum_confidence_score,
                   \* final_result_only, and whether the optional fields are on
    ServiceResults, \* results of the service: [partial, id, alternatives]
    Word,          \* what a text consists of
    MaxResults     \* bound: results received

VARIABLES
    conf,     \* the configuration
    seen,     \* history: the results received
    pending,  \* alternatives of the last one still to be looked at
    out,      \* messages written to the result pipe
    pipe      \* "open", "closed"

vars == <<conf, seen, pending, out, pipe>>

NoScore == -1

ItemType == [type : {"pronunciation", "punctuation"}, time : Int, score : Int,
             content : Seq(Word)]
AlternativeType == [items : Seq(ItemType), transcript : Seq(Word)]

ASSUME ResultsAssumption ==
    /\ \A c \in Configs : /\ c.service \in {"aws", "gcp"}
                          /\ c.time \in Int /\ c.score \in Int
                          /\ c.finalOnly \in BOOLEAN
    /\ \A res \in ServiceResults :
          res.partial \in BOOLEAN /\ res.alternatives \in Seq(AlternativeType)
    /\ MaxResults \in Nat

-----------------------------------------------------------------------------
(* Filters of aws *)

ContentFilterByTranscribedTime(c, item) ==
    c.time <= 0 \/ item.type = "punctuation" \/ item.time >= c.time

ContentFilterByConfidenceScore_partialOnly(c, item, partial) ==
    \/ c.score <= 0
    \/ ~partial
    \/ item.type = "punctuation"
    \/ item.score = NoScore
    \/ item.score >= c.score

ContentFilterByConfidenceScore(c, item, partial) ==
    \/ c.score <= 0
    \/ partial
    \/ item.type = "punctuation"
    \/ item.score = NoScore
    \/ item.score >= c.score

Kept(c, item, partial) ==
    /\ ContentFilterByTranscribedTime(c, item)
    /\ ContentFilterByConfidenceScore(c, item, partial)

\* The loop over the items: the text so far, and whether anything in it is
\* spoken.
Collected(c, items, partial) ==
    LET loop[i \in 0..Len(items)] ==
           IF i = 0 THEN [message |-> <<>>, spoken |-> FALSE]
           ELSE IF ~Kept(c, items[i], partial) THEN loop[i - 1]
           ELSE [message |-> loop[i - 1].message \o items[i].content,
                 spoken  |-> loop[i - 1].spoken \/ items[i].type = "pronunciation"]
    IN  loop

\* The message of an alternative and whether there is one.  With a filter on it
\* is put together from the items kept, and needs a spoken one among them.
BuildMessage_punctuation(c, alt, partial) ==
    LET all == Collected(c, alt.items, partial)[Len(alt.items)]
    IN  IF c.time <= 0 /\ c.score <= 0 THEN [message |-> alt.transcript, ok |-> TRUE]
        ELSE [message |-> all.message, ok |-> all.message # <<>>]

BuildMessage(c, alt, partial) ==
    LET all == Collected(c, alt.items, partial)[Len(alt.items)]
    IN  IF c.time <= 0 /\ c.score <= 0 THEN [message |-> alt.transcript, ok |-> TRUE]
        ELSE [message |-> all.message, ok |-> all.spoken /\ all.message # <<>>]

\* gcp sends every transcript.
Message(alt, partial) ==
    IF conf.service = "gcp" THEN [message |-> alt.transcript, ok |-> TRUE]
    ELSE BuildMessage(conf, alt, partial)

\* The JSON object; the optional fields are empty unless asked for.
Encoded(res, message) ==
    [message |-> message,
     partial |-> IF conf.details THEN <<res.partial>> ELSE <<>>,
     id      |-> IF conf.details THEN <<res.id>> ELSE <<>>]

-----------------------------------------------------------------------------
Init ==
    /\ conf \in Configs
    /\ seen = <<>>
    /\ pending = <<>>
    /\ out = <<>>
    /\ pipe = "open"

\* A result arrives; with final_result_only a partial one is passed over.
Receive(res) ==
    /\ pipe = "open" /\ pending = <<>>
    /\ Len(seen) < MaxResults
    /\ seen' = Append(seen, res)
    /\ pending' = IF conf.finalOnly /\ res.partial THEN <<>> ELSE res.alternatives
    /\ UNCHANGED <<conf, out, pipe>>

\* The next alternative of the result.
Alternative ==
    LET res == seen[Len(seen)]
        m == Message(Head(pending), res.partial)
    IN  /\ pipe = "open" /\ pending # <<>>
        /\ pending' = Tail(pending)
        /\ out' = IF m.ok THEN Append(out, Encoded(res, m.message)) ELSE out
        /\ UNCHANGED <<conf, seen, pipe>>

\* Encode fails: the request handler has closed the reader.
EncodeFails ==
    /\ pipe = "open" /\ pending # <<>>
    /\ Message(Head(pending), seen[Len(seen)].partial).ok
    /\ pipe' = "closed"
    /\ UNCHANGED <<conf, seen, pending, out>>

\* The context is done, or the stream of the service has ended.
Ends ==
    /\ pipe = "open" /\ pending = <<>>
    /\ pipe' = "closed"
    /\ UNCHANGED <<conf, seen, pending, out>>

Next == (\E res \in ServiceResults : Receive(res)) \/ Alternative \/ EncodeFails \/ Ends

Spec == Init /\ [][Next]_vars

-----------------------------------------------------------------------------
(* What the configuration promises *)

Filtering == conf.service = "aws" /\ (conf.time > 0 \/ conf.score > 0)

TooShort(item) == conf.time > 0 /\ item.time < conf.time
TooWeak(item)  == conf.score > 0 /\ item.score # NoScore /\ item.score < conf.score

Wanted(item, partial) == item.type = "pronunciation" =>
                            ~TooShort(item) /\ (partial \/ ~TooWeak(item))

\* text is the contents of the wanted items, one after the other: at[i] is where
\* it has got to after the i-th item.
IsText(text, items, partial) ==
    \E at \in [0..Len(items) -> 0..Len(text)] :
       /\ at[0] = 0 /\ at[Len(items)] = Len(text)
       /\ \A i \in 1..Len(items) :
             IF Wanted(items[i], partial)
             THEN /\ at[i] = at[i - 1] + Len(items[i].content)
                  /\ items[i].content = SubSeq(text, at[i - 1] + 1, at[i])
             ELSE at[i] = at[i - 1]

Says(text, alt, partial) ==
    IF Filtering THEN IsText(text, alt.items, partial) ELSE text = alt.transcript

Shown(alt, partial) ==
    LET wanted == {i \in 1..Len(alt.items) : Wanted(alt.items[i], partial)}
    IN  Filtering => /\ \E i \in wanted : alt.items[i].type = "pronunciation"
                     /\ \E i \in wanted : alt.items[i].content # <<>>

\* How many alternatives of the r-th result have been looked at; with
\* final_result_only none of a partial one ever is.
Looked(r) ==
    IF conf.finalOnly /\ seen[r].partial THEN 0
    ELSE IF r < Len(seen) THEN Len(seen[r].alternatives)
    ELSE Len(seen[r].alternatives) - Len(pending)

\* <<r, a>> for the a-th alternative of the r-th result.
Promised ==
    {p \in UNION {{r} \X (1..Looked(r)) : r \in 1..Len(seen)} :
        Shown(seen[p[1]].alternatives[p[2]], seen[p[1]].partial)}

Before(p, q) == p[1] < q[1] \/ (p[1] = q[1] /\ p[2] < q[2])

\* message is what alternative p is to be sent as.
Carries(message, p) ==
    LET res == seen[p[1]]
    IN  /\ Says(message.message, res.alternatives[p[2]], res.partial)
        /\ message.partial = IF conf.details THEN <<res.partial>> ELSE <<>>
        /\ message.id = IF conf.details THEN <<res.id>> ELSE <<>>

\* The client gets, in the order of the service and with the fields of their own
\* result, exactly the messages the configuration promises: the words that are
\* long and sure enough (partial results are not judged by score, punctuation
\* by nothing), no message without a spoken word, everything when no filter is
\* set, for gcp the transcripts (CHANGES.md:257-264, 407-409,
\* config_example.ini:93-100).
SentAsConfigured ==
    \E from \in [1..Len(out) -> Promised] :
       /\ \A i \in 1..Len(out) : Carries(out[i], from[i])
       /\ \A i, j \in 1..Len(out) : i < j => Before(from[i], from[j])
       /\ \A p \in Promised : \E i \in 1..Len(out) : from[i] = p

\* The service is sure of this item, or there is nothing to judge.
Trusted(item) ==
    item.type = "punctuation" \/ item.score = NoScore \/ item.score >= conf.score

\* With final_result_only and a minimum score no word the service is less sure
\* of reaches the client of aws, by whatever exception of the filters: each one
\* is in an item of a final result that is sure enough.
WeakWordsHidden ==
    conf.service = "aws" /\ conf.finalOnly /\ conf.score > 0 =>
       \A i \in 1..Len(out) : \A w \in 1..Len(out[i].message) :
          \E r \in 1..Len(seen) : \E a \in 1..Len(seen[r].alternatives) :
             LET items == seen[r].alternatives[a].items IN
             /\ ~seen[r].partial
             /\ \E k \in 1..Len(items) : \E v \in 1..Len(items[k].content) :
                   Trusted(items[k]) /\ items[k].content[v] = out[i].message[w]
=============================================================================
