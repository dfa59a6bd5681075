----------------------------- MODULE MCResults -----------------------------
(* Results with two results of up to two alternatives.  Durations and      *)
(* scores are 1 or 2 and a threshold, when set, is 2; the words are named  *)
(* after the items, 10 is a transcript.                                    *)
EXTENDS Results

Item(type, time, score, content) ==
    [type |-> type, time |-> time, score |-> score, content |-> content]

Good   == Item("pronunciation", 2, 2, <<1>>)
Short  == Item("pronunciation", 1, 2, <<2>>)
Weak   == Item("pronunciation", 2, 1, <<3>>)
Unrated == Item("pronunciation", 2, NoScore, <<4>>)
Comma  == Item("punctuation", 0, NoScore, <<5>>)
Mute   == Item("pronunciation", 2, 2, <<>>)

Alternatives == {[items |-> items, transcript |-> <<10>>] :
                   items \in {<<>>, <<Comma>>, <<Mute>>, <<Good, Comma>>, <<Weak, Comma>>,
                              <<Short, Weak>>, <<Unrated, Short>>, <<Comma, Weak, Good>>}}

MCServiceResults ==
    [partial : BOOLEAN, id : {1},
     alternatives : {<<>>} \cup {<<a>> : a \in Alternatives}
                       \cup {<<a, [items |-> <<Good>>, transcript |-> <<10>>]>> : a \in Alternatives}]
    \cup {[partial |-> FALSE, id |-> 2,
           alternatives |-> <<[items |-> <<Weak, Good>>, transcript |-> <<10>>]>>]}

MCConfigs == [service : {"aws", "gcp"}, time : {0, 2}, score : {0, 2},
              finalOnly : BOOLEAN, details : BOOLEAN]
=============================================================================
