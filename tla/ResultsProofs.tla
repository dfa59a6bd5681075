---------------------------- MODULE ResultsProofs ----------------------------
(***************************************************************************)
(* For every configuration and whatever the service recognises: the client *)
(* is sent the messages its configuration promises, in order.              *)
(***************************************************************************)
EXTENDS Results, SequenceTheorems, WellFoundedInduction, TLAPS

LEMMA Less == ASSUME NEW m \in Nat, NEW n \in Nat, m < n PROVE <<m, n>> \in OpToRel(<, Nat)
BY Zenon DEF OpToRel

\* Induction on a set of numbers.
LEMMA SetInduction ==
    ASSUME NEW S, 0 \in S, \A n \in Nat : n \in S => n + 1 \in S
    PROVE  Nat \subseteq S
<1> DEFINE T == Nat \ S
<1> SUFFICES ASSUME T # {}
             PROVE  FALSE
  OBVIOUS
<1>1. PICK R : R = OpToRel(<, Nat)
  OBVIOUS
<1>2. IsWellFoundedOn(R, Nat)
  BY <1>1, NatLessThanWellFounded, Zenon
<1>3. PICK n \in T : \A m \in T : ~(<<m, n>> \in R)
  <2>1. T \subseteq Nat
    OBVIOUS
  <2> HIDE DEF T
  <2> QED
    BY <1>2, <2>1, WFMin
<1>4. n # 0 /\ n - 1 \in Nat /\ n - 1 < n
  OBVIOUS
<1>5. <<n - 1, n>> \in R
  BY <1>1, <1>4, Less, Zenon
<1>6. n - 1 \in S
  BY <1>3, <1>4, <1>5
<1>7. (n - 1) + 1 \in S
  BY <1>4, <1>6
<1> QED
  BY <1>7

\* The values of a loop over 1..n that starts with x and takes each step by s.
IsLoop(f, n, T, x, s) ==
    /\ f \in [0..n -> T]
    /\ f[0] = x
    /\ \A i \in 1..n : f[i] = s[<<i, f[i - 1]>>]

\* Such a loop has values.
LEMMA Recursion ==
    ASSUME NEW n \in Nat, NEW T, NEW x \in T, NEW s,
           \A i \in 1..n : \A y \in T : s[<<i, y>>] \in T
    PROVE  \E f : IsLoop(f, n, T, x, s)
<1> DEFINE Upto(k) == \E f : IsLoop(f, k, T, x, s)
           S == {k \in Nat : k <= n => Upto(k)}
<1>1. 0 \in S
  <2>1. PICK f : f = [i \in 0..0 |-> x]
    OBVIOUS
  <2>2. f \in [0..0 -> T] /\ f[0] = x /\ 1..0 = {}
    BY <2>1
  <2>3. Upto(0)
    BY <2>2 DEF IsLoop
  <2> QED
    BY <2>3
<1>2. ASSUME NEW k \in Nat, k \in S
      PROVE  k + 1 \in S
  <2> SUFFICES ASSUME k + 1 <= n
               PROVE  Upto(k + 1)
    OBVIOUS
  <2>0. PICK f : IsLoop(f, k, T, x, s)
    BY <1>2
  <2>1. f \in [0..k -> T] /\ f[0] = x /\ \A i \in 1..k : f[i] = s[<<i, f[i - 1]>>]
    BY <2>0 DEF IsLoop
  <2>2. PICK y : y = s[<<k + 1, f[k]>>]
    OBVIOUS
  <2>3. y \in T
    <3>1. k \in 0..k /\ k + 1 \in 1..n
      OBVIOUS
    <3>2. f[k] \in T
      BY <2>1, <3>1
    <3> QED
      BY <2>2, <3>1, <3>2
  <2> DEFINE g == [i \in 0..(k + 1) |-> IF i = k + 1 THEN y ELSE f[i]]
  <2>4. g[k + 1] = y /\ \A i \in 0..k : g[i] = f[i]
    OBVIOUS
  <2>5. g \in [0..(k + 1) -> T]
    BY <2>1, <2>3
  <2> HIDE DEF g
  <2>6. ASSUME NEW i \in 1..(k + 1)
        PROVE  g[i] = s[<<i, g[i - 1]>>]
    <3>1. CASE i = k + 1
      <4>1. g[i - 1] = f[k]
        BY <2>4, <3>1
      <4> QED
        BY <2>2, <2>4, <3>1, <4>1
    <3>2. CASE i \in 1..k
      <4>1. i \in 0..k /\ i - 1 \in 0..k
        BY <3>2
      <4> QED
        BY <2>1, <2>4, <3>2, <4>1
    <3> QED
      BY <3>1, <3>2
  <2>7. g[0] = x
    BY <2>1, <2>4
  <2>8. IsLoop(g, k + 1, T, x, s)
    BY <2>5, <2>6, <2>7 DEF IsLoop
  <2> QED
    BY <2>8
<1>3. Nat \subseteq S
  <2> HIDE DEF S
  <2> QED
    BY <1>1, <1>2, SetInduction
<1> QED
  BY <1>3

-----------------------------------------------------------------------------
(* The loop over the items *)

LoopType == [message : Seq(Word), spoken : BOOLEAN]

\* What the loop does with item i after it has got to sofar.
LoopStep(c, items, partial, i, sofar) ==
    IF ~Kept(c, items[i], partial) THEN sofar
    ELSE [message |-> sofar.message \o items[i].content,
          spoken  |-> sofar.spoken \/ items[i].type = "pronunciation"]

LEMMA LoopStepType ==
    ASSUME NEW c, NEW items \in Seq(ItemType), NEW partial, NEW i \in 1..Len(items),
           NEW sofar \in LoopType
    PROVE  LoopStep(c, items, partial, i, sofar) \in LoopType
<1>1. items[i] \in ItemType
  OBVIOUS
<1>2. items[i].content \in Seq(Word) /\ sofar.message \in Seq(Word) /\ sofar.spoken \in BOOLEAN
  BY <1>1 DEF ItemType, LoopType
<1>3. sofar.message \o items[i].content \in Seq(Word)
  BY <1>2
<1>4. (sofar.spoken \/ items[i].type = "pronunciation") \in BOOLEAN
  BY <1>2, Zenon
<1> QED
  BY <1>3, <1>4 DEF LoopStep, LoopType

LEMMA LoopFields ==
    ASSUME NEW p, NEW q
    PROVE  [message |-> p, spoken |-> q].message = p /\ [message |-> p, spoken |-> q].spoken = q
OBVIOUS

\* Something spoken has been kept.
Said(sofar) == sofar.spoken

LEMMA LoopStepKept ==
    ASSUME NEW c, NEW items \in Seq(ItemType), NEW partial, NEW i \in 1..Len(items),
           NEW sofar \in LoopType, Kept(c, items[i], partial)
    PROVE  LoopStep(c, items, partial, i, sofar).message = sofar.message \o items[i].content
<1>1. PICK p, q : /\ p = sofar.message \o items[i].content
                  /\ q = (sofar.spoken \/ items[i].type = "pronunciation")
  OBVIOUS
<1>2. LoopStep(c, items, partial, i, sofar) = [message |-> p, spoken |-> q]
  BY <1>1, Zenon DEF LoopStep
<1>3. [message |-> p, spoken |-> q].message = p /\ [message |-> p, spoken |-> q].spoken = q
  BY LoopFields
<1> QED
  BY <1>1, <1>2, <1>3, Zenon

\* The recursive definition of the loop has a solution, so it is one.
LEMMA LoopDefined ==
    ASSUME NEW c, NEW items \in Seq(ItemType), NEW partial
    PROVE  /\ Collected(c, items, partial) \in [0..Len(items) -> LoopType]
           /\ Collected(c, items, partial)[0] = [message |-> <<>>, spoken |-> FALSE]
           /\ \A i \in 1..Len(items) :
                 Collected(c, items, partial)[i]
                    = LoopStep(c, items, partial, i, Collected(c, items, partial)[i - 1])
<1> DEFINE n == Len(items)
           x == [message |-> <<>>, spoken |-> FALSE]
           s == [p \in (1..n) \X LoopType |-> LoopStep(c, items, partial, p[1], p[2])]
           F(f) == [i \in 0..n |-> IF i = 0 THEN x
                                   ELSE IF ~Kept(c, items[i], partial) THEN f[i - 1]
                                   ELSE [message |-> f[i - 1].message \o items[i].content,
                                         spoken  |-> \/ f[i - 1].spoken
                                                     \/ items[i].type = "pronunciation"]]
<1>1. n \in Nat /\ x \in LoopType
  BY DEF LoopType
<1>2. ASSUME NEW i \in 1..n, NEW y \in LoopType
      PROVE  s[<<i, y>>] \in LoopType /\ s[<<i, y>>] = LoopStep(c, items, partial, i, y)
  <2>1. s[<<i, y>>] = LoopStep(c, items, partial, i, y)
    OBVIOUS
  <2> QED
    BY <2>1, LoopStepType
<1> HIDE DEF x, s
<1>3. PICK f : IsLoop(f, n, LoopType, x, s)
  BY <1>1, <1>2, Recursion
<1>4. \A i \in 1..n : f[i] = LoopStep(c, items, partial, i, f[i - 1])
  <2>1. \A i \in 1..n : f[i - 1] \in LoopType
    BY <1>1, <1>3 DEF IsLoop
  <2> QED
    BY <1>2, <1>3, <2>1 DEF IsLoop
<1>5. f = F(f)
  <2>1. ASSUME NEW i \in 0..n
        PROVE  f[i] = F(f)[i]
    <3>1. CASE i = 0
      BY <1>3, <3>1 DEF IsLoop
    <3>2. CASE i \in 1..n
      <4>1. i # 0
        BY <3>2
      <4>2. F(f)[i] = LoopStep(c, items, partial, i, f[i - 1])
        BY <4>1, Zenon DEF LoopStep
      <4> QED
        BY <1>4, <3>2, <4>2
    <3> QED
      BY <1>1, <3>1, <3>2
  <2> QED
    BY <1>3, <2>1 DEF IsLoop
<1>6. Collected(c, items, partial) = CHOOSE g : g = F(g)
  BY DEF Collected, x
<1>7. PICK g : g = Collected(c, items, partial)
  OBVIOUS
<1>8. g = F(g)
  BY <1>5, <1>6, <1>7, Zenon
<1>9. \A i \in 0..n : g[i] = f[i]
  <2> DEFINE S == {i \in Nat : i \in 0..n => g[i] = f[i]}
  <2>1. 0 \in S
    BY <1>1, <1>3, <1>8 DEF IsLoop
  <2>2. ASSUME NEW i \in Nat, i \in S
        PROVE  i + 1 \in S
    <3> SUFFICES ASSUME i + 1 \in 0..n
                 PROVE  g[i + 1] = f[i + 1]
      OBVIOUS
    <3>1. i + 1 # 0 /\ (i + 1) - 1 = i /\ i \in 0..n /\ i + 1 \in 1..n
      BY <1>1
    <3>2. g[i] = f[i]
      BY <2>2, <3>1
    <3>3. g[i + 1] = LoopStep(c, items, partial, i + 1, g[i])
      BY <1>8, <3>1 DEF LoopStep
    <3> QED
      BY <1>4, <3>1, <3>2, <3>3
  <2>3. Nat \subseteq S
    <3> HIDE DEF S
    <3> QED
      BY <2>1, <2>2, SetInduction
  <2> QED
    BY <2>3
<1>10. g = f
  <2>1. DOMAIN g = 0..n
    BY <1>8
  <2>2. g = [i \in 0..n |-> g[i]]
    BY <1>8
  <2>3. f = [i \in 0..n |-> f[i]]
    BY <1>3 DEF IsLoop
  <2> QED
    BY <1>9, <2>2, <2>3
<1> QED
  BY <1>3, <1>4, <1>7, <1>10 DEF x, IsLoop

-----------------------------------------------------------------------------
(* What the loop has put together *)

\* m[i] is the text after item i, when the items in K are kept and ct is their
\* contents.
Joins(m, n, ct, K) ==
    /\ m \in [0..n -> Seq(Word)] /\ ct \in [1..n -> Seq(Word)]
    /\ m[0] = <<>>
    /\ \A i \in 1..n : /\ i \in K => m[i] = m[i - 1] \o ct[i]
                       /\ i \notin K => m[i] = m[i - 1]

LEMMA Joined ==
    ASSUME NEW a \in Seq(Word), NEW b \in Seq(Word)
    PROVE  /\ Len(a \o b) = Len(a) + Len(b) /\ Len(a) \in Nat /\ Len(b) \in Nat
           /\ \A k \in 1..Len(a) : (a \o b)[k] = a[k]
           /\ \A k \in 1..Len(b) : (a \o b)[Len(a) + k] = b[k]
OBVIOUS

\* Step i of the loop.
Grows(old, new, c, kept) ==
    /\ old \in Seq(Word) /\ new \in Seq(Word) /\ c \in Seq(Word)
    /\ Len(old) \in Nat /\ Len(new) \in Nat /\ Len(c) \in Nat
    /\ Len(old) <= Len(new)
    /\ \A k \in 1..Len(old) : new[k] = old[k]
    /\ kept => /\ Len(new) = Len(old) + Len(c)
               /\ \A k \in 1..Len(c) : new[Len(old) + k] = c[k]
    /\ ~kept => new = old

LEMMA JoinStep ==
    ASSUME NEW n \in Nat, NEW m, NEW ct, NEW K, Joins(m, n, ct, K), NEW i \in 1..n
    PROVE  Grows(m[i - 1], m[i], ct[i], i \in K)
<1>1. i \in 0..n /\ i - 1 \in 0..n
  OBVIOUS
<1>2. m[i] \in Seq(Word) /\ m[i - 1] \in Seq(Word) /\ ct[i] \in Seq(Word)
  BY <1>1 DEF Joins
<1>3. (i \in K => m[i] = m[i - 1] \o ct[i]) /\ (i \notin K => m[i] = m[i - 1])
  BY DEF Joins
<1>4. PICK a, b, d : a = m[i - 1] /\ b = ct[i] /\ d = m[i]
  OBVIOUS
<1>5. CASE i \in K
  <2>1. d = a \o b /\ a \in Seq(Word) /\ b \in Seq(Word) /\ d \in Seq(Word)
    BY <1>2, <1>3, <1>4, <1>5
  <2>2. Grows(a, d, b, TRUE)
    BY ONLY <2>1, Joined DEF Grows
  <2> QED
    BY <1>4, <1>5, <2>2 DEF Grows
<1>6. CASE i \notin K
  <2>1. d = a /\ a \in Seq(Word) /\ b \in Seq(Word)
    BY <1>2, <1>3, <1>4, <1>6
  <2>2. Grows(a, d, b, FALSE)
    BY ONLY <2>1, Joined DEF Grows
  <2> QED
    BY <1>4, <1>6, <2>2 DEF Grows
<1> QED
  BY <1>5, <1>6

\* What the loop has put together is not changed by later items.
LEMMA JoinsGrow ==
    ASSUME NEW n \in Nat, NEW m, NEW ct, NEW K, Joins(m, n, ct, K)
    PROVE  \A j \in 0..n : \A i \in 0..j :
              Len(m[i]) <= Len(m[j]) /\ \A k \in 1..Len(m[i]) : m[j][k] = m[i][k]
<1> DEFINE P(i, j) == Len(m[i]) <= Len(m[j]) /\ \A k \in 1..Len(m[i]) : m[j][k] = m[i][k]
           S == {j \in Nat : j <= n => \A i \in 0..j : P(i, j)}
<1>0. \A i \in 0..n : m[i] \in Seq(Word) /\ Len(m[i]) \in Nat
  BY DEF Joins
<1>1. 0 \in S
  BY <1>0
<1>2. ASSUME NEW j \in Nat, j \in S
      PROVE  j + 1 \in S
  <2> SUFFICES ASSUME j + 1 <= n, NEW i \in 0..(j + 1)
               PROVE  P(i, j + 1)
    OBVIOUS
  <2>0. j + 1 \in 1..n /\ (j + 1) - 1 = j /\ j \in 0..n /\ j + 1 \in 0..n
    OBVIOUS
  <2>1. Len(m[j]) <= Len(m[j + 1]) /\ \A k \in 1..Len(m[j]) : m[j + 1][k] = m[j][k]
    <3>1. PICK l : l = j + 1
      OBVIOUS
    <3>2. l \in 1..n /\ l - 1 = j
      BY <2>0, <3>1
    <3>3. Grows(m[l - 1], m[l], ct[l], l \in K)
      BY <3>2, JoinStep
    <3> QED
      BY <3>1, <3>2, <3>3 DEF Grows
  <2>2. CASE i = j + 1
    BY <1>0, <2>0, <2>2
  <2>3. CASE i \in 0..j
    <3>1. P(i, j)
      BY <1>2, <2>0, <2>3
    <3>2. i \in 0..n
      BY <2>0, <2>3
    <3>3. Len(m[i]) \in Nat /\ Len(m[j]) \in Nat /\ Len(m[j + 1]) \in Nat
      BY <1>0, <2>0, <3>2
    <3> QED
      BY <2>1, <3>1, <3>3
  <2> QED
    BY <2>2, <2>3
<1>3. Nat \subseteq S
  <2> HIDE DEF S
  <2> QED
    BY <1>1, <1>2, SetInduction
<1> QED
  BY <1>3

\* There is a text as soon as a kept item has one.
LEMMA JoinsEmpty ==
    ASSUME NEW n \in Nat, NEW m, NEW ct, NEW K, Joins(m, n, ct, K)
    PROVE  \A j \in 0..n : m[j] = <<>> <=> \A i \in 1..j : i \in K => ct[i] = <<>>
<1> DEFINE S == {j \in Nat : j <= n =>
                    (m[j] = <<>> <=> \A i \in 1..j : i \in K => ct[i] = <<>>)}
<1>1. 0 \in S
  BY DEF Joins
<1>2. ASSUME NEW j \in Nat, j \in S
      PROVE  j + 1 \in S
  <2> SUFFICES ASSUME j + 1 <= n
               PROVE  m[j + 1] = <<>> <=> \A i \in 1..(j + 1) : i \in K => ct[i] = <<>>
    OBVIOUS
  <2>1. PICK l : l = j + 1
    OBVIOUS
  <2>2. l \in 1..n /\ l - 1 = j /\ \A i : i \in 1..l <=> i \in 1..j \/ i = l
    BY <2>1
  <2>3. Grows(m[j], m[l], ct[l], l \in K)
    BY <2>2, JoinStep
  <2>4. m[l] = <<>> <=> (m[j] = <<>> /\ (l \in K => ct[l] = <<>>))
    <3>1. PICK a, b, d : a = m[j] /\ b = ct[l] /\ d = m[l]
      OBVIOUS
    <3>2. Grows(a, d, b, l \in K)
      BY <2>3, <3>1
    <3>3. d = <<>> <=> (a = <<>> /\ (l \in K => b = <<>>))
      BY ONLY <3>2 DEF Grows
    <3> QED
      BY <3>1, <3>3
  <2>5. m[j] = <<>> <=> \A i \in 1..j : i \in K => ct[i] = <<>>
    BY <1>2
  <2> QED
    BY <2>1, <2>2, <2>4, <2>5
<1>3. Nat \subseteq S
  <2> HIDE DEF S
  <2> QED
    BY <1>1, <1>2, SetInduction
<1> QED
  BY <1>3

\* Item i, if it is kept, is found in the whole text where the loop put it.
LEMMA Found ==
    ASSUME NEW n \in Nat, NEW m, NEW ct, NEW K, Joins(m, n, ct, K), NEW i \in 1..n, i \in K
    PROVE  ct[i] = SubSeq(m[n], Len(m[i - 1]) + 1, Len(m[i]))
<1>1. Grows(m[i - 1], m[i], ct[i], TRUE)
  <2>1. Grows(m[i - 1], m[i], ct[i], i \in K)
    BY JoinStep
  <2> QED
    BY <2>1 DEF Grows
<1>2. PICK a, b, d, t : a = m[i - 1] /\ b = ct[i] /\ d = m[i] /\ t = m[n]
  OBVIOUS
<1>3. Len(d) <= Len(t) /\ \A k \in 1..Len(d) : t[k] = d[k]
  BY <1>2, JoinsGrow
<1>4. t \in Seq(Word) /\ Len(t) \in Nat
  BY <1>2 DEF Joins
<1>5. Grows(a, d, b, TRUE)
  BY <1>1, <1>2
<1>6. b = SubSeq(t, Len(a) + 1, Len(d))
  <2>1. /\ Len(d) = Len(a) + Len(b) /\ Len(a) \in Nat /\ Len(b) \in Nat /\ b \in Seq(Word)
        /\ \A k \in 1..Len(b) : d[Len(a) + k] = b[k]
    BY <1>5 DEF Grows
  <2>2. \A k \in 1..Len(b) : t[Len(a) + k] = b[k]
    <3>1. \A k \in 1..Len(b) : Len(a) + k \in 1..Len(d)
      BY <2>1
    <3> QED
      BY <1>3, <2>1, <3>1
  <2>3. PICK u : u = SubSeq(t, Len(a) + 1, Len(d))
    OBVIOUS
  <2>4. u \in Seq(Word) /\ Len(u) = Len(b) /\ \A k \in 1..Len(b) : u[k] = t[Len(a) + k]
    BY ONLY <1>3, <1>4, <2>1, <2>3
  <2> QED
    BY ONLY <2>1, <2>2, <2>3, <2>4, SeqEqual
<1> QED
  BY <1>2, <1>6

\* The loop over the items of an alternative.
Contents(items) == [i \in 1..Len(items) |-> items[i].content]
KeptItems(c, items, partial) == {i \in 1..Len(items) : Kept(c, items[i], partial)}
Texts(c, items, partial) == [i \in 0..Len(items) |-> Collected(c, items, partial)[i].message]

LEMMA LoopJoins ==
    ASSUME NEW c, NEW items \in Seq(ItemType), NEW partial
    PROVE  Joins(Texts(c, items, partial), Len(items), Contents(items), KeptItems(c, items, partial))
<1> DEFINE n == Len(items)
<1>1. PICK L, m : L = Collected(c, items, partial) /\ m = Texts(c, items, partial)
  OBVIOUS
<1>2. /\ L \in [0..n -> LoopType]
      /\ L[0] = [message |-> <<>>, spoken |-> FALSE]
      /\ \A i \in 1..n : L[i] = LoopStep(c, items, partial, i, L[i - 1])
  BY <1>1, LoopDefined
<1>3. n \in Nat /\ m = [i \in 0..n |-> L[i].message]
  BY <1>1 DEF Texts
<1>4. m \in [0..n -> Seq(Word)]
  <2>1. \A l \in LoopType : l.message \in Seq(Word)
    BY DEF LoopType
  <2> QED
    BY <1>2, <1>3, <2>1
<1>5. Contents(items) \in [1..n -> Seq(Word)]
  <2>1. \A i \in 1..n : items[i].content \in Seq(Word)
    <3>1. \A item \in ItemType : item.content \in Seq(Word)
      BY DEF ItemType
    <3> QED
      BY <3>1
  <2> QED
    BY <2>1 DEF Contents
<1>6. m[0] = <<>>
  BY <1>2, <1>3
<1>7. ASSUME NEW i \in 1..n
      PROVE  /\ i \in KeptItems(c, items, partial) => m[i] = m[i - 1] \o Contents(items)[i]
             /\ i \notin KeptItems(c, items, partial) => m[i] = m[i - 1]
  <2>1. i \in 0..n /\ i - 1 \in 0..n
    BY <1>3
  <2>2. m[i] = L[i].message /\ m[i - 1] = L[i - 1].message /\ Contents(items)[i] = items[i].content
    BY <1>3, <2>1 DEF Contents
  <2>3. L[i] = LoopStep(c, items, partial, i, L[i - 1])
    BY <1>2
  <2> HIDE DEF n
  <2>4. PICK a, b : a = L[i - 1] /\ b = items[i].content
    OBVIOUS
  <2>5. CASE Kept(c, items[i], partial)
    <3>1. L[i].message = a.message \o b
      <4>1. LoopStep(c, items, partial, i, L[i - 1]).message = L[i - 1].message \o items[i].content
        <5>1. L[i - 1] \in LoopType
          BY <1>2, <2>1
        <5> QED
          BY <2>5, <5>1, LoopStepKept DEF n
      <4> QED
        BY <2>3, <2>4, <4>1, Zenon
    <3> QED
      BY <2>2, <2>4, <2>5, <3>1 DEF KeptItems, n
  <2>6. CASE ~Kept(c, items[i], partial)
    <3>1. L[i] = L[i - 1]
      BY <2>3, <2>6 DEF LoopStep
    <3> QED
      BY <2>2, <2>6, <3>1 DEF KeptItems, n
  <2> QED
    BY <2>5, <2>6
<1> QED
  BY <1>1, <1>4, <1>5, <1>6, <1>7 DEF Joins

\* The loop notices a spoken item if there is one.
LEMMA LoopSpoken ==
    ASSUME NEW c, NEW items \in Seq(ItemType), NEW partial
    PROVE  Said(Collected(c, items, partial)[Len(items)])
              <=> \E i \in KeptItems(c, items, partial) : items[i].type = "pronunciation"
<1> DEFINE n == Len(items)
           Spoken(j) == \E i \in 1..j : Kept(c, items[i], partial) /\ items[i].type = "pronunciation"
<1>1. PICK L : L = Collected(c, items, partial)
  OBVIOUS
<1>2. /\ L \in [0..n -> LoopType]
      /\ L[0] = [message |-> <<>>, spoken |-> FALSE]
      /\ \A i \in 1..n : L[i] = LoopStep(c, items, partial, i, L[i - 1])
  BY <1>1, LoopDefined
<1>3. n \in Nat
  OBVIOUS
<1> DEFINE S == {j \in Nat : j <= n => (Said(L[j]) <=> Spoken(j))}
<1>4. 0 \in S
  <2>1. ~Said(L[0])
    BY <1>2 DEF Said
  <2> QED
    BY <2>1
<1>5. ASSUME NEW j \in Nat, j \in S
      PROVE  j + 1 \in S
  <2> SUFFICES ASSUME j + 1 <= n
               PROVE  Said(L[j + 1]) <=> Spoken(j + 1)
    OBVIOUS
  <2>1. PICK l : l = j + 1
    OBVIOUS
  <2>2. l \in 1..n /\ l - 1 = j /\ \A i : i \in 1..l <=> i \in 1..j \/ i = l
    BY <1>3, <2>1
  <2>3. L[l] = LoopStep(c, items, partial, l, L[j])
    BY <1>2, <2>2
  <2>4. Said(L[j]) <=> Spoken(j)
    BY <1>3, <1>5
  <2>5. Spoken(l) <=> \/ Spoken(j)
                      \/ Kept(c, items[l], partial) /\ items[l].type = "pronunciation"
    BY <2>2
  <2> HIDE DEF Spoken, n
  <2>6. CASE Kept(c, items[l], partial)
    <3>1. Said(L[l]) <=> (Said(L[j]) \/ items[l].type = "pronunciation")
      <4>1. Said(LoopStep(c, items, partial, l, L[j]))
               <=> (Said(L[j]) \/ items[l].type = "pronunciation")
        <5>1. PICK p, q : /\ p = L[j].message \o items[l].content
                          /\ q = (L[j].spoken \/ items[l].type = "pronunciation")
          OBVIOUS
        <5>2. LoopStep(c, items, partial, l, L[j]) = [message |-> p, spoken |-> q]
          BY <2>6, <5>1, Zenon DEF LoopStep
        <5>3. [message |-> p, spoken |-> q].spoken = q
          BY LoopFields
        <5> QED
          BY <5>1, <5>2, <5>3, Zenon DEF Said
      <4> QED
        BY <2>3, <4>1, Zenon
    <3> QED
      BY <2>1, <2>4, <2>5, <2>6, <3>1
  <2>7. CASE ~Kept(c, items[l], partial)
    <3>1. L[l] = L[j]
      BY <2>3, <2>7 DEF LoopStep
    <3> QED
      BY <2>1, <2>4, <2>5, <2>7, <3>1
  <2> QED
    BY <2>6, <2>7
<1>6. Nat \subseteq S
  <2> HIDE DEF S
  <2> QED
    BY <1>4, <1>5, SetInduction
<1>7. Said(L[n]) <=> Spoken(n)
  BY <1>3, <1>6
<1> QED
  BY <1>1, <1>7 DEF KeptItems

-----------------------------------------------------------------------------
(* The message of an alternative *)

\* The two filters together keep the items the configuration wants.
LEMMA KeptWanted ==
    ASSUME conf \in Configs, NEW item \in ItemType, NEW partial \in BOOLEAN
    PROVE  Kept(conf, item, partial) <=> Wanted(item, partial)
<1>1. /\ conf.time \in Int /\ conf.score \in Int
      /\ item.type \in {"pronunciation", "punctuation"}
      /\ item.time \in Int /\ item.score \in Int
  BY ResultsAssumption DEF ItemType
<1>2. PICK ct, cs, it, is : ct = conf.time /\ cs = conf.score /\ it = item.time /\ is = item.score
  OBVIOUS
<1>3. ContentFilterByTranscribedTime(conf, item)
         <=> (item.type = "pronunciation" => ~TooShort(item))
  BY <1>1, <1>2 DEF ContentFilterByTranscribedTime, TooShort
<1>4. ContentFilterByConfidenceScore(conf, item, partial)
         <=> (item.type = "pronunciation" => partial \/ ~TooWeak(item))
  <2>1. conf.score <= 0 \/ item.score = NoScore \/ item.score >= conf.score <=> ~TooWeak(item)
    BY <1>1, <1>2 DEF TooWeak
  <2>2. item.type = "punctuation" <=> ~(item.type = "pronunciation")
    BY <1>1
  <2> QED
    BY <2>1, <2>2, Zenon DEF ContentFilterByConfidenceScore
<1> QED
  BY <1>3, <1>4, Zenon DEF Kept, Wanted

\* What the loop puts together is the contents of the wanted items.
LEMMA LoopText ==
    ASSUME conf \in Configs, NEW items \in Seq(ItemType), NEW partial \in BOOLEAN
    PROVE  IsText(Collected(conf, items, partial)[Len(items)].message, items, partial)
<1>1. PICK n, m, ct, K : /\ n = Len(items) /\ m = Texts(conf, items, partial)
                         /\ ct = Contents(items) /\ K = KeptItems(conf, items, partial)
  OBVIOUS
<1>2. Joins(m, n, ct, K) /\ n \in Nat
  BY <1>1, LoopJoins
<1>3. m[n] = Collected(conf, items, partial)[Len(items)].message
  BY <1>1 DEF Texts
<1>4. \A i \in 1..n : (i \in K <=> Wanted(items[i], partial)) /\ ct[i] = items[i].content
  <2> TAKE i \in 1..n
  <2>1. items[i] \in ItemType /\ i \in 1..Len(items)
    BY <1>1
  <2>2. Kept(conf, items[i], partial) <=> Wanted(items[i], partial)
    BY <2>1, KeptWanted
  <2> QED
    BY <1>1, <2>1, <2>2 DEF KeptItems, Contents
<1>5. PICK at : at = [i \in 0..n |-> Len(m[i])]
  OBVIOUS
<1>6. \A i \in 0..n : at[i] = Len(m[i]) /\ at[i] \in Nat /\ at[i] <= Len(m[n]) /\ Len(m[n]) \in Nat
  <2>1. \A i \in 0..n : m[i] \in Seq(Word) /\ Len(m[i]) \in Nat
    BY <1>2 DEF Joins
  <2>2. \A i \in 0..n : Len(m[i]) <= Len(m[n])
    BY <1>2, JoinsGrow
  <2> QED
    BY <1>2, <1>5, <2>1, <2>2
<1>7. at \in [0..n -> 0..Len(m[n])]
  BY <1>5, <1>6
<1>8. at[0] = 0 /\ at[n] = Len(m[n])
  BY <1>2, <1>6 DEF Joins
<1>9. ASSUME NEW i \in 1..n
      PROVE  /\ Wanted(items[i], partial) => /\ at[i] = at[i - 1] + Len(items[i].content)
                                             /\ items[i].content = SubSeq(m[n], at[i - 1] + 1, at[i])
             /\ ~Wanted(items[i], partial) => at[i] = at[i - 1]
  <2>1. Grows(m[i - 1], m[i], ct[i], i \in K)
    BY <1>2, JoinStep
  <2>2. at[i] = Len(m[i]) /\ at[i - 1] = Len(m[i - 1])
    BY <1>2, <1>6
  <2>3. i \in K => ct[i] = SubSeq(m[n], Len(m[i - 1]) + 1, Len(m[i]))
    BY <1>2, Found
  <2> QED
    BY <1>4, <2>1, <2>2, <2>3 DEF Grows
<1>10. PICK text : text = m[n]
  OBVIOUS
<1>11. IsText(text, items, partial)
  BY <1>1, <1>7, <1>8, <1>9, <1>10 DEF IsText
<1> QED
  BY <1>3, <1>10, <1>11

\* An alternative has a message when the configuration shows it, and the
\* message says what the configuration asks for.
LEMMA MessageCorrect ==
    ASSUME conf \in Configs, NEW alt \in AlternativeType, NEW partial \in BOOLEAN
    PROVE  /\ Message(alt, partial).ok <=> Shown(alt, partial)
           /\ Says(Message(alt, partial).message, alt, partial)
           /\ Message(alt, partial).message \in Seq(Word)
<1>1. /\ conf.service \in {"aws", "gcp"} /\ conf.time \in Int /\ conf.score \in Int
      /\ alt.items \in Seq(ItemType) /\ alt.transcript \in Seq(Word)
  BY ResultsAssumption DEF AlternativeType
<1>2. CASE ~Filtering
  <2>1. conf.service = "gcp" \/ (conf.time <= 0 /\ conf.score <= 0)
    BY <1>1, <1>2 DEF Filtering
  <2>2. Message(alt, partial) = [message |-> alt.transcript, ok |-> TRUE]
    BY <2>1, Zenon DEF Message, BuildMessage
  <2> QED
    BY <1>1, <1>2, <2>2 DEF Shown, Says
<1>3. CASE Filtering
  <2>1. conf.service # "gcp" /\ ~(conf.time <= 0 /\ conf.score <= 0)
    BY <1>1, <1>3 DEF Filtering
  <2>2. PICK all, n, items : /\ items = alt.items /\ n = Len(items)
                             /\ all = Collected(conf, items, partial)[n]
    OBVIOUS
  <2>3. Message(alt, partial) = [message |-> all.message, ok |-> all.spoken /\ all.message # <<>>]
    BY <2>1, <2>2, Zenon DEF Message, BuildMessage
  <2>4. PICK p, q : p = all.message /\ q = (all.spoken /\ all.message # <<>>)
    OBVIOUS
  <2>5. [message |-> p, ok |-> q].message = p /\ [message |-> p, ok |-> q].ok = q
    OBVIOUS
  <2>6. Message(alt, partial).message = all.message
    BY <2>3, <2>4, <2>5, Zenon
  <2>7. Message(alt, partial).ok <=> (Said(all) /\ all.message # <<>>)
    BY <2>3, <2>4, <2>5, Zenon DEF Said
  <2>8. items \in Seq(ItemType)
    BY <1>1, <2>2
  <2>9. \A i \in 1..n : Kept(conf, items[i], partial) <=> Wanted(items[i], partial)
    <3> TAKE i \in 1..n
    <3>1. items[i] \in ItemType
      BY <2>2, <2>8
    <3> QED
      BY <3>1, KeptWanted
  <2>10. Said(all) <=> \E i \in 1..n : Wanted(items[i], partial) /\ items[i].type = "pronunciation"
    <3>1. Said(all) <=> \E i \in KeptItems(conf, items, partial) : items[i].type = "pronunciation"
      BY <2>2, <2>8, LoopSpoken
    <3> QED
      BY <2>2, <2>9, <3>1 DEF KeptItems
  <2>11. all.message # <<>> <=> \E i \in 1..n : Wanted(items[i], partial) /\ items[i].content # <<>>
    <3>1. PICK m, ct, K : /\ m = Texts(conf, items, partial)
                          /\ ct = Contents(items) /\ K = KeptItems(conf, items, partial)
      OBVIOUS
    <3>2. n \in Nat /\ Joins(m, n, ct, K)
      BY <2>2, <2>8, <3>1, LoopJoins
    <3>3. m[n] = <<>> <=> \A i \in 1..n : i \in K => ct[i] = <<>>
      BY <3>2, JoinsEmpty
    <3>4. m[n] = all.message
      BY <2>2, <3>1, <3>2 DEF Texts
    <3>5. \A i \in 1..n : (i \in K <=> Wanted(items[i], partial)) /\ ct[i] = items[i].content
      BY <2>2, <2>9, <3>1 DEF KeptItems, Contents
    <3> QED
      BY <3>3, <3>4, <3>5
  <2>12. Message(alt, partial).ok <=> Shown(alt, partial)
    BY <1>3, <2>2, <2>7, <2>10, <2>11, Zenon DEF Shown
  <2>13. IsText(all.message, items, partial)
    BY <2>2, <2>8, LoopText
  <2>14. all.message \in Seq(Word)
    <3>1. PICK m : m = Texts(conf, items, partial)
      OBVIOUS
    <3>2. n \in Nat /\ Joins(m, n, Contents(items), KeptItems(conf, items, partial))
      BY <2>2, <2>8, <3>1, LoopJoins
    <3>3. m[n] = all.message
      BY <2>2, <3>1, <3>2 DEF Texts
    <3>4. m[n] \in Seq(Word)
      BY <3>2 DEF Joins
    <3> QED
      BY <3>3, <3>4
  <2> QED
    BY <1>3, <2>2, <2>6, <2>12, <2>13, <2>14, Zenon DEF Says
<1> QED
  BY <1>2, <1>3

-----------------------------------------------------------------------------
(* The inductive invariant *)

MessageType == [message : Seq(Word), partial : Seq(BOOLEAN),
                id : Seq({res.id : res \in ServiceResults})]

Types ==
    /\ conf \in Configs
    /\ seen \in Seq(ServiceResults)
    /\ pending \in Seq(AlternativeType)
    /\ out \in Seq(MessageType)

\* What is left of the last result is the end of its alternatives.
Rest ==
    LET res == seen[Len(seen)]
        skip == Len(res.alternatives) - Len(pending)
    IN  pending # <<>> =>
           /\ seen # <<>>
           /\ ~(conf.finalOnly /\ res.partial)
           /\ skip \in Nat
           /\ \A i \in 1..Len(pending) : pending[i] = res.alternatives[skip + i]

IInv == Types /\ Rest /\ SentAsConfigured

LEMMA PromisedMembers ==
    \A p : p \in Promised <=>
       \E r \in 1..Len(seen) : \E a \in 1..Looked(r) :
          p = <<r, a>> /\ Shown(seen[r].alternatives[a], seen[r].partial)
BY DEF Promised

LEMMA PromisedMembersNext ==
    \A p : p \in Promised' <=>
       \E r \in 1..Len(seen') : \E a \in 1..Looked(r)' :
          p = <<r, a>> /\ Shown(seen[r].alternatives[a], seen[r].partial)'
BY DEF Promised

\* What is shown and what a message carries depends on the configuration and on
\* the result it comes from.
LEMMA ShownStays ==
    ASSUME conf' = conf, NEW alt, NEW partial
    PROVE  Shown(alt, partial)' <=> Shown(alt, partial)
BY DEF Shown, Filtering, Wanted, TooShort, TooWeak

LEMMA CarriesStays ==
    ASSUME conf' = conf, NEW message, NEW p, seen'[p[1]] = seen[p[1]]
    PROVE  Carries(message, p)' <=> Carries(message, p)
BY DEF Carries, Says, IsText, Filtering, Wanted, TooShort, TooWeak

LEMMA NothingNew ==
    ASSUME SentAsConfigured, UNCHANGED <<conf, out>>, Promised' = Promised,
           \A p \in Promised : seen'[p[1]] = seen[p[1]]
    PROVE  SentAsConfigured'
<1>1. PICK from \in [1..Len(out) -> Promised] :
         /\ \A i \in 1..Len(out) : Carries(out[i], from[i])
         /\ \A i, j \in 1..Len(out) : i < j => Before(from[i], from[j])
         /\ \A p \in Promised : \E i \in 1..Len(out) : from[i] = p
  BY DEF SentAsConfigured
<1>2. ASSUME NEW i \in 1..Len(out)
      PROVE  Carries(out[i], from[i])'
  <2>1. PICK o, p : o = out[i] /\ o = out'[i] /\ p = from[i]
    OBVIOUS
  <2>2. Carries(o, p)' <=> Carries(o, p)
    BY <2>1, CarriesStays
  <2>3. Carries(o, p)
    BY <1>1, <2>1
  <2> QED
    BY <2>1, <2>2, <2>3
<1>3. /\ from \in [1..Len(out') -> Promised']
      /\ \A i \in 1..Len(out') : Carries(out[i], from[i])'
      /\ \A i, j \in 1..Len(out') : i < j => Before(from[i], from[j])
      /\ \A p \in Promised' : \E i \in 1..Len(out') : from[i] = p
  BY <1>1, <1>2
<1> QED
  BY <1>3, Zenon DEF SentAsConfigured, Before

LEMMA LookedStays ==
    ASSUME conf' = conf, NEW r, seen'[r] = seen[r],
           \/ r < Len(seen) /\ r < Len(seen')
           \/ Len(seen') = Len(seen) /\ pending' = pending
    PROVE  Looked(r)' = Looked(r)
BY DEF Looked

\* A new result promises nothing before its first alternative is looked at.
LEMMA ReceiveKeeps ==
    ASSUME IInv, NEW res \in ServiceResults, Receive(res)
    PROVE  IInv'
<1>1. PICK n \in Nat : n = Len(seen)
  BY DEF IInv, Types
<1>2. /\ seen' \in Seq(ServiceResults) /\ Len(seen') = n + 1 /\ seen'[n + 1] = res
      /\ \A r \in 1..n : seen'[r] = seen[r]
  BY <1>1 DEF IInv, Types, Receive
<1>3. res.alternatives \in Seq(AlternativeType) /\ res.partial \in BOOLEAN
  BY ResultsAssumption
<1>4. Types'
  BY <1>2, <1>3 DEF IInv, Types, Receive
<1>5. Rest'
  <2> SUFFICES ASSUME pending' # <<>>
               PROVE  Rest'
    BY DEF Rest
  <2>1. pending' = res.alternatives /\ ~(conf.finalOnly /\ res.partial) /\ conf' = conf
    BY DEF Receive
  <2>2. Len(res.alternatives) - Len(pending') = 0
    BY <1>3, <2>1
  <2> QED
    BY <1>2, <1>3, <2>1, <2>2 DEF Rest
<1>6. ASSUME NEW r \in 1..n
      PROVE  Looked(r)' = Looked(r)
  <2>1. CASE r < n
    <3>1. conf' = conf /\ seen'[r] = seen[r] /\ r < Len(seen) /\ r < Len(seen')
      BY <1>1, <1>2, <2>1 DEF Receive
    <3> QED
      BY <3>1, LookedStays
  <2>2. CASE r = n
    <3>1. pending = <<>> /\ conf' = conf /\ seen'[r] = seen[r]
      BY <1>2 DEF Receive
    <3>2. Len(seen[r].alternatives) \in Nat
      <4>1. seen[r] \in ServiceResults
        BY <1>1 DEF IInv, Types
      <4> QED
        BY <4>1, ResultsAssumption
    <3> QED
      BY <1>1, <1>2, <2>2, <3>1, <3>2 DEF Looked
  <2> QED
    BY <1>1, <2>1, <2>2
<1>7. Looked(n + 1)' = 0
  BY <1>1, <1>2, <1>3 DEF Looked, Receive
<1>8. ASSUME NEW r \in 1..n, NEW a
      PROVE  Shown(seen[r].alternatives[a], seen[r].partial)'
                <=> Shown(seen[r].alternatives[a], seen[r].partial)
  <2>1. PICK alt, partial : /\ alt = seen[r].alternatives[a] /\ alt = seen'[r].alternatives[a]
                            /\ partial = seen[r].partial /\ partial = seen'[r].partial
    BY <1>2
  <2>2. Shown(alt, partial)' <=> Shown(alt, partial)
    BY ShownStays DEF Receive
  <2> QED
    BY <2>1, <2>2
<1>9. Promised' = Promised
  <2>1. ASSUME NEW p
        PROVE  p \in Promised' <=> p \in Promised
    <3>1. p \in Promised <=>
             \E r \in 1..n : \E a \in 1..Looked(r) :
                p = <<r, a>> /\ Shown(seen[r].alternatives[a], seen[r].partial)
      BY <1>1, PromisedMembers
    <3>2. p \in Promised' <=>
             \E r \in 1..(n + 1) : \E a \in 1..Looked(r)' :
                p = <<r, a>> /\ Shown(seen[r].alternatives[a], seen[r].partial)'
      BY <1>2, PromisedMembersNext
    <3>3. \A r \in 1..(n + 1) : r \in 1..n \/ r = n + 1
      OBVIOUS
    <3>4. 1..Looked(n + 1)' = {}
      BY <1>7
    <3>5. 1..n \subseteq 1..(n + 1)
      OBVIOUS
    <3> QED
      BY <1>6, <1>8, <3>1, <3>2, <3>3, <3>4, <3>5, Zenon
  <2> QED
    BY <2>1
<1>10. \A p \in Promised : seen'[p[1]] = seen[p[1]]
  BY <1>1, <1>2, PromisedMembers
<1> QED
  BY <1>4, <1>5, <1>9, <1>10, NothingNew DEF IInv, Receive

\* Where nothing is looked at, nothing is promised or sent.
LEMMA StandingStill ==
    ASSUME IInv, UNCHANGED <<conf, seen, pending, out>>
    PROVE  IInv'
<1>1. Types' /\ Rest'
  BY DEF IInv, Types, Rest
<1>2. Promised' = Promised
  BY DEF Promised, Looked, Shown, Filtering, Wanted, TooShort, TooWeak
<1> QED
  BY <1>1, <1>2, NothingNew DEF IInv

LEMMA AtMostOne == ASSUME NEW S, NEW x \in S PROVE <<x>> \in Seq(S) /\ <<>> \in Seq(S)
OBVIOUS

\* A looked-at alternative is the latest of those promised, or is not promised,
\* and then nothing is sent for it.
LEMMA AlternativeKeeps ==
    ASSUME IInv, Alternative
    PROVE  IInv'
<1>1. PICK n, res, alts, k, skip, alt, m :
         /\ n = Len(seen) /\ res = seen[n] /\ alts = res.alternatives
         /\ k = Len(pending) /\ skip = Len(alts) - k
         /\ alt = Head(pending) /\ m = Message(alt, res.partial)
  OBVIOUS
<1>2. /\ conf' = conf /\ seen' = seen /\ pending' = Tail(pending) /\ pending # <<>>
      /\ out' = IF m.ok THEN Append(out, Encoded(res, m.message)) ELSE out
  BY <1>1 DEF Alternative
<1>3. /\ n \in Nat \ {0} /\ res \in ServiceResults /\ k \in Nat \ {0}
      /\ pending \in Seq(AlternativeType) /\ out \in Seq(MessageType) /\ conf \in Configs
  BY <1>1, <1>2 DEF IInv, Types, Rest
<1>4. alts \in Seq(AlternativeType) /\ res.partial \in BOOLEAN
  BY <1>1, <1>3, ResultsAssumption
<1>5. /\ ~(conf.finalOnly /\ res.partial) /\ skip \in Nat
      /\ \A i \in 1..k : pending[i] = alts[skip + i]
  BY <1>1, <1>2 DEF IInv, Rest
<1>6. alt = alts[skip + 1] /\ skip + 1 \in 1..Len(alts) /\ alt \in AlternativeType
  BY <1>1, <1>3, <1>4, <1>5
<1>7. /\ pending' \in Seq(AlternativeType) /\ Len(pending') = k - 1
      /\ \A i \in 1..(k - 1) : pending'[i] = alts[(skip + 1) + i]
  <2>1. pending' \in Seq(AlternativeType) /\ Len(pending') = k - 1
    BY <1>1, <1>2, <1>3
  <2>2. ASSUME NEW i \in 1..(k - 1)
        PROVE  pending'[i] = alts[(skip + 1) + i]
    <3>1. pending'[i] = pending[i + 1]
      BY <1>1, <1>2, <1>3
    <3>2. i + 1 \in 1..k /\ skip + (i + 1) = (skip + 1) + i
      BY <1>3, <1>5
    <3> QED
      BY <1>5, <3>1, <3>2
  <2> QED
    BY <2>1, <2>2
<1>8. Rest'
  <2> SUFFICES ASSUME pending' # <<>>
               PROVE  Rest'
    BY DEF Rest
  <2>1. Len(alts) - Len(pending') = skip + 1 /\ skip + 1 \in Nat
    BY <1>1, <1>3, <1>4, <1>5, <1>7
  <2> QED
    BY <1>1, <1>2, <1>3, <1>5, <1>7, <2>1 DEF Rest
<1>9. ASSUME NEW r \in 1..n
      PROVE  r # n => Looked(r)' = Looked(r)
  BY <1>1, <1>2, <1>3 DEF Looked
<1>10. Looked(n) = skip /\ Looked(n)' = skip + 1
  BY <1>1, <1>2, <1>3, <1>4, <1>5, <1>7 DEF Looked
<1>11. ASSUME NEW r \in 1..n, NEW a
       PROVE  Shown(seen[r].alternatives[a], seen[r].partial)'
                 <=> Shown(seen[r].alternatives[a], seen[r].partial)
  <2>1. PICK x, partial : /\ x = seen[r].alternatives[a] /\ x = seen'[r].alternatives[a]
                          /\ partial = seen[r].partial /\ partial = seen'[r].partial
    BY <1>2
  <2>2. Shown(x, partial)' <=> Shown(x, partial)
    BY <1>2, ShownStays
  <2> QED
    BY <2>1, <2>2
<1>12. PICK q : q = <<n, skip + 1>>
  OBVIOUS
<1>13. Shown(seen[n].alternatives[skip + 1], seen[n].partial) <=> Shown(alt, res.partial)
  BY <1>1, <1>6
<1>14. ASSUME NEW p
       PROVE  p \in Promised' <=> \/ p \in Promised
                                  \/ p = q /\ Shown(alt, res.partial)
  <2>1. p \in Promised <=>
           \E r \in 1..n : \E a \in 1..Looked(r) :
              p = <<r, a>> /\ Shown(seen[r].alternatives[a], seen[r].partial)
    BY <1>1, PromisedMembers
  <2>2. p \in Promised' <=>
           \E r \in 1..n : \E a \in 1..Looked(r)' :
              p = <<r, a>> /\ Shown(seen[r].alternatives[a], seen[r].partial)'
    BY <1>1, <1>2, PromisedMembersNext
  <2>3. \A r \in 1..n : \A a : a \in 1..Looked(r)' <=> \/ a \in 1..Looked(r)
                                                       \/ r = n /\ a = skip + 1
    BY <1>3, <1>5, <1>9, <1>10
  <2>4. n \in 1..n
    BY <1>3
  <2> QED
    BY <1>11, <1>12, <1>13, <2>1, <2>2, <2>3, <2>4, Zenon
<1>15. ASSUME NEW p \in Promised
       PROVE  Before(p, q)
  <2>1. PICK r \in 1..n : \E a : a \in 1..Looked(r) /\ p = <<r, a>>
    BY <1>1, PromisedMembers
  <2>2. PICK a : a \in 1..Looked(r) /\ p = <<r, a>>
    BY <2>1
  <2> QED
    BY <1>3, <1>5, <1>10, <1>12, <2>1, <2>2 DEF Before
<1>16. /\ m.ok <=> Shown(alt, res.partial)
       /\ Says(m.message, alt, res.partial)
       /\ m.message \in Seq(Word)
  BY <1>1, <1>3, <1>4, <1>6, MessageCorrect
<1>17. \A p \in Promised : seen'[p[1]] = seen[p[1]]
  BY <1>2
<1>18. CASE ~Shown(alt, res.partial)
  <2>1. Promised' = Promised
    BY <1>14, <1>18
  <2>2. out' = out
    BY <1>2, <1>16, <1>18
  <2>3. SentAsConfigured'
    BY <1>2, <1>17, <2>1, <2>2, NothingNew DEF IInv
  <2> QED
    BY <1>2, <1>3, <1>7, <1>8, <2>2, <2>3 DEF IInv, Types
<1>19. CASE Shown(alt, res.partial)
  <2>1. PICK e : e = Encoded(res, m.message)
    OBVIOUS
  <2>2. PICK l \in Nat : l = Len(out)
    BY <1>3
  <2>3. out' = Append(out, e)
    BY <1>2, <1>16, <1>19, <2>1
  <2>4. e \in MessageType
    <3>1. PICK ids : ids = {x.id : x \in ServiceResults}
      OBVIOUS
    <3>2. PICK f, g : /\ f = IF conf.details THEN <<res.partial>> ELSE <<>>
                      /\ g = IF conf.details THEN <<res.id>> ELSE <<>>
      OBVIOUS
    <3>3. res.id \in ids
      BY <1>3, <3>1
    <3>4. f \in Seq(BOOLEAN) /\ g \in Seq(ids)
      BY <1>4, <3>2, <3>3, AtMostOne, Zenon
    <3>5. e = [message |-> m.message, partial |-> f, id |-> g]
      BY <2>1, <3>2 DEF Encoded
    <3> QED
      BY <1>16, <3>1, <3>4, <3>5 DEF MessageType
  <2>5. /\ out' \in Seq(MessageType) /\ Len(out') = l + 1 /\ out'[l + 1] = e
        /\ \A i \in 1..l : out'[i] = out[i]
    BY <1>3, <2>2, <2>3, <2>4
  <2>6. Carries(e, q)
    BY <1>1, <1>6, <1>12, <1>16, <2>1 DEF Carries, Encoded
  <2>7. PICK old \in [1..l -> Promised] :
           /\ \A i \in 1..l : Carries(out[i], old[i])
           /\ \A i, j \in 1..l : i < j => Before(old[i], old[j])
           /\ \A p \in Promised : \E i \in 1..l : old[i] = p
    BY <2>2 DEF IInv, SentAsConfigured
  <2>8. PICK from : from = [i \in 1..(l + 1) |-> IF i = l + 1 THEN q ELSE old[i]]
    OBVIOUS
  <2>9. from[l + 1] = q /\ \A i \in 1..l : from[i] = old[i] /\ i \in 1..(l + 1)
    BY <2>8
  <2>10. \A i \in 1..(l + 1) : i \in 1..l \/ i = l + 1
    OBVIOUS
  <2>11. from \in [1..(l + 1) -> Promised']
    BY <1>14, <1>19, <2>7, <2>8, <2>9, <2>10
  <2>12. ASSUME NEW i \in 1..(l + 1)
         PROVE  Carries(out[i], from[i])'
    <3>1. PICK o, p : o = out'[i] /\ p = from[i]
      OBVIOUS
    <3>2. Carries(o, p)
      BY <2>5, <2>6, <2>7, <2>9, <2>10, <3>1
    <3>3. Carries(o, p)' <=> Carries(o, p)
      BY <1>2, CarriesStays
    <3> QED
      BY <3>1, <3>2, <3>3
  <2>13. ASSUME NEW i \in 1..(l + 1), NEW j \in 1..(l + 1), i < j
         PROVE  Before(from[i], from[j])
    <3>1. i \in 1..l
      BY <2>13
    <3>2. CASE j \in 1..l
      BY <2>7, <2>9, <2>13, <3>1, <3>2
    <3>3. CASE j = l + 1
      BY <1>15, <2>7, <2>9, <3>1, <3>3
    <3> QED
      BY <2>10, <3>2, <3>3
  <2>14. ASSUME NEW p \in Promised'
         PROVE  \E i \in 1..(l + 1) : from[i] = p
    <3>1. l + 1 \in 1..(l + 1)
      OBVIOUS
    <3> QED
      BY <1>14, <2>7, <2>9, <3>1
  <2>15. SentAsConfigured'
    <3>1. /\ from \in [1..Len(out') -> Promised']
          /\ \A i \in 1..Len(out') : Carries(out[i], from[i])'
          /\ \A i, j \in 1..Len(out') : i < j => Before(from[i], from[j])
          /\ \A p \in Promised' : \E i \in 1..Len(out') : from[i] = p
      BY <2>5, <2>11, <2>12, <2>13, <2>14
    <3> QED
      BY <3>1, Zenon DEF SentAsConfigured, Before
  <2> QED
    BY <1>2, <1>3, <1>7, <1>8, <2>5, <2>15 DEF IInv, Types
<1> QED
  BY <1>18, <1>19

LEMMA Invariance == Spec => []IInv
<1>1. Init => IInv
  <2> SUFFICES ASSUME Init
               PROVE  IInv
    OBVIOUS
  <2>1. Types /\ Rest
    BY DEF Init, Types, Rest
  <2>2. 1..Len(seen) = {} /\ 1..Len(out) = {}
    BY DEF Init
  <2>3. Promised = {}
    BY <2>2, PromisedMembers
  <2>4. PICK from : from = [i \in {} |-> i]
    OBVIOUS
  <2>5. from \in [1..Len(out) -> Promised]
    BY <2>2, <2>4
  <2> QED
    BY <2>1, <2>2, <2>3, <2>5 DEF IInv, SentAsConfigured
<1>2. IInv /\ [Next]_vars => IInv'
  <2> SUFFICES ASSUME IInv, [Next]_vars
               PROVE  IInv'
    OBVIOUS
  <2>1. CASE \E res \in ServiceResults : Receive(res)
    BY <2>1, ReceiveKeeps
  <2>2. CASE Alternative
    BY <2>2, AlternativeKeeps
  <2>3. CASE EncodeFails \/ Ends \/ UNCHANGED vars
    BY <2>3, StandingStill DEF EncodeFails, Ends, vars
  <2> QED
    BY <2>1, <2>2, <2>3 DEF Next
<1> QED
  BY <1>1, <1>2, PTL DEF Spec

\* The client gets exactly the messages the configuration promises, in the order
\* of the service, for every configuration and every sequence of results.
THEOREM SendsAsConfigured == Spec => []SentAsConfigured
<1>1. IInv => SentAsConfigured
  BY DEF IInv
<1> QED
  BY <1>1, Invariance, PTL

\* A word of a text put together from items is in one of the wanted ones.
LEMMA WordOfItem ==
    ASSUME NEW text \in Seq(Word), NEW items \in Seq(ItemType), NEW partial,
           IsText(text, items, partial), NEW w \in 1..Len(text)
    PROVE  \E k \in 1..Len(items) : \E v \in 1..Len(items[k].content) :
              Wanted(items[k], partial) /\ items[k].content[v] = text[w]
<1>1. PICK n \in Nat : n = Len(items)
  OBVIOUS
<1>2. PICK at \in [0..n -> 0..Len(text)] :
         /\ at[0] = 0 /\ at[n] = Len(text)
         /\ \A i \in 1..n :
               IF Wanted(items[i], partial)
               THEN /\ at[i] = at[i - 1] + Len(items[i].content)
                    /\ items[i].content = SubSeq(text, at[i - 1] + 1, at[i])
               ELSE at[i] = at[i - 1]
  BY <1>1 DEF IsText
<1>3. \A i \in 0..n : at[i] \in Nat /\ at[i] <= Len(text)
  BY <1>2
<1>4. PICK k \in 1..n : at[k - 1] < w /\ w <= at[k]
  <2> DEFINE S == {j \in Nat : j <= n /\ w <= at[j] =>
                                  \E k \in 1..n : at[k - 1] < w /\ w <= at[k]}
  <2>1. 0 \in S
    BY <1>2
  <2>2. ASSUME NEW j \in Nat, j \in S
        PROVE  j + 1 \in S
    <3> SUFFICES ASSUME j + 1 <= n, w <= at[j + 1]
                 PROVE  \E k \in 1..n : at[k - 1] < w /\ w <= at[k]
      OBVIOUS
    <3>1. CASE w <= at[j]
      BY <2>2, <3>1
    <3>2. CASE ~(w <= at[j])
      <4>1. j + 1 \in 1..n /\ (j + 1) - 1 = j /\ at[j] \in Nat
        BY <1>3
      <4>2. at[j] < w
        BY <3>2, <4>1
      <4> QED
        BY <4>1, <4>2
    <3> QED
      BY <3>1, <3>2
  <2>3. n \in S
    <3> HIDE DEF S
    <3> QED
      BY <2>1, <2>2, SetInduction
  <2> QED
    BY <1>2, <2>3
<1>5. PICK b, c : b = at[k - 1] /\ c = at[k] /\ b \in Nat /\ c \in Nat /\ c <= Len(text)
  BY <1>3
<1>6. PICK x : x = items[k].content
  OBVIOUS
<1>7. Wanted(items[k], partial) /\ c = b + Len(x) /\ x = SubSeq(text, b + 1, c)
  BY <1>2, <1>4, <1>5, <1>6
<1>8. x \in Seq(Word)
  <2>1. items[k] \in ItemType
    BY <1>1
  <2> QED
    BY <1>6, <2>1 DEF ItemType
<1>9. PICK v : v = w - b
  OBVIOUS
<1>10. PICK l \in Nat : l = Len(x) /\ c = b + l
  BY <1>7, <1>8
<1>11. v \in 1..l
  <2>1. b < w /\ w <= b + l /\ w \in Nat
    BY <1>4, <1>5, <1>10
  <2> QED
    BY ONLY <1>5, <1>9, <1>10, <2>1
<1>12. x[v] = text[w]
  <2>1. \A i \in 1..l : SubSeq(text, b + 1, b + l)[i] = text[b + i]
    <3>1. \A i \in (b + 1)..(b + l) : text[i] \in Word
      BY <1>5, <1>10
    <3>2. b + 1 \in Int /\ b + l \in Int /\ (b + l) - (b + 1) + 1 = l
      BY <1>5
    <3>3. \A i \in 1..l : SubSeq(text, b + 1, b + l)[i] = text[(b + 1) + i - 1]
      BY <3>1, <3>2, SubSeqProperties
    <3>4. \A i \in 1..l : (b + 1) + i - 1 = b + i
      BY <1>5
    <3> QED
      BY <3>3, <3>4
  <2>2. b + v = w
    BY <1>5, <1>9
  <2> QED
    BY <1>7, <1>10, <1>11, <2>1, <2>2
<1> QED
  BY <1>1, <1>6, <1>7, <1>10, <1>11, <1>12

\* With final_result_only and a minimum score every word sent to a client of aws
\* is one the service is sure of.
THEOREM HidesWeakWords == Spec => []WeakWordsHidden
<1>1. IInv => WeakWordsHidden
  <2> SUFFICES ASSUME IInv, conf.service = "aws", conf.finalOnly, conf.score > 0,
                      NEW i \in 1..Len(out), NEW w \in 1..Len(out[i].message)
               PROVE  \E r \in 1..Len(seen) : \E a \in 1..Len(seen[r].alternatives) :
                         LET items == seen[r].alternatives[a].items IN
                         /\ ~seen[r].partial
                         /\ \E k \in 1..Len(items) : \E v \in 1..Len(items[k].content) :
                               Trusted(items[k]) /\ items[k].content[v] = out[i].message[w]
    BY DEF WeakWordsHidden
  <2>1. conf.score \in Int /\ conf.time \in Int
    BY ResultsAssumption DEF IInv, Types
  <2>2. PICK from \in [1..Len(out) -> Promised] :
           \A j \in 1..Len(out) : Carries(out[j], from[j])
    BY DEF IInv, SentAsConfigured
  <2>3. PICK r, a : r \in 1..Len(seen) /\ a \in 1..Looked(r) /\ from[i] = <<r, a>>
    BY <2>2, PromisedMembers
  <2>4. PICK res, alt, items, text : /\ res = seen[r] /\ alt = res.alternatives[a]
                                     /\ items = alt.items /\ text = out[i].message
    OBVIOUS
  <2>5. /\ res \in ServiceResults /\ res.alternatives \in Seq(AlternativeType)
        /\ Len(pending) \in Nat
    BY <2>3, <2>4, ResultsAssumption DEF IInv, Types
  <2>6. ~res.partial /\ a \in 1..Len(res.alternatives)
    BY <2>3, <2>4, <2>5 DEF Looked
  <2>7. items \in Seq(ItemType) /\ text \in Seq(Word)
    <3>1. out[i] \in MessageType
      BY DEF IInv, Types
    <3>2. alt \in AlternativeType
      BY <2>4, <2>5, <2>6
    <3> QED
      BY <2>4, <3>1, <3>2 DEF MessageType, AlternativeType
  <2>8. Filtering
    BY DEF Filtering
  <2>9. IsText(text, items, res.partial)
    <3>1. PICK o : o = out[i] /\ Carries(o, <<r, a>>)
      BY <2>2, <2>3
    <3>2. Says(o.message, alt, res.partial)
      BY <2>4, <3>1 DEF Carries
    <3> QED
      BY <2>4, <2>8, <3>1, <3>2 DEF Says
  <2>10. PICK k \in 1..Len(items) : \E v \in 1..Len(items[k].content) :
            Wanted(items[k], res.partial) /\ items[k].content[v] = text[w]
    <3>1. w \in 1..Len(text)
      BY <2>4
    <3>2. PICK partial : partial = res.partial /\ IsText(text, items, partial)
      BY <2>9
    <3>3. \E k \in 1..Len(items) : \E v \in 1..Len(items[k].content) :
             Wanted(items[k], partial) /\ items[k].content[v] = text[w]
      BY <2>7, <3>1, <3>2, WordOfItem
    <3> QED
      BY <3>2, <3>3, Zenon
  <2>11. Trusted(items[k])
    <3>1. items[k] \in ItemType
      BY <2>7
    <3> QED
      BY <2>1, <2>6, <2>10, <3>1 DEF Trusted, Wanted, TooWeak, ItemType
  <2> QED
    BY <2>3, <2>4, <2>6, <2>10, <2>11
<1> QED
  BY <1>1, Invariance, PTL
====
