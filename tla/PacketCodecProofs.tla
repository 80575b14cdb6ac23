------------------------- MODULE PacketCodecProofs -------------------------
(***************************************************************************)
(* What holds of texts of any length: a message arrives as it was edited,  *)
(* a kind is an action, a redirection leads to where it should.            *)
(***************************************************************************)
EXTENDS PacketCodec, SequenceTheorems, WellFoundedInduction, TLAPS
-----------------------------------------------------------------------------
(* Numbers, sequences and folds.  A lemma cannot be about any formula, so   *)
(* induction is over a set of numbers or of sequences.                      *)

\* A set of numbers has a least one.
LEMMA LeastNumber ==
  ASSUME NEW T \in SUBSET Nat, T # {}
  PROVE  \E x \in T : \A y \in T : x <= y
<1>1. PICK x \in T : \A y \in T : ~(<<y, x>> \in OpToRel(<, Nat))
  BY NatLessThanWellFounded, WFMin
<1>2. \A y \in T : ~(y < x) BY <1>1 DEF OpToRel
<1> QED BY <1>2

\* Induction over numbers.
LEMMA NatSetInduction ==
  ASSUME NEW S, 0 \in S, \A n \in Nat : n \in S => n + 1 \in S
  PROVE  Nat \subseteq S
<1> SUFFICES ASSUME Nat \ S # {} PROVE FALSE OBVIOUS
<1>1. PICK x \in Nat \ S : \A y \in Nat \ S : x <= y BY LeastNumber
<1>2. x # 0 /\ x - 1 \in Nat /\ x - 1 < x BY <1>1
<1>3. x - 1 \in S BY <1>1, <1>2
<1>4. (x - 1) + 1 \in S BY <1>2, <1>3
<1> QED BY <1>1, <1>4

\* Induction over sequences, from the left.
LEMMA SeqInduction ==
  ASSUME NEW A, NEW S, <<>> \in S, \A s \in Seq(A), x \in A : s \in S => Append(s, x) \in S
  PROVE  Seq(A) \subseteq S
<1> DEFINE N == {n \in Nat : \A s \in Seq(A) : Len(s) = n => s \in S}
<1>1. 0 \in N
  <2>1. \A s \in Seq(A) : Len(s) = 0 => s = <<>> OBVIOUS
  <2> QED BY <2>1
<1>2. ASSUME NEW n \in Nat, n \in N PROVE n + 1 \in N
  <2>1. ASSUME NEW s \in Seq(A), Len(s) = n + 1 PROVE s \in S
    <3>1. /\ SubSeq(s, 1, n) \in Seq(A) /\ Len(SubSeq(s, 1, n)) = n /\ s[n + 1] \in A
          /\ s = Append(SubSeq(s, 1, n), s[n + 1])
      BY <2>1
    <3>2. SubSeq(s, 1, n) \in S BY <1>2, <3>1
    <3> QED BY <3>1, <3>2
  <2> QED BY <2>1
<1> HIDE DEF N
<1>3. Nat \subseteq N BY <1>1, <1>2, NatSetInduction
<1>4. ASSUME NEW s \in Seq(A) PROVE s \in S
  <2>1. Len(s) \in N BY <1>3
  <2> QED BY <2>1 DEF N
<1> QED BY <1>4

\* The greatest of the numbers up to n.
LEMMA MaxOfInterval ==
  ASSUME NEW n \in Nat, NEW d \in SUBSET (1..n), n \in d
  PROVE  Max(d) = n
<1>1. \A y \in d : n >= y OBVIOUS
<1>2. Max(d) \in d /\ \A y \in d : Max(d) >= y BY <1>1 DEF Max
<1>3. Max(d) \in 1..n /\ Max(d) >= n BY <1>2
<1> QED BY <1>3

\* So has every set of numbers up to n that is not empty.
LEMMA MaxOfSet ==
  ASSUME NEW n \in Nat, NEW d \in SUBSET (1..n), d # {}
  PROVE  Max(d) \in d
<1> DEFINE T == {n - x : x \in d}
<1>1. T \in SUBSET Nat /\ T # {}
  <2>1. \A x \in d : n - x \in Nat OBVIOUS
  <2>2. PICK x \in d : TRUE OBVIOUS
  <2>3. n - x \in T OBVIOUS
  <2> QED BY <2>1, <2>3
<1>2. PICK y \in T : \A z \in T : y <= z BY <1>1, LeastNumber
<1>3. PICK x \in d : y = n - x BY <1>2
<1>4. \A z \in d : x >= z
  <2>1. ASSUME NEW z \in d PROVE x >= z
    <3>1. n - z \in T OBVIOUS
    <3>2. y <= n - z BY <1>2, <3>1
    <3> QED BY <1>3, <3>2
  <2> QED BY <2>1
<1> HIDE DEF T
<1> QED BY <1>4 DEF Max

\* The function by which FoldLeft is defined; op says what an element
\* makes of a value.
IsFold(g, base, op, s, n) ==
    g = [d \in SUBSET (1..n) |-> IF d = {} THEN base ELSE op[s[Max(d)]][g[d \ {Max(d)}]]]

\* There is such a function: from the one for n indices the one for n + 1.
LEMMA FoldExists ==
  ASSUME NEW A, NEW B, NEW base \in A, NEW op \in [B -> [A -> A]], NEW s \in Seq(B)
  PROVE  \E g \in [SUBSET (1..Len(s)) -> A] : IsFold(g, base, op, s, Len(s))
<1> DEFINE Has(n) == \E g \in [SUBSET (1..n) -> A] : IsFold(g, base, op, s, n)
           S == {n \in Nat : n <= Len(s) => Has(n)}
<1>1. 0 \in S
  <2> DEFINE g == [d \in SUBSET (1..0) |-> base]
  <2>1. 1..0 = {} OBVIOUS
  <2>2. IsFold(g, base, op, s, 0) BY <2>1 DEF IsFold
  <2>3. g \in [SUBSET (1..0) -> A] OBVIOUS
  <2> QED BY <2>2, <2>3
<1>2. ASSUME NEW n \in Nat, n \in S PROVE n + 1 \in S
  <2> SUFFICES ASSUME n + 1 <= Len(s) PROVE Has(n + 1)
    <3> HIDE DEF Has
    <3> QED OBVIOUS
  <2>0. Has(n)
    <3> HIDE DEF Has
    <3> QED BY <1>2
  <2>1. PICK g \in [SUBSET (1..n) -> A] : IsFold(g, base, op, s, n) BY <2>0
  <2> DEFINE new(d) == IF n + 1 \in d THEN op[s[n + 1]][g[d \ {n + 1}]] ELSE g[d]
             h == [d \in SUBSET (1..(n + 1)) |-> new(d)]
  <2>2. ASSUME NEW d \in SUBSET (1..(n + 1)), d # {}
        PROVE  new(d) = op[s[Max(d)]][h[d \ {Max(d)}]]
    <3>1. d \ {Max(d)} \in SUBSET (1..(n + 1)) OBVIOUS
    <3>2. h[d \ {Max(d)}] = new(d \ {Max(d)}) BY <3>1
    <3>3. CASE n + 1 \in d
      <4>1. Max(d) = n + 1 BY <3>3, MaxOfInterval
      <4> QED BY <3>2, <3>3, <4>1
    <3>4. CASE n + 1 \notin d
      <4>1. d \in SUBSET (1..n) BY <3>4
      <4>2. g[d] = op[s[Max(d)]][g[d \ {Max(d)}]] BY <2>1, <2>2, <4>1 DEF IsFold
      <4> QED BY <3>2, <3>4, <4>2
    <3> QED BY <3>3, <3>4
  <2>3. new({}) = base
    <3>1. {} \in SUBSET (1..n) OBVIOUS
    <3>2. g[{}] = base BY <2>1, <3>1 DEF IsFold
    <3> QED BY <3>2
  <2>4. h \in [SUBSET (1..(n + 1)) -> A]
    <3>1. ASSUME NEW d \in SUBSET (1..(n + 1)) PROVE new(d) \in A
      <4>1. CASE n + 1 \in d
        <5>1. d \ {n + 1} \in SUBSET (1..n) /\ n + 1 \in 1..Len(s) OBVIOUS
        <5>2. g[d \ {n + 1}] \in A /\ s[n + 1] \in B BY <5>1, <2>1
        <5> QED BY <4>1, <5>2
      <4>2. CASE n + 1 \notin d
        <5>1. d \in SUBSET (1..n) BY <4>2
        <5> QED BY <4>2, <5>1, <2>1
      <4> QED BY <4>1, <4>2
    <3> QED BY <3>1
  <2>5. h = [d \in SUBSET (1..(n + 1)) |->
                IF d = {} THEN base ELSE op[s[Max(d)]][h[d \ {Max(d)}]]]
    <3> HIDE DEF h
    <3>1. h = [d \in SUBSET (1..(n + 1)) |-> new(d)] BY DEF h
    <3> HIDE DEF new
    <3> QED BY <2>2, <2>3, <3>1
  <2>6. IsFold(h, base, op, s, n + 1)
    <3> HIDE DEF h
    <3> QED BY <2>5 DEF IsFold
  <2> HIDE DEF h
  <2> QED BY <2>4, <2>6
<1> HIDE DEF S
<1>3. Len(s) \in S BY <1>1, <1>2, NatSetInduction
<1>4. Has(Len(s))
  <2> HIDE DEF Has
  <2> QED BY <1>3 DEF S
<1> QED BY <1>4

\* The values a fold goes through from the left.
IsTrace(f, base, op, s, n) ==
    f[0] = base /\ \A i \in 1..n : f[i] = op[s[i]][f[i - 1]]

\* A function that takes the steps of a fold goes through these values.
LEMMA FoldTrace ==
  ASSUME NEW A, NEW B, NEW base \in A, NEW op \in [B -> [A -> A]], NEW s \in Seq(B),
         NEW it, it[1..0] = base,
         \A i \in 1..Len(s) : it[1..(i - 1)] \in A => it[1..i] = op[s[i]][it[1..(i - 1)]]
  PROVE  \E f \in [0..Len(s) -> A] : IsTrace(f, base, op, s, Len(s)) /\ it[1..Len(s)] = f[Len(s)]
<1> DEFINE n == Len(s)
           f == [i \in 0..n |-> it[1..i]]
           S == {i \in Nat : i <= n => it[1..i] \in A}
<1>1. n \in Nat /\ \A i \in 1..n : s[i] \in B OBVIOUS
<1>2. 0 \in S OBVIOUS
<1>3. ASSUME NEW i \in Nat, i \in S PROVE i + 1 \in S
  <2> SUFFICES ASSUME i + 1 <= n PROVE it[1..(i + 1)] \in A OBVIOUS
  <2>1. i + 1 \in 1..n /\ (i + 1) - 1 = i OBVIOUS
  <2>2. it[1..i] \in A BY <1>3, <2>1
  <2>3. it[1..(i + 1)] = op[s[i + 1]][it[1..i]] BY <2>1, <2>2
  <2> QED BY <1>1, <2>1, <2>2, <2>3
<1> HIDE DEF S
<1>4. Nat \subseteq S BY <1>2, <1>3, NatSetInduction
<1>5. \A i \in 0..n : it[1..i] \in A BY <1>1, <1>4 DEF S
<1>6. f \in [0..n -> A] BY <1>5
<1>7. f[0] = base BY <1>1
<1>8. ASSUME NEW i \in 1..n PROVE f[i] = op[s[i]][f[i - 1]]
  <2>1. i \in 0..n /\ i - 1 \in 0..n BY <1>1
  <2> QED BY <1>5, <2>1
<1>9. it[1..n] = f[n] BY <1>1
<1> HIDE DEF f
<1> QED BY <1>6, <1>7, <1>8, <1>9 DEF IsTrace

\* Two folds agree as long as their elements do.
LEMMA SameTrace ==
  ASSUME NEW n \in Nat, NEW f, NEW g, NEW base, NEW op, NEW s, NEW t,
         IsTrace(f, base, op, s, n), IsTrace(g, base, op, t, n), \A i \in 1..n : s[i] = t[i]
  PROVE  f[n] = g[n]
<1> DEFINE S == {i \in Nat : i <= n => f[i] = g[i]}
<1>1. 0 \in S BY DEF IsTrace
<1>2. ASSUME NEW i \in Nat, i \in S PROVE i + 1 \in S
  <2> SUFFICES ASSUME i + 1 <= n PROVE f[i + 1] = g[i + 1] OBVIOUS
  <2>1. i + 1 \in 1..n /\ (i + 1) - 1 = i OBVIOUS
  <2>2. f[i + 1] = op[s[i + 1]][f[i]] /\ g[i + 1] = op[t[i + 1]][g[i]] BY <2>1 DEF IsTrace
  <2>3. f[i] = g[i] BY <1>2, <2>1
  <2> QED BY <2>1, <2>2, <2>3
<1> HIDE DEF S
<1>3. n \in S BY <1>1, <1>2, NatSetInduction
<1> QED BY <1>3 DEF S

\* Of a sequence that is one element longer.
LEMMA TraceAppend ==
  ASSUME NEW B, NEW s \in Seq(B), NEW x \in B, NEW base, NEW op, NEW f, NEW g,
         IsTrace(f, base, op, s, Len(s)),
         IsTrace(g, base, op, Append(s, x), Len(Append(s, x)))
  PROVE  g[Len(Append(s, x))] = op[x][f[Len(s)]]
<1> DEFINE t == Append(s, x)
<1>1. /\ Len(s) \in Nat /\ Len(t) = Len(s) + 1 /\ (Len(s) + 1) - 1 = Len(s)
      /\ t[Len(s) + 1] = x /\ \A i \in 1..Len(s) : s[i] = t[i]
  OBVIOUS
<1> HIDE DEF t
<1>2. IsTrace(g, base, op, t, Len(s)) BY <1>1 DEF IsTrace, t
<1>3. f[Len(s)] = g[Len(s)] BY <1>1, <1>2, SameTrace
<1>4. g[Len(s) + 1] = op[t[Len(s) + 1]][g[Len(s)]] BY <1>1 DEF IsTrace, t
<1> QED BY <1>1, <1>3, <1>4 DEF t
-----------------------------------------------------------------------------
(* Splitting a text *)

Text == Seq(Symbols)
Parts == Seq(Text) \ {<<>>}

\* What an empty text is split into.
Unsplit == <<<<>>>>

SplitStep(parts, x, c) ==
    IF x = c THEN Append(parts, <<>>)
    ELSE ReplaceAt(parts, Len(parts), Append(Last(parts), x))

SplitOp(c) == [x \in Symbols |-> [parts \in Parts |-> SplitStep(parts, x, c)]]

LEMMA SplitOpType == ASSUME NEW c PROVE SplitOp(c) \in [Symbols -> [Parts -> Parts]]
<1>1. ASSUME NEW x \in Symbols, NEW p \in Parts PROVE SplitStep(p, x, c) \in Parts
  <2>1. /\ p \in Seq(Text) /\ p # <<>> /\ Len(p) \in Nat \ {0} /\ Last(p) \in Text
    BY DEF Parts, Last
  <2>2. Append(p, <<>>) \in Parts
    <3>1. <<>> \in Text BY DEF Text
    <3> QED BY <2>1, <3>1 DEF Parts
  <2>3. ReplaceAt(p, Len(p), Append(Last(p), x)) \in Parts
    <3>1. Append(Last(p), x) \in Text BY <2>1 DEF Text
    <3> QED BY <2>1, <3>1, ExceptSeq DEF Parts, ReplaceAt
  <2> QED BY <2>2, <2>3 DEF SplitStep
<1> QED BY <1>1 DEF SplitOp

\* Split() takes one symbol after the other.
LEMMA SplitTrace ==
  ASSUME NEW c, NEW s \in Text
  PROVE  \E f \in [0..Len(s) -> Parts] :
            IsTrace(f, Unsplit, SplitOp(c), s, Len(s)) /\ Split(s, c) = f[Len(s)]
<1> DEFINE n == Len(s)
           op == SplitOp(c)
           eq(g) == g = [d \in SUBSET (DOMAIN s) |->
                      IF d = {} THEN Unsplit
                      ELSE IF s[Max(d)] = c THEN Append(g[d \ {Max(d)}], <<>>)
                           ELSE ReplaceAt(g[d \ {Max(d)}], Len(g[d \ {Max(d)}]),
                                          Append(Last(g[d \ {Max(d)}]), s[Max(d)]))]
           it == CHOOSE g : eq(g)
<1>0. n \in Nat /\ DOMAIN s = 1..n /\ \A i \in 1..n : s[i] \in Symbols BY DEF Text
<1>1. Split(s, c) = it[DOMAIN s] BY DEF Split, FoldLeft, MapThenFoldSet, Unsplit
<1>2. Unsplit \in Parts BY DEF Parts, Text, Unsplit
<1>3. op \in [Symbols -> [Parts -> Parts]] BY SplitOpType
<1>4. \E g : eq(g)
  <2>1. PICK g \in [SUBSET (1..n) -> Parts] : IsFold(g, Unsplit, op, s, n)
    <3> HIDE DEF op
    <3> QED BY <1>0, <1>2, <1>3, FoldExists DEF Text
  <2>2. ASSUME NEW d \in SUBSET (1..n), d # {}
        PROVE  g[d] = SplitStep(g[d \ {Max(d)}], s[Max(d)], c)
    <3>1. Max(d) \in d BY <1>0, <2>2, MaxOfSet
    <3>2. g[d \ {Max(d)}] \in Parts /\ s[Max(d)] \in Symbols BY <1>0, <2>1, <3>1
    <3>3. g[d] = op[s[Max(d)]][g[d \ {Max(d)}]] BY <2>1, <2>2 DEF IsFold
    <3> QED BY <3>2, <3>3 DEF SplitOp
  <2>3. g[{}] = Unsplit
    <3>1. {} \in SUBSET (1..n) OBVIOUS
    <3> QED BY <2>1, <3>1 DEF IsFold
  <2>4. eq(g) BY <1>0, <2>1, <2>2, <2>3 DEF SplitStep
  <2> HIDE DEF eq
  <2> QED BY <2>4
<1>5. eq(it)
  <2> HIDE DEF eq
  <2> QED BY <1>4
<1> HIDE DEF it
<1>6. it[1..0] = Unsplit
  <2>1. 1..0 = {} /\ {} \in SUBSET (1..n) OBVIOUS
  <2> QED BY <1>0, <1>5, <2>1
<1>7. ASSUME NEW i \in 1..n, it[1..(i - 1)] \in Parts PROVE it[1..i] = op[s[i]][it[1..(i - 1)]]
  <2>0. n \in Nat BY <1>0
  <2>1. 1..i \in SUBSET (1..n) /\ 1..i # {} /\ i \in 1..i /\ (1..i) \ {i} = 1..(i - 1)
    <3> HIDE DEF n, eq, op
    <3> QED BY <2>0
  <2>2. Max(1..i) = i BY <2>1, MaxOfInterval
  <2>3. it[1..i] = SplitStep(it[1..(i - 1)], s[i], c) BY <1>0, <1>5, <2>1, <2>2 DEF SplitStep
  <2> QED BY <1>0, <1>7, <2>3 DEF SplitOp
<1> HIDE DEF op, eq
<1>8. \E f \in [0..n -> Parts] : IsTrace(f, Unsplit, op, s, n) /\ it[1..n] = f[n]
  BY <1>2, <1>3, <1>6, <1>7, FoldTrace DEF Text
<1> QED BY <1>0, <1>1, <1>8 DEF op

\* Of sequences.
LEMMA AppendBehind ==
  ASSUME NEW A, NEW s \in Seq(A), NEW t \in Seq(A), NEW x \in A
  PROVE  s \o Append(t, x) = Append(s \o t, x)
OBVIOUS

LEMMA FunctionIsSeq ==
  ASSUME NEW A, NEW n \in Nat, NEW f \in [1..n -> A]
  PROVE  f \in Seq(A) /\ Len(f) = n
OBVIOUS

LEMMA HeadIsFirst ==
  ASSUME NEW A, NEW s \in Seq(A), s # <<>>
  PROVE  Head(s) = s[1] /\ Len(s) \in Nat \ {0}
OBVIOUS

\* A function applied to every element.
Mapped(f, s) == [i \in DOMAIN s |-> f[s[i]]]

LEMMA MapAppend ==
  ASSUME NEW A, NEW B, NEW f \in [A -> B], NEW s \in Seq(A), NEW x \in A
  PROVE  /\ Mapped(f, s) \in Seq(B) /\ Len(Mapped(f, s)) = Len(s)
         /\ Mapped(f, Append(s, x)) = Append(Mapped(f, s), f[x])
<1> DEFINE n == Len(s)
           t == Append(s, x)
           p == [i \in DOMAIN s |-> f[s[i]]]
           l == [i \in DOMAIN t |-> f[t[i]]]
           r == Append(p, f[x])
<1>1. /\ n \in Nat /\ DOMAIN s = 1..n /\ \A i \in 1..n : s[i] \in A
      /\ t \in Seq(A) /\ Len(t) = n + 1 /\ DOMAIN t = 1..(n + 1) /\ t[n + 1] = x
      /\ \A i \in 1..n : t[i] = s[i]
  BY AppendProperties
<1> HIDE DEF t, n
<1>2. p \in [1..n -> B] BY <1>1
<1>3. p \in Seq(B) /\ Len(p) = n BY <1>1, <1>2, FunctionIsSeq
<1>4. \A i \in 1..n : p[i] = f[s[i]] BY <1>1
<1>5. l \in [1..(n + 1) -> B] /\ \A i \in 1..(n + 1) : l[i] = f[t[i]]
  <2>1. \A i \in 1..(n + 1) : t[i] \in A BY <1>1
  <2> QED BY <1>1, <2>1
<1> HIDE DEF p, l
<1>6. l \in Seq(B) /\ Len(l) = n + 1
  <2>1. n + 1 \in Nat BY <1>1
  <2> QED BY <1>5, <2>1, FunctionIsSeq
<1>7. r \in Seq(B) /\ Len(r) = n + 1 /\ r[n + 1] = f[x] /\ \A i \in 1..n : r[i] = p[i]
  BY <1>3, AppendProperties
<1> HIDE DEF r
<1>8. ASSUME NEW i \in 1..(n + 1) PROVE l[i] = r[i]
  <2>1. CASE i = n + 1 BY <1>1, <1>5, <1>7, <2>1
  <2>2. CASE i # n + 1
    <3>1. i \in 1..n BY <1>1, <2>2
    <3> QED BY <1>1, <1>4, <1>5, <1>7, <3>1
  <2> QED BY <2>1, <2>2
<1>9. l = r BY <1>6, <1>7, <1>8, SeqEqual
<1> QED BY <1>3, <1>9 DEF n, p, l, r, t, Mapped

LEMMA PartsBehind ==
  \A p, q \in Seq(Text), x \in Text : p \o Append(q, x) = Append(p \o q, x)
<1> SUFFICES ASSUME NEW p \in Seq(Text), NEW q \in Seq(Text), NEW x \in Text
             PROVE  p \o Append(q, x) = Append(p \o q, x)
  OBVIOUS
<1> QED OBVIOUS

\* Texts grow by symbols.
LEMMA CharIsText == <<>> \in Text /\ \A t \in Text, x \in Symbols : Append(t, x) \in Text
BY DEF Text

\* Nothing is one empty part.
LEMMA SplitNothing == ASSUME NEW c PROVE Split(<<>>, c) = Unsplit
<1>1. <<>> \in Text /\ Len(<<>>) = 0 BY DEF Text
<1>2. \E f \in [0..Len(<<>>) -> Parts] :
          IsTrace(f, Unsplit, SplitOp(c), <<>>, Len(<<>>)) /\ Split(<<>>, c) = f[Len(<<>>)]
  BY <1>1, SplitTrace
<1> QED BY <1>1, <1>2 DEF IsTrace

\* A text has at least one part.
LEMMA SplitType == ASSUME NEW c, NEW s \in Text PROVE Split(s, c) \in Parts
<1>1. Len(s) \in Nat BY DEF Text
<1> QED BY <1>1, SplitTrace

\* What one more symbol does to the parts.
LEMMA SplitAppend ==
  ASSUME NEW c, NEW s \in Text, NEW x \in Symbols
  PROVE  Split(Append(s, x), c) = SplitStep(Split(s, c), x, c)
<1> DEFINE t == Append(s, x)
<1>1. t \in Text BY CharIsText
<1>2. PICK f \in [0..Len(s) -> Parts] :
          IsTrace(f, Unsplit, SplitOp(c), s, Len(s)) /\ Split(s, c) = f[Len(s)]
  BY SplitTrace
<1>3. PICK g \in [0..Len(t) -> Parts] :
          IsTrace(g, Unsplit, SplitOp(c), t, Len(t)) /\ Split(t, c) = g[Len(t)]
  BY <1>1, SplitTrace
<1>4. g[Len(t)] = SplitOp(c)[x][f[Len(s)]]
  BY <1>2, <1>3, TraceAppend DEF Text
<1>5. Split(s, c) \in Parts BY SplitType
<1> QED BY <1>2, <1>3, <1>4, <1>5 DEF SplitOp

\* Parts in front do not matter to a step.
LEMMA StepBehind ==
  ASSUME NEW q \in Seq(Text), NEW p \in Parts, NEW x \in Symbols, NEW c
  PROVE  SplitStep(q \o p, x, c) = q \o SplitStep(p, x, c)
<1> DEFINE n == Len(p)
           y == Append(Last(p), x)
<1>1. p \in Seq(Text) /\ n \in Nat \ {0} /\ Last(p) \in Text /\ Len(q) \in Nat
  BY DEF Parts, Last
<1>2. y \in Text BY <1>1, CharIsText
<1>3. <<>> \in Text BY CharIsText
<1>4. Last(q \o p) = Last(p) /\ Len(q \o p) = Len(q) + n /\ q \o p \in Seq(Text)
  BY <1>1 DEF Last
<1> HIDE DEF y
<1>5. Append(q \o p, <<>>) = q \o Append(p, <<>>)
  <2> DEFINE e == <<>>
  <2>1. e \in Text BY <1>3
  <2> HIDE DEF e
  <2>2. Append(q \o p, e) = q \o Append(p, e) BY <1>1, <2>1
  <2> QED BY <2>2 DEF e
<1>6. [(q \o p) EXCEPT ![Len(q) + n] = y] = q \o [p EXCEPT ![n] = y]
  <2> DEFINE l == [(q \o p) EXCEPT ![Len(q) + n] = y]
             r == [p EXCEPT ![n] = y]
  <2>1. r \in Seq(Text) /\ Len(r) = n /\ \A j \in 1..n : r[j] = IF j = n THEN y ELSE p[j]
    BY <1>1, <1>2, ExceptSeq
  <2>2. /\ l \in Seq(Text) /\ Len(l) = Len(q) + n
        /\ \A j \in 1..(Len(q) + n) : l[j] = IF j = Len(q) + n THEN y ELSE (q \o p)[j]
    <3> DEFINE m == Len(q) + n
               o == q \o p
    <3>1. o \in Seq(Text) /\ Len(o) = m /\ m \in 1..Len(o) BY <1>1, <1>4
    <3> HIDE DEF o, m
    <3>2. /\ [o EXCEPT ![m] = y] \in Seq(Text) /\ Len([o EXCEPT ![m] = y]) = m
          /\ \A j \in 1..m : [o EXCEPT ![m] = y][j] = IF j = m THEN y ELSE o[j]
      BY <1>2, <3>1, ExceptSeq
    <3> QED BY <3>2 DEF o, m
  <2> HIDE DEF l, r
  <2>3. ASSUME NEW j \in 1..(Len(q) + n) PROVE l[j] = (q \o r)[j]
    <3>1. CASE j <= Len(q) BY <1>1, <2>1, <2>2, <3>1
    <3>2. CASE j > Len(q)
      <4>1. (q \o r)[j] = r[j - Len(q)] /\ (q \o p)[j] = p[j - Len(q)] /\ j - Len(q) \in 1..n
        BY <1>1, <2>1, <3>2
      <4>2. r[j - Len(q)] = IF j - Len(q) = n THEN y ELSE p[j - Len(q)] BY <2>1, <4>1
      <4>3. j = Len(q) + n <=> j - Len(q) = n BY <1>1
      <4> QED BY <2>2, <4>1, <4>2, <4>3
    <3>3. j <= Len(q) \/ j > Len(q) BY <1>1
    <3> QED BY <3>1, <3>2, <3>3
  <2>4. q \o r \in Seq(Text) /\ Len(q \o r) = Len(q) + n BY SMTT(30), <1>1, <2>1
  <2>5. l = q \o r BY <2>2, <2>3, <2>4, SeqEqual
  <2> QED BY <2>5 DEF l, r
<1> QED BY <1>4, <1>5, <1>6 DEF SplitStep, ReplaceAt, y

\* The last part, if no delimiter is behind it.
LEMMA StepsAtEnd ==
  ASSUME NEW q \in Seq(Text), NEW t \in Text, NEW x \in Symbols, NEW c, x # c
  PROVE  SplitStep(Append(q, t), x, c) = Append(q, Append(t, x))
<1> DEFINE p == Append(q, t)
           y == Append(t, x)
<1>1. /\ p \in Seq(Text) /\ Len(p) = Len(q) + 1 /\ Last(p) = t /\ Len(q) \in Nat
      /\ \A j \in 1..Len(q) : p[j] = q[j]
  BY AppendProperties DEF Last
<1>2. y \in Text BY CharIsText
<1> HIDE DEF p, y
<1>3. [p EXCEPT ![Len(p)] = y] = Append(q, y)
  <2> DEFINE l == [p EXCEPT ![Len(p)] = y]
  <2>1. /\ l \in Seq(Text) /\ Len(l) = Len(p)
        /\ \A j \in 1..Len(p) : l[j] = IF j = Len(p) THEN y ELSE p[j]
    <3>1. Len(p) \in 1..Len(p) BY <1>1
    <3> QED BY <1>1, <1>2, <3>1, ExceptSeq
  <2> HIDE DEF l
  <2>2. l = Append(q, y) BY <1>1, <1>2, <2>1
  <2> QED BY <2>2 DEF l
<1> QED BY <1>1, <1>3 DEF SplitStep, ReplaceAt, p, y

\* Behind a delimiter a word without one is the last part.
LEMMA SplitJoined ==
  ASSUME NEW c \in Symbols, NEW s \in Text, NEW t \in Seq(Symbols \ {c})
  PROVE  Split(Append(s, c) \o t, c) = Append(Split(s, c), t)
<1> DEFINE b == Append(s, c)
           q == Split(s, c)
           S == {u \in Seq(Symbols \ {c}) : Split(b \o u, c) = Append(q, u)}
<1>1. b \in Text /\ q \in Seq(Text) BY CharIsText, SplitType DEF Parts
<1>2. Split(b, c) = Append(q, <<>>) BY SplitAppend DEF SplitStep
<1>3. <<>> \in S
  <2>1. b \o <<>> = b BY <1>1, ConcatEmptySeq DEF Text
  <2>2. <<>> \in Seq(Symbols \ {c}) OBVIOUS
  <2> QED BY <1>2, <2>1, <2>2
<1>4. ASSUME NEW u \in Seq(Symbols \ {c}), NEW x \in Symbols \ {c}, u \in S PROVE Append(u, x) \in S
  <2>1. u \in Text /\ x \in Symbols /\ x # c /\ Append(u, x) \in Seq(Symbols \ {c}) BY DEF Text
  <2> HIDE DEF b, q
  <2>2. b \o Append(u, x) = Append(b \o u, x) /\ b \o u \in Text BY <1>1, <2>1 DEF Text
  <2>3. Split(b \o u, c) = Append(q, u) BY <1>4
  <2>4. Split(b \o Append(u, x), c) = SplitStep(Append(q, u), x, c)
    BY <2>1, <2>2, <2>3, SplitAppend
  <2>5. SplitStep(Append(q, u), x, c) = Append(q, Append(u, x)) BY <1>1, <2>1, StepsAtEnd
  <2> QED BY <2>1, <2>4, <2>5
<1> HIDE DEF S
<1>5. t \in S BY <1>3, <1>4, SeqInduction
<1> QED BY <1>5 DEF S

\* A word without a delimiter is the only part.
LEMMA SplitWord ==
  ASSUME NEW c, NEW t \in Seq(Symbols \ {c})
  PROVE  Split(t, c) = <<t>>
<1> DEFINE e == <<>>
           S == {u \in Seq(Symbols \ {c}) : Split(u, c) = Append(e, u)}
<1>0. e \in Seq(Text) OBVIOUS
<1>1. <<>> \in S
  <2>1. <<>> \in Seq(Symbols \ {c}) OBVIOUS
  <2> QED BY <2>1, SplitNothing DEF Unsplit
<1> HIDE DEF e
<1>2. ASSUME NEW u \in Seq(Symbols \ {c}), NEW x \in Symbols \ {c}, u \in S PROVE Append(u, x) \in S
  <2>1. u \in Text /\ x \in Symbols /\ x # c /\ Append(u, x) \in Seq(Symbols \ {c}) BY DEF Text
  <2>2. Split(Append(u, x), c) = SplitStep(Append(e, u), x, c)
    BY <1>2, <2>1, SplitAppend
  <2> QED BY <1>0, <2>1, <2>2, StepsAtEnd
<1> HIDE DEF S
<1>3. t \in S BY <1>1, <1>2, SeqInduction
<1>4. Append(<<>>, t) = <<t>> OBVIOUS
<1> QED BY <1>3, <1>4 DEF S, e

\* A word in front of a delimiter is the first part.
LEMMA SplitFirst ==
  ASSUME NEW c \in Symbols, NEW k \in Seq(Symbols \ {c}), NEW t \in Text
  PROVE  Split(Append(k, c) \o t, c) = <<k>> \o Split(t, c)
<1> DEFINE b == Append(k, c)
           q == <<k>>
           S == {u \in Text : Split(b \o u, c) = q \o Split(u, c)}
<1>0. k \in Text /\ b \in Text
  <2>1. k \in Text BY DEF Text
  <2> QED BY <2>1, CharIsText
<1>1. q \in Seq(Text) BY <1>0
<1>2. <<>> \in S
  <2>1. b \o <<>> = b BY <1>0, ConcatEmptySeq DEF Text
  <2>2. Split(k, c) = <<k>> BY SplitWord
  <2>3. Split(b, c) = Append(q, <<>>)
    <3>1. Split(b, c) = SplitStep(Split(k, c), c, c) BY <1>0, SplitAppend
    <3> QED BY <2>2, <3>1 DEF SplitStep
  <2>4. Append(q, <<>>) = q \o <<<<>>>>
    <3>1. \A x \in Text : Append(q, x) = q \o <<x>> BY <1>1
    <3> QED BY <3>1, CharIsText
  <2> QED BY <2>1, <2>3, <2>4, SplitNothing, CharIsText DEF Unsplit
<1>3. ASSUME NEW u \in Text, NEW x \in Symbols, u \in S PROVE Append(u, x) \in S
  <2> HIDE DEF b, q
  <2>1. b \o Append(u, x) = Append(b \o u, x) /\ b \o u \in Text BY <1>0 DEF Text
  <2>2. Split(b \o Append(u, x), c) = SplitStep(q \o Split(u, c), x, c)
    BY <1>3, <2>1, SplitAppend
  <2>3. SplitStep(q \o Split(u, c), x, c) = q \o SplitStep(Split(u, c), x, c)
    BY <1>1, SplitType, StepBehind
  <2>4. Split(Append(u, x), c) = SplitStep(Split(u, c), x, c) BY SplitAppend
  <2> QED BY <2>2, <2>3, <2>4, CharIsText
<1> HIDE DEF S
<1>4. t \in S BY <1>2, <1>3, SeqInduction DEF Text
<1> QED BY <1>4 DEF S

\* The first part begins as the text does.
LEMMA SplitPrefix ==
  ASSUME NEW c \in Symbols, NEW a \in Seq(Symbols \ {c}), NEW t \in Text
  PROVE  \E u \in Text : Head(Split(a \o t, c)) = a \o u
<1> DEFINE Starts(p) == \E u \in Text : Head(p) = a \o u
           S == {v \in Text : Starts(Split(a \o v, c))}
<1>0. a \in Text BY DEF Text
<1>1. <<>> \in S
  <2>1. a \o <<>> = a BY <1>0, ConcatEmptySeq DEF Text
  <2>2. Head(Split(a, c)) = a BY SplitWord
  <2> QED BY <2>1, <2>2, CharIsText
<1>2. ASSUME NEW v \in Text, NEW x \in Symbols, v \in S PROVE Append(v, x) \in S
  <2> DEFINE p == Split(a \o v, c)
  <2>1. a \o Append(v, x) = Append(a \o v, x) /\ a \o v \in Text BY <1>0 DEF Text
  <2>2. Split(a \o Append(v, x), c) = SplitStep(p, x, c) BY <2>1, SplitAppend
  <2>3. p \in Seq(Text) /\ p # <<>> /\ Len(p) \in Nat \ {0} BY <2>1, SplitType DEF Parts
  <2>4. PICK u \in Text : Head(p) = a \o u BY <1>2
  <2>7. Append(a \o u, x) = a \o Append(u, x)
    <3>1. a \in Seq(Symbols) /\ u \in Seq(Symbols) BY <1>0, <2>4 DEF Text
    <3> QED BY <3>1
  <2> HIDE DEF p
  <2>5. CASE x = c
    <3>1. Head(Append(p, <<>>)) = Head(p) BY <2>3, HeadTailAppend
    <3> QED BY <2>2, <2>4, <2>5, <3>1, CharIsText DEF SplitStep
  <2>6. CASE x # c
    <3> DEFINE y == Append(Last(p), x)
               r == [p EXCEPT ![Len(p)] = y]
    <3>1. y \in Text /\ Last(p) \in Text
      <4>1. Last(p) \in Text BY <2>3 DEF Last
      <4> QED BY <4>1, CharIsText
    <3>2. r \in Seq(Text) /\ Len(r) = Len(p) /\ r[1] = IF Len(p) = 1 THEN y ELSE p[1]
      <4>1. Len(p) \in 1..Len(p) /\ 1 \in 1..Len(p) BY <2>3
      <4> HIDE DEF y
      <4> QED BY <2>3, <3>1, <4>1, ExceptSeq
    <3>3. SplitStep(p, x, c) = r BY <2>6 DEF SplitStep, ReplaceAt
    <3>4. CASE Len(p) = 1
      <4>1. Last(p) = Head(p) BY <2>3, <3>4 DEF Last
      <4>2. y = a \o Append(u, x)
        <5> QED BY <2>4, <2>7, <4>1
      <4>3. r[1] = a \o Append(u, x) BY <3>2, <3>4, <4>2
      <4> HIDE DEF r, y
      <4>4. r # <<>> BY <2>3, <3>2, <3>4
      <4>5. Head(r) = a \o Append(u, x) BY <3>2, <4>3, <4>4, HeadIsFirst
      <4> QED BY <2>2, <3>3, <4>5, CharIsText
    <3>5. CASE Len(p) # 1
      <4>1. r[1] = a \o u BY <2>3, <2>4, <3>2, <3>5
      <4> HIDE DEF r
      <4>2. Head(r) = a \o u BY <4>1
      <4> QED BY <2>2, <3>3, <4>2, CharIsText
    <3> QED BY <3>4, <3>5
  <2> QED BY <2>5, <2>6
<1> HIDE DEF S
<1>3. t \in S BY <1>1, <1>2, SeqInduction DEF Text
<1> QED BY <1>3 DEF S

\* The parts are made of the text's symbols, without the delimiter.
LEMMA SplitSymbols ==
  ASSUME NEW c, NEW D \in SUBSET Symbols, NEW s \in Seq(D)
  PROVE  Split(s, c) \in Seq(Seq(D \ {c}))
<1> DEFINE W == Seq(D \ {c})
           S == {u \in Seq(D) : Split(u, c) \in Seq(W)}
<1>1. <<>> \in S
  <2>1. <<>> \in W /\ <<>> \in Seq(D) OBVIOUS
  <2>2. \A x \in W : <<x>> \in Seq(W) OBVIOUS
  <2> QED BY <2>1, <2>2, SplitNothing DEF Unsplit
<1>2. ASSUME NEW u \in Seq(D), NEW x \in D, u \in S PROVE Append(u, x) \in S
  <2> DEFINE p == Split(u, c)
  <2>1. u \in Text /\ x \in Symbols /\ Append(u, x) \in Seq(D) BY DEF Text
  <2>2. Split(Append(u, x), c) = SplitStep(p, x, c) BY <2>1, SplitAppend
  <2>3. p \in Seq(W) /\ Len(p) \in Nat \ {0} BY <1>2, <2>1, SplitType DEF Parts
  <2> HIDE DEF p
  <2>4. CASE x = c
    <3>1. <<>> \in W OBVIOUS
    <3>2. Append(p, <<>>) \in Seq(W) BY <2>3, <3>1, AppendProperties
    <3> QED BY <2>1, <2>2, <2>4, <3>2 DEF SplitStep
  <2>5. CASE x # c
    <3>1. Last(p) \in W BY <2>3 DEF Last
    <3>2. Append(Last(p), x) \in W BY <2>5, <3>1
    <3>3. Len(p) \in 1..Len(p) BY <2>3
    <3>4. [p EXCEPT ![Len(p)] = Append(Last(p), x)] \in Seq(W) BY <2>3, <3>2, <3>3, ExceptSeq
    <3> QED BY <2>1, <2>2, <2>5, <3>4 DEF SplitStep, ReplaceAt
  <2> QED BY <2>4, <2>5
<1> HIDE DEF S
<1>3. s \in S BY <1>1, <1>2, SeqInduction
<1> QED BY <1>3 DEF S
-----------------------------------------------------------------------------
(* Joining *)

\* The function by which FlattenSeq is defined.
IsFlat(g, q, n) == g = [i \in 1..n |-> IF i = 1 THEN q[i] ELSE g[i - 1] \o q[i]]

LEMMA FlatExists ==
  ASSUME NEW A, NEW q \in Seq(Seq(A))
  PROVE  \E g \in [1..Len(q) -> Seq(A)] : IsFlat(g, q, Len(q))
<1> DEFINE Has(n) == \E g \in [1..n -> Seq(A)] : IsFlat(g, q, n)
           S == {n \in Nat : n <= Len(q) => Has(n)}
<1>1. Has(0)
  <2> DEFINE g == [i \in 1..0 |-> <<>>]
  <2>1. 1..0 = {} OBVIOUS
  <2>2. IsFlat(g, q, 0) BY <2>1 DEF IsFlat
  <2>3. g \in [1..0 -> Seq(A)] BY <2>1
  <2> HIDE DEF g
  <2> QED BY <2>2, <2>3
<1>2. ASSUME NEW n \in Nat, n + 1 <= Len(q), Has(n) PROVE Has(n + 1)
  <2>1. PICK g \in [1..n -> Seq(A)] : IsFlat(g, q, n) BY <1>2
  <2> DEFINE new(i) == IF i = n + 1 THEN IF n = 0 THEN q[i] ELSE g[n] \o q[i] ELSE g[i]
             h == [i \in 1..(n + 1) |-> new(i)]
  <2>2. ASSUME NEW i \in 1..(n + 1)
        PROVE  new(i) \in Seq(A) /\ new(i) = IF i = 1 THEN q[i] ELSE h[i - 1] \o q[i]
    <3>1. q[i] \in Seq(A) BY <1>2
    <3>2. CASE i = n + 1
      <4>1. CASE n = 0 BY <3>1, <3>2, <4>1
      <4>2. CASE n # 0
        <5>1. n \in 1..n /\ n \in 1..(n + 1) /\ i - 1 = n /\ n # n + 1 BY <3>2, <4>2
        <5>2. h[n] = g[n] BY <5>1
        <5>3. g[n] \in Seq(A) BY <2>1, <5>1
        <5>4. g[n] \o q[i] \in Seq(A) BY <3>1, <5>3, ConcatProperties
        <5>5. i # 1
          <6>1. n + 1 # 1 BY <4>2
          <6> QED BY <3>2, <6>1
        <5>6. new(i) = g[n] \o q[i] BY <3>2, <4>2
        <5> HIDE DEF h, new
        <5> QED BY <5>1, <5>2, <5>4, <5>5, <5>6
      <4> QED BY <4>1, <4>2
    <3>3. CASE i # n + 1
      <4>1. i \in 1..n BY <3>3
      <4>2. g[i] = IF i = 1 THEN q[i] ELSE g[i - 1] \o q[i] BY <2>1, <4>1 DEF IsFlat
      <4>3. i # 1 => h[i - 1] = g[i - 1] BY <4>1
      <4> HIDE DEF h
      <4> QED BY <2>1, <3>3, <4>1, <4>2, <4>3
    <3> QED BY <3>2, <3>3
  <2>3. h \in [1..(n + 1) -> Seq(A)] BY <2>2
  <2>4. IsFlat(h, q, n + 1)
    <3>1. \A i \in 1..(n + 1) : h[i] = new(i) OBVIOUS
    <3>2. h = [i \in 1..(n + 1) |-> IF i = 1 THEN q[i] ELSE h[i - 1] \o q[i]]
      <4> HIDE DEF new
      <4> QED BY <2>2
    <3> HIDE DEF h, new
    <3> QED BY <3>2 DEF IsFlat
  <2> HIDE DEF h, new
  <2> QED BY <2>3, <2>4
<1> HIDE DEF Has
<1>3. 0 \in S BY <1>1
<1>4. ASSUME NEW n \in Nat, n \in S PROVE n + 1 \in S BY <1>2, <1>4
<1> HIDE DEF S
<1>5. Len(q) \in S BY <1>3, <1>4, NatSetInduction
<1> QED BY <1>5 DEF S, Has

\* What FlattenSeq() returns, one sequence after the other.
LEMMA FlattenTrace ==
  ASSUME NEW A, NEW q \in Seq(Seq(A)), q # <<>>
  PROVE  \E g : IsFlat(g, q, Len(q)) /\ FlattenSeq(q) = g[Len(q)]
<1> DEFINE it == CHOOSE g : g = [i \in 1..Len(q) |-> IF i = 1 THEN q[i] ELSE g[i - 1] \o q[i]]
<1>1. Len(q) # 0 OBVIOUS
<1>2. FlattenSeq(q) = it[Len(q)] BY <1>1 DEF FlattenSeq
<1>3. IsFlat(it, q, Len(q))
  <2>1. \E g : IsFlat(g, q, Len(q)) BY FlatExists
  <2> QED BY <2>1 DEF IsFlat
<1> HIDE DEF it
<1> QED BY <1>2, <1>3

\* In two sequences of sequences with the same beginning it is the same.
LEMMA SameFlat ==
  ASSUME NEW n \in Nat, NEW m \in n..(n + 1), NEW p, NEW q, NEW f, NEW g,
         IsFlat(f, p, n), IsFlat(g, q, m), \A i \in 1..n : p[i] = q[i], n # 0
  PROVE  f[n] = g[n]
<1> DEFINE S == {i \in Nat : i \in 1..n => f[i] = g[i]}
<1>1. 0 \in S OBVIOUS
<1>2. ASSUME NEW i \in Nat, i \in S PROVE i + 1 \in S
  <2> SUFFICES ASSUME i + 1 \in 1..n PROVE f[i + 1] = g[i + 1] OBVIOUS
  <2>1. i + 1 \in 1..m /\ (i + 1) - 1 = i /\ p[i + 1] = q[i + 1] OBVIOUS
  <2>2. f[i + 1] = IF i + 1 = 1 THEN p[i + 1] ELSE f[i] \o p[i + 1]
    <3>1. i + 1 \in 1..n OBVIOUS
    <3>2. \A j \in 1..n : f[j] = IF j = 1 THEN p[j] ELSE f[j - 1] \o p[j] BY DEF IsFlat
    <3> QED BY <2>1, <3>1, <3>2
  <2>4. g[i + 1] = IF i + 1 = 1 THEN q[i + 1] ELSE g[i] \o q[i + 1]
    <3>1. \A j \in 1..m : g[j] = IF j = 1 THEN q[j] ELSE g[j - 1] \o q[j] BY DEF IsFlat
    <3> QED BY <2>1, <3>1
  <2>3. i + 1 # 1 => f[i] = g[i] BY <1>2
  <2> QED BY <2>1, <2>2, <2>3, <2>4
<1> HIDE DEF S
<1>3. n \in S BY <1>1, <1>2, NatSetInduction
<1> QED BY <1>3 DEF S

\* One more sequence is appended.
LEMMA FlattenAppend ==
  ASSUME NEW A, NEW q \in Seq(Seq(A)), NEW x \in Seq(A)
  PROVE  FlattenSeq(Append(q, x)) = FlattenSeq(q) \o x
<1> DEFINE r == Append(q, x)
           n == Len(q)
<1>1. /\ r \in Seq(Seq(A)) /\ r # <<>> /\ Len(r) = n + 1 /\ n \in Nat
      /\ r[n + 1] = x /\ \A i \in 1..n : q[i] = r[i]
  BY AppendProperties
<1> HIDE DEF r
<1>2. PICK g : IsFlat(g, r, n + 1) /\ FlattenSeq(r) = g[n + 1] BY <1>1, FlattenTrace
<1>3. g[n + 1] = IF n = 0 THEN x ELSE g[n] \o x
  <2>1. n + 1 \in 1..(n + 1) /\ (n + 1) - 1 = n BY <1>1
  <2>2. g[n + 1] = IF n + 1 = 1 THEN r[n + 1] ELSE g[n] \o r[n + 1] BY <1>2, <2>1 DEF IsFlat
  <2> QED BY <1>1, <2>2
<1>4. CASE n = 0
  <2>1. q = <<>> BY <1>4
  <2>2. FlattenSeq(q) = <<>> BY <2>1 DEF FlattenSeq
  <2> QED BY <1>2, <1>3, <1>4, <2>2 DEF r
<1>5. CASE n # 0
  <2>1. q # <<>> BY <1>5
  <2>2. PICK f : IsFlat(f, q, n) /\ FlattenSeq(q) = f[n] BY <2>1, FlattenTrace
  <2>3. n + 1 \in n..(n + 1) BY <1>1
  <2> HIDE DEF n
  <2>4. f[n] = g[n] BY <1>1, <1>2, <1>5, <2>2, <2>3, SameFlat
  <2> QED BY <1>2, <1>3, <1>5, <2>2, <2>4 DEF r
<1> QED BY <1>4, <1>5

LEMMA FlattenNothing == FlattenSeq(<<>>) = <<>>
<1>1. Len(<<>>) = 0 OBVIOUS
<1> QED BY <1>1 DEF FlattenSeq

LEMMA FlattenType ==
  ASSUME NEW A, NEW q \in Seq(Seq(A))
  PROVE  FlattenSeq(q) \in Seq(A)
<1> DEFINE S == {p \in Seq(Seq(A)) : FlattenSeq(p) \in Seq(A)}
<1>1. <<>> \in S
  <2>1. <<>> \in Seq(A) /\ <<>> \in Seq(Seq(A)) OBVIOUS
  <2> QED BY <2>1, FlattenNothing
<1>2. ASSUME NEW p \in Seq(Seq(A)), NEW x \in Seq(A), p \in S PROVE Append(p, x) \in S
  <2>1. Append(p, x) \in Seq(Seq(A)) BY AppendProperties
  <2>2. FlattenSeq(Append(p, x)) = FlattenSeq(p) \o x BY FlattenAppend
  <2> QED BY <1>2, <2>1, <2>2, ConcatProperties
<1> HIDE DEF S
<1>3. q \in S BY <1>1, <1>2, SeqInduction
<1> QED BY <1>3 DEF S
-----------------------------------------------------------------------------
(* An entry and its text *)

LEMMA Separators == Bar \in Symbols /\ Line \in Symbols /\ Bar # Line
BY CodecAssumption DEF Bar, Line

\* The values of an entry, each behind its separator.
WithBars(v) == [j \in DOMAIN v |-> <<Bar>> \o v[j]]

LEMMA BarsAppend ==
  \A W : \A v \in Seq(W), x \in W :
      (\A y \in W : <<Bar>> \o y \in W)
          => /\ WithBars(v) \in Seq(W)
             /\ WithBars(Append(v, x)) = Append(WithBars(v), <<Bar>> \o x)
<1> SUFFICES ASSUME NEW W, NEW v \in Seq(W), NEW x \in W, \A y \in W : <<Bar>> \o y \in W
             PROVE  /\ WithBars(v) \in Seq(W)
                    /\ WithBars(Append(v, x)) = Append(WithBars(v), <<Bar>> \o x)
  OBVIOUS
<1> DEFINE b == [y \in W |-> <<Bar>> \o y]
<1>1. b \in [W -> W] OBVIOUS
<1>2. ASSUME NEW w \in Seq(W) PROVE WithBars(w) = Mapped(b, w)
  <2>1. \A j \in DOMAIN w : w[j] \in W OBVIOUS
  <2>2. \A j \in DOMAIN w : <<Bar>> \o w[j] = b[w[j]] BY <2>1
  <2> HIDE DEF b
  <2> QED BY <2>2 DEF WithBars, Mapped
<1>3. b[x] = <<Bar>> \o x OBVIOUS
<1>4. Append(v, x) \in Seq(W) BY AppendProperties
<1> HIDE DEF b
<1>5. Mapped(b, v) \in Seq(W) /\ Mapped(b, Append(v, x)) = Append(Mapped(b, v), b[x])
  BY SMTT(30), <1>1, MapAppend
<1> QED BY <1>2, <1>3, <1>4, <1>5

LEMMA WithBarsAppend ==
  ASSUME NEW D \in SUBSET Symbols, Bar \in D, NEW v \in Seq(Seq(D)), NEW x \in Seq(D)
  PROVE  /\ WithBars(v) \in Seq(Seq(D)) /\ <<Bar>> \o x \in Seq(D)
         /\ WithBars(Append(v, x)) = Append(WithBars(v), <<Bar>> \o x)
<1>1. \A y \in Seq(D) : <<Bar>> \o y \in Seq(D)
  <2>1. <<Bar>> \in Seq(D) OBVIOUS
  <2> QED BY <2>1, ConcatProperties
<1> QED BY <1>1, BarsAppend

\* The text of an entry has the symbols of its parts and separators.
LEMMA RawType ==
  ASSUME NEW D \in SUBSET Symbols, Bar \in D, NEW k \in Seq(D), NEW v \in Seq(Seq(D))
  PROVE  RawEntry(Entry(k, v)) \in Seq(D)
<1>1. RawEntry(Entry(k, v)) = k \o FlattenSeq(WithBars(v)) BY DEF RawEntry, Entry, WithBars
<1>2. WithBars(v) \in Seq(Seq(D))
  <2>1. <<>> \in Seq(D) OBVIOUS
  <2> QED BY <2>1, WithBarsAppend
<1>3. FlattenSeq(WithBars(v)) \in Seq(D) BY <1>2, FlattenType
<1> QED BY <1>1, <1>3, ConcatProperties

\* Without a value it is the key.
LEMMA RawKey ==
  ASSUME NEW k \in Text
  PROVE  RawEntry(Entry(k, <<>>)) = k
<1>1. RawEntry(Entry(k, <<>>)) = k \o FlattenSeq(WithBars(<<>>)) BY DEF RawEntry, Entry, WithBars
<1>2. WithBars(<<>>) = <<>> BY DEF WithBars
<1> QED BY <1>1, <1>2, FlattenNothing, ConcatEmptySeq DEF Text

\* One more value goes behind a separator.
LEMMA RawAppend ==
  ASSUME NEW k \in Text, NEW v \in Seq(Text), NEW x \in Text
  PROVE  /\ RawEntry(Entry(k, v)) \in Text
         /\ RawEntry(Entry(k, Append(v, x))) = Append(RawEntry(Entry(k, v)), Bar) \o x
<1> DEFINE f == FlattenSeq(WithBars(v))
           y == <<Bar>> \o x
<1>1. \A w : RawEntry(Entry(k, w)) = k \o FlattenSeq(WithBars(w)) BY DEF RawEntry, Entry, WithBars
<1>2. /\ WithBars(v) \in Seq(Text) /\ y \in Text
      /\ WithBars(Append(v, x)) = Append(WithBars(v), y)
  BY Separators, WithBarsAppend DEF Text
<1>3. f \in Text BY <1>2, FlattenType DEF Text
<1>4. FlattenSeq(WithBars(Append(v, x))) = f \o y
  <2> HIDE DEF y
  <2> QED BY <1>2, FlattenAppend DEF Text
<1>5. k \o (f \o y) = Append(k \o f, Bar) \o x /\ k \o f \in Text
  <2> HIDE DEF f
  <2>1. /\ k \in Seq(Symbols) /\ f \in Seq(Symbols) /\ x \in Seq(Symbols) /\ <<Bar>> \in Seq(Symbols)
        /\ k \o f \in Seq(Symbols)
    BY <1>3, Separators DEF Text
  <2>2. Append(k \o f, Bar) = (k \o f) \o <<Bar>> BY <2>1, Separators, AppendIsConcat
  <2>3. ((k \o f) \o <<Bar>>) \o x = (k \o f) \o (<<Bar>> \o x) BY <2>1, ConcatAssociative
  <2>4. (k \o f) \o y = k \o (f \o y)
    <3>1. y \in Seq(Symbols) BY <1>2 DEF Text
    <3> HIDE DEF y
    <3> QED BY SMTT(30), <2>1, <3>1, ConcatAssociative
  <2> QED BY <2>1, <2>2, <2>3, <2>4 DEF Text
<1> HIDE DEF f, y
<1>6. RawEntry(Entry(k, v)) = k \o f BY <1>1 DEF f
<1>7. RawEntry(Entry(k, Append(v, x))) = k \o (f \o y) BY <1>1, <1>4
<1> QED BY <1>5, <1>6, <1>7

\* Keys and values without separators are read back.
LEMMA SplitRaw ==
  ASSUME NEW k \in Seq(Symbols \ {Bar}), NEW v \in Seq(Seq(Symbols \ {Bar}))
  PROVE  Split(RawEntry(Entry(k, v)), Bar) = <<k>> \o v
<1> DEFINE q == <<k>>
           W == Seq(Symbols \ {Bar})
           S == {w \in Seq(W) : Split(RawEntry(Entry(k, w)), Bar) = q \o w}
<1>0. k \in Text /\ W \subseteq Text /\ q \in Seq(W) /\ \A w \in Seq(W) : w \in Seq(Text)
  <2>1. W \subseteq Text BY DEF Text
  <2> HIDE DEF W
  <2>2. k \in W BY DEF W
  <2> QED BY <2>1, <2>2, SeqMonotonic
<1>1. <<>> \in S
  <2>1. q \o <<>> = q BY <1>0, ConcatEmptySeq
  <2> QED BY <1>0, <2>1, RawKey, SplitWord
<1>2. ASSUME NEW w \in Seq(W), NEW x \in W, w \in S PROVE Append(w, x) \in S
  <2> DEFINE r == RawEntry(Entry(k, w))
  <2>1. /\ r \in Text /\ RawEntry(Entry(k, Append(w, x))) = Append(r, Bar) \o x
    BY <1>0, RawAppend
  <2>2. Split(r, Bar) = q \o w BY <1>2
  <2> HIDE DEF r, q
  <2>3. Split(Append(r, Bar) \o x, Bar) = Append(Split(r, Bar), x)
    BY <2>1, Separators, SplitJoined
  <2> HIDE DEF W
  <2>4. Append(q \o w, x) = q \o Append(w, x)
    <3>1. q \in Seq(Text) /\ w \in Seq(Text) /\ x \in Text BY <1>0, <1>2
    <3> QED BY <3>1, PartsBehind
  <2>5. Append(w, x) \in Seq(W) BY AppendProperties
  <2> QED BY <2>1, <2>2, <2>3, <2>4, <2>5
<1> HIDE DEF S
<1>3. v \in S
  <2> HIDE DEF W
  <2>1. v \in Seq(W) BY DEF W
  <2> QED BY <1>1, <1>2, <2>1, SeqInduction
<1> QED BY <1>3 DEF S

\* An entry with a value starts with its key and a separator.
LEMMA RawBegins ==
  ASSUME NEW k \in Text, NEW v \in Parts
  PROVE  \E t \in Text : RawEntry(Entry(k, v)) = Append(k, Bar) \o t
<1> DEFINE Begins(w) == \E t \in Text : RawEntry(Entry(k, w)) = Append(k, Bar) \o t
           S == {w \in Seq(Text) : w # <<>> => Begins(w)}
<1>1. <<>> \in S OBVIOUS
<1>2. ASSUME NEW w \in Seq(Text), NEW x \in Text, w \in S PROVE Append(w, x) \in S
  <2>1. RawEntry(Entry(k, Append(w, x))) = Append(RawEntry(Entry(k, w)), Bar) \o x BY RawAppend
  <2>2. Append(w, x) \in Seq(Text) BY AppendProperties
  <2>3. CASE w = <<>>
    <3>1. RawEntry(Entry(k, w)) = k BY <2>3, RawKey
    <3> QED BY <2>1, <2>2, <3>1
  <2>4. CASE w # <<>>
    <3>1. PICK t \in Text : RawEntry(Entry(k, w)) = Append(k, Bar) \o t BY <1>2, <2>4
    <3> DEFINE b == Append(k, Bar)
    <3>2. b \in Text BY Separators, CharIsText
    <3> HIDE DEF b
    <3>3. Append(b \o t, Bar) = b \o Append(t, Bar) /\ Append(t, Bar) \in Text
      <4>1. b \in Seq(Symbols) /\ t \in Seq(Symbols) /\ Bar \in Symbols
        BY <3>1, <3>2, Separators DEF Text
      <4>2. Append(b \o t, Bar) = b \o Append(t, Bar) BY ONLY SMTT(30), <4>1
      <4> QED BY <4>1, <4>2, CharIsText DEF Text
    <3>4. (b \o Append(t, Bar)) \o x = b \o (Append(t, Bar) \o x)
      <4> DEFINE u == Append(t, Bar)
      <4>1. u \in Text BY <3>3
      <4> HIDE DEF u
      <4>2. b \in Seq(Symbols) /\ u \in Seq(Symbols) /\ x \in Seq(Symbols) BY <3>2, <4>1 DEF Text
      <4>3. (b \o u) \o x = b \o (u \o x) BY <4>2, ConcatAssociative
      <4> QED BY <4>3 DEF u
    <3>5. Append(t, Bar) \o x \in Text BY <3>3, ConcatProperties DEF Text
    <3>6. RawEntry(Entry(k, Append(w, x))) = b \o (Append(t, Bar) \o x)
      BY <2>1, <3>1, <3>3, <3>4 DEF b
    <3>7. Begins(Append(w, x)) BY <3>5, <3>6 DEF b
    <3> QED BY <2>2, <3>7
  <2> QED BY <2>3, <2>4
<1> HIDE DEF S
<1>3. v \in S BY <1>1, <1>2, SeqInduction DEF Parts
<1> QED BY <1>3 DEF S, Parts

\* Such an entry is read back with its key, whatever its values.
LEMMA SplitRawKey ==
  ASSUME NEW k \in Seq(Symbols \ {Bar}), NEW v \in Parts
  PROVE  \E p \in Parts : Split(RawEntry(Entry(k, v)), Bar) = <<k>> \o p
<1>1. k \in Text BY DEF Text
<1>2. PICK t \in Text : RawEntry(Entry(k, v)) = Append(k, Bar) \o t BY <1>1, RawBegins
<1>3. Split(Append(k, Bar) \o t, Bar) = <<k>> \o Split(t, Bar) BY Separators, SplitFirst
<1> QED BY <1>2, <1>3, SplitType

\* The text of what a text was split into is that text.
LEMMA RawSplit ==
  ASSUME NEW l \in Text
  PROVE  RawEntry(Entry(Head(Split(l, Bar)), Tail(Split(l, Bar)))) = l
<1> DEFINE Raw(p) == RawEntry(Entry(Head(p), Tail(p)))
           S == {u \in Text : Raw(Split(u, Bar)) = u}
<1>1. <<>> \in S
  <2>1. Head(Unsplit) = <<>> /\ Tail(Unsplit) = <<>> BY DEF Unsplit
  <2>2. Raw(Unsplit) = <<>> BY <2>1, RawKey, CharIsText
  <2> QED BY <2>2, SplitNothing, CharIsText
<1>2. ASSUME NEW u \in Text, NEW x \in Symbols, u \in S PROVE Append(u, x) \in S
  <2> DEFINE p == Split(u, Bar)
  <2>0. Append(u, x) \in Text BY CharIsText
  <2>1. Split(Append(u, x), Bar) = SplitStep(p, x, Bar) BY SplitAppend
  <2>2. p \in Seq(Text) /\ p # <<>> BY SplitType DEF Parts
  <2>3. Raw(p) = u BY <1>2
  <2> HIDE DEF p
  <2>4. Head(p) \in Text /\ Tail(p) \in Seq(Text) BY <2>2, HeadTailProperties
  <2>5. CASE x = Bar
    <3> DEFINE e == <<>>
    <3>1. e \in Text BY CharIsText
    <3>2. SplitStep(p, x, Bar) = Append(p, e) BY <2>5 DEF SplitStep
    <3> HIDE DEF e
    <3>3. Head(Append(p, e)) = Head(p) /\ Tail(Append(p, e)) = Append(Tail(p), e)
      BY <2>2, HeadTailAppend
    <3>4. Raw(Append(p, e)) = Append(Raw(p), Bar) \o e
      <4>1. RawEntry(Entry(Head(p), Append(Tail(p), e))) = Append(Raw(p), Bar) \o e
        BY <2>4, <3>1, RawAppend
      <4> QED BY <3>3, <4>1
    <3>5. Append(u, x) \o e = Append(u, x) BY <2>0, ConcatEmptySeq DEF e, Text
    <3> HIDE DEF Raw
    <3>6. Raw(SplitStep(p, x, Bar)) = Append(u, x) BY <2>3, <2>5, <3>2, <3>4, <3>5
    <3> QED BY <2>0, <2>1, <3>6
  <2>6. CASE x # Bar
    <3>1. PICK q \in Seq(Text), t \in Text : p = Append(q, t) BY <2>2, SequenceEmptyOrAppend
    <3>2. SplitStep(p, x, Bar) = Append(q, Append(t, x)) /\ Append(t, x) \in Text
      BY <2>6, <3>1, StepsAtEnd, CharIsText
    <3>3. CASE q = <<>>
      <4>1. /\ Head(p) = t /\ Tail(p) = <<>>
            /\ Head(Append(q, Append(t, x))) = Append(t, x) /\ Tail(Append(q, Append(t, x))) = <<>>
        BY <3>1, <3>2, <3>3, HeadTailAppend
      <4>2. Raw(p) = t BY <3>1, <4>1, RawKey
      <4>3. Raw(Append(q, Append(t, x))) = Append(t, x) BY <3>2, <4>1, RawKey
      <4> HIDE DEF Raw
      <4> QED BY <2>0, <2>1, <2>3, <3>2, <4>2, <4>3
    <3>4. CASE q # <<>>
      <4> DEFINE y == Append(t, x)
      <4>0. y \in Text BY <3>2
      <4> HIDE DEF y
      <4>1. /\ Head(p) = Head(q) /\ Tail(p) = Append(Tail(q), t)
            /\ Head(Append(q, y)) = Head(q) /\ Tail(Append(q, y)) = Append(Tail(q), y)
        BY <3>1, <3>4, HeadTailAppend
      <4>2. Head(q) \in Text /\ Tail(q) \in Seq(Text) BY <3>1, <3>4, HeadTailProperties
      <4>3. /\ Raw(q) \in Text /\ Raw(p) = Append(Raw(q), Bar) \o t
            /\ Raw(Append(q, y)) = Append(Raw(q), Bar) \o y
        <5>1. /\ Raw(q) \in Text
              /\ RawEntry(Entry(Head(q), Append(Tail(q), t))) = Append(Raw(q), Bar) \o t
              /\ RawEntry(Entry(Head(q), Append(Tail(q), y))) = Append(Raw(q), Bar) \o y
          BY <3>1, <4>0, <4>2, RawAppend
        <5> QED BY <4>1, <5>1
      <4> HIDE DEF Raw
      <4>4. Append(Raw(q), Bar) \in Text BY <4>3, Separators, CharIsText
      <4>5. Append(Raw(q), Bar) \o Append(t, x) = Append(Append(Raw(q), Bar) \o t, x)
        BY <3>1, <4>4, AppendBehind DEF Text
      <4> QED BY <2>0, <2>1, <2>3, <3>2, <4>3, <4>5 DEF y
    <3> QED BY <3>3, <3>4
  <2> QED BY <2>5, <2>6
<1> HIDE DEF S
<1>3. l \in S BY <1>1, <1>2, SeqInduction DEF Text
<1> QED BY <1>3 DEF S
-----------------------------------------------------------------------------
(* Tokens *)

LEMMA MinOfSet ==
  ASSUME NEW T \in SUBSET Nat, T # {}
  PROVE  Min(T) \in T /\ \A x \in T : Min(T) <= x
BY LeastNumber DEF Min

\* The places of the parts that are not empty.
Filled(p) == {i \in 1..Len(p) : p[i] # <<>>}

LEMMA TokensFromFirst ==
  ASSUME NEW s, NEW c
  PROVE  Tokenize(s, c) = IF Filled(Split(s, c)) = {} THEN <<>>
                          ELSE IF Min(Filled(Split(s, c))) = 0 THEN <<>>
                          ELSE SubSeq(Split(s, c), Min(Filled(Split(s, c))), Len(Split(s, c)))
BY DEF Tokenize, SelectInSeq, Filled

\* The parts are the tokens if the first one is not empty.
LEMMA TokenizeFilled ==
  ASSUME NEW c, NEW s \in Text, Head(Split(s, c)) # <<>>
  PROVE  Tokenize(s, c) = Split(s, c)
<1> DEFINE p == Split(s, c)
           F == Filled(p)
<1>1. p \in Seq(Text) /\ p # <<>> BY SplitType DEF Parts
<1>2. Tokenize(s, c) = IF F = {} THEN <<>> ELSE IF Min(F) = 0 THEN <<>>
                       ELSE SubSeq(p, Min(F), Len(p))
  BY TokensFromFirst
<1>3. Head(p) # <<>> OBVIOUS
<1> HIDE DEF p
<1>4. Len(p) \in Nat \ {0} /\ Head(p) = p[1] BY <1>1, HeadIsFirst
<1>5. F \in SUBSET Nat /\ 1 \in F /\ \A i \in F : i >= 1 BY <1>3, <1>4 DEF Filled
<1> HIDE DEF F
<1>6. Min(F) \in Nat /\ Min(F) <= 1 /\ Min(F) >= 1 BY <1>5, MinOfSet
<1>7. Min(F) = 1 BY <1>6
<1>8. SubSeq(p, 1, Len(p)) = p BY <1>1, SubSeqFull
<1> QED BY <1>2, <1>5, <1>7, <1>8 DEF p

\* Tokens are made of the text's symbols, without the delimiter; the first one
\* is not empty.
LEMMA TokenizeType ==
  ASSUME NEW c, NEW D \in SUBSET Symbols, NEW s \in Seq(D)
  PROVE  /\ Tokenize(s, c) \in Seq(Seq(D \ {c}))
         /\ Tokenize(s, c) # <<>> => Head(Tokenize(s, c)) # <<>>
<1> DEFINE p == Split(s, c)
           W == Seq(D \ {c})
           F == Filled(p)
           r == SubSeq(p, Min(F), Len(p))
<1>1. p \in Seq(W) BY SplitSymbols
<1>2. Tokenize(s, c) = IF F = {} THEN <<>> ELSE IF Min(F) = 0 THEN <<>> ELSE r
  BY TokensFromFirst
<1> HIDE DEF p, W
<1>3. F \in SUBSET Nat /\ F \in SUBSET (1..Len(p)) /\ Len(p) \in Nat BY <1>1 DEF Filled
<1>4. CASE F = {}
  <2>1. <<>> \in Seq(W) OBVIOUS
  <2> QED BY <1>2, <1>4, <2>1 DEF W
<1>5. CASE F # {}
  <2>1. Min(F) \in F BY <1>3, <1>5, MinOfSet
  <2>2. Min(F) \in 1..Len(p) /\ p[Min(F)] # <<>> BY <1>3, <2>1 DEF Filled
  <2>3. r \in Seq(W) /\ Len(r) = Len(p) - Min(F) + 1 /\ Head(r) = p[Min(F)]
    <3> DEFINE m == Min(F)
    <3>1. m \in 1..Len(p) BY <2>2
    <3> HIDE DEF m, F
    <3>2. SubSeq(p, m, Len(p)) \in Seq(W) /\ Len(SubSeq(p, m, Len(p))) = Len(p) - m + 1
      BY <1>1, <1>3, <3>1
    <3>3. Len(p) \in m..Len(p) BY <1>3, <3>1
    <3>4. Head(SubSeq(p, m, Len(p))) = p[m] BY <1>1, <3>1, <3>3, HeadTailOfSubSeq
    <3> QED BY <3>2, <3>4 DEF m
  <2>4. Tokenize(s, c) = r BY <1>2, <1>5, <2>2
  <2> QED BY <2>2, <2>3, <2>4 DEF W
<1> QED BY <1>4, <1>5

LEMMA TokenizeNothing == ASSUME NEW c PROVE Tokenize(<<>>, c) = <<>>
<1>1. Len(Unsplit) = 1 /\ Unsplit[1] = <<>> BY DEF Unsplit
<1>2. Filled(Unsplit) = {} BY <1>1 DEF Filled
<1> QED BY <1>2, TokensFromFirst, SplitNothing
-----------------------------------------------------------------------------
(* Entries and the lines they are written to *)

\* An entry that a line of its own can hold.
Writable == [key : Names \ {<<>>}, values : Seq(Seq(Symbols \ {Line})) \ {<<>>}]

\* An entry that a line is read as.
Plain == [key : Names \ {<<>>}, values : Seq(Names) \ {<<>>}]

\* A writable entry when it has been written and read.
Reread(e) == Entry(Head(Split(RawEntry(e), Bar)), Tail(Split(RawEntry(e), Bar)))

LEMMA WritableParts ==
  ASSUME NEW e \in Writable
  PROVE  /\ e = Entry(e.key, e.values) /\ e.key # <<>> /\ e.values # <<>>
         /\ e.key \in Seq(Symbols \ {Bar}) /\ e.key \in Seq(Symbols \ {Line}) /\ e.key \in Text
         /\ e.values \in Seq(Seq(Symbols \ {Line})) /\ e.values \in Parts
<1>1. /\ e.key \in Names /\ e.key # <<>> /\ e.values # <<>>
      /\ e.values \in Seq(Seq(Symbols \ {Line})) /\ e = Entry(e.key, e.values)
  BY DEF Writable, Entry
<1>2. Seq(Symbols \ {Line}) \subseteq Text BY SeqMonotonic DEF Text
<1>3. e.values \in Seq(Text)
  <2> HIDE DEF Text
  <2> QED BY <1>1, <1>2, SeqMonotonic
<1>4. e.key \in Seq(Symbols \ {Bar}) /\ e.key \in Seq(Symbols \ {Line}) /\ e.key \in Text
  <2>1. /\ Symbols \ {Bar, Line} \subseteq Symbols \ {Bar}
        /\ Symbols \ {Bar, Line} \subseteq Symbols \ {Line}
        /\ Symbols \ {Bar, Line} \subseteq Symbols
    OBVIOUS
  <2> QED BY <1>1, <2>1, SeqMonotonic DEF Names, Text
<1> QED BY <1>1, <1>3, <1>4 DEF Parts

LEMMA PlainIsWritable == Plain \subseteq Writable
<1>1. \A w \in Names : w \in Seq(Symbols \ {Line})
  <2>1. Symbols \ {Bar, Line} \subseteq Symbols \ {Line} OBVIOUS
  <2> QED BY <2>1, SeqMonotonic DEF Names
<1>2. \A v \in Seq(Names) : v \in Seq(Seq(Symbols \ {Line}))
  <2> DEFINE W == Seq(Symbols \ {Line})
  <2>1. Names \subseteq W BY <1>1
  <2> HIDE DEF W
  <2>2. \A v \in Seq(Names) : v \in Seq(W) BY <2>1, SeqMonotonic
  <2> QED BY <2>2 DEF W
<1>3. ASSUME NEW e \in Plain PROVE e \in Writable
  <2>1. /\ e.key \in Names \ {<<>>} /\ e.values \in Seq(Names) /\ e.values # <<>>
        /\ e = [key |-> e.key, values |-> e.values]
    BY DEF Plain
  <2>2. e.values \in Seq(Seq(Symbols \ {Line})) \ {<<>>} BY <1>2, <2>1
  <2> QED BY <2>1, <2>2 DEF Writable
<1> QED BY <1>3

\* The line of a writable entry has its key in front, and no end of line.
LEMMA WritableLine ==
  ASSUME NEW e \in Writable
  PROVE  /\ RawEntry(e) \in Seq(Symbols \ {Line}) /\ RawEntry(e) \in Text
         /\ RawEntry(e) # <<>>
         /\ \E p \in Parts : Split(RawEntry(e), Bar) = <<e.key>> \o p
<1>1. /\ e = Entry(e.key, e.values) /\ e.key # <<>>
      /\ e.key \in Seq(Symbols \ {Bar}) /\ e.key \in Seq(Symbols \ {Line}) /\ e.key \in Text
      /\ e.values \in Seq(Seq(Symbols \ {Line})) /\ e.values \in Parts
  BY WritableParts
<1>2. RawEntry(Entry(e.key, e.values)) \in Seq(Symbols \ {Line})
  <2>1. Bar \in Symbols \ {Line} BY Separators
  <2>2. Symbols \ {Line} \in SUBSET Symbols OBVIOUS
  <2> QED BY <1>1, <2>1, <2>2, RawType
<1>3. PICK t \in Text : RawEntry(Entry(e.key, e.values)) = Append(e.key, Bar) \o t
  BY <1>1, RawBegins
<1>4. Append(e.key, Bar) \o t # <<>>
  <2>1. Append(e.key, Bar) \in Seq(Symbols) /\ Append(e.key, Bar) # <<>>
    BY <1>1, Separators, AppendProperties DEF Text
  <2> DEFINE b == Append(e.key, Bar)
  <2> HIDE DEF b
  <2>2. b \o t # <<>> BY <2>1, ConcatEqualIffEmpty DEF b, Text
  <2> QED BY <2>2 DEF b
<1>5. \E p \in Parts : Split(RawEntry(Entry(e.key, e.values)), Bar) = <<e.key>> \o p
  BY <1>1, SplitRawKey
<1>6. RawEntry(e) \in Text BY <1>1, <1>2, SeqMonotonic DEF Text
<1> QED BY <1>1, <1>2, <1>3, <1>4, <1>5, <1>6

\* It is read as an entry with this key and the same line.
LEMMA LineIsReread ==
  ASSUME NEW e \in Writable, NEW d
  PROVE  /\ ParseLine(d, RawEntry(e)) = Append(d, Reread(e))
         /\ Reread(e).key = e.key /\ RawEntry(Reread(e)) = RawEntry(e)
         /\ e \in Plain => Reread(e) = e
<1> DEFINE r == RawEntry(e)
           q == Split(r, Bar)
<1>1. PICK p \in Parts : q = <<e.key>> \o p BY WritableLine
<1>2. e.key \in Text /\ e.key # <<>> /\ p \in Seq(Text) /\ p # <<>> BY WritableParts DEF Parts
<1>3. Head(q) = e.key /\ Len(q) >= 2 /\ Tail(q) = p
  <2> DEFINE k == e.key
  <2>1. k \in Text BY <1>2
  <2> HIDE DEF k, q
  <2>2. Len(p) \in Nat /\ Len(p) >= 1 BY <1>2
  <2>3. \A z \in Seq(Text) : Head(<<k>> \o z) = k /\ Tail(<<k>> \o z) = z /\ Len(<<k>> \o z) = 1 + Len(z)
    BY <2>1
  <2>4. q = <<k>> \o p BY <1>1 DEF k
  <2> QED BY <1>2, <2>2, <2>3, <2>4 DEF k
<1>4. r \in Text BY WritableLine
<1>5. Tokenize(r, Bar) = q
  <2>1. Head(Split(r, Bar)) # <<>> BY <1>2, <1>3
  <2> HIDE DEF r
  <2> QED BY <1>4, <2>1, TokenizeFilled
<1>6. ParseLine(d, r) = Append(d, Entry(Head(q), Tail(q)))
  <2> HIDE DEF q, r
  <2>1. Len(q) \in Int
    <3>1. q \in Parts BY <1>4, SplitType DEF q
    <3> QED BY <3>1 DEF Parts
  <2>2. ~(Len(q) < 2) BY <1>3, <2>1
  <2> QED BY <1>5, <2>2 DEF ParseLine
<1>7. Reread(e).key = e.key BY <1>3 DEF Reread, Entry
<1>8. RawEntry(Reread(e)) = r BY <1>4, RawSplit DEF Reread
<1>9. ASSUME e \in Plain PROVE Reread(e) = e
  <2>1. e.values \in Seq(Names) /\ e = Entry(e.key, e.values) BY <1>9 DEF Plain, Entry
  <2>2. e.key \in Seq(Symbols \ {Bar}) BY WritableParts
  <2>3. e.values \in Seq(Seq(Symbols \ {Bar}))
    <3> DEFINE W == Seq(Symbols \ {Bar})
    <3>1. \A w \in Names : w \in W
      <4>1. Symbols \ {Bar, Line} \subseteq Symbols \ {Bar} OBVIOUS
      <4> QED BY <4>1, SeqMonotonic DEF Names
    <3>2. Names \subseteq W BY <3>1
    <3> HIDE DEF W
    <3>3. e.values \in Seq(W) BY <2>1, <3>2, SeqMonotonic
    <3> QED BY <3>3 DEF W
  <2>4. q = <<e.key>> \o e.values BY <2>1, <2>2, <2>3, SplitRaw
  <2>5. Tail(q) = e.values
    <3> DEFINE k == e.key
               v == e.values
    <3>1. k \in Text BY <1>2
    <3>2. v \in Seq(Text) BY WritableParts DEF Parts
    <3> HIDE DEF k, v, q
    <3>3. Tail(<<k>> \o v) = v BY <3>1, <3>2
    <3> QED BY <2>4, <3>3 DEF k, v
  <2> QED BY <1>3, <2>1, <2>5 DEF Reread
<1> QED BY <1>6, <1>7, <1>8, <1>9 DEF Reread
-----------------------------------------------------------------------------
(* The text of writable entries *)

Lines(d) == [i \in DOMAIN d |-> RawEntry(d[i])]
Closed(d) == [i \in DOMAIN d |-> Append(RawEntry(d[i]), Line)]

LEMMA LinesAppend ==
  ASSUME NEW d \in Seq(Writable), NEW e \in Writable
  PROVE  /\ Lines(d) \in Seq(Text) /\ Len(Lines(d)) = Len(d)
         /\ Lines(Append(d, e)) = Append(Lines(d), RawEntry(e))
         /\ Closed(d) \in Seq(Text) /\ Len(Closed(d)) = Len(d)
         /\ Closed(Append(d, e)) = Append(Closed(d), Append(RawEntry(e), Line))
<1> DEFINE f == [x \in Writable |-> RawEntry(x)]
           g == [x \in Writable |-> Append(RawEntry(x), Line)]
<1>1. f \in [Writable -> Text]
  <2>1. \A x \in Writable : RawEntry(x) \in Text BY WritableLine
  <2> QED BY <2>1
<1>2. g \in [Writable -> Text]
  <2>1. \A x \in Writable : Append(RawEntry(x), Line) \in Text BY WritableLine, CharIsText, Separators
  <2> QED BY <2>1
<1>3. ASSUME NEW w \in Seq(Writable) PROVE Lines(w) = Mapped(f, w) /\ Closed(w) = Mapped(g, w)
  <2>1. \A i \in DOMAIN w : w[i] \in Writable OBVIOUS
  <2>2. \A i \in DOMAIN w : RawEntry(w[i]) = f[w[i]] /\ Append(RawEntry(w[i]), Line) = g[w[i]]
    BY <2>1
  <2> HIDE DEF f, g
  <2> QED BY <2>2 DEF Lines, Closed, Mapped
<1>4. f[e] = RawEntry(e) /\ g[e] = Append(RawEntry(e), Line) OBVIOUS
<1>5. Append(d, e) \in Seq(Writable) BY AppendProperties
<1> HIDE DEF f, g
<1>6. /\ Mapped(f, d) \in Seq(Text) /\ Len(Mapped(f, d)) = Len(d)
      /\ Mapped(f, Append(d, e)) = Append(Mapped(f, d), f[e])
  BY SMTT(30), <1>1, MapAppend
<1>7. /\ Mapped(g, d) \in Seq(Text) /\ Len(Mapped(g, d)) = Len(d)
      /\ Mapped(g, Append(d, e)) = Append(Mapped(g, d), g[e])
  BY <1>2, MapAppend
<1> QED BY <1>3, <1>4, <1>5, <1>6, <1>7

\* A new entry is written behind an end of line.
LEMMA GetRawAppend ==
  ASSUME NEW d \in Seq(Writable), NEW e \in Writable
  PROVE  GetRaw(Append(d, e)) = FlattenSeq(Closed(d)) \o RawEntry(e)
<1> DEFINE t == Append(d, e)
           n == Len(d)
           line(i) == RawEntry(t[i]) \o (IF i < Len(t) /\ t[i + 1].key # <<>> THEN <<Line>> ELSE <<>>)
           l == [i \in DOMAIN t |-> line(i)]
           r == Append(Closed(d), RawEntry(e))
<1>1. /\ n \in Nat /\ t \in Seq(Writable) /\ Len(t) = n + 1 /\ DOMAIN t = 1..(n + 1)
      /\ t[n + 1] = e /\ \A i \in 1..n : t[i] = d[i] /\ d[i] \in Writable
      /\ DOMAIN d = 1..n
  BY AppendProperties
<1>2. /\ Closed(d) \in Seq(Text) /\ Len(Closed(d)) = n
      /\ \A i \in 1..n : Closed(d)[i] = Append(RawEntry(d[i]), Line)
  <2>1. Closed(d) \in Seq(Text) /\ Len(Closed(d)) = n BY LinesAppend
  <2> HIDE DEF t, n
  <2>2. \A i \in 1..n : Closed(d)[i] = Append(RawEntry(d[i]), Line) BY <1>1 DEF Closed
  <2> QED BY <2>1, <2>2
<1>3. RawEntry(e) \in Text BY WritableLine
<1>4. /\ r \in Seq(Text) /\ Len(r) = n + 1 /\ r[n + 1] = RawEntry(e)
      /\ \A i \in 1..n : r[i] = Append(RawEntry(d[i]), Line)
  <2> DEFINE c == Closed(d)
             x == RawEntry(e)
  <2>1. c \in Seq(Text) /\ Len(c) = n /\ x \in Text BY <1>2, <1>3
  <2> HIDE DEF c, x
  <2>2. /\ Append(c, x) \in Seq(Text) /\ Len(Append(c, x)) = n + 1 /\ Append(c, x)[n + 1] = x
        /\ \A i \in 1..n : Append(c, x)[i] = c[i]
    BY <2>1, AppendProperties
  <2> QED BY <1>2, <2>2 DEF c, x
<1> HIDE DEF t, n, r
<1>5. ASSUME NEW i \in 1..(n + 1) PROVE line(i) \in Text /\ line(i) = r[i]
  <2>1. CASE i = n + 1
    <3>1. line(i) = RawEntry(e) \o <<>>
      <4>1. ~(i < Len(t)) BY <1>1, <2>1
      <4> QED BY <1>1, <2>1, <4>1
    <3>2. RawEntry(e) \o <<>> = RawEntry(e) BY <1>3, ConcatEmptySeq DEF Text
    <3> QED BY <1>3, <1>4, <2>1, <3>1, <3>2
  <2>2. CASE i # n + 1
    <3>1. i \in 1..n /\ i < Len(t) /\ i + 1 \in 1..(n + 1) BY <1>1, <2>2
    <3>2. t[i + 1] \in Writable BY <1>1, <3>1
    <3>3. t[i + 1].key # <<>> BY <3>2, WritableParts
    <3>4. line(i) = RawEntry(d[i]) \o <<Line>> BY <1>1, <3>1, <3>3
    <3>5. RawEntry(d[i]) \in Text BY <1>1, <3>1, WritableLine
    <3>6. RawEntry(d[i]) \o <<Line>> = Append(RawEntry(d[i]), Line)
      BY <3>5, Separators, AppendIsConcat DEF Text
    <3>7. Append(RawEntry(d[i]), Line) \in Text BY <3>5, Separators, CharIsText
    <3> QED BY <1>4, <3>1, <3>4, <3>6, <3>7
  <2> QED BY <2>1, <2>2
<1>6. GetRaw(t) = FlattenSeq(l) BY DEF GetRaw
<1>7. l = r
  <2>1. l \in [1..(n + 1) -> Text] /\ \A i \in 1..(n + 1) : l[i] = line(i) BY <1>1, <1>5
  <2> HIDE DEF l
  <2>2. n + 1 \in Nat BY <1>1
  <2>3. l \in Seq(Text) /\ Len(l) = n + 1 BY <2>1, <2>2, FunctionIsSeq
  <2>4. \A i \in 1..(n + 1) : l[i] = r[i] BY <1>5, <2>1
  <2> QED BY <1>4, <2>3, <2>4, SeqEqual
<1>8. FlattenSeq(r) = FlattenSeq(Closed(d)) \o RawEntry(e)
  BY <1>2, <1>3, FlattenAppend DEF Text, r
<1> QED BY <1>6, <1>7, <1>8 DEF t

\* It is split into the lines of the entries.
LEMMA SplitGetRaw ==
  ASSUME NEW d \in Seq(Writable), d # <<>>
  PROVE  GetRaw(d) \in Text /\ Split(GetRaw(d), Line) = Lines(d)
<1> DEFINE Good(w) == /\ GetRaw(w) \in Text
                      /\ FlattenSeq(Closed(w)) = Append(GetRaw(w), Line)
                      /\ Split(GetRaw(w), Line) = Lines(w)
           S == {w \in Seq(Writable) : w # <<>> => Good(w)}
<1>1. <<>> \in S OBVIOUS
<1>2. ASSUME NEW w \in Seq(Writable), NEW e \in Writable, w \in S PROVE Append(w, e) \in S
  <2> DEFINE x == RawEntry(e)
             f == FlattenSeq(Closed(w))
             z == Append(w, e)
  <2>0. z \in Seq(Writable) BY AppendProperties
  <2>1. x \in Text /\ x \in Seq(Symbols \ {Line}) BY WritableLine
  <2>2. GetRaw(z) = f \o x BY GetRawAppend
  <2>3. /\ Lines(z) = Append(Lines(w), x) /\ Closed(w) \in Seq(Text)
        /\ Closed(z) = Append(Closed(w), Append(x, Line))
    BY LinesAppend
  <2>4. f \in Text BY <2>3, FlattenType DEF Text
  <2>5. FlattenSeq(Closed(z)) = f \o Append(x, Line)
    <3>1. Append(x, Line) \in Text BY <2>1, Separators, CharIsText
    <3> HIDE DEF x, z
    <3> QED BY <2>3, <3>1, FlattenAppend DEF Text
  <2> HIDE DEF x, f, z
  <2>6. f \o x \in Text /\ f \o Append(x, Line) = Append(f \o x, Line)
    BY <2>1, <2>4, Separators, AppendBehind, ConcatProperties DEF Text
  <2>7. Split(f \o x, Line) = Append(Lines(w), x)
    <3>1. CASE w = <<>>
      <4>1. Closed(w) = <<>> /\ Lines(w) = <<>> BY <3>1 DEF Closed, Lines
      <4>2. f = <<>> BY <4>1, FlattenNothing DEF f
      <4>3. f \o x = x BY <2>1, <4>2, ConcatEmptySeq DEF Text
      <4>4. Split(x, Line) = <<x>> BY <2>1, SplitWord
      <4> QED BY <4>1, <4>3, <4>4
    <3>2. CASE w # <<>>
      <4>1. GetRaw(w) \in Text /\ f = Append(GetRaw(w), Line) /\ Split(GetRaw(w), Line) = Lines(w)
        BY <1>2, <3>2 DEF f
      <4>2. Split(Append(GetRaw(w), Line) \o x, Line) = Append(Split(GetRaw(w), Line), x)
        BY <2>1, <4>1, Separators, SplitJoined
      <4> QED BY <4>1, <4>2
    <3> QED BY <3>1, <3>2
  <2>8. Good(z) BY <2>2, <2>3, <2>5, <2>6, <2>7
  <2> QED BY <2>0, <2>8 DEF z
<1> HIDE DEF S
<1>3. d \in S BY <1>1, <1>2, SeqInduction
<1> QED BY <1>3 DEF S

\* They are the tokens too.
LEMMA TokensOfGetRaw ==
  ASSUME NEW d \in Seq(Writable)
  PROVE  GetRaw(d) \in Text /\ Tokenize(GetRaw(d), Line) = Lines(d)
<1>1. CASE d = <<>>
  <2>1. Lines(d) = <<>> BY <1>1 DEF Lines
  <2>2. GetRaw(d) = FlattenSeq(<<>>) BY <1>1 DEF GetRaw
  <2> QED BY <2>1, <2>2, FlattenNothing, TokenizeNothing, CharIsText
<1>2. CASE d # <<>>
  <2>1. GetRaw(d) \in Text /\ Split(GetRaw(d), Line) = Lines(d) BY <1>2, SplitGetRaw
  <2>2. Len(d) \in Nat \ {0} /\ d[1] \in Writable /\ 1 \in DOMAIN d BY <1>2
  <2>3. Lines(d)[1] # <<>>
    <3>1. Lines(d)[1] = RawEntry(d[1]) BY <2>2 DEF Lines
    <3> QED BY <2>2, <3>1, WritableLine
  <2>4. Lines(d) \in Seq(Text) /\ Lines(d) # <<>>
    <3>1. Split(GetRaw(d), Line) \in Parts BY <2>1, SplitType
    <3> QED BY <2>1, <3>1 DEF Parts
  <2>5. Head(Lines(d)) # <<>> BY <2>3, <2>4, HeadIsFirst
  <2> QED BY <2>1, <2>5, TokenizeFilled
<1> QED BY <1>1, <1>2
-----------------------------------------------------------------------------
(* Reading lines *)

LineText == Seq(Symbols \ {Line})
Entries == Seq(Plain)

ParseLines(ls) == FoldLeft(ParseLine, <<>>, ls)

LEMMA ParseLineType ==
  ASSUME NEW d \in Entries, NEW l \in LineText
  PROVE  ParseLine(d, l) \in Entries
<1> DEFINE t == Tokenize(l, Bar)
<1>1. t \in Seq(Names) /\ (t # <<>> => Head(t) # <<>>)
  <2>1. (Symbols \ {Line}) \ {Bar} = Symbols \ {Bar, Line} OBVIOUS
  <2> DEFINE D == Symbols \ {Line}
  <2>2. D \in SUBSET Symbols /\ l \in Seq(D) BY DEF LineText
  <2> HIDE DEF D
  <2>3. t \in Seq(Seq(D \ {Bar})) /\ (t # <<>> => Head(t) # <<>>) BY <2>2, TokenizeType
  <2> QED BY <2>1, <2>3 DEF D, Names
<1> HIDE DEF t
<1>2. ParseLine(d, l) = IF Len(t) < 2 THEN d ELSE Append(d, Entry(Head(t), Tail(t)))
  BY DEF ParseLine, t
<1>3. CASE Len(t) < 2 BY <1>2, <1>3
<1>4. CASE ~(Len(t) < 2)
  <2>1. t # <<>> /\ Len(t) \in Nat /\ Len(t) >= 2 BY <1>1, <1>4
  <2>2. Head(t) \in Names /\ Tail(t) \in Seq(Names) /\ Len(Tail(t)) = Len(t) - 1
    BY <1>1, <2>1, HeadTailProperties
  <2>3. Tail(t) # <<>>
    <3>1. Len(Tail(t)) # 0 BY <2>1, <2>2
    <3>2. Len(<<>>) = 0 OBVIOUS
    <3> QED BY <3>1, <3>2
  <2>4. Entry(Head(t), Tail(t)) \in Plain BY <1>1, <2>1, <2>2, <2>3 DEF Entry, Plain
  <2> DEFINE e == Entry(Head(t), Tail(t))
  <2> HIDE DEF e
  <2>5. Append(d, e) \in Entries BY <2>4, AppendProperties DEF e, Entries
  <2> QED BY <1>2, <1>4, <2>5 DEF e
<1> QED BY <1>3, <1>4

ParseOp == [l \in LineText |-> [d \in Entries |-> ParseLine(d, l)]]

\* ParseLines() takes one line after the other.
LEMMA ParseTrace ==
  ASSUME NEW s \in Seq(LineText)
  PROVE  \E f \in [0..Len(s) -> Entries] :
            IsTrace(f, <<>>, ParseOp, s, Len(s)) /\ ParseLines(s) = f[Len(s)]
<1> DEFINE n == Len(s)
           op == ParseOp
           eq(g) == g = [d \in SUBSET (DOMAIN s) |->
                      IF d = {} THEN <<>> ELSE ParseLine(g[d \ {Max(d)}], s[Max(d)])]
           it == CHOOSE g : eq(g)
<1>0. n \in Nat /\ DOMAIN s = 1..n /\ \A i \in 1..n : s[i] \in LineText OBVIOUS
<1>1. ParseLines(s) = it[DOMAIN s] BY DEF ParseLines, FoldLeft, MapThenFoldSet
<1>2. <<>> \in Entries BY DEF Entries
<1>3. op \in [LineText -> [Entries -> Entries]] BY ParseLineType DEF ParseOp
<1>4. \E g : eq(g)
  <2>1. PICK g \in [SUBSET (1..n) -> Entries] : IsFold(g, <<>>, op, s, n)
    <3> HIDE DEF op
    <3> QED BY <1>0, <1>2, <1>3, FoldExists
  <2>2. ASSUME NEW d \in SUBSET (1..n), d # {}
        PROVE  g[d] = ParseLine(g[d \ {Max(d)}], s[Max(d)])
    <3>1. Max(d) \in d BY <1>0, <2>2, MaxOfSet
    <3>2. g[d \ {Max(d)}] \in Entries /\ s[Max(d)] \in LineText BY <1>0, <2>1, <3>1
    <3>3. g[d] = op[s[Max(d)]][g[d \ {Max(d)}]] BY <2>1, <2>2 DEF IsFold
    <3> QED BY <3>2, <3>3 DEF ParseOp
  <2>3. g[{}] = <<>>
    <3>1. {} \in SUBSET (1..n) OBVIOUS
    <3> QED BY <2>1, <3>1 DEF IsFold
  <2>4. eq(g) BY <1>0, <2>1, <2>2, <2>3
  <2> HIDE DEF eq
  <2> QED BY <2>4
<1>5. eq(it)
  <2> HIDE DEF eq
  <2> QED BY <1>4
<1> HIDE DEF it
<1>6. it[1..0] = <<>>
  <2>1. 1..0 = {} /\ {} \in SUBSET (1..n) OBVIOUS
  <2> QED BY <1>0, <1>5, <2>1
<1>7. ASSUME NEW i \in 1..n, it[1..(i - 1)] \in Entries PROVE it[1..i] = op[s[i]][it[1..(i - 1)]]
  <2>0. n \in Nat BY <1>0
  <2>1. 1..i \in SUBSET (1..n) /\ 1..i # {} /\ i \in 1..i /\ (1..i) \ {i} = 1..(i - 1)
    <3> HIDE DEF n, eq, op
    <3> QED BY <2>0
  <2>2. Max(1..i) = i BY <2>1, MaxOfInterval
  <2>3. it[1..i] = ParseLine(it[1..(i - 1)], s[i]) BY <1>0, <1>5, <2>1, <2>2
  <2> QED BY <1>0, <1>7, <2>3 DEF ParseOp
<1> HIDE DEF op, eq
<1>8. \E f \in [0..n -> Entries] : IsTrace(f, <<>>, op, s, n) /\ it[1..n] = f[n]
  BY SMTT(30), <1>2, <1>3, <1>6, <1>7, FoldTrace
<1> QED BY <1>0, <1>1, <1>8 DEF op

LEMMA ParseLinesType ==
  ASSUME NEW s \in Seq(LineText)
  PROVE  ParseLines(s) \in Entries
<1>1. Len(s) \in Nat OBVIOUS
<1> QED BY <1>1, ParseTrace

LEMMA ParseLinesNothing == ParseLines(<<>>) = <<>>
<1>1. <<>> \in Seq(LineText) /\ Len(<<>>) = 0 OBVIOUS
<1>2. \E f \in [0..Len(<<>>) -> Entries] :
          IsTrace(f, <<>>, ParseOp, <<>>, Len(<<>>)) /\ ParseLines(<<>>) = f[Len(<<>>)]
  BY <1>1, ParseTrace
<1> QED BY <1>1, <1>2 DEF IsTrace

LEMMA ParseLinesAppend ==
  ASSUME NEW s \in Seq(LineText), NEW x \in LineText
  PROVE  ParseLines(Append(s, x)) = ParseLine(ParseLines(s), x)
<1> DEFINE t == Append(s, x)
<1>1. t \in Seq(LineText) BY AppendProperties
<1>2. PICK f \in [0..Len(s) -> Entries] :
          IsTrace(f, <<>>, ParseOp, s, Len(s)) /\ ParseLines(s) = f[Len(s)]
  BY ParseTrace
<1>3. PICK g \in [0..Len(t) -> Entries] :
          IsTrace(g, <<>>, ParseOp, t, Len(t)) /\ ParseLines(t) = g[Len(t)]
  BY <1>1, ParseTrace
<1>4. g[Len(t)] = ParseOp[x][f[Len(s)]] BY <1>2, <1>3, TraceAppend
<1>5. ParseLines(s) \in Entries BY ParseLinesType
<1> QED BY <1>2, <1>3, <1>4, <1>5 DEF ParseOp

\* Whatever the text, its entries are plain.
LEMMA ParseType ==
  ASSUME NEW s \in Text
  PROVE  Parse(s) \in Entries
<1>1. Tokenize(s, Line) \in Seq(LineText) BY TokenizeType DEF Text, LineText
<1> QED BY <1>1, ParseLinesType DEF Parse, ParseLines

Rereads(d) == [i \in DOMAIN d |-> Reread(d[i])]

\* What any line can be read as.
Pairs == [key : Text, values : Seq(Text)]

LEMMA RereadsAppend ==
  ASSUME NEW d \in Seq(Writable), NEW e \in Writable
  PROVE  Rereads(Append(d, e)) = Append(Rereads(d), Reread(e))
<1> DEFINE f == [x \in Writable |-> Reread(x)]
<1>1. f \in [Writable -> Pairs]
  <2>1. ASSUME NEW x \in Writable PROVE Reread(x) \in Pairs
    <3> DEFINE p == Split(RawEntry(x), Bar)
    <3>1. p \in Seq(Text) /\ p # <<>> BY WritableLine, SplitType DEF Parts
    <3> HIDE DEF p
    <3>2. Head(p) \in Text /\ Tail(p) \in Seq(Text) BY <3>1, HeadTailProperties
    <3> QED BY <3>2 DEF Reread, Entry, Pairs, p
  <2> QED BY <2>1
<1>2. ASSUME NEW v \in Seq(Writable) PROVE Rereads(v) = Mapped(f, v)
  <2>1. \A i \in DOMAIN v : v[i] \in Writable OBVIOUS
  <2>2. \A i \in DOMAIN v : Reread(v[i]) = f[v[i]] BY <2>1
  <2> HIDE DEF f
  <2> QED BY <2>2 DEF Rereads, Mapped
<1>3. f[e] = Reread(e) /\ Append(d, e) \in Seq(Writable) BY AppendProperties
<1> HIDE DEF f
<1>4. /\ Mapped(f, d) \in Seq(Pairs) /\ Len(Mapped(f, d)) = Len(d)
      /\ Mapped(f, Append(d, e)) = Append(Mapped(f, d), f[e])
  BY SMTT(30), <1>1, MapAppend
<1> QED BY <1>2, <1>3, <1>4

\* What has been written is read as it was, up to separators in values.
LEMMA ParseGetRaw ==
  ASSUME NEW d \in Seq(Writable)
  PROVE  Parse(GetRaw(d)) = Rereads(d) /\ Rereads(d) \in Entries
<1> DEFINE S == {w \in Seq(Writable) : /\ Lines(w) \in Seq(LineText)
                                      /\ ParseLines(Lines(w)) = Rereads(w)}
<1>1. <<>> \in S
  <2>1. Lines(<<>>) = <<>> /\ Rereads(<<>>) = <<>> BY DEF Lines, Rereads
  <2>2. <<>> \in Seq(LineText) /\ <<>> \in Seq(Writable) OBVIOUS
  <2> QED BY <2>1, <2>2, ParseLinesNothing
<1>2. ASSUME NEW w \in Seq(Writable), NEW e \in Writable, w \in S PROVE Append(w, e) \in S
  <2>0. Append(w, e) \in Seq(Writable) BY AppendProperties
  <2>1. Lines(w) \in Seq(LineText) /\ ParseLines(Lines(w)) = Rereads(w) BY <1>2
  <2>2. Lines(Append(w, e)) = Append(Lines(w), RawEntry(e)) BY LinesAppend
  <2>3. RawEntry(e) \in LineText BY WritableLine DEF LineText
  <2>4. ParseLines(Append(Lines(w), RawEntry(e))) = ParseLine(Rereads(w), RawEntry(e))
    BY <2>1, <2>3, ParseLinesAppend
  <2>5. ParseLine(Rereads(w), RawEntry(e)) = Append(Rereads(w), Reread(e)) BY LineIsReread
  <2>6. Rereads(Append(w, e)) = Append(Rereads(w), Reread(e)) BY RereadsAppend
  <2>7. Append(Lines(w), RawEntry(e)) \in Seq(LineText)
    <3> DEFINE x == RawEntry(e)
               l == Lines(w)
    <3>1. x \in LineText /\ l \in Seq(LineText) BY <2>1, <2>3
    <3> HIDE DEF x, l
    <3>2. Append(l, x) \in Seq(LineText) BY <3>1, AppendProperties
    <3> QED BY <3>2 DEF x, l
  <2> QED BY <2>0, <2>2, <2>4, <2>5, <2>6, <2>7
<1> HIDE DEF S
<1>3. d \in S BY <1>1, <1>2, SeqInduction
<1>4. Parse(GetRaw(d)) = ParseLines(Lines(d)) BY TokensOfGetRaw DEF Parse, ParseLines
<1>5. Lines(d) \in Seq(LineText) /\ ParseLines(Lines(d)) = Rereads(d) BY <1>3 DEF S
<1> QED BY <1>4, <1>5, ParseLinesType
-----------------------------------------------------------------------------
(* The entries with a key *)

Held == Seq(Writable)

Picked(es, e, key) == IF e.key = key THEN Append(es, e) ELSE es

PickOp(key) == [e \in Writable |-> [es \in Held |-> Picked(es, e, key)]]

LEMMA PickedType ==
  ASSUME NEW es \in Held, NEW e \in Writable, NEW key
  PROVE  Picked(es, e, key) \in Held
<1>1. Append(es, e) \in Held BY AppendProperties DEF Held
<1> QED BY <1>1 DEF Picked

\* EntriesOf() takes one entry after the other.
LEMMA EntriesTrace ==
  ASSUME NEW key, NEW s \in Held
  PROVE  \E f \in [0..Len(s) -> Held] :
            IsTrace(f, <<>>, PickOp(key), s, Len(s)) /\ EntriesOf(s, key) = f[Len(s)]
<1> DEFINE n == Len(s)
           op == PickOp(key)
           eq(g) == g = [d \in SUBSET (DOMAIN s) |->
                      IF d = {} THEN <<>>
                      ELSE IF s[Max(d)].key = key THEN Append(g[d \ {Max(d)}], s[Max(d)])
                           ELSE g[d \ {Max(d)}]]
           it == CHOOSE g : eq(g)
<1>0. /\ n \in Nat /\ DOMAIN s = 1..n /\ \A i \in 1..n : s[i] \in Writable
      /\ s \in Seq(Writable)
  BY DEF Held
<1>1. EntriesOf(s, key) = it[DOMAIN s] BY DEF EntriesOf, FoldLeft, MapThenFoldSet
<1>2. <<>> \in Held BY DEF Held
<1>3. op \in [Writable -> [Held -> Held]] BY PickedType DEF PickOp
<1>4. \E g : eq(g)
  <2>1. PICK g \in [SUBSET (1..n) -> Held] : IsFold(g, <<>>, op, s, n)
    <3> HIDE DEF op
    <3> QED BY <1>0, <1>2, <1>3, FoldExists DEF Held
  <2>2. ASSUME NEW d \in SUBSET (1..n), d # {}
        PROVE  g[d] = Picked(g[d \ {Max(d)}], s[Max(d)], key)
    <3>1. Max(d) \in d BY <1>0, <2>2, MaxOfSet
    <3>2. g[d \ {Max(d)}] \in Held /\ s[Max(d)] \in Writable BY <1>0, <2>1, <3>1
    <3>3. g[d] = op[s[Max(d)]][g[d \ {Max(d)}]] BY <2>1, <2>2 DEF IsFold
    <3> QED BY <3>2, <3>3 DEF PickOp
  <2>3. g[{}] = <<>>
    <3>1. {} \in SUBSET (1..n) OBVIOUS
    <3> QED BY <2>1, <3>1 DEF IsFold
  <2>4. eq(g) BY <1>0, <2>1, <2>2, <2>3 DEF Picked
  <2> HIDE DEF eq
  <2> QED BY <2>4
<1>5. eq(it)
  <2> HIDE DEF eq
  <2> QED BY <1>4
<1> HIDE DEF it
<1>6. it[1..0] = <<>>
  <2>1. 1..0 = {} /\ {} \in SUBSET (1..n) OBVIOUS
  <2> QED BY <1>0, <1>5, <2>1
<1>7. ASSUME NEW i \in 1..n, it[1..(i - 1)] \in Held PROVE it[1..i] = op[s[i]][it[1..(i - 1)]]
  <2>0. n \in Nat BY <1>0
  <2>1. 1..i \in SUBSET (1..n) /\ 1..i # {} /\ i \in 1..i /\ (1..i) \ {i} = 1..(i - 1)
    <3> HIDE DEF n, eq, op
    <3> QED BY <2>0
  <2>2. Max(1..i) = i BY <2>1, MaxOfInterval
  <2>3. it[1..i] = Picked(it[1..(i - 1)], s[i], key) BY <1>0, <1>5, <2>1, <2>2 DEF Picked
  <2> QED BY <1>0, <1>7, <2>3 DEF PickOp
<1> HIDE DEF op, eq
<1>8. \E f \in [0..n -> Held] : IsTrace(f, <<>>, op, s, n) /\ it[1..n] = f[n]
  BY <1>0, <1>2, <1>3, <1>6, <1>7, FoldTrace
<1> QED BY <1>0, <1>1, <1>8 DEF op

LEMMA EntriesType ==
  ASSUME NEW key, NEW s \in Held
  PROVE  EntriesOf(s, key) \in Held
<1>1. Len(s) \in Nat BY DEF Held
<1> QED BY <1>1, EntriesTrace

LEMMA EntriesNothing == ASSUME NEW key PROVE EntriesOf(<<>>, key) = <<>>
<1>1. <<>> \in Held /\ Len(<<>>) = 0 BY DEF Held
<1>2. \E f \in [0..Len(<<>>) -> Held] :
          IsTrace(f, <<>>, PickOp(key), <<>>, Len(<<>>)) /\ EntriesOf(<<>>, key) = f[Len(<<>>)]
  BY <1>1, EntriesTrace
<1> QED BY <1>1, <1>2 DEF IsTrace

LEMMA EntriesAppend ==
  ASSUME NEW key, NEW s \in Held, NEW x \in Writable
  PROVE  EntriesOf(Append(s, x), key) = Picked(EntriesOf(s, key), x, key)
<1> DEFINE t == Append(s, x)
<1>1. t \in Held BY AppendProperties DEF Held
<1>2. PICK f \in [0..Len(s) -> Held] :
          IsTrace(f, <<>>, PickOp(key), s, Len(s)) /\ EntriesOf(s, key) = f[Len(s)]
  BY EntriesTrace
<1>3. PICK g \in [0..Len(t) -> Held] :
          IsTrace(g, <<>>, PickOp(key), t, Len(t)) /\ EntriesOf(t, key) = g[Len(t)]
  BY <1>1, EntriesTrace
<1>4. g[Len(t)] = PickOp(key)[x][f[Len(s)]] BY <1>2, <1>3, TraceAppend DEF Held
<1>5. EntriesOf(s, key) \in Held BY EntriesType
<1> QED BY <1>2, <1>3, <1>4, <1>5 DEF PickOp

\* Of two sequences, one behind the other.
LEMMA EntriesConcat ==
  ASSUME NEW key, NEW s \in Held, NEW t \in Held
  PROVE  EntriesOf(s \o t, key) = EntriesOf(s, key) \o EntriesOf(t, key)
<1> DEFINE a == EntriesOf(s, key)
           S == {u \in Held : EntriesOf(s \o u, key) = a \o EntriesOf(u, key)}
<1>0. a \in Held BY EntriesType
<1> HIDE DEF a
<1>1. <<>> \in S
  <2>1. <<>> \in Held /\ s \o <<>> = s /\ a \o <<>> = a BY <1>0, ConcatEmptySeq DEF Held
  <2> QED BY <2>1, EntriesNothing DEF a
<1>2. ASSUME NEW u \in Held, NEW x \in Writable, u \in S PROVE Append(u, x) \in S
  <2> DEFINE b == EntriesOf(u, key)
  <2>1. Append(u, x) \in Held BY AppendProperties DEF Held
  <2>2. b \in Held BY EntriesType
  <2>3. s \o Append(u, x) = Append(s \o u, x) /\ s \o u \in Held
    BY AppendBehind, ConcatProperties DEF Held
  <2>4. EntriesOf(Append(s \o u, x), key) = Picked(EntriesOf(s \o u, key), x, key)
    BY <2>3, EntriesAppend
  <2>5. EntriesOf(s \o u, key) = a \o b BY <1>2
  <2>6. EntriesOf(Append(u, x), key) = Picked(b, x, key) BY EntriesAppend
  <2> HIDE DEF b
  <2>7. Picked(a \o b, x, key) = a \o Picked(b, x, key)
    <3>1. a \in Seq(Writable) /\ b \in Seq(Writable) BY <1>0, <2>2 DEF Held
    <3>2. a \o Append(b, x) = Append(a \o b, x) BY <3>1, AppendBehind
    <3> QED BY <3>2 DEF Picked
  <2> QED BY <2>1, <2>3, <2>4, <2>5, <2>6, <2>7
<1> HIDE DEF S
<1>3. t \in S BY <1>1, <1>2, SeqInduction DEF Held
<1> QED BY <1>3 DEF S, a

\* One entry in the place of another, or none: of two other keys.
LEMMA EntriesElsewhere ==
  ASSUME NEW key, NEW d \in Held, NEW i \in 1..Len(d), d[i].key # key
  PROVE  /\ RemoveAt(d, i) \in Held
         /\ EntriesOf(RemoveAt(d, i), key) = EntriesOf(d, key)
         /\ \A e \in Writable : e.key # key =>
                /\ [d EXCEPT ![i] = e] \in Held
                /\ EntriesOf([d EXCEPT ![i] = e], key) = EntriesOf(d, key)
<1> DEFINE a == SubSeq(d, 1, i - 1)
           b == SubSeq(d, i + 1, Len(d))
<1>1. /\ d \in Seq(Writable) /\ Len(d) \in Nat /\ a \in Held /\ b \in Held
      /\ Len(a) = i - 1 /\ Len(b) = Len(d) - i
      /\ \A j \in 1..(i - 1) : a[j] = d[j]
      /\ \A j \in 1..(Len(d) - i) : b[j] = d[i + j]
  BY DEF Held
<1> HIDE DEF a, b
<1>2. ASSUME NEW e \in Writable, e.key # key
      PROVE  Append(a, e) \in Held /\ EntriesOf(Append(a, e) \o b, key) = EntriesOf(a \o b, key)
  <2>1. Append(a, e) \in Held BY <1>1, AppendProperties DEF Held
  <2>2. EntriesOf(Append(a, e), key) = EntriesOf(a, key) BY <1>1, <1>2, EntriesAppend DEF Picked
  <2> DEFINE p == Append(a, e)
  <2> HIDE DEF p
  <2>3. EntriesOf(p \o b, key) = EntriesOf(p, key) \o EntriesOf(b, key)
    BY <1>1, <2>1, EntriesConcat DEF p
  <2>4. EntriesOf(a \o b, key) = EntriesOf(a, key) \o EntriesOf(b, key)
    BY <1>1, EntriesConcat
  <2> QED BY <2>1, <2>2, <2>3, <2>4 DEF p
<1>3. ASSUME NEW e \in Writable
      PROVE  [d EXCEPT ![i] = e] \in Held /\ [d EXCEPT ![i] = e] = Append(a, e) \o b
  <2> DEFINE l == [d EXCEPT ![i] = e]
             p == Append(a, e)
  <2>1. l \in Seq(Writable) /\ Len(l) = Len(d) /\ \A j \in 1..Len(d) : l[j] = IF j = i THEN e ELSE d[j]
    BY <1>1, ExceptSeq
  <2>2. p \in Seq(Writable) /\ Len(p) = i /\ p[i] = e /\ \A j \in 1..(i - 1) : p[j] = d[j]
    BY <1>1, AppendProperties DEF Held
  <2> HIDE DEF l, p
  <2>3. /\ p \o b \in Seq(Writable) /\ Len(p \o b) = Len(d)
        /\ \A j \in 1..Len(d) : (p \o b)[j] = IF j <= i THEN p[j] ELSE b[j - i]
    <3>1. b \in Seq(Writable) BY <1>1 DEF Held
    <3>2. /\ p \o b \in Seq(Writable) /\ Len(p \o b) = Len(p) + Len(b)
          /\ \A j \in 1..(Len(p) + Len(b)) :
                 (p \o b)[j] = IF j <= Len(p) THEN p[j] ELSE b[j - Len(p)]
      BY <2>2, <3>1, ConcatProperties
    <3>3. Len(p) + Len(b) = Len(d) BY <1>1, <2>2
    <3> QED BY <2>2, <3>2, <3>3
  <2>4. ASSUME NEW j \in 1..Len(d) PROVE l[j] = (p \o b)[j]
    <3>1. CASE j <= i
      <4>1. j = i \/ j \in 1..(i - 1) BY <1>1, <3>1
      <4> QED BY <1>1, <2>1, <2>2, <2>3, <3>1, <4>1
    <3>2. CASE ~(j <= i)
      <4>1. j - i \in 1..(Len(d) - i) /\ i + (j - i) = j /\ j # i BY <1>1, <3>2
      <4>2. b[j - i] = d[j] BY <1>1, <4>1
      <4> QED BY <2>1, <2>3, <3>2, <4>1, <4>2
    <3> QED BY <3>1, <3>2
  <2> DEFINE r == p \o b
  <2> HIDE DEF r
  <2>5. l = r BY <2>1, <2>3, <2>4, SeqEqual DEF r
  <2> QED BY <2>1, <2>5 DEF l, p, r, Held
<1>4. d[i] \in Writable /\ [d EXCEPT ![i] = d[i]] = d BY <1>1
<1>5. EntriesOf(d, key) = EntriesOf(a \o b, key)
  <2>1. d = Append(a, d[i]) \o b BY <1>3, <1>4
  <2>2. EntriesOf(Append(a, d[i]) \o b, key) = EntriesOf(a \o b, key) BY <1>2, <1>4
  <2> QED BY <2>1, <2>2
<1>6. RemoveAt(d, i) = a \o b BY DEF RemoveAt, a, b
<1>7. a \o b \in Held BY <1>1, ConcatProperties DEF Held
<1>8. ASSUME NEW e \in Writable, e.key # key
      PROVE  /\ [d EXCEPT ![i] = e] \in Held
             /\ EntriesOf([d EXCEPT ![i] = e], key) = EntriesOf(d, key)
  BY <1>2, <1>3, <1>5, <1>8
<1> QED BY <1>5, <1>6, <1>7, <1>8

\* Written and read, plain entries with a key are what they were.
LEMMA EntriesReread ==
  ASSUME NEW key, NEW d \in Held, \A i \in DOMAIN d : d[i].key = key => d[i] \in Plain
  PROVE  EntriesOf(Rereads(d), key) = EntriesOf(d, key)
<1> DEFINE Good(w) == \A i \in DOMAIN w : w[i].key = key => w[i] \in Plain
           S == {w \in Held : Good(w) => EntriesOf(Rereads(w), key) = EntriesOf(w, key)}
<1>1. <<>> \in S
  <2>1. Rereads(<<>>) = <<>> BY DEF Rereads
  <2> QED BY <2>1 DEF Held
<1>2. ASSUME NEW w \in Held, NEW e \in Writable, w \in S PROVE Append(w, e) \in S
  <2> DEFINE z == Append(w, e)
             o == Rereads(w)
  <2>1. /\ z \in Held /\ Len(z) = Len(w) + 1 /\ z[Len(w) + 1] = e
        /\ Len(w) \in Nat /\ \A i \in 1..Len(w) : z[i] = w[i]
        /\ DOMAIN z = 1..(Len(w) + 1) /\ DOMAIN w = 1..Len(w)
    BY AppendProperties DEF Held
  <2> HIDE DEF z
  <2> SUFFICES ASSUME Good(z) PROVE EntriesOf(Rereads(z), key) = EntriesOf(z, key) BY <2>1 DEF z
  <2>2. Good(w)
    <3>1. \A i \in 1..Len(w) : i \in DOMAIN z /\ z[i] = w[i] BY <2>1
    <3> QED BY <2>1, <3>1
  <2>3. e.key = key => e \in Plain
    <3>1. Len(w) + 1 \in DOMAIN z BY <2>1
    <3> QED BY <2>1, <3>1
  <2> HIDE DEF Good
  <2>4. EntriesOf(o, key) = EntriesOf(w, key) BY <1>2, <2>2
  <2>5. Rereads(z) = Append(o, Reread(e)) BY RereadsAppend DEF z, Held
  <2>6. o \in Held
    <3>1. o \in Entries BY ParseGetRaw DEF Held
    <3> HIDE DEF o
    <3> QED BY <3>1, PlainIsWritable, SeqMonotonic DEF Entries, Held
  <2>7. Reread(e).key = e.key /\ (e \in Plain => Reread(e) = e) BY LineIsReread
  <2>8. Reread(e) \in Writable
    <3> DEFINE one == Append(<<>>, e)
    <3>1. one \in Seq(Writable) /\ Len(one) = 1 /\ one[1] = e /\ DOMAIN one = {1} OBVIOUS
    <3> HIDE DEF one
    <3>2. Rereads(one) \in Entries BY <3>1, ParseGetRaw
    <3>3. DOMAIN Rereads(one) = {1} /\ Rereads(one)[1] = Reread(e) BY <3>1 DEF Rereads
    <3>4. Rereads(one)[1] \in Plain BY <3>2, <3>3 DEF Entries
    <3> QED BY <3>3, <3>4, PlainIsWritable
  <2>9. EntriesOf(Append(o, Reread(e)), key) = Picked(EntriesOf(o, key), Reread(e), key)
    BY <2>6, <2>8, EntriesAppend
  <2>10. EntriesOf(z, key) = Picked(EntriesOf(w, key), e, key) BY EntriesAppend DEF z
  <2> QED BY <2>3, <2>4, <2>5, <2>7, <2>9, <2>10 DEF Picked
<1> HIDE DEF S
<1>3. d \in S BY <1>1, <1>2, SeqInduction DEF Held
<1> QED BY <1>3 DEF S
-----------------------------------------------------------------------------
(* Entries without a key *)

\* An entry that a script may leave: without a key it continues a line.
Loose == [key : Names, values : Seq(LineText) \ {<<>>}]

LEMMA LooseParts ==
  ASSUME NEW e \in Loose
  PROVE  /\ e = Entry(e.key, e.values) /\ e.key \in Names /\ e.key \in Text
         /\ e.values \in Seq(LineText) /\ e.values # <<>> /\ e.values \in Seq(Text)
         /\ RawEntry(e) \in Text
<1>1. /\ e.key \in Names /\ e.values \in Seq(LineText) /\ e.values # <<>>
      /\ e = Entry(e.key, e.values)
  BY DEF Loose, Entry
<1>2. e.key \in Text
  <2>1. Symbols \ {Bar, Line} \subseteq Symbols OBVIOUS
  <2> QED BY <1>1, <2>1, SeqMonotonic DEF Names, Text
<1>3. LineText \subseteq Text BY SeqMonotonic DEF Text, LineText
<1>4. e.values \in Seq(Text) BY <1>1, <1>3, SeqMonotonic
<1>5. RawEntry(Entry(e.key, e.values)) \in Text BY <1>2, <1>4, CharIsText, RawAppend
<1> QED BY <1>1, <1>2, <1>4, <1>5

\* With a key it begins one.
LEMMA LooseOrWritable ==
  /\ \A e \in Writable : e \in Loose
  /\ \A e \in Loose : e.key # <<>> => e \in Writable
BY DEF Writable, Loose, LineText

LEMMA WritableAreLoose == Seq(Writable) \subseteq Seq(Loose)
<1>1. Writable \subseteq Loose BY LooseOrWritable
<1> QED BY <1>1, SeqMonotonic

\* Without a key its values are read as further values.
LEMMA RawConcat ==
  ASSUME NEW k \in Text, NEW v \in Seq(Text), NEW u \in Seq(Text)
  PROVE  RawEntry(Entry(k, v \o u)) = RawEntry(Entry(k, v)) \o RawEntry(Entry(<<>>, u))
<1> DEFINE e == <<>>
           r == RawEntry(Entry(k, v))
           R(w) == RawEntry(Entry(e, w))
           S == {w \in Seq(Text) : RawEntry(Entry(k, v \o w)) = r \o R(w)}
<1>0. e \in Text /\ r \in Text BY CharIsText, RawAppend
<1>1. <<>> \in S
  <2>1. v \o <<>> = v /\ r \o <<>> = r BY <1>0, ConcatEmptySeq DEF Text
  <2>2. R(<<>>) = <<>> BY <1>0, RawKey
  <2>3. <<>> \in Seq(Text) OBVIOUS
  <2> QED BY <2>1, <2>2, <2>3
<1> HIDE DEF e
<1>2. ASSUME NEW w \in Seq(Text), NEW x \in Text, w \in S PROVE Append(w, x) \in S
  <2> DEFINE b == R(w)
  <2>1. v \o Append(w, x) = Append(v \o w, x) BY PartsBehind
  <2>2. v \o w \in Seq(Text) BY ConcatProperties
  <2>3. RawEntry(Entry(k, Append(v \o w, x))) = Append(RawEntry(Entry(k, v \o w)), Bar) \o x
    BY <2>2, RawAppend
  <2>4. b \in Text /\ R(Append(w, x)) = Append(b, Bar) \o x BY <1>0, RawAppend
  <2>5. RawEntry(Entry(k, v \o w)) = r \o b BY <1>2
  <2> HIDE DEF b, r
  <2>6. Append(r \o b, Bar) \o x = r \o (Append(b, Bar) \o x)
    <3>1. r \in Seq(Symbols) /\ b \in Seq(Symbols) /\ x \in Seq(Symbols) /\ Bar \in Symbols
      BY <1>0, <2>4, Separators DEF Text
    <3>2. r \o Append(b, Bar) = Append(r \o b, Bar) BY <3>1, AppendBehind
    <3> DEFINE c == Append(b, Bar)
    <3>3. c \in Seq(Symbols) BY <3>1, AppendProperties
    <3> HIDE DEF c
    <3>4. (r \o c) \o x = r \o (c \o x) BY ONLY SMTT(30), <3>1, <3>3, ConcatAssociative
    <3> QED BY <3>2, <3>4 DEF c
  <2>7. Append(w, x) \in Seq(Text) BY AppendProperties
  <2> HIDE DEF R
  <2> QED BY <2>1, <2>3, <2>4, <2>5, <2>6, <2>7
<1> HIDE DEF S
<1>3. u \in S BY <1>1, <1>2, SeqInduction
<1> QED BY <1>3 DEF S, e

\* The texts that get_raw() puts together.
Break(d, i) == IF i < Len(d) /\ d[i + 1].key # <<>> THEN <<Line>> ELSE <<>>
RawLines(d) == [i \in DOMAIN d |-> RawEntry(d[i]) \o Break(d, i)]

LEMMA RawLinesType ==
  ASSUME NEW d \in Seq(Loose)
  PROVE  /\ RawLines(d) \in Seq(Text) /\ Len(RawLines(d)) = Len(d)
         /\ \A i \in 1..Len(d) : RawLines(d)[i] = RawEntry(d[i]) \o Break(d, i)
         /\ GetRaw(d) = FlattenSeq(RawLines(d)) /\ GetRaw(d) \in Text
<1> DEFINE l == RawLines(d)
<1>1. Len(d) \in Nat /\ DOMAIN d = 1..Len(d) /\ \A i \in 1..Len(d) : d[i] \in Loose OBVIOUS
<1>2. ASSUME NEW i \in 1..Len(d) PROVE RawEntry(d[i]) \o Break(d, i) \in Text
  <2>1. RawEntry(d[i]) \in Text BY <1>1, LooseParts
  <2>2. Break(d, i) \in Seq(Symbols) BY Separators DEF Break
  <2> QED BY <2>1, <2>2, ConcatProperties DEF Text
<1>3. l \in [1..Len(d) -> Text] /\ \A i \in 1..Len(d) : l[i] = RawEntry(d[i]) \o Break(d, i)
  BY <1>1, <1>2 DEF RawLines
<1> HIDE DEF l
<1>4. l \in Seq(Text) /\ Len(l) = Len(d) BY <1>1, <1>3, FunctionIsSeq
<1>5. FlattenSeq(l) \in Text BY <1>4, FlattenType DEF Text
<1>6. GetRaw(d) = FlattenSeq(l) BY DEF GetRaw, RawLines, Break, l
<1> QED BY <1>3, <1>4, <1>5, <1>6 DEF l

\* One more entry begins a line if it has a key.
LEMMA LooseAppend ==
  ASSUME NEW d \in Seq(Loose), d # <<>>, NEW e \in Loose
  PROVE  GetRaw(Append(d, e))
             = (GetRaw(d) \o (IF e.key # <<>> THEN <<Line>> ELSE <<>>)) \o RawEntry(e)
<1> DEFINE n == Len(d)
           z == Append(d, e)
           x == RawEntry(e)
           s == IF e.key # <<>> THEN <<Line>> ELSE <<>>
           ld == RawLines(d)
           lz == RawLines(z)
<1>1. /\ n \in Nat /\ n > 0 /\ z \in Seq(Loose) /\ Len(z) = n + 1 /\ z[n + 1] = e
      /\ \A i \in 1..n : z[i] = d[i] /\ d[i] \in Loose
  BY AppendProperties
<1>2. x \in Text /\ s \in Text /\ RawEntry(d[n]) \in Text
  <2>1. n \in 1..n BY <1>1
  <2>2. d[n] \in Loose BY <1>1, <2>1
  <2>3. s \in Seq(Symbols) BY Separators
  <2> QED BY <2>2, <2>3, LooseParts DEF Text
<1> HIDE DEF z
<1>3. /\ ld \in Seq(Text) /\ Len(ld) = n
      /\ \A i \in 1..n : ld[i] = RawEntry(d[i]) \o Break(d, i)
      /\ GetRaw(d) = FlattenSeq(ld)
  BY RawLinesType
<1>4. /\ lz \in Seq(Text) /\ Len(lz) = n + 1
      /\ \A i \in 1..(n + 1) : lz[i] = RawEntry(z[i]) \o Break(z, i)
      /\ GetRaw(z) = FlattenSeq(lz)
  BY <1>1, RawLinesType
<1> HIDE DEF ld, lz
<1>5. PICK q \in Seq(Text), a \in Text : ld = Append(q, a)
  <2>1. ld # <<>> BY <1>1, <1>3
  <2> QED BY <1>3, <2>1, SequenceEmptyOrAppend
<1>6. Len(q) = n - 1 /\ ld[n] = a /\ \A i \in 1..(n - 1) : ld[i] = q[i]
  BY <1>1, <1>3, <1>5, AppendProperties
<1> HIDE DEF n, x, s
<1>7. a = RawEntry(d[n])
  <2>1. n \in 1..n /\ ~(n < Len(d)) BY <1>1 DEF n
  <2>2. Break(d, n) = <<>> BY <2>1 DEF Break
  <2>3. ld[n] = RawEntry(d[n]) \o <<>> BY <1>3, <2>1, <2>2
  <2>4. RawEntry(d[n]) \o <<>> = RawEntry(d[n]) BY <1>2, ConcatEmptySeq DEF Text
  <2> QED BY <1>6, <2>3, <2>4
<1>8. \A i \in 1..(n - 1) : lz[i] = q[i]
  <2> SUFFICES ASSUME NEW i \in 1..(n - 1) PROVE lz[i] = q[i] OBVIOUS
  <2>1. /\ i \in 1..n /\ i + 1 \in 1..n /\ i \in 1..(n + 1)
        /\ i < n + 1 /\ i < n
    BY <1>1
  <2>2. z[i] = d[i] /\ z[i + 1] = d[i + 1] BY <1>1, <2>1
  <2>3. Break(z, i) = Break(d, i) BY <1>1, <2>1, <2>2 DEF Break, n
  <2>4. lz[i] = ld[i] BY <1>3, <1>4, <2>1, <2>2, <2>3
  <2> QED BY <1>6, <2>4
<1>9. lz[n] = a \o s
  <2>1. n \in 1..n /\ n \in 1..(n + 1) /\ n < n + 1 BY <1>1
  <2>2. Break(z, n) = s BY <1>1, <2>1 DEF Break, s
  <2>3. z[n] = d[n] BY <1>1, <2>1
  <2> QED BY <1>4, <1>7, <2>1, <2>2, <2>3
<1>10. lz[n + 1] = x
  <2>1. n + 1 \in 1..(n + 1) /\ ~(n + 1 < n + 1) BY <1>1
  <2>2. Break(z, n + 1) = <<>> BY <1>1, <2>1 DEF Break
  <2>3. lz[n + 1] = x \o <<>> BY <1>1, <1>4, <2>1, <2>2 DEF x
  <2> QED BY <1>2, <2>3, ConcatEmptySeq DEF Text
<1> DEFINE y == a \o s
           p == Append(q, y)
           r == Append(p, x)
<1>11. y \in Text BY <1>2, <1>5, ConcatProperties DEF Text
<1> HIDE DEF y
<1>12. /\ p \in Seq(Text) /\ Len(p) = n /\ p[n] = y /\ \A i \in 1..(n - 1) : p[i] = q[i]
  <2>1. n - 1 \in Nat /\ (n - 1) + 1 = n BY <1>1
  <2> QED BY <1>5, <1>6, <1>11, <2>1, AppendProperties
<1> HIDE DEF p
<1>13. r \in Seq(Text) /\ Len(r) = n + 1 /\ r[n + 1] = x /\ \A i \in 1..n : r[i] = p[i]
  BY <1>2, <1>12, AppendProperties
<1> HIDE DEF r
<1>14. lz = r
  <2>1. ASSUME NEW i \in 1..(n + 1) PROVE lz[i] = r[i]
    <3>1. i = n + 1 \/ i = n \/ i \in 1..(n - 1) BY <1>1
    <3>2. i # n + 1 => i \in 1..n BY <1>1
    <3> QED BY <1>8, <1>9, <1>10, <1>12, <1>13, <3>1, <3>2 DEF y
  <2> QED BY <1>4, <1>13, <2>1, SeqEqual
<1> DEFINE f == FlattenSeq(q)
<1>15. f \in Text BY <1>5, FlattenType DEF Text
<1>16. GetRaw(d) = f \o a BY <1>3, <1>5, FlattenAppend DEF Text
<1>17. FlattenSeq(r) = FlattenSeq(p) \o x BY <1>2, <1>12, FlattenAppend DEF Text, r
<1>18. FlattenSeq(p) = f \o y BY <1>5, <1>11, FlattenAppend DEF Text, p
<1> HIDE DEF f
<1>19. f \o y = (f \o a) \o s
  <2>1. f \in Seq(Symbols) /\ a \in Seq(Symbols) /\ s \in Seq(Symbols)
    BY <1>2, <1>5, <1>15 DEF Text
  <2>2. (f \o a) \o s = f \o (a \o s) BY <2>1, ConcatAssociative
  <2> QED BY <2>2 DEF y
<1>20. GetRaw(z) = ((f \o a) \o s) \o x BY <1>4, <1>14, <1>17, <1>18, <1>19
<1> QED BY <1>16, <1>20 DEF z, s, x

\* The keys that are not empty: NamesIn() takes one after the other.
Keyed == Seq(Names)
Named(ks, e) == IF e.key = <<>> THEN ks ELSE Append(ks, e.key)
NameOp == [e \in Loose |-> [ks \in Keyed |-> Named(ks, e)]]

LEMMA NamedType ==
  ASSUME NEW ks \in Keyed, NEW e \in Loose
  PROVE  Named(ks, e) \in Keyed
<1>1. e.key \in Names BY LooseParts
<1>2. Append(ks, e.key) \in Keyed BY <1>1, AppendProperties DEF Keyed
<1> QED BY <1>2 DEF Named

LEMMA NamesTrace ==
  ASSUME NEW s \in Seq(Loose)
  PROVE  \E f \in [0..Len(s) -> Keyed] :
            IsTrace(f, <<>>, NameOp, s, Len(s)) /\ NamesIn(s) = f[Len(s)]
<1> DEFINE n == Len(s)
           op == NameOp
           eq(g) == g = [d \in SUBSET (DOMAIN s) |->
                      IF d = {} THEN <<>>
                      ELSE IF s[Max(d)].key = <<>> THEN g[d \ {Max(d)}]
                           ELSE Append(g[d \ {Max(d)}], s[Max(d)].key)]
           it == CHOOSE g : eq(g)
<1>0. n \in Nat /\ DOMAIN s = 1..n /\ \A i \in 1..n : s[i] \in Loose OBVIOUS
<1>1. NamesIn(s) = it[DOMAIN s] BY DEF NamesIn, FoldLeft, MapThenFoldSet
<1>2. <<>> \in Keyed BY DEF Keyed
<1>3. op \in [Loose -> [Keyed -> Keyed]] BY NamedType DEF NameOp
<1>4. \E g : eq(g)
  <2>1. PICK g \in [SUBSET (1..n) -> Keyed] : IsFold(g, <<>>, op, s, n)
    <3> HIDE DEF op
    <3> QED BY <1>0, <1>2, <1>3, FoldExists
  <2>2. ASSUME NEW d \in SUBSET (1..n), d # {}
        PROVE  g[d] = Named(g[d \ {Max(d)}], s[Max(d)])
    <3>1. Max(d) \in d BY <1>0, <2>2, MaxOfSet
    <3>2. g[d \ {Max(d)}] \in Keyed /\ s[Max(d)] \in Loose BY <1>0, <2>1, <3>1
    <3>3. g[d] = op[s[Max(d)]][g[d \ {Max(d)}]] BY <2>1, <2>2 DEF IsFold
    <3> QED BY <3>2, <3>3 DEF NameOp
  <2>3. g[{}] = <<>>
    <3>1. {} \in SUBSET (1..n) OBVIOUS
    <3> QED BY <2>1, <3>1 DEF IsFold
  <2>4. eq(g) BY <1>0, <2>1, <2>2, <2>3 DEF Named
  <2> HIDE DEF eq
  <2> QED BY <2>4
<1>5. eq(it)
  <2> HIDE DEF eq
  <2> QED BY <1>4
<1> HIDE DEF it
<1>6. it[1..0] = <<>>
  <2>1. 1..0 = {} /\ {} \in SUBSET (1..n) OBVIOUS
  <2> QED BY <1>0, <1>5, <2>1
<1>7. ASSUME NEW i \in 1..n, it[1..(i - 1)] \in Keyed PROVE it[1..i] = op[s[i]][it[1..(i - 1)]]
  <2>0. n \in Nat BY <1>0
  <2>1. 1..i \in SUBSET (1..n) /\ 1..i # {} /\ i \in 1..i /\ (1..i) \ {i} = 1..(i - 1)
    <3> HIDE DEF n, eq, op
    <3> QED BY <2>0
  <2>2. Max(1..i) = i BY <2>1, MaxOfInterval
  <2>3. it[1..i] = Named(it[1..(i - 1)], s[i]) BY <1>0, <1>5, <2>1, <2>2 DEF Named
  <2> QED BY <1>0, <1>7, <2>3 DEF NameOp
<1> HIDE DEF op, eq
<1>8. \E f \in [0..n -> Keyed] : IsTrace(f, <<>>, op, s, n) /\ it[1..n] = f[n]
  BY <1>0, <1>2, <1>3, <1>6, <1>7, FoldTrace
<1> QED BY <1>0, <1>1, <1>8 DEF op

LEMMA NamesNothing == NamesIn(<<>>) = <<>>
<1>1. <<>> \in Seq(Loose) /\ Len(<<>>) = 0 OBVIOUS
<1>2. \E f \in [0..Len(<<>>) -> Keyed] :
          IsTrace(f, <<>>, NameOp, <<>>, Len(<<>>)) /\ NamesIn(<<>>) = f[Len(<<>>)]
  BY <1>1, NamesTrace
<1> QED BY <1>1, <1>2 DEF IsTrace

LEMMA NamesAppend ==
  ASSUME NEW s \in Seq(Loose), NEW x \in Loose
  PROVE  NamesIn(s) \in Keyed /\ NamesIn(Append(s, x)) = Named(NamesIn(s), x)
<1> DEFINE t == Append(s, x)
<1>1. t \in Seq(Loose) BY AppendProperties
<1>2. PICK f \in [0..Len(s) -> Keyed] :
          IsTrace(f, <<>>, NameOp, s, Len(s)) /\ NamesIn(s) = f[Len(s)]
  BY NamesTrace
<1>3. PICK g \in [0..Len(t) -> Keyed] :
          IsTrace(g, <<>>, NameOp, t, Len(t)) /\ NamesIn(t) = g[Len(t)]
  BY <1>1, NamesTrace
<1>4. g[Len(t)] = NameOp[x][f[Len(s)]] BY <1>2, <1>3, TraceAppend
<1>5. NamesIn(s) \in Keyed
  <2>1. Len(s) \in 0..Len(s) OBVIOUS
  <2> QED BY <1>2, <2>1
<1> QED BY <1>2, <1>3, <1>4, <1>5 DEF NameOp

\* Of entries with a key they are all keys.
LEMMA NamesOfWritable ==
  ASSUME NEW d \in Seq(Writable)
  PROVE  NamesIn(d) = [i \in DOMAIN d |-> d[i].key]
<1> DEFINE f == [x \in Writable |-> x.key]
           S == {w \in Seq(Writable) : NamesIn(w) = Mapped(f, w)}
<1>1. f \in [Writable -> Names] BY DEF Writable
<1>2. <<>> \in S
  <2>1. Mapped(f, <<>>) = <<>> BY DEF Mapped
  <2> QED BY <2>1, NamesNothing
<1>3. ASSUME NEW w \in Seq(Writable), NEW e \in Writable, w \in S PROVE Append(w, e) \in S
  <2>1. f[e] = e.key /\ e.key # <<>> BY WritableParts
  <2> HIDE DEF f
  <2>2. /\ Mapped(f, w) \in Seq(Names) /\ Len(Mapped(f, w)) = Len(w)
        /\ Mapped(f, Append(w, e)) = Append(Mapped(f, w), f[e])
    BY SMTT(30), <1>1, MapAppend
  <2>3. NamesIn(Append(w, e)) = Append(NamesIn(w), e.key)
    <3>1. w \in Seq(Loose) /\ e \in Loose BY WritableAreLoose, LooseOrWritable
    <3>2. NamesIn(Append(w, e)) = Named(NamesIn(w), e) BY <3>1, NamesAppend
    <3> QED BY <2>1, <3>2 DEF Named
  <2>4. Append(w, e) \in Seq(Writable) BY AppendProperties
  <2> QED BY <1>3, <2>1, <2>2, <2>3, <2>4
<1> HIDE DEF S
<1>4. d \in S BY <1>2, <1>3, SeqInduction
<1>5. \A i \in DOMAIN d : f[d[i]] = d[i].key
  <2>1. \A i \in DOMAIN d : d[i] \in Writable OBVIOUS
  <2> QED BY <2>1
<1> HIDE DEF f
<1>6. Mapped(f, d) = [i \in DOMAIN d |-> d[i].key] BY <1>5 DEF Mapped
<1> QED BY <1>4, <1>6 DEF S

\* Behind an entry with a key the others only lengthen lines: the same text
\* comes from entries with keys.
LEMMA LooseAsWritten ==
  ASSUME NEW d \in Seq(Loose), d # <<>> => Head(d).key # <<>>
  PROVE  \E w \in Seq(Writable) : GetRaw(w) = GetRaw(d) /\ NamesIn(w) = NamesIn(d)
<1> DEFINE Same(v, u) == GetRaw(v) = GetRaw(u) /\ NamesIn(v) = NamesIn(u)
           Good(u) == \E v \in Seq(Writable) : v # <<>> /\ Same(v, u)
           S == {u \in Seq(Loose) : u # <<>> /\ u[1].key # <<>> => Good(u)}
<1>1. <<>> \in S OBVIOUS
<1>2. ASSUME NEW u \in Seq(Loose), NEW e \in Loose, u \in S PROVE Append(u, e) \in S
  <2> DEFINE z == Append(u, e)
             x == RawEntry(e)
  <2>1. z \in Seq(Loose) BY AppendProperties
  <2> HIDE DEF Good
  <2> SUFFICES ASSUME z[1].key # <<>> PROVE Good(z) BY <2>1
  <2>2. CASE u = <<>>
    <3>1. z[1] = e BY <2>2
    <3>2. e \in Writable BY <3>1, LooseOrWritable
    <3>3. z \in Seq(Writable) /\ z # <<>> BY <2>2, <3>2, AppendProperties
    <3> QED BY <3>3 DEF Good
  <2>3. CASE u # <<>>
    <3>1. z[1] = u[1] BY <2>3
    <3>2. Good(u) BY <1>2, <2>3, <3>1
    <3>3. PICK v \in Seq(Writable) : v # <<>> /\ Same(v, u) BY <3>2 DEF Good
    <3>4. v \in Seq(Loose) BY WritableAreLoose
    <3>5. CASE e.key # <<>>
      <4>1. e \in Writable BY <3>5, LooseOrWritable
      <4>2. Append(v, e) \in Seq(Writable) /\ Append(v, e) # <<>> BY <4>1, AppendProperties
      <4>3. GetRaw(Append(v, e)) = GetRaw(z) BY <2>3, <3>3, <3>4, LooseAppend
      <4>4. NamesIn(Append(v, e)) = NamesIn(z) BY <3>3, <3>4, NamesAppend
      <4> QED BY <4>2, <4>3, <4>4 DEF Good
    <3>6. CASE e.key = <<>>
      <4>1. PICK c \in Seq(Writable), l \in Writable : v = Append(c, l)
        BY <3>3, SequenceEmptyOrAppend
      <4> DEFINE m == Entry(l.key, l.values \o e.values)
      <4>2. m \in Writable /\ m.key = l.key /\ RawEntry(m) = RawEntry(l) \o x
        <5>1. /\ l \in Loose /\ l.key \in Names /\ l.key \in Text /\ l.key # <<>>
              /\ l.values \in Seq(LineText) /\ l.values \in Seq(Text) /\ l.values # <<>>
              /\ l = Entry(l.key, l.values)
          BY LooseOrWritable, LooseParts, WritableParts
        <5>2. /\ e.values \in Seq(LineText) /\ e.values \in Seq(Text) /\ e = Entry(<<>>, e.values)
          BY <3>6, LooseParts
        <5>3. l.values \o e.values \in Seq(LineText) /\ l.values \o e.values # <<>>
          BY <5>1, <5>2, ConcatProperties, ConcatEqualIffEmpty
        <5>4. m \in Loose /\ m.key = l.key BY <5>1, <5>3 DEF Loose, Entry
        <5>5. RawEntry(m) = RawEntry(Entry(l.key, l.values)) \o RawEntry(Entry(<<>>, e.values))
          BY <5>1, <5>2, RawConcat
        <5> QED BY <5>1, <5>2, <5>4, <5>5, LooseOrWritable
      <4> HIDE DEF m
      <4> DEFINE f == FlattenSeq(Closed(c))
                 y == RawEntry(l)
                 a == Append(c, m)
      <4>3. a \in Seq(Writable) /\ a # <<>> BY <4>2, AppendProperties
      <4>4. GetRaw(a) = f \o RawEntry(m) /\ GetRaw(v) = f \o y BY <4>1, <4>2, GetRawAppend
      <4>5. f \in Text /\ y \in Text /\ x \in Text
        <5>1. Closed(c) \in Seq(Text) BY <4>2, LinesAppend
        <5>2. f \in Text BY <5>1, FlattenType DEF Text
        <5> QED BY <5>2, WritableLine, LooseParts
      <4>6. GetRaw(z) = GetRaw(u) \o x
        <5>1. GetRaw(z) = (GetRaw(u) \o <<>>) \o x BY <2>3, <3>6, LooseAppend
        <5>2. GetRaw(u) \in Text BY RawLinesType
        <5>3. GetRaw(u) \o <<>> = GetRaw(u) BY <5>2, ConcatEmptySeq DEF Text
        <5> QED BY <5>1, <5>3
      <4> HIDE DEF f, y, x
      <4>7. f \o (y \o x) = (f \o y) \o x
        <5>1. f \in Seq(Symbols) /\ y \in Seq(Symbols) /\ x \in Seq(Symbols) BY <4>5 DEF Text
        <5> QED BY ONLY SMTT(30), <5>1, ConcatAssociative
      <4>8. GetRaw(a) = GetRaw(z) BY <3>3, <4>2, <4>4, <4>6, <4>7 DEF x, y
      <4>9. NamesIn(a) = NamesIn(z)
        <5>1. c \in Seq(Loose) /\ l \in Loose /\ m \in Loose
          BY <4>2, WritableAreLoose, LooseOrWritable
        <5>2. /\ NamesIn(a) = Named(NamesIn(c), m) /\ NamesIn(v) = Named(NamesIn(c), l)
              /\ NamesIn(z) = Named(NamesIn(u), e)
          BY <4>1, <5>1, NamesAppend
        <5> QED BY <3>3, <3>6, <4>2, <5>2 DEF Named
      <4> QED BY <4>3, <4>8, <4>9 DEF Good
    <3> QED BY <3>5, <3>6
  <2> QED BY <2>2, <2>3
<1> HIDE DEF S
<1>3. d \in S BY <1>1, <1>2, SeqInduction
<1>4. CASE d = <<>>
  <2>1. d \in Seq(Writable) BY <1>4
  <2> QED BY <2>1
<1>5. CASE d # <<>>
  <2>1. Head(d) = d[1] BY <1>5
  <2> QED BY <1>3, <1>5, <2>1 DEF S
<1> QED BY <1>4, <1>5
-----------------------------------------------------------------------------
(* Messages and edits *)

LEMMA ReceivedType ==
  ASSUME NEW s \in Text, NEW r \in Received(s)
  PROVE  r \in Text /\ (Short(s) => r = s)
<1>0. LengthValues \in Nat \ {0} BY CodecAssumption
<1> DEFINE n == Len(s)
           l == n % LengthValues
<1>1. n \in Nat /\ l \in Nat /\ l <= n /\ \A i \in 1..n : s[i] \in Symbols
  <2>1. n \in Nat /\ \A i \in 1..n : s[i] \in Symbols BY DEF Text
  <2> HIDE DEF n
  <2>2. n % LengthValues \in Nat /\ n % LengthValues <= n BY <1>0, <2>1
  <2> QED BY <2>1, <2>2
<1>2. CASE s # <<>> /\ l = 0
  <2>1. PICK k \in 0..(n - 2) : r = SubSeq(s, 3, 2 + k) BY <1>2 DEF Received
  <2>2. r \in Text
    <3>1. \A i \in 3..(2 + k) : s[i] \in Symbols BY <1>1, <2>1
    <3>2. SubSeq(s, 3, 2 + k) \in Seq(Symbols) BY <2>1, <3>1, SubSeqProperties
    <3> QED BY <2>1, <3>2 DEF Text
  <2>3. ~Short(s)
    <3>1. n # 0 BY <1>2 DEF Text
    <3> HIDE DEF n
    <3>2. ~(n < LengthValues) BY <1>0, <1>1, <1>2, <3>1
    <3> QED BY <3>2 DEF Short, n
  <2> QED BY <2>2, <2>3
<1>3. CASE ~(s # <<>> /\ l = 0)
  <2>1. r = SubSeq(s, 1, l) BY <1>3 DEF Received
  <2>2. SubSeq(s, 1, l) \in Seq(Symbols)
    <3> HIDE DEF l
    <3>1. \A i \in 1..l : s[i] \in Symbols BY <1>1
    <3> QED BY <1>1, <3>1, SubSeqProperties
  <2>3. ASSUME Short(s) PROVE r = s
    <3>1. l = n
      <4>1. n < LengthValues BY <2>3 DEF Short
      <4> HIDE DEF n
      <4> QED BY <1>0, <1>1, <4>1
    <3>2. SubSeq(s, 1, n) = s BY SubSeqFull DEF Text
    <3> QED BY <2>1, <3>1, <3>2
  <2> QED BY <2>1, <2>2, <2>3 DEF Text
<1> QED BY <1>2, <1>3

\* A text without a symbol.
LEMMA WithoutSymbols ==
  ASSUME NEW D, NEW t \in Text, \A x \in D : ~Contains(t, x)
  PROVE  t \in Seq(Symbols \ D)
<1>1. Len(t) \in Nat /\ t \in [1..Len(t) -> Symbols] BY DEF Text
<1>2. \A i \in 1..Len(t) : t[i] \in Symbols \ D BY <1>1 DEF Contains
<1>3. t \in [1..Len(t) -> Symbols \ D] BY <1>1, <1>2
<1> QED BY <1>1, <1>3, FunctionIsSeq

LEMMA FindKey ==
  ASSUME NEW A, NEW d \in Seq(A), NEW key, Find(d, key) # 0
  PROVE  Find(d, key) \in 1..Len(d) /\ d[Find(d, key)].key = key
<1> DEFINE T == {i \in 1..Len(d) : d[i].key = key}
<1>1. Find(d, key) = IF T # {} THEN Min(T) ELSE 0 BY DEF Find, SelectInSeq
<1>2. T \in SUBSET Nat OBVIOUS
<1> HIDE DEF T
<1>3. Min(T) \in T BY <1>1, <1>2, MinOfSet
<1>4. Find(d, key) \in T BY <1>1, <1>3
<1> QED BY <1>4 DEF T

\* What an edit with a key makes of the entries.
EditedAt(d, e, key) ==
    /\ e \in Held
    /\ \A k : k # key => EntriesOf(e, k) = EntriesOf(d, k)
    /\ \A i \in DOMAIN e : e[i].key # key => \E j \in DOMAIN d : e[i] = d[j]

LEMMA AddEdits ==
  ASSUME NEW d \in Held, NEW key, NEW value, Entry(key, <<value>>) \in Writable
  PROVE  EditedAt(d, Add(d, key, value), key)
<1> DEFINE e == Entry(key, <<value>>)
           r == Append(d, e)
<1>1. e \in Writable /\ e.key = key BY DEF Entry
<1>2. Add(d, key, value) = r BY DEF Add
<1> HIDE DEF e
<1>3. /\ d \in Seq(Writable) /\ r \in Seq(Writable) /\ Len(d) \in Nat
      /\ DOMAIN r = 1..(Len(d) + 1) /\ DOMAIN d = 1..Len(d)
      /\ r[Len(d) + 1] = e /\ \A i \in 1..Len(d) : r[i] = d[i]
  BY <1>1, AppendProperties DEF Held
<1>4. \A k : k # key => EntriesOf(r, k) = EntriesOf(d, k) BY <1>1, EntriesAppend DEF Picked
<1> HIDE DEF r
<1>5. ASSUME NEW i \in DOMAIN r, r[i].key # key PROVE \E j \in DOMAIN d : r[i] = d[j]
  <2>1. i # Len(d) + 1 BY <1>1, <1>3, <1>5
  <2>2. i \in 1..Len(d) BY <1>3, <2>1
  <2> QED BY <1>3, <2>2
<1> QED BY <1>2, <1>3, <1>4, <1>5 DEF EditedAt, Held

LEMMA SetEdits ==
  ASSUME NEW d \in Held, NEW key, NEW value, Entry(key, <<value>>) \in Writable
  PROVE  EditedAt(d, Set(d, key, value), key)
<1>1. CASE Find(d, key) = 0 BY <1>1, AddEdits DEF Set
<1>2. CASE Find(d, key) # 0
  <2> DEFINE n == Find(d, key)
             e == Entry(key, <<value>>)
             r == [d EXCEPT ![n] = e]
  <2>1. n \in 1..Len(d) /\ d[n].key = key BY <1>2, FindKey DEF Held
  <2>2. Set(d, key, value) = r
    <3>1. Set(d, key, value) = [d EXCEPT ![n].values = <<value>>] BY <1>2 DEF Set
    <3>2. d[n] \in Writable BY <2>1 DEF Held
    <3>3. d[n] = Entry(key, d[n].values) BY <2>1, <3>2, WritableParts
    <3>4. [d[n] EXCEPT !.values = <<value>>] = e
      <4> HIDE DEF n
      <4> QED BY <3>3 DEF Entry
    <3>5. [d EXCEPT ![n].values = <<value>>] = [d EXCEPT ![n] = [d[n] EXCEPT !.values = <<value>>]]
      <4> HIDE DEF n
      <4> QED OBVIOUS
    <3> QED BY <3>1, <3>4, <3>5
  <2>3. e \in Writable /\ e.key = key BY DEF Entry
  <2> HIDE DEF n, e
  <2>4. \A k : k # key => r \in Held /\ EntriesOf(r, k) = EntriesOf(d, k)
    BY <2>1, <2>3, EntriesElsewhere
  <2>5. /\ d \in Seq(Writable) /\ r \in Seq(Writable) /\ DOMAIN d = 1..Len(d) /\ DOMAIN r = 1..Len(d)
        /\ \A j \in 1..Len(d) : r[j] = IF j = n THEN e ELSE d[j]
    <3>1. d \in Seq(Writable) BY DEF Held
    <3>2. /\ r \in Seq(Writable) /\ Len(r) = Len(d)
          /\ \A j \in 1..Len(d) : r[j] = IF j = n THEN e ELSE d[j]
      BY <2>1, <2>3, <3>1, ExceptSeq
    <3> QED BY <3>1, <3>2
  <2> HIDE DEF r
  <2>6. \A i \in DOMAIN r : r[i].key # key => \E j \in DOMAIN d : r[i] = d[j] BY <2>3, <2>5
  <2> QED BY <2>2, <2>4, <2>5, <2>6 DEF EditedAt, Held
<1> QED BY <1>1, <1>2

LEMMA RemoveEdits ==
  ASSUME NEW d \in Held, NEW key
  PROVE  EditedAt(d, RemoveKey(d, key), key)
<1>1. CASE Find(d, key) = 0 BY <1>1 DEF RemoveKey, EditedAt
<1>2. CASE Find(d, key) # 0
  <2> DEFINE n == Find(d, key)
             r == RemoveAt(d, n)
             a == SubSeq(d, 1, n - 1)
             b == SubSeq(d, n + 1, Len(d))
  <2>1. n \in 1..Len(d) /\ d[n].key = key BY <1>2, FindKey DEF Held
  <2>2. RemoveKey(d, key) = r BY <1>2 DEF RemoveKey
  <2> HIDE DEF n
  <2>3. \A k : k # key => EntriesOf(r, k) = EntriesOf(d, k) BY <2>1, EntriesElsewhere
  <2>4. /\ a \in Seq(Writable) /\ b \in Seq(Writable) /\ Len(d) \in Nat
        /\ Len(a) = n - 1 /\ Len(b) = Len(d) - n /\ DOMAIN d = 1..Len(d)
        /\ \A j \in 1..(n - 1) : a[j] = d[j]
        /\ \A j \in 1..(Len(d) - n) : b[j] = d[n + j]
    BY SMTT(30), <2>1 DEF Held
  <2>5. r = a \o b BY DEF RemoveAt
  <2> HIDE DEF a, b, r
  <2>6. /\ r \in Seq(Writable) /\ Len(r) = (n - 1) + (Len(d) - n)
        /\ \A j \in 1..((n - 1) + (Len(d) - n)) : r[j] = IF j <= n - 1 THEN a[j] ELSE b[j - (n - 1)]
    <3>1. /\ a \o b \in Seq(Writable) /\ Len(a \o b) = Len(a) + Len(b)
          /\ \A j \in 1..(Len(a) + Len(b)) : (a \o b)[j] = IF j <= Len(a) THEN a[j] ELSE b[j - Len(a)]
      BY <2>4, ConcatProperties
    <3> QED BY <2>4, <2>5, <3>1
  <2>7. ASSUME NEW i \in DOMAIN r PROVE \E j \in DOMAIN d : r[i] = d[j]
    <3>1. i \in 1..(Len(d) - 1) BY <2>1, <2>4, <2>6
    <3>2. CASE i <= n - 1
      <4>1. i \in 1..(n - 1) /\ i \in 1..Len(d) BY <2>1, <2>4, <3>1, <3>2
      <4>2. r[i] = d[i] BY <2>4, <2>6, <3>1, <3>2, <4>1
      <4> QED BY <2>4, <4>1, <4>2
    <3>3. CASE ~(i <= n - 1)
      <4>1. i - (n - 1) \in 1..(Len(d) - n) /\ n + (i - (n - 1)) = i + 1 /\ i + 1 \in 1..Len(d)
        BY <2>1, <2>4, <3>1, <3>3
      <4>2. r[i] = b[i - (n - 1)] BY SMTT(30), <2>1, <2>4, <2>6, <3>1, <3>3
      <4>3. r[i] = d[i + 1] BY <2>4, <4>1, <4>2
      <4> QED BY <2>4, <4>1, <4>3
    <3> QED BY <3>2, <3>3
  <2> QED BY <2>2, <2>3, <2>6, <2>7 DEF EditedAt, Held
<1> QED BY <1>1, <1>2
\* Separators in their places, an edit leaves what can be written.
LEMMA LooseEdits ==
  ASSUME NEW d \in Seq(Loose), NEW key
  PROVE  /\ RemoveKey(d, key) \in Seq(Loose)
         /\ \A value : Entry(key, <<value>>) \in Loose
                => Add(d, key, value) \in Seq(Loose) /\ Set(d, key, value) \in Seq(Loose)
<1> DEFINE n == Find(d, key)
<1>1. n # 0 => n \in 1..Len(d) /\ d[n].key = key BY FindKey
<1>2. RemoveKey(d, key) \in Seq(Loose)
  <2>1. CASE n = 0 BY <2>1 DEF RemoveKey
  <2>2. CASE n # 0
    <3> DEFINE a == SubSeq(d, 1, n - 1)
               b == SubSeq(d, n + 1, Len(d))
    <3>1. RemoveKey(d, key) = a \o b BY <2>2 DEF RemoveKey, RemoveAt
    <3> HIDE DEF n
    <3>2. a \in Seq(Loose) /\ b \in Seq(Loose) BY <1>1, <2>2
    <3> QED BY <3>1, <3>2, ConcatProperties
  <2> QED BY <2>1, <2>2
<1>3. ASSUME NEW value, Entry(key, <<value>>) \in Loose
      PROVE  Add(d, key, value) \in Seq(Loose) /\ Set(d, key, value) \in Seq(Loose)
  <2> DEFINE e == Entry(key, <<value>>)
  <2>1. Add(d, key, value) \in Seq(Loose)
    <3>1. Add(d, key, value) = Append(d, e) BY DEF Add
    <3> QED BY <1>3, <3>1, AppendProperties
  <2>2. CASE n = 0 BY <2>1, <2>2 DEF Set
  <2>3. CASE n # 0
    <3>1. Set(d, key, value) = [d EXCEPT ![n].values = <<value>>] BY <2>3 DEF Set
    <3>2. d[n] = Entry(key, d[n].values)
      <4>1. d[n] \in Loose BY <1>1, <2>3
      <4> QED BY <1>1, <2>3, <4>1, LooseParts
    <3>3. [d[n] EXCEPT !.values = <<value>>] = e
      <4> HIDE DEF n
      <4> QED BY <3>2 DEF Entry
    <3>4. [d EXCEPT ![n].values = <<value>>] = [d EXCEPT ![n] = [d[n] EXCEPT !.values = <<value>>]]
      <4> HIDE DEF n
      <4> QED OBVIOUS
    <3>5. e \in Loose BY <1>3
    <3> HIDE DEF n, e
    <3>6. [d EXCEPT ![n] = e] \in Seq(Loose) BY <1>1, <2>3, <3>5, ExceptSeq
    <3> QED BY <2>1, <3>1, <3>3, <3>4, <3>6
  <2> QED BY <2>1, <2>2, <2>3
<1> QED BY <1>2, <1>3
-----------------------------------------------------------------------------
(* The inductive invariant of the messages *)

TouchedKeys == {t[1] : t \in touched}

\* Between two messages there is nothing.
NothingHeld ==
    stage \notin {"held", "sent"}
        => wrote = <<>> /\ kind = "Unknown" /\ data = <<>> /\ edits = 0 /\ touched = {}

\* What a script leaves can be written, if it used no separators.
DataWritable == Separable => data \in Seq(Loose)

\* What it left alone is as it was read.  The empty key adds to others.
KeysGiven == \A t \in touched : t[1] # <<>>
OthersUntouched ==
    Separable /\ KeysGiven =>
        /\ data \in Held
        /\ \A i \in DOMAIN data : data[i].key \notin TouchedKeys => data[i] \in Plain
        /\ Short(wrote) => \A key : key \notin TouchedKeys
                              => EntriesOf(data, key) = EntriesOf(Parse(wrote), key)

\* The server has read what the proxy wrote.
GotReread == stage = "sent" /\ Separable /\ Short(GetRaw(data)) => got = Parse(GetRaw(data))

\* derive_packet_id() with one meaning of the anchors.
Searched(anchors, d) == IF anchors THEN ToSet(Split(GetRaw(d), Line)) ELSE {GetRaw(d)}
FirstMatch(searched) == SelectInSeq(Patterns, LAMBDA p : \E s \in searched : Matches(p, s))
KindFrom(anchors, d) ==
    IF FirstMatch(Searched(anchors, d)) = 0 THEN "Unknown"
    ELSE Patterns[FirstMatch(Searched(anchors, d))].id

LEMMA DerivedKind == ASSUME NEW d PROVE DerivePacketId(d) = KindFrom(line_anchors, d)
BY DEF DerivePacketId, KindFrom, FirstMatch, Searched

\* The kind was derived from the text as it was read.
KindOfData ==
    kind # "Unknown" /\ edits = 0 => data \in Entries /\ kind = KindFrom(line_anchors, data)

MessageInv ==
    /\ line_anchors \in BOOLEAN /\ edits \in Nat
    /\ NothingHeld /\ DataWritable /\ OthersUntouched /\ GotReread /\ KindOfData

LEMMA MessageInvInit == Init => MessageInv
<1> SUFFICES ASSUME Init PROVE MessageInv OBVIOUS
<1> USE DEF Init
<1>1. line_anchors \in BOOLEAN /\ edits \in Nat /\ NothingHeld /\ GotReread /\ KindOfData
  BY DEF NothingHeld, GotReread, KindOfData
<1>2. DataWritable BY DEF DataWritable
<1>3. Parse(<<>>) = <<>>
  <2>1. Parse(<<>>) = ParseLines(Tokenize(<<>>, Line)) BY DEF Parse, ParseLines
  <2> QED BY <2>1, TokenizeNothing, ParseLinesNothing
<1>4. OthersUntouched BY <1>3 DEF OthersUntouched, Held
<1> QED BY <1>1, <1>2, <1>4 DEF MessageInv

\* A new message: nothing is touched yet.
LEMMA MessageKeeps ==
  ASSUME MessageInv, NEW s \in Texts, Message(s)
  PROVE  MessageInv'
<1>1. /\ stage = "idle" /\ stage' = "held" /\ wrote' = s /\ kind' = DerivePacketId(data')
      /\ line_anchors' = line_anchors /\ edits' = edits /\ touched' = touched
  BY DEF Message
<1>2. PICK r \in Received(s) : data' = Parse(r) BY DEF Message
<1>3. s \in Text BY CodecAssumption DEF Text
<1>4. r \in Text /\ (Short(s) => r = s) BY <1>3, ReceivedType
<1>5. data' \in Entries BY <1>2, <1>4, ParseType
<1>6. line_anchors' \in BOOLEAN /\ edits' = 0 /\ touched' = {}
  BY <1>1 DEF MessageInv, NothingHeld
<1>7. NothingHeld' /\ GotReread' BY <1>1 DEF NothingHeld, GotReread
<1>8. data' \in Held BY <1>5, PlainIsWritable, SeqMonotonic DEF Entries, Held
<1>9. DataWritable' BY <1>8, WritableAreLoose DEF DataWritable, Held
<1>10. OthersUntouched'
  <2>1. \A i \in DOMAIN data' : data'[i] \in Plain BY <1>5 DEF Entries
  <2>2. Short(wrote') => data' = Parse(wrote') BY <1>1, <1>2, <1>4
  <2> QED BY <1>8, <2>1, <2>2 DEF OthersUntouched
<1>11. KindOfData'
  <2>1. DerivePacketId(data') = KindFrom(line_anchors', data') BY <1>1, DerivedKind
  <2> QED BY <1>1, <1>5, <2>1 DEF KindOfData
<1> QED BY <1>6, <1>7, <1>9, <1>10, <1>11 DEF MessageInv

\* An edit: the rest of the entries is what it was.
LEMMA EditKeeps ==
  ASSUME MessageInv, NEW key \in Text, NEW value \in Text, NEW d, Edit(key, value, d),
         data \in Seq(Loose) /\ key \in Names /\ value \in LineText => d \in Seq(Loose),
         data \in Held /\ key # <<>> /\ key \in Names /\ value \in LineText
             => EditedAt(data, d, key)
  PROVE  MessageInv'
<1>1. /\ stage = "held" /\ stage' = "held" /\ data' = d /\ edits' = edits + 1
      /\ touched' = touched \cup {<<key, value>>}
      /\ wrote' = wrote /\ line_anchors' = line_anchors /\ kind' = kind
  BY DEF Edit
<1>2. edits' \in Nat /\ edits' # 0 /\ line_anchors' \in BOOLEAN BY <1>1 DEF MessageInv
<1>3. NothingHeld' /\ GotReread' BY <1>1 DEF NothingHeld, GotReread
<1>4. KindOfData' BY <1>2 DEF KindOfData
<1>5. TouchedKeys' = TouchedKeys \cup {key}
  <2>1. \A t \in touched' : t \in touched \/ t = <<key, value>> BY <1>1
  <2>2. <<key, value>>[1] = key OBVIOUS
  <2>3. TouchedKeys' \subseteq TouchedKeys \cup {key} BY <2>1, <2>2 DEF TouchedKeys
  <2>4. \A t \in touched : t \in touched' BY <1>1
  <2>5. <<key, value>> \in touched' BY <1>1
  <2>6. TouchedKeys \cup {key} \subseteq TouchedKeys' BY <2>2, <2>4, <2>5 DEF TouchedKeys
  <2> QED BY <2>3, <2>6
<1>6. ASSUME Separable' PROVE Separable /\ key \in Names /\ value \in LineText
  <2>1. Separable BY <1>1, <1>6 DEF Separable
  <2>2. ~Contains(key, Bar) /\ ~Contains(key, Line) /\ ~Contains(value, Line)
    <3>1. <<key, value>> \in touched' BY <1>1
    <3> DEFINE t == <<key, value>>
    <3>2. t[1] = key /\ t[2] = value /\ t \in touched' BY <3>1
    <3> HIDE DEF t
    <3>3. ~Contains(t[1], Bar) /\ ~Contains(t[1], Line) /\ ~Contains(t[2], Line)
      BY <1>6, <3>2 DEF Separable
    <3> QED BY <3>2, <3>3
  <2>3. key \in Names
    <3>1. \A x \in {Bar, Line} : ~Contains(key, x) BY <2>2
    <3> QED BY <3>1, WithoutSymbols DEF Names
  <2>4. value \in LineText
    <3>1. \A x \in {Line} : ~Contains(value, x) BY <2>2
    <3> QED BY <3>1, WithoutSymbols DEF LineText
  <2> QED BY <2>1, <2>3, <2>4
<1>7. DataWritable' BY <1>1, <1>6 DEF MessageInv, DataWritable
<1>8. ASSUME Separable', KeysGiven'
      PROVE  /\ Separable /\ KeysGiven /\ data \in Held /\ EditedAt(data, data', key)
  <2>1. KeysGiven BY <1>1, <1>8 DEF KeysGiven
  <2>2. key # <<>>
    <3>1. <<key, value>> \in touched' BY <1>1
    <3> DEFINE t == <<key, value>>
    <3>2. t[1] = key /\ t \in touched' BY <3>1
    <3> HIDE DEF t
    <3> QED BY <1>8, <3>2 DEF KeysGiven
  <2>3. Separable /\ key \in Names /\ value \in LineText BY <1>6, <1>8
  <2>4. data \in Held BY <2>1, <2>3 DEF MessageInv, OthersUntouched
  <2> QED BY <1>1, <2>1, <2>2, <2>3, <2>4
<1>9. OthersUntouched'
  <2> SUFFICES ASSUME Separable', KeysGiven'
               PROVE  /\ data' \in Held
                      /\ \A i \in DOMAIN data' : data'[i].key \notin TouchedKeys'
                                                    => data'[i] \in Plain
                      /\ Short(wrote') => \A k : k \notin TouchedKeys'
                             => EntriesOf(data', k) = EntriesOf(Parse(wrote'), k)
    BY DEF OthersUntouched
  <2>1. Separable /\ KeysGiven /\ EditedAt(data, data', key) BY <1>8
  <2>2. /\ \A i \in DOMAIN data : data[i].key \notin TouchedKeys => data[i] \in Plain
        /\ Short(wrote) => \A k : k \notin TouchedKeys
                               => EntriesOf(data, k) = EntriesOf(Parse(wrote), k)
    BY <2>1 DEF MessageInv, OthersUntouched
  <2>3. ASSUME NEW i \in DOMAIN data', data'[i].key \notin TouchedKeys' PROVE data'[i] \in Plain
    <3>1. data'[i].key # key /\ data'[i].key \notin TouchedKeys BY <1>5, <2>3
    <3>2. PICK j \in DOMAIN data : data'[i] = data[j] BY <2>1, <3>1 DEF EditedAt
    <3> QED BY <2>2, <3>1, <3>2
  <2>4. ASSUME NEW k, Short(wrote'), k \notin TouchedKeys'
        PROVE  EntriesOf(data', k) = EntriesOf(Parse(wrote'), k)
    <3>1. k # key /\ k \notin TouchedKeys /\ Short(wrote) /\ wrote' = wrote BY <1>1, <1>5, <2>4
    <3>2. EntriesOf(data', k) = EntriesOf(data, k) BY <2>1, <3>1 DEF EditedAt
    <3> QED BY <2>2, <3>1, <3>2
  <2>5. data' \in Held BY <2>1 DEF EditedAt
  <2> QED BY <2>3, <2>4, <2>5
<1> QED BY <1>2, <1>3, <1>4, <1>7, <1>9 DEF MessageInv

LEMMA ScriptEditsKeep ==
  ASSUME MessageInv, ScriptEdits
  PROVE  MessageInv'
<1>1. PICK key \in Keys :
         \/ \E value \in Values : \/ Edit(key, value, Add(data, key, value))
                                 \/ Edit(key, value, Set(data, key, value))
         \/ Edit(key, <<>>, RemoveKey(data, key))
  BY DEF ScriptEdits
<1>2. key \in Text /\ Values \subseteq Text /\ <<>> \in Text BY CodecAssumption DEF Text
<1>3. ASSUME NEW value \in LineText, key \in Names
      PROVE  Entry(key, <<value>>) \in Loose /\ (key # <<>> => Entry(key, <<value>>) \in Writable)
  <2>1. <<value>> \in Seq(LineText) /\ <<value>> # <<>> OBVIOUS
  <2>2. Entry(key, <<value>>) \in Loose BY <1>3, <2>1 DEF Entry, Loose
  <2>3. Entry(key, <<value>>).key = key BY DEF Entry
  <2> QED BY <2>2, <2>3, LooseOrWritable
<1>4. ASSUME NEW value \in Values, Edit(key, value, Add(data, key, value)) PROVE MessageInv'
  <2>1. value \in Text BY <1>2
  <2>2. data \in Held /\ key # <<>> /\ key \in Names /\ value \in LineText
            => EditedAt(data, Add(data, key, value), key)
    BY <1>3, AddEdits
  <2>3. data \in Seq(Loose) /\ key \in Names /\ value \in LineText
            => Add(data, key, value) \in Seq(Loose)
    BY <1>3, LooseEdits
  <2> QED BY <1>2, <1>4, <2>1, <2>2, <2>3, EditKeeps
<1>5. ASSUME NEW value \in Values, Edit(key, value, Set(data, key, value)) PROVE MessageInv'
  <2>1. value \in Text BY <1>2
  <2>2. data \in Held /\ key # <<>> /\ key \in Names /\ value \in LineText
            => EditedAt(data, Set(data, key, value), key)
    BY <1>3, SetEdits
  <2>3. data \in Seq(Loose) /\ key \in Names /\ value \in LineText
            => Set(data, key, value) \in Seq(Loose)
    BY <1>3, LooseEdits
  <2> QED BY <1>2, <1>5, <2>1, <2>2, <2>3, EditKeeps
<1>6. CASE Edit(key, <<>>, RemoveKey(data, key))
  <2>1. data \in Held => EditedAt(data, RemoveKey(data, key), key) BY RemoveEdits
  <2>2. data \in Seq(Loose) => RemoveKey(data, key) \in Seq(Loose) BY LooseEdits
  <2> QED BY <1>2, <1>6, <2>1, <2>2, EditKeeps
<1> QED BY <1>1, <1>4, <1>5, <1>6

LEMMA SendTextParseKeeps ==
  ASSUME MessageInv, SendTextParse
  PROVE  MessageInv'
<1>1. /\ stage = "held" /\ stage' = "sent" /\ wrote' = wrote /\ kind' = kind /\ data' = data
      /\ edits' = edits /\ touched' = touched /\ line_anchors' = line_anchors
  BY DEF SendTextParse
<1>2. PICK r \in Received(GetRaw(data)) : got' = Parse(r) BY DEF SendTextParse
<1>3. /\ line_anchors' \in BOOLEAN /\ edits' \in Nat
      /\ NothingHeld' /\ DataWritable' /\ OthersUntouched'
  BY <1>1
  DEF MessageInv, NothingHeld, DataWritable, OthersUntouched, Separable, KeysGiven, TouchedKeys
<1>4. KindOfData' BY <1>1 DEF MessageInv, KindOfData
<1>5. GotReread'
  <2> SUFFICES ASSUME Separable, Short(GetRaw(data)) PROVE got' = Parse(GetRaw(data))
    BY <1>1 DEF GotReread, Separable
  <2>1. data \in Seq(Loose) BY DEF MessageInv, DataWritable
  <2>2. GetRaw(data) \in Text BY <2>1, RawLinesType
  <2>3. r = GetRaw(data) BY <2>2, ReceivedType
  <2> QED BY <1>2, <2>3
<1> QED BY <1>3, <1>4, <1>5 DEF MessageInv

LEMMA ForgetKeeps ==
  ASSUME MessageInv, Forget
  PROVE  MessageInv'
<1>1. /\ stage' = "idle" /\ wrote' = <<>> /\ kind' = "Unknown" /\ data' = <<>>
      /\ edits' = 0 /\ touched' = {} /\ line_anchors' = line_anchors
  BY DEF Forget
<1>2. line_anchors' \in BOOLEAN /\ edits' \in Nat /\ NothingHeld' /\ GotReread' /\ KindOfData'
  BY <1>1 DEF MessageInv, NothingHeld, GotReread, KindOfData
<1>3. DataWritable' BY <1>1 DEF DataWritable
<1>4. Parse(<<>>) = <<>>
  <2>1. Parse(<<>>) = ParseLines(Tokenize(<<>>, Line)) BY DEF Parse, ParseLines
  <2> QED BY <2>1, TokenizeNothing, ParseLinesNothing
<1>5. OthersUntouched' BY <1>1, <1>4 DEF OthersUntouched, Held
<1> QED BY <1>2, <1>3, <1>5 DEF MessageInv

\* A redirection comes between two messages.
LEMMA RedirectionKeeps ==
  ASSUME MessageInv, NEW p \in Redirects, NEW n \in 5..7, OnSendToServer(p, n)
  PROVE  MessageInv'
<1>1. /\ stage = "idle" /\ stage' = "redirected"
      /\ UNCHANGED <<line_anchors, wrote, kind, data, edits, touched>>
  BY DEF OnSendToServer
<1>2. /\ line_anchors' \in BOOLEAN /\ edits' \in Nat
      /\ NothingHeld' /\ DataWritable' /\ OthersUntouched' /\ GotReread'
  BY <1>1
  DEF MessageInv, NothingHeld, DataWritable, OthersUntouched, GotReread, Separable, KeysGiven,
      TouchedKeys
<1>3. KindOfData' BY <1>1 DEF MessageInv, NothingHeld, KindOfData
<1> QED BY <1>2, <1>3 DEF MessageInv

LEMMA StutterKeeps ==
  ASSUME MessageInv, UNCHANGED vars
  PROVE  MessageInv'
<1>1. UNCHANGED <<line_anchors, stage, wrote, kind, data, edits, touched, got>>
  BY DEF vars, message
<1> QED BY <1>1
  DEF MessageInv, NothingHeld, DataWritable, OthersUntouched, GotReread, KindOfData,
      Separable, KeysGiven, TouchedKeys

\* MessageInv holds in every state.
LEMMA MessageInvHolds == Spec => []MessageInv
<1>1. MessageInv /\ [Next]_vars => MessageInv'
  <2> SUFFICES ASSUME MessageInv, [Next]_vars PROVE MessageInv' OBVIOUS
  <2>1. ASSUME NEW s \in Texts, Message(s) PROVE MessageInv' BY <2>1, MessageKeeps
  <2>2. CASE ScriptEdits BY <2>2, ScriptEditsKeep
  <2>3. CASE SendTextParse BY <2>3, SendTextParseKeeps
  <2>4. CASE Forget BY <2>4, ForgetKeeps
  <2>5. ASSUME NEW p \in Redirects, NEW n \in 5..7, OnSendToServer(p, n) PROVE MessageInv'
    BY <2>5, RedirectionKeeps
  <2>6. CASE UNCHANGED vars BY <2>6, StutterKeeps
  <2> QED BY <2>1, <2>2, <2>3, <2>4, <2>5, <2>6 DEF Next
<1> QED BY <1>1, MessageInvInit, PTL DEF Spec

\* Written and read, entries with keys have these keys and the same text.
LEMMA RereadsKeep ==
  ASSUME NEW w \in Seq(Writable)
  PROVE  LET r == Rereads(w) IN
         GetRaw(r) = GetRaw(w) /\ NamesIn(r) = NamesIn(w) /\ Len(r) = Len(NamesIn(w))
<1> DEFINE r == Rereads(w)
<1>1. Len(w) \in Nat /\ DOMAIN w = 1..Len(w) /\ \A i \in DOMAIN w : w[i] \in Writable OBVIOUS
<1>2. DOMAIN r = DOMAIN w /\ \A i \in DOMAIN w : r[i] = Reread(w[i]) BY DEF Rereads
<1>3. r \in Seq(Writable)
  <2>1. r \in Seq(Plain) BY ParseGetRaw DEF Entries
  <2> HIDE DEF r
  <2> QED BY <2>1, PlainIsWritable, SeqMonotonic
<1> HIDE DEF r
<1>4. Len(r) = Len(w)
  <2>1. DOMAIN r = 1..Len(r) /\ Len(r) \in Nat BY <1>3
  <2> QED BY <1>1, <1>2, <2>1
<1>5. \A i \in DOMAIN w : r[i].key = w[i].key /\ RawEntry(r[i]) = RawEntry(w[i])
  BY <1>1, <1>2, LineIsReread
<1>6. RawLines(r) = RawLines(w)
  <2>1. ASSUME NEW i \in DOMAIN w
        PROVE  RawEntry(r[i]) \o Break(r, i) = RawEntry(w[i]) \o Break(w, i)
    <3>1. i < Len(w) => i + 1 \in DOMAIN w BY <1>1
    <3>2. Break(r, i) = Break(w, i) BY <1>4, <1>5, <3>1 DEF Break
    <3> QED BY <1>5, <3>2
  <2> QED BY <1>2, <2>1 DEF RawLines
<1>7. GetRaw(r) = GetRaw(w)
  <2>1. r \in Seq(Loose) /\ w \in Seq(Loose) BY <1>3, WritableAreLoose
  <2> QED BY <1>6, <2>1, RawLinesType
<1>8. NamesIn(r) = NamesIn(w)
  <2>1. NamesIn(r) = [i \in DOMAIN r |-> r[i].key] /\ NamesIn(w) = [i \in DOMAIN w |-> w[i].key]
    BY <1>3, NamesOfWritable
  <2> QED BY <1>2, <1>5, <2>1
<1>9. Len(NamesIn(w)) = Len(w)
  <2> DEFINE k == [i \in DOMAIN w |-> w[i].key]
  <2>1. k \in [1..Len(w) -> Names] BY <1>1, WritableParts DEF Writable
  <2>2. NamesIn(w) = k BY NamesOfWritable
  <2> HIDE DEF k
  <2>3. Len(k) = Len(w) BY <1>1, <2>1, FunctionIsSeq
  <2> QED BY <2>2, <2>3
<1> QED BY <1>4, <1>7, <1>8, <1>9 DEF r

\* The server reads the entries a script has edited, in their order, whatever the
\* game wrote and the scripts did, what was added under an empty key included:
\* TextParse's get_raw(), add(), set() and remove_key(), the decoder's uint16_t
\* and parse() again.
THEOREM MessagesArriveAsEdited == Spec => []ReceivedAsEdited
<1>1. MessageInv => ReceivedAsEdited
  <2> SUFFICES ASSUME MessageInv, stage = "sent", Short(GetRaw(data)), Separable,
                      data # <<>> => Head(data).key # <<>>
               PROVE  /\ GetRaw(got) = GetRaw(data) /\ NamesIn(got) = NamesIn(data)
                      /\ Len(got) = Len(NamesIn(data))
    BY DEF ReceivedAsEdited
  <2>1. got = Parse(GetRaw(data)) /\ data \in Seq(Loose)
    BY DEF MessageInv, GotReread, DataWritable
  <2>2. PICK w \in Seq(Writable) : GetRaw(w) = GetRaw(data) /\ NamesIn(w) = NamesIn(data)
    BY <2>1, LooseAsWritten
  <2>3. got = Rereads(w) BY <2>1, <2>2, ParseGetRaw
  <2> QED BY <2>2, <2>3, RereadsKeep
<1> QED BY <1>1, MessageInvHolds, PTL

\* Entries no script touched arrive as the game wrote them, duplicates too, if no
\* script used the empty key, which adds to the entry before it.
THEOREM OtherEntriesArrive == Spec => []OthersKept
<1>1. MessageInv => OthersKept
  <2> SUFFICES ASSUME MessageInv, stage = "sent", Short(wrote), Short(GetRaw(data)), Separable,
                      KeysGiven, NEW key \in KeysOf(Parse(wrote)) \ TouchedKeys
               PROVE  EntriesOf(got, key) = EntriesOf(Parse(wrote), key)
    BY DEF OthersKept, KeysGiven, TouchedKeys
  <2>1. got = Parse(GetRaw(data)) /\ data \in Held BY DEF MessageInv, GotReread, OthersUntouched
  <2>2. /\ EntriesOf(data, key) = EntriesOf(Parse(wrote), key)
        /\ \A i \in DOMAIN data : data[i].key = key => data[i] \in Plain
    BY DEF MessageInv, OthersUntouched
  <2>3. got = Rereads(data) BY <2>1, ParseGetRaw DEF Held
  <2>4. EntriesOf(Rereads(data), key) = EntriesOf(data, key) BY <2>1, <2>2, EntriesReread
  <2> QED BY <2>2, <2>3, <2>4
<1> QED BY <1>1, MessageInvHolds, PTL
-----------------------------------------------------------------------------
(* What a kind says of the entries *)

Start(x) == <<"action", Bar, x>>
One(x) == <<x>>

\* A text that begins with an action.
LEMMA BeginsWith ==
  ASSUME NEW x, NEW s \in Text, s = Start(x) \/ IsPrefix(Start(x), s)
  PROVE  /\ "action" \in Symbols /\ x \in Symbols /\ s # <<>>
         /\ \E t \in Text : s = Start(x) \o t /\ (s = Start(x) => t = <<>>)
<1> DEFINE t == SubSeq(s, 4, Len(s))
<1>1. s \in Seq(Symbols) /\ Len(s) \in Nat BY DEF Text
<1>2. Len(s) >= 3 /\ s[1] = "action" /\ s[2] = Bar /\ s[3] = x
  <2>1. /\ Len(Start(x)) = 3 /\ Start(x)[1] = "action" /\ Start(x)[2] = Bar /\ Start(x)[3] = x
        /\ SubSeq(Start(x), 1, 3) = Start(x)
    <3>1. /\ Start(x) \in Seq({"action", Bar, x}) /\ Len(Start(x)) = 3
          /\ Start(x)[1] = "action" /\ Start(x)[2] = Bar /\ Start(x)[3] = x
      BY DEF Start
    <3>2. SubSeq(Start(x), 1, Len(Start(x))) = Start(x) BY <3>1, SubSeqFull
    <3> QED BY <3>1, <3>2
  <2>2. CASE s = Start(x) BY <2>1, <2>2
  <2>3. CASE IsPrefix(Start(x), s)
    <3>1. 3 <= Len(s) /\ Start(x) = SubSeq(s, 1, 3) BY <2>1, <2>3 DEF IsPrefix
    <3> DEFINE p == SubSeq(s, 1, 3)
    <3>2. p[1] = s[1] /\ p[2] = s[2] /\ p[3] = s[3] BY <1>1, <3>1
    <3> HIDE DEF p
    <3>3. p = Start(x) BY <3>1 DEF p
    <3> QED BY <2>1, <3>1, <3>2, <3>3
  <2> QED BY <2>2, <2>3
<1>3. "action" \in Symbols /\ x \in Symbols /\ s # <<>>
  <2>1. s[1] \in Symbols /\ s[3] \in Symbols BY <1>1, <1>2
  <2>2. s # <<>> BY <1>1, <1>2
  <2> QED BY <1>2, <2>1, <2>2
<1>4. t \in Text /\ Len(t) = Len(s) - 3 /\ \A i \in 1..(Len(s) - 3) : t[i] = s[i + 3]
  <2>1. /\ t \in Seq(Symbols) /\ Len(t) = Len(s) - 3 /\ \A i \in 1..(Len(s) - 3) : t[i] = s[i + 3]
    <3>1. \A i \in 4..Len(s) : s[i] \in Symbols BY <1>1
    <3> DEFINE n == Len(s)
    <3>2. n \in Int /\ n >= 3 /\ n \in Nat BY <1>1, <1>2
    <3>3. /\ SubSeq(s, 4, n) \in Seq(Symbols) /\ Len(SubSeq(s, 4, n)) = IF 4 <= n THEN n - 4 + 1 ELSE 0
          /\ \A i \in 1..(n - 4 + 1) : SubSeq(s, 4, n)[i] = s[4 + i - 1]
      BY <3>1, <3>2, SubSeqProperties
    <3> HIDE DEF n
    <3>4. n - 4 + 1 = n - 3 /\ (~(4 <= n) => n - 3 = 0) BY <3>2
    <3>5. \A i \in 1..(n - 3) : 4 + i - 1 = i + 3 BY <3>2
    <3> QED BY <3>3, <3>4, <3>5 DEF n
  <2> QED BY <2>1 DEF Text
<1>5. s = Start(x) => t = <<>>
  <2> SUFFICES ASSUME s = Start(x) PROVE t = <<>> OBVIOUS
  <2>1. Len(s) = 3 BY DEF Start
  <2> QED BY <1>1, <2>1
<1> HIDE DEF t
<1>6. s = Start(x) \o t
  <2>1. /\ Start(x) \in Seq(Symbols) /\ Len(Start(x)) = 3
        /\ Start(x)[1] = "action" /\ Start(x)[2] = Bar /\ Start(x)[3] = x
    BY <1>3, Separators DEF Start
  <2> DEFINE b == Start(x)
  <2> HIDE DEF b
  <2>2. /\ b \o t \in Seq(Symbols) /\ Len(b \o t) = 3 + Len(t)
        /\ \A i \in 1..(3 + Len(t)) : (b \o t)[i] = IF i <= 3 THEN b[i] ELSE t[i - 3]
    <3>1. b \in Seq(Symbols) /\ Len(b) = 3 BY <2>1 DEF b
    <3>2. t \in Seq(Symbols) BY <1>4 DEF Text
    <3>3. /\ b \o t \in Seq(Symbols) /\ Len(b \o t) = Len(b) + Len(t)
          /\ \A i \in 1..(Len(b) + Len(t)) : (b \o t)[i] = IF i <= Len(b) THEN b[i] ELSE t[i - Len(b)]
      BY <3>1, <3>2, ConcatProperties
    <3> QED BY <3>1, <3>3
  <2>3. ASSUME NEW i \in 1..Len(s) PROVE s[i] = (b \o t)[i]
    <3>1. CASE i <= 3
      <4>1. i = 1 \/ i = 2 \/ i = 3 BY <1>1, <3>1
      <4> QED BY <1>1, <1>2, <1>4, <2>1, <2>2, <3>1, <4>1 DEF b
    <3>2. CASE ~(i <= 3)
      <4>1. i - 3 \in 1..(Len(s) - 3) /\ (i - 3) + 3 = i /\ i \in 1..(3 + Len(t))
        BY <1>1, <1>4, <3>2
      <4>2. t[i - 3] = s[i] BY <1>4, <4>1
      <4> QED BY <2>2, <3>2, <4>1, <4>2
    <3> QED BY <3>1, <3>2
  <2>4. Len(s) = Len(b \o t) BY <1>1, <1>4, <2>2
  <2> DEFINE r == b \o t
  <2> HIDE DEF r
  <2>5. s = r BY <1>1, <2>2, <2>3, <2>4, SeqEqual DEF r
  <2> QED BY <2>5 DEF b, r
<1> QED BY <1>3, <1>4, <1>5, <1>6

\* Such a line is an entry with the key "action" and this first value.
LEMMA ActionEntry ==
  ASSUME NEW x, x # Bar, NEW e \in Plain, NEW t \in Text, RawEntry(e) = Start(x) \o t,
         "action" \in Symbols, x \in Symbols
  PROVE  /\ e.key = <<"action">> /\ Head(Head(e.values)) = x
         /\ t = <<>> => e.values = <<<<x>>>>
<1> DEFINE k == One("action")
           w == One(x) \o t
<1>1. /\ k \in Seq(Symbols \ {Bar}) /\ One(x) \in Seq(Symbols \ {Bar}) /\ One(x) \in Seq(Symbols)
      /\ k \in Seq(Symbols)
  <2>1. "action" # Bar BY DEF Bar
  <2> QED BY <2>1 DEF One
<1>2. w \in Text BY <1>1, ConcatProperties DEF Text
<1>3. Start(x) \o t = Append(k, Bar) \o w
  <2>1. Start(x) = Append(k, Bar) \o One(x) BY DEF Start, One
  <2> DEFINE b == Append(k, Bar)
  <2>2. b \in Seq(Symbols) BY <1>1, Separators, AppendProperties
  <2> HIDE DEF b
  <2>3. (b \o One(x)) \o t = b \o (One(x) \o t) BY <1>1, <2>2, ConcatAssociative DEF Text
  <2> QED BY <2>1, <2>3 DEF b
<1> HIDE DEF w, k
<1>4. Split(RawEntry(e), Bar) = <<k>> \o Split(w, Bar)
  <2>1. Split(Append(k, Bar) \o w, Bar) = <<k>> \o Split(w, Bar)
    BY <1>1, <1>2, Separators, SplitFirst
  <2> QED BY <1>3, <2>1
<1>5. e.key = k /\ e.values = Split(w, Bar)
  <2>1. e = Reread(e)
    <3>1. e \in Writable BY PlainIsWritable
    <3> QED BY <3>1, LineIsReread
  <2>2. Split(w, Bar) \in Seq(Text) BY <1>2, SplitType DEF Parts
  <2>3. k \in Text BY <1>1 DEF Text
  <2> DEFINE q == Split(w, Bar)
  <2> HIDE DEF q
  <2>4. Head(<<k>> \o q) = k /\ Tail(<<k>> \o q) = q
    <3>1. q \in Seq(Text) BY <2>2 DEF q
    <3> QED BY <2>3, <3>1
  <2>5. Reread(e).key = Head(<<k>> \o q) /\ Reread(e).values = Tail(<<k>> \o q)
    BY <1>4 DEF Reread, Entry, q
  <2> QED BY <2>1, <2>4, <2>5 DEF q
<1>6. Head(Head(Split(w, Bar))) = x
  <2>1. PICK u \in Text : Head(Split(w, Bar)) = One(x) \o u
    BY <1>1, Separators, SplitPrefix DEF w
  <2>2. Head(One(x) \o u) = x
    <3>1. u \in Seq(Symbols) BY <2>1 DEF Text
    <3> QED BY <3>1 DEF One
  <2> QED BY <2>1, <2>2
<1>7. t = <<>> => Split(w, Bar) = One(One(x))
  <2>1. t = <<>> => w = One(x) BY <1>1, ConcatEmptySeq DEF w
  <2>2. Split(One(x), Bar) = <<One(x)>> BY <1>1, SplitWord
  <2> QED BY <2>1, <2>2 DEF One
<1> QED BY <1>5, <1>6, <1>7 DEF One, k

\* A text that is searched and begins with an action has an entry's line that
\* does.
LEMMA SearchedLine ==
  ASSUME NEW x, x # Bar, x # Line, NEW d \in Entries, NEW anchors \in BOOLEAN,
         NEW s \in Searched(anchors, d), s = Start(x) \/ IsPrefix(Start(x), s)
  PROVE  /\ "action" \in Symbols /\ x \in Symbols
         /\ \E i \in DOMAIN d, t \in Text :
               d[i] \in Plain /\ RawEntry(d[i]) = Start(x) \o t /\ (s = Start(x) => t = <<>>)
<1> DEFINE raw == GetRaw(d)
<1>1. d \in Seq(Writable) /\ d \in Seq(Plain) BY PlainIsWritable, SeqMonotonic DEF Entries
<1>2. raw \in Text BY <1>1, TokensOfGetRaw
<1>3. d = <<>> => raw = <<>>
  <2>1. GetRaw(<<>>) = FlattenSeq(<<>>) BY DEF GetRaw
  <2> QED BY <2>1, FlattenNothing
<1>4. \A i \in DOMAIN d : d[i] \in Plain BY <1>1
<1>5. d # <<>> => Split(raw, Line) = Lines(d) BY <1>1, SplitGetRaw
<1>6. /\ DOMAIN Lines(d) = DOMAIN d /\ \A i \in DOMAIN d : Lines(d)[i] = RawEntry(d[i])
  BY DEF Lines
<1>7. CASE anchors
  <2>1. s \in ToSet(Split(raw, Line)) BY <1>7 DEF Searched
  <2>2. s \in Text
    <3>1. Split(raw, Line) \in Seq(Text) BY <1>2, SplitType DEF Parts
    <3> QED BY <2>1, <3>1 DEF ToSet
  <2>3. PICK t \in Text : s = Start(x) \o t /\ (s = Start(x) => t = <<>>)
    BY <2>2, BeginsWith
  <2>4. "action" \in Symbols /\ x \in Symbols /\ s # <<>> BY <2>2, BeginsWith
  <2>5. d # <<>>
    <3> SUFFICES ASSUME d = <<>> PROVE FALSE OBVIOUS
    <3>1. s \in ToSet(Unsplit) BY <1>3, <2>1, SplitNothing
    <3>2. DOMAIN Unsplit = {1} /\ Unsplit[1] = <<>> BY DEF Unsplit
    <3> QED BY <2>4, <3>1, <3>2 DEF ToSet
  <2>6. PICK i \in DOMAIN d : s = RawEntry(d[i]) BY <1>5, <1>6, <2>1, <2>5 DEF ToSet
  <2> QED BY <1>4, <2>3, <2>4, <2>6
<1>8. CASE ~anchors
  <2>1. s = raw BY <1>8 DEF Searched
  <2>2. PICK t \in Text : s = Start(x) \o t /\ (s = Start(x) => t = <<>>)
    BY <1>2, <2>1, BeginsWith
  <2>3. "action" \in Symbols /\ x \in Symbols /\ s # <<>> BY <1>2, <2>1, BeginsWith
  <2>4. d # <<>> BY <1>3, <2>1, <2>3
  <2>5. Start(x) \in Seq(Symbols \ {Line}) /\ Start(x) \in Text
    <3>1. "action" # Line /\ Bar # Line BY DEF Bar, Line
    <3> QED BY <2>3, <3>1, Separators DEF Start, Text
  <2>6. PICK u \in Text : Head(Split(raw, Line)) = Start(x) \o u
    <3>1. raw = Start(x) \o t BY <2>1, <2>2
    <3> HIDE DEF raw
    <3>2. \E u \in Text : Head(Split(Start(x) \o t, Line)) = Start(x) \o u
      BY <2>5, Separators, SplitPrefix
    <3> QED BY <3>1, <3>2
  <2>7. 1 \in DOMAIN d /\ Head(Split(raw, Line)) = RawEntry(d[1])
    <3>1. 1 \in DOMAIN d BY <1>1, <2>4
    <3>2. Split(raw, Line) \in Seq(Text) /\ Split(raw, Line) # <<>> BY <1>2, SplitType DEF Parts
    <3>3. Head(Split(raw, Line)) = Lines(d)[1] BY <1>5, <2>4, <3>2, HeadIsFirst
    <3> QED BY <1>6, <3>1, <3>3
  <2>8. CASE s = Start(x)
    <3>1. Split(raw, Line) = One(Start(x)) BY <2>1, <2>5, <2>8, SplitWord DEF One
    <3>2. Head(Split(raw, Line)) = Start(x) BY <3>1 DEF One
    <3>3. Start(x) \o <<>> = Start(x) BY <2>5, ConcatEmptySeq DEF Text
    <3>4. RawEntry(d[1]) = Start(x) \o <<>> BY <2>7, <3>2, <3>3
    <3> QED BY <1>4, <2>3, <2>7, <3>4, CharIsText
  <2>9. CASE s # Start(x) BY <1>4, <2>3, <2>6, <2>7, <2>9
  <2> QED BY <2>8, <2>9
<1> QED BY <1>7, <1>8

\* A kind other than Unknown is of a pattern that matches a text that is
\* searched.
LEMMA KindMatches ==
  ASSUME NEW anchors, NEW d, KindFrom(anchors, d) # "Unknown"
  PROVE  \E j \in DOMAIN Patterns, s \in Searched(anchors, d) :
            Patterns[j].id = KindFrom(anchors, d) /\ Matches(Patterns[j], s)
<1> DEFINE S == Searched(anchors, d)
           T == {i \in 1..Len(Patterns) : \E s \in S : Matches(Patterns[i], s)}
<1>1. FirstMatch(S) = IF T # {} THEN Min(T) ELSE 0 BY DEF FirstMatch, SelectInSeq
<1>2. FirstMatch(S) # 0 /\ KindFrom(anchors, d) = Patterns[FirstMatch(S)].id BY DEF KindFrom
<1>3. Len(Patterns) = 3 /\ DOMAIN Patterns = 1..3 BY DEF Patterns
<1>4. T \in SUBSET Nat BY <1>3
<1> DEFINE m == FirstMatch(S)
<1> HIDE DEF T, S
<1>5. m \in T BY <1>1, <1>2, <1>4, MinOfSet
<1>6. m \in DOMAIN Patterns /\ \E s \in S : Matches(Patterns[m], s) BY <1>3, <1>5 DEF T
<1> QED BY <1>2, <1>6 DEF S

LEMMA PatternParts ==
  ASSUME NEW j \in DOMAIN Patterns
  PROVE  /\ Patterns[j].action # Bar /\ Patterns[j].action # Line
         /\ \A s : Matches(Patterns[j], s) =>
                /\ s = Start(Patterns[j].action) \/ IsPrefix(Start(Patterns[j].action), s)
                /\ Patterns[j].whole => s = Start(Patterns[j].action)
<1>1. j \in {1, 2, 3} BY DEF Patterns
<1>2. Patterns[j].action \in {"quit", "join_request", "input"} BY <1>1 DEF Patterns
<1> QED BY <1>2 DEF Matches, Start, Bar, Line

\* derive_packet_id() takes a message for a Quit, a JoinRequest or an Input only if
\* one of its lines is this action, with either meaning of the anchors.
THEOREM KindsAreActions == Spec => []KindIsAction
<1>1. MessageInv => KindIsAction
  <2> SUFFICES ASSUME MessageInv, kind # "Unknown", edits = 0
               PROVE  \E i \in DOMAIN data, j \in DOMAIN Patterns :
                         /\ Patterns[j].id = kind /\ data[i].key = <<"action">>
                         /\ IF Patterns[j].whole THEN data[i].values = <<<<Patterns[j].action>>>>
                            ELSE Head(Head(data[i].values)) = Patterns[j].action
    BY DEF KindIsAction
  <2>1. data \in Entries /\ kind = KindFrom(line_anchors, data) /\ line_anchors \in BOOLEAN
    BY DEF MessageInv, KindOfData
  <2>2. PICK j \in DOMAIN Patterns, s \in Searched(line_anchors, data) :
            Patterns[j].id = kind /\ Matches(Patterns[j], s)
    BY <2>1, KindMatches
  <2> DEFINE x == Patterns[j].action
  <2>3. /\ x # Bar /\ x # Line /\ (s = Start(x) \/ IsPrefix(Start(x), s))
        /\ (Patterns[j].whole => s = Start(x))
    BY <2>2, PatternParts
  <2> HIDE DEF x
  <2>4. /\ "action" \in Symbols /\ x \in Symbols
        /\ \E i \in DOMAIN data, t \in Text :
              /\ data[i] \in Plain /\ RawEntry(data[i]) = Start(x) \o t
              /\ (s = Start(x) => t = <<>>)
    BY <2>1, <2>2, <2>3, SearchedLine
  <2>5. PICK i \in DOMAIN data, t \in Text :
            /\ data[i] \in Plain /\ RawEntry(data[i]) = Start(x) \o t
            /\ (s = Start(x) => t = <<>>)
    BY <2>4
  <2>6. /\ data[i].key = <<"action">> /\ Head(Head(data[i].values)) = x
        /\ t = <<>> => data[i].values = <<<<x>>>>
    BY <2>3, <2>4, <2>5, ActionEntry
  <2>7. Patterns[j].whole => data[i].values = <<<<x>>>> BY <2>3, <2>5, <2>6
  <2> QED BY <2>2, <2>6, <2>7 DEF x
<1> QED BY <1>1, MessageInvHolds, PTL
-----------------------------------------------------------------------------
(* The redirection *)

\* The address and what is found under it.
AddressEntry(a, d, u) == Entry(a, <<d, u>>)
AddressText(a, d, u) == GetRaw(<<AddressEntry(a, d, u)>>)

LEMMA AddressIsFound ==
  ASSUME NEW a \in Names \ {<<>>}, NEW d \in Names, NEW u \in Names
  PROVE  /\ Key(AddressText(a, d, u)) = a
         /\ Get(Parse(AddressText(a, d, u)), a, 0) = d
         /\ Get(Parse(AddressText(a, d, u)), a, 1) = u
<1> DEFINE e == AddressEntry(a, d, u)
           v == <<d, u>>
           one == <<e>>
           raw == AddressText(a, d, u)
<1>1. v \in Seq(Names) /\ v # <<>> /\ Len(v) = 2 /\ v[1] = d /\ v[2] = u OBVIOUS
<1>2. e \in Plain /\ e.key = a /\ e.values = v
  <2> HIDE DEF v
  <2>1. e = Entry(a, v) BY DEF AddressEntry, v
  <2> QED BY <1>1, <2>1 DEF Entry, Plain, Names
<1> HIDE DEF v, e
<1>3. e \in Writable /\ Reread(e) = e BY <1>2, PlainIsWritable, LineIsReread
<1>4. /\ one \in Seq(Writable) /\ Len(one) = 1 /\ DOMAIN one = {1} /\ one[1] = e
      /\ one = Append(<<>>, e) /\ <<>> \in Seq(Writable)
  BY <1>3
<1>5. raw = GetRaw(one) BY DEF AddressText, e
<1> HIDE DEF one, raw
<1>6. Parse(raw) = one
  <2>1. Rereads(one) = one BY <1>3, <1>4 DEF Rereads
  <2> QED BY <1>4, <1>5, <2>1, ParseGetRaw
<1>7. raw = RawEntry(e)
  <2>1. GetRaw(Append(<<>>, e)) = FlattenSeq(Closed(<<>>)) \o RawEntry(e)
    BY <1>3, <1>4, GetRawAppend
  <2>2. Closed(<<>>) = <<>> BY DEF Closed
  <2>3. <<>> \o RawEntry(e) = RawEntry(e) BY <1>3, WritableLine, ConcatEmptySeq DEF Text
  <2> QED BY <1>4, <1>5, <2>1, <2>2, <2>3, FlattenNothing
<1>8. Key(raw) = a
  <2>1. PICK p \in Parts : Split(raw, Bar) = <<a>> \o p BY <1>2, <1>3, <1>7, WritableLine
  <2>2. Head(Split(raw, Bar)) = a
    <3>1. p \in Seq(Text) /\ a \in Text BY <1>2, <1>3, WritableParts DEF Parts
    <3>2. Head(<<a>> \o p) = a BY <3>1
    <3> QED BY <2>1, <3>2
  <2>3. Contains(raw, Bar)
    <3>1. /\ a \in Text /\ v \in Parts /\ e = Entry(a, v) BY <1>2, <1>3, WritableParts
    <3>2. PICK t \in Text : raw = Append(a, Bar) \o t BY <1>7, <3>1, RawBegins
    <3> DEFINE b == Append(a, Bar)
    <3>3. /\ b \in Seq(Symbols) /\ Len(b) = Len(a) + 1 /\ b[Len(a) + 1] = Bar /\ Len(a) \in Nat
      BY <3>1, Separators, AppendProperties DEF Text
    <3> HIDE DEF b
    <3>4. /\ b \o t \in Seq(Symbols) /\ Len(b \o t) = Len(b) + Len(t) /\ Len(t) \in Nat
          /\ \A i \in 1..(Len(b) + Len(t)) : (b \o t)[i] = IF i <= Len(b) THEN b[i] ELSE t[i - Len(b)]
      <4>1. t \in Seq(Symbols) BY <3>2 DEF Text
      <4> HIDE DEF v, e
      <4>2. /\ b \o t \in Seq(Symbols) /\ Len(b \o t) = Len(b) + Len(t)
            /\ \A i \in 1..(Len(b) + Len(t)) :
                   (b \o t)[i] = IF i <= Len(b) THEN b[i] ELSE t[i - Len(b)]
        BY <3>3, <4>1, ConcatProperties
      <4> QED BY <4>1, <4>2
    <3>5. Len(a) + 1 \in 1..(Len(b) + Len(t)) BY <3>3, <3>4
    <3>6. (b \o t)[Len(a) + 1] = Bar BY <3>3, <3>4, <3>5
    <3> QED BY <3>2, <3>4, <3>5, <3>6 DEF Contains, b
  <2> QED BY <2>2, <2>3 DEF Key
<1>9. Find(one, a) = 1
  <2> DEFINE T == {i \in 1..Len(one) : one[i].key = a}
  <2>1. Find(one, a) = IF T # {} THEN Min(T) ELSE 0 BY DEF Find, SelectInSeq
  <2>2. T = {1} BY <1>2, <1>4
  <2> HIDE DEF T
  <2>3. Min(T) \in T BY <2>2, MinOfSet
  <2> QED BY <2>1, <2>2, <2>3
<1>10. Get(one, a, 0) = v[1] /\ Get(one, a, 1) = v[2]
  <2>1. one[Find(one, a)].values = v BY <1>2, <1>4, <1>9
  <2>2. Find(one, a) # 0 /\ 0 < Len(v) /\ 1 < Len(v) BY <1>1, <1>9
  <2> QED BY <2>1, <2>2 DEF Get
<1> QED BY <1>1, <1>6, <1>8, <1>10 DEF raw

\* What is read of 5 to 7 of the values that were written.
LEMMA ReadWritten ==
  ASSUME NEW p, NEW n \in 5..7,
         p.address \in Names \ {<<>>}, p.door_id \in Names, p.uuid_token \in Names
  PROVE  /\ Transmitted(Said(p, n)) = Said(p, n)
         /\ ReadOnSendToServer(Said(p, n)) =
               [port |-> ToUint16(p.port), token |-> p.token, user |-> p.user,
                address |-> p.address, door_id |-> p.door_id, uuid_token |-> p.uuid_token,
                login_mode |-> IF n > 5 THEN ToUint8(p.login_mode) ELSE ToUint8(0),
                username |-> IF n > 6 THEN p.username ELSE <<>>]
<1> DEFINE w == WriteOnSendToServer(p)
           S == {w[i] : i \in 1..7}
           v == Said(p, n)
           raw == AddressText(p.address, p.door_id, p.uuid_token)
<1>1. /\ w \in Seq(S) /\ Len(w) = 7
      /\ w[2] = Var("SIGNED", p.port) /\ w[3] = Var("SIGNED", p.token)
      /\ w[4] = Var("SIGNED", p.user) /\ w[5] = Var("STRING", raw)
      /\ w[6] = Var("UNSIGNED", p.login_mode) /\ w[7] = Var("STRING", p.username)
  BY DEF WriteOnSendToServer, AddressText, AddressEntry
<1> HIDE DEF w, S
<1>2. v = SubSeq(w, 1, n) BY DEF Said, w
<1>3. v \in Seq(S) /\ Len(v) = n /\ \A i \in 1..n : v[i] = w[i] BY <1>1, <1>2
<1> HIDE DEF v, raw
<1>4. Transmitted(v) = v
  <2>1. 2^8 = 256 OBVIOUS
  <2>2. n % 256 = n OBVIOUS
  <2>3. SubSeq(v, 1, Len(v)) = v BY <1>3, SubSeqFull
  <2> QED BY <1>3, <2>1, <2>2, <2>3 DEF Transmitted
<1>5. /\ GetVariant(v, 1, "SIGNED") = p.port /\ GetVariant(v, 2, "SIGNED") = p.token
      /\ GetVariant(v, 3, "SIGNED") = p.user /\ GetVariant(v, 4, "STRING") = raw
  <2>1. /\ 2 \in 1..n /\ 3 \in 1..n /\ 4 \in 1..n /\ 5 \in 1..n
        /\ 1 < Len(v) /\ 2 < Len(v) /\ 3 < Len(v) /\ 4 < Len(v)
    BY <1>3
  <2> QED BY <1>1, <1>3, <2>1 DEF GetVariant, Var
<1>6. GetVariant(v, 5, "UNSIGNED") = IF n > 5 THEN p.login_mode ELSE 0
  <2>1. CASE n > 5
    <3>1. 6 \in 1..n /\ 5 < Len(v) BY <1>3, <2>1
    <3> QED BY <1>1, <1>3, <2>1, <3>1 DEF GetVariant, Var
  <2>2. CASE ~(n > 5)
    <3>1. ~(5 < Len(v)) BY <1>3, <2>2
    <3> QED BY <2>2, <3>1 DEF GetVariant
  <2> QED BY <2>1, <2>2
<1>7. GetVariant(v, 6, "STRING") = IF n > 6 THEN p.username ELSE <<>>
  <2>1. CASE n > 6
    <3>1. 7 \in 1..n /\ 6 < Len(v) BY <1>3, <2>1
    <3> QED BY <1>1, <1>3, <2>1, <3>1 DEF GetVariant, Var
  <2>2. CASE ~(n > 6)
    <3>1. ~(6 < Len(v)) BY <1>3, <2>2
    <3> QED BY <2>2, <3>1 DEF GetVariant
  <2> QED BY <2>1, <2>2
<1>8. /\ Key(raw) = p.address /\ Get(Parse(raw), p.address, 0) = p.door_id
      /\ Get(Parse(raw), p.address, 1) = p.uuid_token
  BY AddressIsFound DEF raw
<1>9. ReadOnSendToServer(v) =
         [port |-> ToUint16(p.port), token |-> p.token, user |-> p.user,
          address |-> p.address, door_id |-> p.door_id, uuid_token |-> p.uuid_token,
          login_mode |-> ToUint8(IF n > 5 THEN p.login_mode ELSE 0),
          username |-> IF n > 6 THEN p.username ELSE <<>>]
  BY <1>5, <1>6, <1>7, <1>8 DEF ReadOnSendToServer
<1> QED BY <1>4, <1>9 DEF v

\* The ConnectionHandler sends the game to the proxy with everything else as the
\* server said it in OnSendToServer, its login mode cut to a byte, and remembers
\* where the server wanted it.
THEOREM RedirectionsAreKept == Spec => []RedirectKept
<1>1. Init => RedirectKept BY DEF Init, RedirectKept
<1>2. RedirectKept /\ [Next]_vars => RedirectKept'
  <2> SUFFICES ASSUME RedirectKept, [Next]_vars PROVE RedirectKept' OBVIOUS
  <2>1. ASSUME UNCHANGED redirection PROVE RedirectKept'
    BY <2>1 DEF redirection, RedirectKept
  <2>2. ASSUME NEW s \in Texts, Message(s) PROVE RedirectKept' BY <2>1, <2>2 DEF Message
  <2>3. CASE ScriptEdits BY <2>1, <2>3 DEF ScriptEdits, Edit
  <2>4. CASE SendTextParse BY <2>1, <2>4 DEF SendTextParse
  <2>5. CASE Forget BY <2>5 DEF Forget, RedirectKept
  <2>6. ASSUME NEW p \in Redirects, NEW n \in 5..7, OnSendToServer(p, n) PROVE RedirectKept'
    <3>0. SUFFICES ASSUME told'.address # <<>>
                   PROVE  /\ pending' = [address |-> told'.address, port |-> ToUint16(told'.port)]
                          /\ redirect' = [told' EXCEPT !.address = Localhost.address,
                                                       !.port = Localhost.port,
                                                       !.login_mode = ToUint8(@)]
      BY DEF RedirectKept
    <3> DEFINE pkt == ReadOnSendToServer(Transmitted(Said(p, n)))
               mod == [pkt EXCEPT !.address = Localhost.address, !.port = Localhost.port]
               back == ReadOnSendToServer(Transmitted(WriteOnSendToServer(mod)))
               mode == IF n > 5 THEN p.login_mode ELSE 0
               name == IF n > 6 THEN p.username ELSE <<>>
    <3>1. /\ told' = [p EXCEPT !.login_mode = mode, !.username = name]
          /\ pending' = [address |-> pkt.address, port |-> pkt.port]
          /\ redirect' = back
      BY <2>6 DEF OnSendToServer
    <3>2. /\ p = [port |-> p.port, token |-> p.token, user |-> p.user, address |-> p.address,
                  door_id |-> p.door_id, uuid_token |-> p.uuid_token,
                  login_mode |-> p.login_mode, username |-> p.username]
          /\ p.address \in Names /\ p.door_id \in Names /\ p.uuid_token \in Names
          /\ p.login_mode \in Int
      BY RedirectAssumption
    <3>3. told' = [port |-> p.port, token |-> p.token, user |-> p.user, address |-> p.address,
                   door_id |-> p.door_id, uuid_token |-> p.uuid_token,
                   login_mode |-> mode, username |-> name]
      <4> HIDE DEF mode, name
      <4> QED BY <3>1, <3>2
    <3>12. p.address \in Names \ {<<>>} BY <3>0, <3>2, <3>3
    <3>4. ToUint8(ToUint8(mode)) = ToUint8(mode) /\ ToUint8(0) = 0 /\ ToUint16(0) = 0
      <4>1. mode \in Int BY <3>2
      <4> HIDE DEF mode
      <4>2. 2^8 = 256 /\ 2^16 = 65536 OBVIOUS
      <4>3. (mode % 256) % 256 = mode % 256 /\ 0 % 256 = 0 /\ 0 % 65536 = 0 BY <4>1
      <4> QED BY <4>2, <4>3 DEF ToUint8, ToUint16
    <3>5. pkt = [port |-> ToUint16(p.port), token |-> p.token, user |-> p.user,
                 address |-> p.address, door_id |-> p.door_id, uuid_token |-> p.uuid_token,
                 login_mode |-> ToUint8(mode), username |-> name]
      <4>1. /\ Transmitted(Said(p, n)) = Said(p, n)
            /\ ReadOnSendToServer(Said(p, n)) =
                  [port |-> ToUint16(p.port), token |-> p.token, user |-> p.user,
                   address |-> p.address, door_id |-> p.door_id, uuid_token |-> p.uuid_token,
                   login_mode |-> IF n > 5 THEN ToUint8(p.login_mode) ELSE ToUint8(0),
                   username |-> IF n > 6 THEN p.username ELSE <<>>]
        BY <3>2, <3>12, ReadWritten
      <4> QED BY <4>1
    <3> HIDE DEF pkt, mode, name
    <3>6. mod = [port |-> 0, token |-> p.token, user |-> p.user,
                 address |-> Localhost.address, door_id |-> p.door_id,
                 uuid_token |-> p.uuid_token, login_mode |-> ToUint8(mode), username |-> name]
      <4>1. Localhost.port = 0 BY DEF Localhost
      <4>2. mod = [[pkt EXCEPT !.address = Localhost.address] EXCEPT !.port = Localhost.port]
        OBVIOUS
      <4>3. [pkt EXCEPT !.address = Localhost.address] =
               [port |-> ToUint16(p.port), token |-> p.token, user |-> p.user,
                address |-> Localhost.address, door_id |-> p.door_id,
                uuid_token |-> p.uuid_token, login_mode |-> ToUint8(mode), username |-> name]
        BY <3>5
      <4> HIDE DEF mod
      <4> QED BY <4>1, <4>2, <4>3
    <3> HIDE DEF mod
    <3>7. WriteOnSendToServer(mod) = Said(mod, 7)
      <4> DEFINE w == WriteOnSendToServer(mod)
                 S == {w[i] : i \in 1..7}
      <4>1. w \in Seq(S) /\ Len(w) = 7 BY DEF WriteOnSendToServer
      <4> HIDE DEF w, S
      <4>2. SubSeq(w, 1, 7) = w BY <4>1, SubSeqFull
      <4> QED BY <4>2 DEF Said, w
    <3>8. mod.address \in Names \ {<<>>} /\ mod.door_id \in Names /\ mod.uuid_token \in Names
      <4>1. Localhost.address # <<>> BY DEF Localhost
      <4> QED BY <3>2, <3>6, <4>1, RedirectAssumption
    <3>9. back = [port |-> ToUint16(mod.port), token |-> mod.token, user |-> mod.user,
                  address |-> mod.address, door_id |-> mod.door_id,
                  uuid_token |-> mod.uuid_token, login_mode |-> ToUint8(mod.login_mode),
                  username |-> mod.username]
      <4>1. /\ Transmitted(Said(mod, 7)) = Said(mod, 7)
            /\ ReadOnSendToServer(Said(mod, 7)) =
                  [port |-> ToUint16(mod.port), token |-> mod.token, user |-> mod.user,
                   address |-> mod.address, door_id |-> mod.door_id,
                   uuid_token |-> mod.uuid_token,
                   login_mode |-> IF 7 > 5 THEN ToUint8(mod.login_mode) ELSE ToUint8(0),
                   username |-> IF 7 > 6 THEN mod.username ELSE <<>>]
        <5>1. 7 \in 5..7 OBVIOUS
        <5> QED BY <3>8, <5>1, ReadWritten
      <4> QED BY <3>7, <4>1
    <3> HIDE DEF back
    <3>10. redirect' = [told' EXCEPT !.address = Localhost.address, !.port = Localhost.port,
                                     !.login_mode = ToUint8(@)]
      <4>1. Localhost.port = 0 BY DEF Localhost
      <4>2. redirect' = [port |-> 0, token |-> p.token, user |-> p.user,
                         address |-> Localhost.address, door_id |-> p.door_id,
                         uuid_token |-> p.uuid_token, login_mode |-> ToUint8(mode),
                         username |-> name]
        BY <3>1, <3>4, <3>6, <3>9
      <4> DEFINE t == told'
                 t1 == [t EXCEPT !.address = Localhost.address]
                 t2 == [t1 EXCEPT !.port = Localhost.port]
      <4>3. t1 = [port |-> p.port, token |-> p.token, user |-> p.user,
                  address |-> Localhost.address, door_id |-> p.door_id,
                  uuid_token |-> p.uuid_token, login_mode |-> mode, username |-> name]
        BY <3>3
      <4> HIDE DEF t1
      <4>4. t2 = [port |-> 0, token |-> p.token, user |-> p.user,
                  address |-> Localhost.address, door_id |-> p.door_id,
                  uuid_token |-> p.uuid_token, login_mode |-> mode, username |-> name]
        BY <4>1, <4>3
      <4> HIDE DEF t2
      <4>5. [t2 EXCEPT !.login_mode = ToUint8(@)] =
               [port |-> 0, token |-> p.token, user |-> p.user,
                address |-> Localhost.address, door_id |-> p.door_id,
                uuid_token |-> p.uuid_token, login_mode |-> ToUint8(mode), username |-> name]
        BY <4>4
      <4>6. [t EXCEPT !.address = Localhost.address, !.port = Localhost.port,
                      !.login_mode = ToUint8(@)]
               = [t2 EXCEPT !.login_mode = ToUint8(@)]
        BY DEF t1, t2
      <4> QED BY <4>2, <4>5, <4>6
    <3>11. pending' = [address |-> told'.address, port |-> ToUint16(told'.port)]
      BY <3>1, <3>3, <3>5
    <3> QED BY <3>10, <3>11
  <2>7. CASE UNCHANGED vars BY <2>1, <2>7 DEF vars
  <2> QED BY <2>2, <2>3, <2>4, <2>5, <2>6, <2>7 DEF Next
<1> QED BY <1>1, <1>2, PTL DEF Spec
=============================================================================
