---------------------------- MODULE WorldMapProofs ----------------------------
(***************************************************************************)
(* What holds of the parser of maps and of the items it looks up, for any  *)
(* tiles, any cuts and any builds of items.dat.                            *)
(***************************************************************************)
EXTENDS WorldMap, FiniteSetTheorems, TLAPS

-----------------------------------------------------------------------------
(* Numbers, and folds over sequences.  Induction over a formula is out of the *)
(* reach of the installed provers; over a set of numbers it is a lemma.        *)

\* A set of numbers has a least one: the intervals up to its members are
\* finite sets, and inclusion is well founded on these.
LEMMA LeastNumber ==
  ASSUME NEW T \in SUBSET Nat, T # {}
  PROVE  \E x \in T : \A y \in T : x <= y
<1> DEFINE F == {1..x : x \in T}
<1>1. F \subseteq FiniteSubsetsOf(Nat) /\ F # {}
  <2>1. ASSUME NEW x \in T PROVE 1..x \in FiniteSubsetsOf(Nat)
    BY FS_Interval DEF FiniteSubsetsOf
  <2> QED BY <2>1
<1>2. \E s \in F : \A t \in F : <<t, s>> \notin StrictSubsetOrdering(Nat)
  <2>1. IsWellFoundedOn(StrictSubsetOrdering(Nat), FiniteSubsetsOf(Nat))
    BY FS_StrictSubsetOrderingWellFounded
  <2> HIDE DEF F
  <2> QED BY <1>1, <2>1, WFMin
<1>3. PICK x \in T : \A y \in T : <<1..y, 1..x>> \notin StrictSubsetOrdering(Nat)
  BY <1>2
<1>4. ASSUME NEW y \in T, y < x PROVE FALSE
  <2>1. x \in Nat /\ y \in Nat OBVIOUS
  <2>2. 1..y \subseteq 1..x /\ x \in 1..x /\ x \notin 1..y BY <1>4, <2>1
  <2>3. 1..y \subseteq Nat /\ 1..x \subseteq Nat BY <2>1
  <2>4. <<1..y, 1..x>> \in StrictSubsetOrdering(Nat) BY <2>2, <2>3 DEF StrictSubsetOrdering
  <2> QED BY <1>3, <2>4
<1> QED BY <1>4

\* Induction, for a set of numbers instead of a formula.
LEMMA NatSetInduction ==
  ASSUME NEW S, 0 \in S, \A n \in Nat : n \in S => n + 1 \in S
  PROVE  Nat \subseteq S
<1> SUFFICES ASSUME Nat \ S # {} PROVE FALSE OBVIOUS
<1>1. PICK x \in Nat \ S : \A y \in Nat \ S : x <= y BY LeastNumber
<1>2. x # 0 /\ x - 1 \in Nat /\ x - 1 < x BY <1>1
<1>3. x - 1 \in S BY <1>1, <1>2
<1>4. (x - 1) + 1 \in S BY <1>2, <1>3
<1> QED BY <1>1, <1>4

\* The greatest of the numbers up to n.
LEMMA MaxOfInterval ==
  ASSUME NEW n \in Nat, NEW d \in SUBSET (1..n), n \in d
  PROVE  Max(d) = n
<1>1. \A y \in d : n >= y OBVIOUS
<1>2. Max(d) \in d /\ \A y \in d : Max(d) >= y BY <1>1 DEF Max
<1>3. Max(d) \in 1..n /\ Max(d) >= n BY <1>2
<1> QED BY <1>3

\* What the fold over a sequence of numbers returns for every set of indices.
IsFold(g, s, n) ==
    g = [d \in SUBSET (1..n) |-> IF d = {} THEN 0 ELSE g[d \ {Max(d)}] + FieldSize(s[Max(d)])]

\* There is such a function: from the one for n indices the one for n + 1.
LEMMA FoldExists ==
  ASSUME NEW s, NEW N \in Nat
  PROVE  \E g : IsFold(g, s, N)
<1> DEFINE S == {n \in Nat : \E g : IsFold(g, s, n)}
<1>1. 0 \in S
  <2> DEFINE g == [d \in SUBSET (1..0) |-> 0]
  <2>1. 1..0 = {} OBVIOUS
  <2>2. IsFold(g, s, 0) BY <2>1 DEF IsFold
  <2> QED BY <2>2
<1>2. ASSUME NEW n \in Nat, n \in S PROVE n + 1 \in S
  <2>1. PICK g : IsFold(g, s, n) BY <1>2
  <2> DEFINE new(d) == IF n + 1 \in d THEN g[d \ {n + 1}] + FieldSize(s[n + 1]) ELSE g[d]
             h == [d \in SUBSET (1..(n + 1)) |-> new(d)]
  <2>2. ASSUME NEW d \in SUBSET (1..(n + 1)), d # {}
        PROVE  new(d) = h[d \ {Max(d)}] + FieldSize(s[Max(d)])
    <3>1. d \ {Max(d)} \in SUBSET (1..(n + 1)) OBVIOUS
    <3>2. h[d \ {Max(d)}] = new(d \ {Max(d)}) BY <3>1
    <3>3. CASE n + 1 \in d
      <4>1. Max(d) = n + 1 BY <3>3, MaxOfInterval
      <4> QED BY <3>2, <3>3, <4>1
    <3>4. CASE n + 1 \notin d
      <4>1. d \in SUBSET (1..n) BY <3>4
      <4>2. g[d] = g[d \ {Max(d)}] + FieldSize(s[Max(d)]) BY <2>1, <2>2, <4>1 DEF IsFold
      <4> QED BY <3>2, <3>4, <4>2
    <3> QED BY <3>3, <3>4
  <2>3. new({}) = 0
    <3>1. {} \in SUBSET (1..n) OBVIOUS
    <3>2. g[{}] = 0 BY <2>1, <3>1 DEF IsFold
    <3> QED BY <3>2
  <2>4. h = [d \in SUBSET (1..(n + 1)) |-> IF d = {} THEN 0 ELSE h[d \ {Max(d)}] + FieldSize(s[Max(d)])]
    <3> HIDE DEF h
    <3>1. h = [d \in SUBSET (1..(n + 1)) |-> new(d)] BY DEF h
    <3> HIDE DEF new
    <3> QED BY <2>2, <2>3, <3>1
  <2>5. IsFold(h, s, n + 1)
    <3> HIDE DEF h
    <3> QED BY <2>4 DEF IsFold
  <2> QED BY <2>5
<1> HIDE DEF S
<1>3. Nat \subseteq S BY <1>1, <1>2, NatSetInduction
<1> QED BY <1>3 DEF S

\* A fold adds up from the left.
LEMMA FoldSteps ==
  ASSUME NEW s, NEW N \in Nat, NEW g, IsFold(g, s, N), NEW k \in 1..N
  PROVE  g[1..0] = 0 /\ g[1..k] = g[1..(k - 1)] + FieldSize(s[k])
<1>1. 1..k \in SUBSET (1..N) /\ 1..0 \in SUBSET (1..N) /\ 1..0 = {} /\ k \in 1..k OBVIOUS
<1>2. Max(1..k) = k BY <1>1, MaxOfInterval
<1>3. (1..k) \ {k} = 1..(k - 1) OBVIOUS
<1> QED BY <1>1, <1>2, <1>3 DEF IsFold

\* SizeOf() is such a fold.
LEMMA SizeIsFold ==
  ASSUME NEW s, NEW N \in Nat, DOMAIN s = 1..N
  PROVE  \E g : IsFold(g, s, N) /\ SizeOf(s) = g[1..N]
<1> DEFINE eq(g) == g = [d \in SUBSET (DOMAIN s) |->
                      IF d = {} THEN 0 ELSE g[d \ {Max(d)}] + FieldSize(s[Max(d)])]
           it == CHOOSE g : eq(g)
<1>1. SizeOf(s) = it[DOMAIN s] BY DEF SizeOf, FoldLeft, MapThenFoldSet
<1>2. \E g : eq(g)
  <2>1. PICK g : IsFold(g, s, N) BY FoldExists
  <2> QED BY <2>1 DEF IsFold
<1>3. eq(it)
  <2> HIDE DEF eq
  <2> QED BY <1>2
<1>4. IsFold(it, s, N) BY <1>3 DEF IsFold
<1> HIDE DEF it
<1> QED BY <1>1, <1>4

-----------------------------------------------------------------------------
(* How many bytes fields take *)

\* The fields that are as long as FieldSize says.
PlainFields == {Read(n) : n \in Nat} \cup {Over(n) : n \in Nat}
    \cup {List(n) : n \in Nat} \cup {RawList(n) : n \in Nat} \cup {SkipList(n) : n \in Nat}
    \cup {Text}

\* All the fields of a map with this tile.
FieldsOf(tile) == PlainFields \cup
    {Foreground(tile), Flags(tile), Type(tile),
     Repeat(<<Over(5)>>, TileFields(tile)), Repeat(<<Read(4)>>, Object)}

\* How many bytes of a whole map a field takes, with all that it leads to.
Bytes(f) ==
    CASE f.op = "foreground" -> 2
      [] f.op = "flags" -> TileSize(f.tile) - 6
      [] f.op = "type" -> 1 + SizeOf(ExtraFields(f.tile))
      [] f.op = "repeat" -> IF f.fields = Object THEN 8 + SizeOf(Object)
                            ELSE 9 + TileSize(f.fields[1].tile)
      [] OTHER -> FieldSize(f)

\* The fields of s take m bytes: r is what the i-th and those after it take.
Takes(s, m) ==
    \E r \in [1..(Len(s) + 1) -> Nat] :
        /\ r[1] = m /\ r[Len(s) + 1] = 0
        /\ \A i \in 1..Len(s) : Bytes(s[i]) \in Nat /\ r[i] = Bytes(s[i]) + r[i + 1]

\* Of such a field, FieldSize is a number and all there is.
LEMMA PlainBytes ==
  ASSUME NEW f \in PlainFields
  PROVE  FieldSize(f) \in Nat /\ Bytes(f) = FieldSize(f)
<1> USE MapAssumption DEF MapAssumption
<1>1. ASSUME NEW n \in Nat, f = Read(n) \/ f = Over(n) PROVE FieldSize(f) = n
  BY <1>1 DEF Read, Over, FieldSize
<1>2. ASSUME NEW n \in Nat, f = List(n) \/ f = RawList(n) \/ f = SkipList(n)
      PROVE  FieldSize(f) = 4 + Count * n
  BY <1>2 DEF List, RawList, SkipList, FieldSize
<1>3. ASSUME f = Text PROVE FieldSize(f) = 2 + Length
  BY <1>3 DEF Text, FieldSize
<1>4. \A n \in Nat : 4 + Count * n \in Nat OBVIOUS
<1>5. FieldSize(f) \in Nat BY <1>1, <1>2, <1>3, <1>4 DEF PlainFields
<1>6. f.op \in {"read", "skip", "list", "rawlist", "skiplist", "text"}
  BY DEF PlainFields, Read, Over, List, RawList, SkipList, Text
<1> QED BY <1>5, <1>6 DEF Bytes

\* Without its first field, a sequence takes as many bytes less.
LEMMA TakesTail ==
  ASSUME NEW T, NEW s \in Seq(T), s # <<>>, NEW m, Takes(s, m)
  PROVE  \E k \in Nat : Bytes(Head(s)) \in Nat /\ m = Bytes(Head(s)) + k /\ Takes(Tail(s), k)
<1>1. PICK r \in [1..(Len(s) + 1) -> Nat] :
        /\ r[1] = m /\ r[Len(s) + 1] = 0
        /\ \A i \in 1..Len(s) : Bytes(s[i]) \in Nat /\ r[i] = Bytes(s[i]) + r[i + 1]
  BY DEF Takes
<1>2. Len(s) \in Nat \ {0} /\ Len(Tail(s)) = Len(s) - 1 /\ Head(s) = s[1]
      /\ \A i \in 1..Len(Tail(s)) : Tail(s)[i] = s[i + 1]
  OBVIOUS
<1> DEFINE q == [i \in 1..(Len(Tail(s)) + 1) |-> r[i + 1]]
<1>3. q \in [1..(Len(Tail(s)) + 1) -> Nat] BY <1>1, <1>2
<1>4. q[1] = r[2] /\ q[Len(Tail(s)) + 1] = 0 BY <1>1, <1>2
<1>5. ASSUME NEW i \in 1..Len(Tail(s)) PROVE  Bytes(Tail(s)[i]) \in Nat /\ q[i] = Bytes(Tail(s)[i]) + q[i + 1]
  <2>1. i + 1 \in 1..Len(s) /\ i \in 1..(Len(Tail(s)) + 1) /\ i + 1 \in 1..(Len(Tail(s)) + 1)
    BY <1>2
  <2>2. Bytes(s[i + 1]) \in Nat /\ r[i + 1] = Bytes(s[i + 1]) + r[(i + 1) + 1] BY <1>1, <2>1
  <2> QED BY <1>2, <2>1, <2>2
<1>6. Takes(Tail(s), r[2])
  <2> HIDE DEF q
  <2> QED BY <1>3, <1>4, <1>5 DEF Takes
<1>7. Bytes(s[1]) \in Nat /\ r[1] = Bytes(s[1]) + r[1 + 1] /\ r[2] \in Nat BY <1>1, <1>2
<1> QED BY <1>1, <1>2, <1>6, <1>7

\* One sequence after the other takes the bytes of both.
LEMMA TakesBoth ==
  ASSUME NEW T, NEW p \in Seq(T), NEW s \in Seq(T), NEW m, NEW n, Takes(p, m), Takes(s, n)
  PROVE  Takes(p \o s, m + n)
<1>1. PICK a \in [1..(Len(p) + 1) -> Nat] :
        /\ a[1] = m /\ a[Len(p) + 1] = 0
        /\ \A i \in 1..Len(p) : Bytes(p[i]) \in Nat /\ a[i] = Bytes(p[i]) + a[i + 1]
  BY DEF Takes
<1>2. PICK b \in [1..(Len(s) + 1) -> Nat] :
        /\ b[1] = n /\ b[Len(s) + 1] = 0
        /\ \A i \in 1..Len(s) : Bytes(s[i]) \in Nat /\ b[i] = Bytes(s[i]) + b[i + 1]
  BY DEF Takes
<1> DEFINE t == p \o s
           r == [i \in 1..(Len(t) + 1) |-> IF i <= Len(p) THEN a[i] + n ELSE b[i - Len(p)]]
<1>3. Len(p) \in Nat /\ Len(s) \in Nat /\ Len(t) = Len(p) + Len(s) /\ m \in Nat /\ n \in Nat
  <2>1. Len(p) \in Nat /\ Len(s) \in Nat /\ Len(t) = Len(p) + Len(s) OBVIOUS
  <2>2. 1 \in 1..(Len(p) + 1) /\ 1 \in 1..(Len(s) + 1) BY <2>1
  <2>3. a[1] \in Nat /\ b[1] \in Nat BY <1>1, <1>2, <2>2
  <2> QED BY <1>1, <1>2, <2>1, <2>3
<1>4. /\ \A i \in 1..Len(p) : t[i] = p[i]
      /\ \A i \in 1..Len(s) : t[Len(p) + i] = s[i]
  OBVIOUS
<1> HIDE DEF t
<1>5. ASSUME NEW i \in 1..(Len(t) + 1)
      PROVE  r[i] \in Nat /\ r[i] = (IF i <= Len(p) THEN a[i] + n ELSE b[i - Len(p)])
  <2>1. r[i] = (IF i <= Len(p) THEN a[i] + n ELSE b[i - Len(p)]) OBVIOUS
  <2>2. i <= Len(p) => a[i] \in Nat
    <3>1. i <= Len(p) => i \in 1..(Len(p) + 1) BY <1>3
    <3> QED BY <1>1, <3>1
  <2>3. ~(i <= Len(p)) => b[i - Len(p)] \in Nat
    <3>1. ~(i <= Len(p)) => i - Len(p) \in 1..(Len(s) + 1) BY <1>3
    <3> QED BY <1>2, <3>1
  <2> QED BY <1>3, <2>1, <2>2, <2>3
<1>6. r[1] = m + n /\ r[Len(t) + 1] = 0
  <2>1. 1 \in 1..(Len(t) + 1) /\ Len(t) + 1 \in 1..(Len(t) + 1) BY <1>3
  <2>2. r[1] = m + n
    <3>1. CASE Len(p) = 0 BY <1>1, <1>2, <1>3, <1>5, <2>1, <3>1
    <3>2. CASE Len(p) > 0 BY <1>1, <1>3, <1>5, <2>1, <3>2
    <3> QED BY <1>3, <3>1, <3>2
  <2> QED BY <1>2, <1>3, <1>5, <2>1, <2>2
<1>7. ASSUME NEW i \in 1..Len(t) PROVE  Bytes(t[i]) \in Nat /\ r[i] = Bytes(t[i]) + r[i + 1]
  <2>1. i \in 1..(Len(t) + 1) /\ i + 1 \in 1..(Len(t) + 1) BY <1>3
  <2>2. r[i] = (IF i <= Len(p) THEN a[i] + n ELSE b[i - Len(p)])
        /\ r[i + 1] = (IF i + 1 <= Len(p) THEN a[i + 1] + n ELSE b[(i + 1) - Len(p)])
    BY <1>5, <2>1
  <2>3. CASE i < Len(p)
    <3>1. i \in 1..Len(p) /\ i + 1 \in 1..(Len(p) + 1) BY <1>3, <2>3
    <3>2. Bytes(p[i]) \in Nat /\ a[i] = Bytes(p[i]) + a[i + 1] /\ t[i] = p[i] /\ a[i + 1] \in Nat
      BY <1>1, <1>4, <3>1
    <3>3. r[i] = a[i] + n /\ r[i + 1] = a[i + 1] + n BY <1>3, <2>2, <2>3
    <3> HIDE DEF r
    <3> QED BY <1>3, <3>2, <3>3
  <2>4. CASE i = Len(p)
    <3>1. Bytes(p[i]) \in Nat /\ a[i] = Bytes(p[i]) + a[i + 1] /\ t[i] = p[i] /\ a[i + 1] = 0
      BY <1>1, <1>3, <1>4, <2>4
    <3>2. r[i] = a[i] + n /\ r[i + 1] = n BY <1>2, <1>3, <2>2, <2>4
    <3> HIDE DEF r
    <3> QED BY <1>3, <3>1, <3>2
  <2>5. CASE i > Len(p)
    <3>1. i - Len(p) \in 1..Len(s) /\ Len(p) + (i - Len(p)) = i BY <1>3, <2>5
    <3>2. Bytes(s[i - Len(p)]) \in Nat /\ b[i - Len(p)] = Bytes(s[i - Len(p)]) + b[(i - Len(p)) + 1] /\ t[i] = s[i - Len(p)]
      BY <1>2, <1>4, <3>1
    <3>3. (i - Len(p)) + 1 = (i + 1) - Len(p) BY <1>3
    <3>4. r[i] = b[i - Len(p)] /\ r[i + 1] = b[(i - Len(p)) + 1] BY <1>3, <2>2, <2>5, <3>3
    <3> HIDE DEF r
    <3> QED BY <3>2, <3>4
  <2> QED BY <1>3, <2>3, <2>4, <2>5
<1>8. r \in [1..(Len(t) + 1) -> Nat] BY <1>5
<1>9. Takes(t, m + n)
  <2> HIDE DEF r
  <2> QED BY <1>6, <1>7, <1>8 DEF Takes
<1> QED BY <1>9 DEF t

\* Where nothing is to be read.
LEMMA TakesNothing == Takes(<<>>, 0)
<1> DEFINE r == [i \in 1..1 |-> 0]
<1>1. Len(<<>>) = 0 /\ r \in [1..1 -> Nat] /\ r[1] = 0 OBVIOUS
<1> HIDE DEF r
<1> QED BY <1>1 DEF Takes

\* A single field.
LEMMA TakesOne ==
  ASSUME NEW f, Bytes(f) \in Nat
  PROVE  Takes(<<f>>, Bytes(f))
<1> DEFINE r == [i \in 1..2 |-> IF i = 1 THEN Bytes(f) ELSE 0]
<1>1. r \in [1..2 -> Nat] /\ r[1] = Bytes(f) /\ r[2] = 0 OBVIOUS
<1>2. Len(<<f>>) = 1 /\ <<f>>[1] = f /\ 1 + 1 = 2 OBVIOUS
<1>3. \A i \in 1..1 : Bytes(<<f>>[i]) \in Nat /\ r[i] = Bytes(<<f>>[i]) + r[i + 1] BY <1>1, <1>2
<1> HIDE DEF r
<1> QED BY <1>1, <1>2, <1>3 DEF Takes

\* The elements of a list.
LEMMA TakesAll ==
  ASSUME NEW n \in Nat, NEW k \in Nat
  PROVE  Takes([i \in 1..k |-> Read(n)], k * n)
<1> DEFINE s == [i \in 1..k |-> Read(n)]
           r == [i \in 1..(k + 1) |-> (k + 1 - i) * n]
<1>1. Bytes(Read(n)) = n BY DEF Bytes, FieldSize, Read
<1>2. s \in Seq({Read(n)}) /\ Len(s) = k OBVIOUS
<1>3. \A i \in 1..k : s[i] = Read(n) OBVIOUS
<1>4. \A a \in Nat : a * n \in Nat /\ (a + 1) * n = n + a * n OBVIOUS
<1>5. ASSUME NEW i \in 1..(k + 1) PROVE r[i] = (k + 1 - i) * n /\ r[i] \in Nat
  <2>1. k + 1 - i \in Nat OBVIOUS
  <2> QED BY <1>4, <2>1
<1>6. ASSUME NEW i \in 1..k PROVE  r[i] = n + r[i + 1]
  <2>1. k - i \in Nat /\ k + 1 - i = (k - i) + 1 /\ k + 1 - (i + 1) = k - i OBVIOUS
  <2>2. r[i] = ((k - i) + 1) * n /\ r[i + 1] = (k - i) * n BY <1>5, <2>1
  <2> QED BY <1>4, <2>1, <2>2
<1>7. r[1] = k * n /\ r[k + 1] = 0
  <2>1. r[1] = (k + 1 - 1) * n /\ r[k + 1] = (k + 1 - (k + 1)) * n BY <1>5
  <2>2. k + 1 - 1 = k /\ k + 1 - (k + 1) = 0 /\ 0 * n = 0 OBVIOUS
  <2> QED BY <2>1, <2>2
<1>8. r \in [1..(k + 1) -> Nat] BY <1>5
<1> HIDE DEF r, s
<1>9. Takes(s, k * n) BY <1>1, <1>2, <1>3, <1>6, <1>7, <1>8 DEF Takes
<1> QED BY <1>9 DEF s

\* SizeOf() counts right.
LEMMA TakesSize ==
  ASSUME NEW s \in Seq(PlainFields)
  PROVE  SizeOf(s) \in Nat /\ Takes(s, SizeOf(s))
<1> DEFINE N == Len(s)
<1>1. N \in Nat /\ DOMAIN s = 1..N /\ \A i \in 1..N : s[i] \in PlainFields OBVIOUS
<1>2. PICK g : IsFold(g, s, N) /\ SizeOf(s) = g[1..N]
  <2> HIDE DEF N
  <2> QED BY <1>1, SizeIsFold
<1> HIDE DEF N
<1>3. \A k \in 1..N : g[1..k] = g[1..(k - 1)] + FieldSize(s[k]) BY <1>1, <1>2, FoldSteps
<1>4. g[1..0] = 0
  <2>1. {} \in SUBSET (1..N) /\ 1..0 = {} OBVIOUS
  <2> QED BY <1>2, <2>1 DEF IsFold
<1>5. \A i \in 1..N : FieldSize(s[i]) \in Nat /\ Bytes(s[i]) = FieldSize(s[i]) BY <1>1, PlainBytes
<1> DEFINE S == {k \in Nat : k <= N => g[1..k] \in Nat}
<1>6. 0 \in S BY <1>4
<1>7. ASSUME NEW k \in Nat, k \in S PROVE k + 1 \in S
  <2> SUFFICES ASSUME k + 1 <= N PROVE g[1..(k + 1)] \in Nat OBVIOUS
  <2>1. k + 1 \in 1..N /\ (k + 1) - 1 = k /\ k <= N BY <1>1
  <2>2. g[1..(k + 1)] = g[1..k] + FieldSize(s[k + 1]) BY <1>3, <2>1
  <2> QED BY <1>5, <1>7, <2>1, <2>2
<1>8. Nat \subseteq S
  <2> HIDE DEF S
  <2> QED BY <1>6, <1>7, NatSetInduction
<1>9. \A k \in 0..N : g[1..k] \in Nat BY <1>1, <1>8
<1> DEFINE U == {k \in Nat : k <= N => g[1..N] - g[1..(N - k)] \in Nat}
<1>10. 0 \in U
  <2>1. N - 0 = N /\ g[1..N] \in Nat BY <1>1, <1>9
  <2> QED BY <2>1
<1>11. ASSUME NEW k \in Nat, k \in U PROVE k + 1 \in U
  <2> SUFFICES ASSUME k + 1 <= N PROVE g[1..N] - g[1..(N - (k + 1))] \in Nat OBVIOUS
  <2>1. N - k \in 1..N /\ N - (k + 1) \in 0..N /\ (N - k) - 1 = N - (k + 1) /\ N \in 0..N
        /\ N - k \in 0..N
    BY <1>1
  <2>2. g[1..(N - k)] = g[1..(N - (k + 1))] + FieldSize(s[N - k]) BY <1>3, <2>1
  <2>3. g[1..N] - g[1..(N - k)] \in Nat BY <1>1, <1>11
  <2>4. g[1..(N - (k + 1))] \in Nat /\ g[1..(N - k)] \in Nat /\ g[1..N] \in Nat
        /\ FieldSize(s[N - k]) \in Nat
    BY <1>5, <1>9, <2>1
  <2> QED BY <2>2, <2>3, <2>4
<1>12. Nat \subseteq U
  <2> HIDE DEF U
  <2> QED BY <1>10, <1>11, NatSetInduction
<1>13. ASSUME NEW j \in 0..N PROVE g[1..N] - g[1..j] \in Nat
  <2>1. N - j \in Nat /\ N - j <= N /\ N - (N - j) = j BY <1>1
  <2>2. N - j \in U BY <1>12, <2>1
  <2> QED BY <2>1, <2>2
<1> DEFINE r == [i \in 1..(N + 1) |-> g[1..N] - g[1..(i - 1)]]
<1>14. r \in [1..(N + 1) -> Nat]
  <2>1. \A i \in 1..(N + 1) : i - 1 \in 0..N BY <1>1
  <2> QED BY <1>13, <2>1
<1>15. r[1] = g[1..N] /\ r[N + 1] = 0
  <2>1. 1 \in 1..(N + 1) /\ N + 1 \in 1..(N + 1) /\ 1 - 1 = 0 /\ (N + 1) - 1 = N /\ N \in 0..N
    BY <1>1
  <2>2. g[1..N] \in Nat BY <1>9, <2>1
  <2> QED BY <1>4, <2>1, <2>2
<1>16. ASSUME NEW i \in 1..N PROVE  Bytes(s[i]) \in Nat /\ r[i] = Bytes(s[i]) + r[i + 1]
  <2>1. i \in 1..(N + 1) /\ i + 1 \in 1..(N + 1) /\ (i + 1) - 1 = i /\ i - 1 \in 0..N /\ i \in 0..N
        /\ N \in 0..N
    BY <1>1
  <2>2. r[i] = g[1..N] - g[1..(i - 1)] /\ r[i + 1] = g[1..N] - g[1..i] BY <2>1
  <2>3. g[1..i] = g[1..(i - 1)] + Bytes(s[i]) BY <1>3, <1>5
  <2>4. g[1..N] \in Nat /\ g[1..i] \in Nat /\ g[1..(i - 1)] \in Nat /\ Bytes(s[i]) \in Nat
    BY <1>5, <1>9, <2>1
  <2> HIDE DEF r
  <2> QED BY <2>2, <2>3, <2>4
<1> HIDE DEF r
<1>17. Takes(s, g[1..N]) BY <1>14, <1>15, <1>16 DEF Takes, N
<1>18. N \in 0..N BY <1>1
<1> QED BY <1>2, <1>9, <1>17, <1>18

\* Extra data has none of the fields that lead to others.
LEMMA ExtraPlain ==
  ASSUME NEW tile \in Tile
  PROVE  ExtraFields(tile) \in Seq(PlainFields)
<1>1. \A n \in Nat : Read(n) \in PlainFields /\ Over(n) \in PlainFields /\ List(n) \in PlainFields
                  /\ RawList(n) \in PlainFields /\ SkipList(n) \in PlainFields /\ Text \in PlainFields
  BY DEF PlainFields
<1>2. \A f \in PlainFields : <<f>> \in Seq(PlainFields) OBVIOUS
<1>3. \A f, g \in PlainFields : <<f, g>> \in Seq(PlainFields) OBVIOUS
<1>4. \A f, g, h \in PlainFields : <<f, g, h>> \in Seq(PlainFields) OBVIOUS
<1>5. \A f, g, h, i \in PlainFields : <<f, g, h, i>> \in Seq(PlainFields) OBVIOUS
<1>6. <<>> \in Seq(PlainFields) OBVIOUS
<1>7. \A p, q \in Seq(PlainFields) : p \o q \in Seq(PlainFields) OBVIOUS
<1>8. CASE tile.type \in Known
  <2>1. KnownFields(tile) \in Seq(PlainFields)
    BY <1>1, <1>2, <1>3, <1>4, <1>5, <1>6, <1>7, <1>8 DEF KnownFields, Known
  <2> QED BY <1>8, <2>1 DEF ExtraFields
<1>9. CASE tile.type \notin Known
  <2>1. UnknownFields(tile.type) \in Seq(PlainFields)
    BY <1>1, <1>2, <1>3, <1>6 DEF UnknownFields
  <2> QED BY <1>9, <2>1 DEF ExtraFields
<1> QED BY <1>8, <1>9

\* An object has only fields of a known length.
LEMMA ObjectPlain == Object \in Seq(PlainFields)
<1>1. \A n \in Nat : Read(n) \in PlainFields BY DEF PlainFields
<1>2. Read(1) \in PlainFields /\ Read(2) \in PlainFields /\ Read(4) \in PlainFields BY <1>1
<1> QED BY <1>2 DEF Object

\* A field, and those after it.
LEMMA TakesFront ==
  ASSUME NEW T, NEW s \in Seq(T), s # <<>>, NEW n, NEW m,
         Bytes(Head(s)) = n, n \in Nat, Takes(Tail(s), m)
  PROVE  Takes(s, n + m)
<1>1. Takes(<<Head(s)>>, n) BY TakesOne
<1>2. <<Head(s)>> \in Seq(T) /\ Tail(s) \in Seq(T) /\ s = <<Head(s)>> \o Tail(s) OBVIOUS
<1> QED BY <1>1, <1>2, TakesBoth

\* The sizes of a tile and of its extra data.
LEMMA TileSizes ==
  ASSUME NEW tile \in Tile
  PROVE  /\ SizeOf(ExtraFields(tile)) \in Nat /\ SizeOf(Object) \in Nat
         /\ TileSize(tile) \in Nat /\ TileSize(tile) - 6 \in Nat
<1>1. SizeOf(ExtraFields(tile)) \in Nat BY ExtraPlain, TakesSize
<1>2. SizeOf(Object) \in Nat BY ObjectPlain, TakesSize
<1> QED BY <1>1, <1>2 DEF TileSize

\* What the fields of which there is one each take.
LEMMA OtherBytes ==
  ASSUME NEW tile \in Tile
  PROVE  /\ Bytes(Foreground(tile)) = 2
         /\ Bytes(Flags(tile)) = TileSize(tile) - 6
         /\ Bytes(Type(tile)) = 1 + SizeOf(ExtraFields(tile))
         /\ Bytes(Repeat(<<Over(5)>>, TileFields(tile))) = 9 + TileSize(tile)
         /\ Bytes(Repeat(<<Read(4)>>, Object)) = 8 + SizeOf(Object)
<1>1. TileFields(tile)[1] = Foreground(tile) BY DEF TileFields
<1>2. Object[1] = Read(2) BY DEF Object
<1>3. Foreground(tile) # Read(2)
  <2>1. Foreground(tile).op = "foreground" /\ Read(2).op = "read" BY DEF Foreground, Read
  <2> QED BY <2>1
<1>4. TileFields(tile) # Object BY <1>1, <1>2, <1>3
<1>5. TileFields(tile)[1].tile = tile BY <1>1 DEF Foreground
<1>6. Bytes(Foreground(tile)) = 2 /\ Bytes(Flags(tile)) = TileSize(tile) - 6
      /\ Bytes(Type(tile)) = 1 + SizeOf(ExtraFields(tile))
  BY DEF Bytes, Foreground, Flags, Type
<1>7. /\ Repeat(<<Over(5)>>, TileFields(tile)).op = "repeat"
      /\ Repeat(<<Over(5)>>, TileFields(tile)).fields = TileFields(tile)
      /\ Repeat(<<Read(4)>>, Object).op = "repeat"
      /\ Repeat(<<Read(4)>>, Object).fields = Object
  BY DEF Repeat
<1> QED BY <1>4, <1>5, <1>6, <1>7 DEF Bytes

\* TileSize() counts right.
LEMMA TakesTile ==
  ASSUME NEW tile \in Tile
  PROVE  /\ TileFields(tile) \in Seq(FieldsOf(tile))
         /\ Takes(TileFields(tile), TileSize(tile))
<1> DEFINE F == FieldsOf(tile)
           a == Foreground(tile)
           b == Read(2)
           c == Flags(tile)
<1>1. a \in F /\ b \in F /\ c \in F /\ b \in PlainFields BY DEF FieldsOf, PlainFields
<1>2. Bytes(a) = 2 /\ Bytes(c) = TileSize(tile) - 6 /\ Bytes(c) \in Nat BY OtherBytes, TileSizes
<1>3. Bytes(b) = 2 BY <1>1, PlainBytes DEF FieldSize, Read
<1>4. TileFields(tile) = <<a, b, b, c>> BY DEF TileFields
<1> HIDE DEF F, a, b, c
<1>5. <<c>> \in Seq(F) /\ <<b, c>> \in Seq(F) /\ <<b, b, c>> \in Seq(F) /\ <<a, b, b, c>> \in Seq(F)
  BY <1>1
<1>6. /\ Head(<<b, c>>) = b /\ Tail(<<b, c>>) = <<c>>
      /\ Head(<<b, b, c>>) = b /\ Tail(<<b, b, c>>) = <<b, c>>
      /\ Head(<<a, b, b, c>>) = a /\ Tail(<<a, b, b, c>>) = <<b, b, c>>
  OBVIOUS
<1>7. Takes(<<c>>, Bytes(c)) BY <1>2, TakesOne
<1>8. Takes(<<b, c>>, 2 + Bytes(c)) BY <1>1, <1>3, <1>5, <1>6, <1>7, TakesFront
<1>9. Takes(<<b, b, c>>, 2 + (2 + Bytes(c))) BY <1>1, <1>3, <1>5, <1>6, <1>8, TakesFront
<1>10. Takes(<<a, b, b, c>>, 2 + (2 + (2 + Bytes(c)))) BY <1>1, <1>2, <1>5, <1>6, <1>9, TakesFront
<1>11. 2 + (2 + (2 + Bytes(c))) = TileSize(tile) BY <1>2, TileSizes
<1> QED BY <1>4, <1>5, <1>10, <1>11 DEF F

\* MapSize() counts right.
LEMMA TakesMap ==
  ASSUME NEW tile \in Tile
  PROVE  /\ MapFields(tile) \in Seq(FieldsOf(tile)) /\ MapSize(tile) \in Nat
         /\ Takes(MapFields(tile), MapSize(tile))
<1> DEFINE F == FieldsOf(tile)
           a == Read(2)
           b == Over(4)
           c == Text
           d == Read(4)
           e == Repeat(<<Over(5)>>, TileFields(tile))
           f == Over(12)
           g == Repeat(<<Read(4)>>, Object)
<1>1. a \in F /\ b \in F /\ c \in F /\ d \in F /\ e \in F /\ f \in F /\ g \in F
      /\ a \in PlainFields /\ b \in PlainFields /\ c \in PlainFields /\ d \in PlainFields
      /\ f \in PlainFields
  BY DEF FieldsOf, PlainFields
<1>2. Bytes(e) = 9 + TileSize(tile) /\ Bytes(g) = 8 + SizeOf(Object)
      /\ TileSize(tile) \in Nat /\ SizeOf(Object) \in Nat
  BY OtherBytes, TileSizes
<1>3. FieldSize(a) = 2 /\ FieldSize(b) = 4 /\ FieldSize(c) = 2 + Length /\ FieldSize(d) = 4
      /\ FieldSize(f) = 12
  BY DEF FieldSize, Read, Over, Text
<1>4. Bytes(a) = 2 /\ Bytes(b) = 4 /\ Bytes(c) = 2 + Length /\ Bytes(d) = 4 /\ Bytes(f) = 12
  BY <1>1, <1>3, PlainBytes
<1>5. Length \in Nat BY MapAssumption DEF MapAssumption
<1>6. MapFields(tile) = <<a, b, c, d, d, e, f, g>> BY DEF MapFields
<1>7. MapSize(tile) = 4 + 2 + (2 + Length) + 8 + 4 + 5 + TileSize(tile) + 12 + 4 + 4 + SizeOf(Object)
  BY DEF MapSize
<1> HIDE DEF F, a, b, c, d, e, f, g
<1>8. /\ Head(<<f, g>>) = f /\ Tail(<<f, g>>) = <<g>>
      /\ Head(<<e, f, g>>) = e /\ Tail(<<e, f, g>>) = <<f, g>>
      /\ Head(<<d, e, f, g>>) = d /\ Tail(<<d, e, f, g>>) = <<e, f, g>>
      /\ Head(<<d, d, e, f, g>>) = d /\ Tail(<<d, d, e, f, g>>) = <<d, e, f, g>>
      /\ Head(<<c, d, d, e, f, g>>) = c /\ Tail(<<c, d, d, e, f, g>>) = <<d, d, e, f, g>>
      /\ Head(<<b, c, d, d, e, f, g>>) = b /\ Tail(<<b, c, d, d, e, f, g>>) = <<c, d, d, e, f, g>>
      /\ Head(<<a, b, c, d, d, e, f, g>>) = a /\ Tail(<<a, b, c, d, d, e, f, g>>) = <<b, c, d, d, e, f, g>>
  OBVIOUS
<1>9. /\ <<g>> \in Seq(F) /\ <<f, g>> \in Seq(F) /\ <<e, f, g>> \in Seq(F)
      /\ <<d, e, f, g>> \in Seq(F) /\ <<d, d, e, f, g>> \in Seq(F)
      /\ <<c, d, d, e, f, g>> \in Seq(F) /\ <<b, c, d, d, e, f, g>> \in Seq(F)
      /\ <<a, b, c, d, d, e, f, g>> \in Seq(F)
  BY <1>1
<1> DEFINE n == 12 + Bytes(g)
           m == 4 + (4 + (Bytes(e) + n))
<1>10. Takes(<<g>>, Bytes(g)) BY <1>2, TakesOne
<1>11. Takes(<<f, g>>, n) BY <1>1, <1>4, <1>8, <1>9, <1>10, TakesFront
<1>12. Takes(<<e, f, g>>, Bytes(e) + n)
  <2>1. Bytes(e) \in Nat BY <1>2
  <2> QED BY <1>1, <1>8, <1>9, <1>11, <2>1, TakesFront
<1>13. Takes(<<d, e, f, g>>, 4 + (Bytes(e) + n)) BY <1>1, <1>4, <1>8, <1>9, <1>12, TakesFront
<1>14. Takes(<<d, d, e, f, g>>, m) BY <1>1, <1>4, <1>8, <1>9, <1>13, TakesFront
<1>15. Takes(<<c, d, d, e, f, g>>, (2 + Length) + m)
  <2>1. 2 + Length \in Nat BY <1>5
  <2> QED BY <1>1, <1>4, <1>8, <1>9, <1>14, <2>1, TakesFront
<1>16. Takes(<<b, c, d, d, e, f, g>>, 4 + ((2 + Length) + m))
  BY <1>1, <1>4, <1>8, <1>9, <1>15, TakesFront
<1>17. Takes(<<a, b, c, d, d, e, f, g>>, 2 + (4 + ((2 + Length) + m)))
  BY <1>1, <1>4, <1>8, <1>9, <1>16, TakesFront
<1>18. 2 + (4 + ((2 + Length) + m)) = MapSize(tile) /\ MapSize(tile) \in Nat
  BY <1>2, <1>5, <1>7
<1> QED BY <1>6, <1>9, <1>17, <1>18 DEF F
-----------------------------------------------------------------------------

(* The stream *)

StreamType ==
    [size : Nat, offset : Nat, failed : BOOLEAN, overshot : BOOLEAN, overread : BOOLEAN]

\* A stream that never passed its end stands before it; bytes behind the end are
\* read only by a stream that passed it.
Sound(s) ==
    /\ s \in StreamType /\ s.size < SizeMax
    /\ ~s.overshot => s.offset <= s.size
    /\ s.overread => s.overshot

\* Of a number that fits into a size_t nothing wraps.
LEMMA Remainder ==
  ASSUME NEW n \in Int, NEW m \in Nat, 0 < m
  PROVE  n % m \in Nat /\ (0 <= n /\ n < m => n % m = n)
OBVIOUS

\* skip(): the stream passes its end if there are not so many bytes left.
LEMMA MovedSound ==
  ASSUME NEW s, Sound(s), NEW n \in Nat
  PROVE  /\ Sound(Moved(s, n)) /\ Moved(s, n).size = s.size
         /\ Moved(s, n).failed = s.failed /\ Moved(s, n).overread = s.overread
         /\ s.offset + n <= s.size =>
              Moved(s, n).offset = s.offset + n /\ Moved(s, n).overshot = s.overshot
<1> DEFINE t == Moved(s, n)
<1>1. SizeMax \in Nat BY SizeAssumption DEF SizeAssumption
<1>2. s \in StreamType /\ s.size \in Nat /\ s.offset \in Nat /\ s.size < SizeMax
  BY DEF Sound, StreamType
<1>3. (s.offset + n) % SizeMax \in Nat
      /\ (s.offset + n <= s.size => (s.offset + n) % SizeMax = s.offset + n)
  BY <1>1, <1>2, Remainder
<1>4. /\ t.size = s.size /\ t.offset = (s.offset + n) % SizeMax /\ t.failed = s.failed
      /\ t.overshot = (s.overshot \/ s.offset + n > s.size) /\ t.overread = s.overread
  BY <1>2 DEF Moved, StreamType
<1>5. t \in StreamType
  <2>1. t \in [size : Nat, offset : {(s.offset + n) % SizeMax}, failed : BOOLEAN,
               overshot : {(s.overshot \/ s.offset + n > s.size)}, overread : BOOLEAN]
    BY <1>2 DEF Moved, StreamType
  <2>2. (s.overshot \/ s.offset + n > s.size) \in BOOLEAN OBVIOUS
  <2> HIDE DEF t
  <2> QED BY <1>3, <2>1, <2>2 DEF StreamType
<1>6. ASSUME ~t.overshot PROVE s.offset + n <= s.size /\ ~s.overshot
  <2>1. ~(s.overshot \/ s.offset + n > s.size) BY <1>4, <1>6, Zenon
  <2> QED BY <1>2, <2>1
<1>7. t.overread => t.overshot BY <1>4 DEF Sound
<1> HIDE DEF t
<1>8. Sound(t) BY <1>2, <1>3, <1>4, <1>5, <1>6, <1>7 DEF Sound
<1>9. s.offset + n <= s.size => t.overshot = s.overshot
  <2>1. s.overshot \in BOOLEAN BY <1>2 DEF StreamType
  <2> QED BY <1>2, <1>4, <2>1
<1> QED BY <1>3, <1>4, <1>8, <1>9 DEF t

\* read(): it never passes the end, and succeeds where the bytes are there.
LEMMA ReadSound ==
  ASSUME NEW s, Sound(s), NEW n \in Nat
  PROVE  /\ Sound(ReadData(s, n)) /\ ReadData(s, n).size = s.size
         /\ ReadData(s, n).overshot = s.overshot
         /\ ~s.overshot /\ s.offset + n <= s.size =>
              Fits(s, n) /\ ReadData(s, n).offset = s.offset + n
<1>1. SizeMax \in Nat BY SizeAssumption DEF SizeAssumption
<1>2. s \in StreamType /\ s.size \in Nat /\ s.offset \in Nat /\ s.size < SizeMax
      /\ s.overshot \in BOOLEAN /\ s.overread \in BOOLEAN
  BY DEF Sound, StreamType
<1>3. ~s.overshot => s.offset <= s.size /\ (s.size - s.offset) % SizeMax = s.size - s.offset
  BY <1>1, <1>2, Remainder DEF Sound
<1>4. ~s.overshot => (Fits(s, n) <=> s.offset + n <= s.size) BY <1>2, <1>3 DEF Fits
<1>5. CASE Fits(s, n)
  <2> DEFINE t == Moved(s, n)
             o == s.overread \/ (n > 0 /\ s.offset + n > s.size)
             u == [t EXCEPT !.overread = t.overread \/ (n > 0 /\ s.offset + n > s.size),
                            !.overshot = s.overshot]
  <2>1. ReadData(s, n) = u BY <1>5 DEF ReadData
  <2>2. Sound(t) /\ t \in StreamType /\ t.size = s.size /\ t.overread = s.overread
        /\ (s.offset + n <= s.size => t.offset = s.offset + n)
    BY MovedSound DEF Sound
  <2> HIDE DEF t
  <2>3. u.size = t.size /\ u.offset = t.offset /\ u.overread = o /\ u.overshot = s.overshot
        /\ u \in StreamType
    <3>1. u \in [size : Nat, offset : Nat, failed : BOOLEAN, overshot : {s.overshot}, overread : {o}]
      BY <2>2 DEF StreamType
    <3>2. o \in BOOLEAN OBVIOUS
    <3> QED BY <1>2, <2>2, <3>1, <3>2 DEF StreamType
  <2>4. ~s.overshot => s.offset + n <= s.size BY <1>4, <1>5
  <2> HIDE DEF u
  <2>5. u.overread => u.overshot BY <1>2, <2>3, <2>4 DEF Sound
  <2>6. ~u.overshot => u.offset <= u.size BY <1>2, <2>2, <2>3, <2>4
  <2>7. Sound(u) BY <1>2, <2>2, <2>3, <2>5, <2>6 DEF Sound
  <2> QED BY <1>5, <2>1, <2>2, <2>3, <2>7
<1>6. CASE ~Fits(s, n)
  <2> DEFINE u == [s EXCEPT !.failed = TRUE]
  <2>1. ReadData(s, n) = u BY <1>6 DEF ReadData
  <2>2. u \in StreamType /\ u.size = s.size /\ u.offset = s.offset /\ u.overshot = s.overshot
        /\ u.overread = s.overread
    BY <1>2 DEF StreamType
  <2> HIDE DEF u
  <2>3. Sound(u) BY <2>2 DEF Sound
  <2> QED BY <1>4, <1>6, <2>1, <2>2, <2>3
<1> QED BY <1>5, <1>6

\* read() of a text: two reads.
LEMMA TextSound ==
  ASSUME NEW s, Sound(s), NEW n \in Nat
  PROVE  /\ Sound(ReadText(s, n)) /\ ReadText(s, n).size = s.size
         /\ ReadText(s, n).overshot = s.overshot
         /\ ~s.overshot /\ s.offset + (2 + n) <= s.size => ReadText(s, n).offset = s.offset + (2 + n)
<1>1. s.size \in Nat /\ s.offset \in Nat /\ s \in StreamType BY DEF Sound, StreamType
<1>2. CASE Fits(s, 2)
  <2> DEFINE t == ReadData(s, 2)
  <2>1. ReadText(s, n) = ReadData(t, n) BY <1>2 DEF ReadText
  <2>2. Sound(t) /\ t.size = s.size /\ t.overshot = s.overshot
        /\ (~s.overshot /\ s.offset + 2 <= s.size => t.offset = s.offset + 2)
    BY ReadSound
  <2> HIDE DEF t
  <2>3. Sound(ReadData(t, n)) /\ ReadData(t, n).size = t.size /\ ReadData(t, n).overshot = t.overshot
        /\ (~t.overshot /\ t.offset + n <= t.size => ReadData(t, n).offset = t.offset + n)
    BY <2>2, ReadSound
  <2> QED BY <1>1, <2>1, <2>2, <2>3
<1>3. CASE ~Fits(s, 2)
  <2> DEFINE u == [s EXCEPT !.failed = TRUE]
  <2>1. ReadText(s, n) = u BY <1>3 DEF ReadText
  <2>2. u \in StreamType /\ u.size = s.size /\ u.offset = s.offset /\ u.overshot = s.overshot
        /\ u.overread = s.overread
    BY <1>1 DEF StreamType
  <2> HIDE DEF u
  <2>3. Sound(u) BY <2>2 DEF Sound
  <2>4. ~(~s.overshot /\ s.offset + 2 <= s.size) BY <1>3, ReadSound
  <2>5. s.offset + (2 + n) <= s.size => s.offset + 2 <= s.size BY <1>1
  <2> QED BY <2>1, <2>2, <2>3, <2>4, <2>5
<1> QED BY <1>2, <1>3

-----------------------------------------------------------------------------
(* The items *)

\* What is loaded is a whole build, and the announced one after a match.
CacheInv ==
    /\ phase \in {"down", "up", "on", "parsing", "crashed"}
    /\ file \in Contents \cup {Missing}
    /\ db \in {Whole(b) : b \in Builds} \cup {Missing}
    /\ announced \in Builds \cup {0}
    /\ phase \in {"on", "parsing"} =>
          announced \in Builds /\ (matched => db = Whole(announced))

\* The bytes of the items never have the length they should have: what is read
\* is appended to as many zeros.
LEMMA NeverReads ==
  ASSUME NEW b \in Builds \cup {0}
  PROVE  ~Reads(b)
<1>1. b \in Nat BY BuildAssumption DEF BuildAssumption
<1> QED BY <1>1 DEF Reads, DecompressedSize

\* The parse changes nothing of the cache but the phase.
LEMMA ParseKeepsCache ==
  ASSUME CacheInv, phase = "parsing", UNCHANGED <<file, db, announced, matched>>,
         phase' \in {"parsing", "on", "crashed"}
  PROVE  CacheInv'
BY DEF CacheInv

\* Every step keeps what is said of the items.
LEMMA CacheKept ==
  ASSUME CacheInv, [Next]_vars
  PROVE  CacheInv'
<1>1. ASSUME NEW c \in Contents \cup {Missing}, Install(c) PROVE CacheInv'
  BY <1>1 DEF Install, Running, CacheInv
<1>2. CASE Start BY <1>2 DEF Start, Launch, CacheInv
<1>3. ASSUME NEW b \in Builds, Logon(b) PROVE CacheInv'
  <2>1. Hash(file) = file /\ Hash(Whole(b)) = Whole(b) /\ Parse(file) = file BY DEF Hash, Parse
  <2>2. db' = IF file = Whole(b) THEN Whole(b) ELSE db BY <1>3, <2>1 DEF Logon, Loads
  <2> QED BY <1>3, <2>2 DEF Logon, CacheInv
<1>4. CASE SendItemDatabaseData
  <2>1. ~Reads(announced) BY NeverReads DEF CacheInv
  <2> QED BY <1>4, <2>1 DEF SendItemDatabaseData, CacheInv
<1>5. CASE Logoff \/ Quit BY <1>5 DEF Logoff, Quit, CacheInv
<1>6. CASE Clear \/ UNCHANGED vars BY <1>6 DEF Clear, vars, cache, CacheInv
<1>7. ASSUME NEW tile \in Tiles, NEW cut \in Cuts, SendMapData(tile, cut) PROVE CacheInv'
  BY <1>7 DEF SendMapData, Cache, CacheInv
<1>8. CASE Plain \/ ReadList \/ ReadSkipList \/ ReadRepeat \/ ReadForeground \/ ReadExtra
  <2>1. UNCHANGED <<phase, file, db, announced, game_has, matched>>
    BY <1>8 DEF Plain, ReadList, ReadSkipList, ReadRepeat, ReadForeground, ReadExtra, cache
  <2> QED BY <2>1 DEF CacheInv
<1>9. CASE ReadFlags BY <1>9, ParseKeepsCache DEF ReadFlags, Field, Cache
<1>10. CASE Parsed BY <1>10, ParseKeepsCache DEF Parsed, Cache
<1> QED BY <1>1, <1>2, <1>3, <1>4, <1>5, <1>6, <1>7, <1>8, <1>9, <1>10 DEF Next, CacheNext

LEMMA CacheAlways == Spec => []CacheInv
<1>1. Init => CacheInv
  BY BuildAssumption DEF BuildAssumption, Init, CacheInit, CacheInv
<1> QED BY <1>1, CacheKept, PTL DEF Spec

\* Whatever files come and go, whatever builds the servers announce in whatever
\* order: the items in memory are a whole build, and after a match the server's.
THEOREM LoadedAsAnnounced == Spec => []ItemsAreAnnounced
<1>1. CacheInv => ItemsAreAnnounced
  BY DEF CacheInv, ItemsAreAnnounced, Whole, Missing
<1> QED BY <1>1, CacheAlways, PTL
-----------------------------------------------------------------------------
(* The parse *)

\* Flags are read after the foreground that decides about the extra data.
ForegroundFirst(s) ==
    \A i \in 1..Len(s) : s[i].op = "flags" => \E j \in 1..(i - 1) : s[j].op = "foreground"

\* The map being parsed has this tile; when it is whole, the fields ahead take
\* exactly the bytes that are left, and the foreground in the tile is its own.
Parsing(tile) ==
    /\ tile.foreground < announced
    /\ todo \in Seq(FieldsOf(tile))
    /\ Sound(stream)
    /\ whole => /\ ~stream.overshot
                /\ \E m : Takes(todo, m) /\ stream.offset + m = stream.size
                /\ foreground = tile.foreground \/ ForegroundFirst(todo)

\* Another field than the foreground may go.
LEMMA FirstTail ==
  ASSUME NEW T, NEW s \in Seq(T), s # <<>>, ForegroundFirst(s), Head(s).op # "foreground"
  PROVE  ForegroundFirst(Tail(s))
<1> DEFINE t == Tail(s)
<1>1. Len(s) \in Nat /\ Len(t) = Len(s) - 1 /\ Head(s) = s[1] /\ \A i \in 1..Len(t) : t[i] = s[i + 1]
  OBVIOUS
<1> HIDE DEF t
<1> SUFFICES ASSUME NEW i \in 1..Len(t), t[i].op = "flags"
             PROVE  \E j \in 1..(i - 1) : t[j].op = "foreground"
  BY DEF ForegroundFirst, t
<1>2. i + 1 \in 1..Len(s) /\ s[i + 1].op = "flags" BY <1>1
<1>3. PICK j \in 1..((i + 1) - 1) : s[j].op = "foreground" BY <1>2 DEF ForegroundFirst
<1>4. j # 1 BY <1>1, <1>3
<1>5. j - 1 \in 1..(i - 1) /\ j - 1 \in 1..Len(t) /\ (j - 1) + 1 = j BY <1>1, <1>4
<1> QED BY <1>1, <1>3, <1>5

\* Of two sequences in which this holds, one may come after the other.
LEMMA FirstBoth ==
  ASSUME NEW T, NEW p \in Seq(T), NEW s \in Seq(T), ForegroundFirst(p), ForegroundFirst(s)
  PROVE  ForegroundFirst(p \o s)
<1> DEFINE t == p \o s
<1>1. Len(p) \in Nat /\ Len(s) \in Nat /\ Len(t) = Len(p) + Len(s) OBVIOUS
<1>2. /\ \A i \in 1..Len(p) : t[i] = p[i]
      /\ \A i \in 1..Len(s) : t[Len(p) + i] = s[i]
  OBVIOUS
<1> HIDE DEF t
<1> SUFFICES ASSUME NEW i \in 1..Len(t), t[i].op = "flags"
             PROVE  \E j \in 1..(i - 1) : t[j].op = "foreground"
  BY DEF ForegroundFirst, t
<1>3. CASE i <= Len(p)
  <2>1. i \in 1..Len(p) /\ p[i].op = "flags" BY <1>1, <1>2, <1>3
  <2>2. PICK j \in 1..(i - 1) : p[j].op = "foreground" BY <2>1 DEF ForegroundFirst
  <2>3. j \in 1..Len(p) BY <1>1, <2>1
  <2> QED BY <1>2, <2>2, <2>3
<1>4. CASE i > Len(p)
  <2> DEFINE k == i - Len(p)
  <2>1. k \in 1..Len(s) /\ Len(p) + k = i BY <1>1, <1>4
  <2>2. s[k].op = "flags" BY <1>2, <2>1
  <2>3. PICK j \in 1..(k - 1) : s[j].op = "foreground" BY <2>1, <2>2 DEF ForegroundFirst
  <2>4. j \in 1..Len(s) /\ Len(p) + j \in 1..(i - 1) BY <1>1, <2>1
  <2> QED BY <1>2, <2>3, <2>4
<1> QED BY <1>1, <1>3, <1>4

\* The next field of a whole map is there to be read.
LEMMA HeadFits ==
  ASSUME NEW tile \in Tiles, Parsing(tile), todo # <<>>, whole
  PROVE  Bytes(Head(todo)) \in Nat /\ stream.offset + Bytes(Head(todo)) <= stream.size
         /\ ~stream.overshot
<1>1. PICK m : Takes(todo, m) /\ stream.offset + m = stream.size BY DEF Parsing
<1>2. PICK k \in Nat : Bytes(Head(todo)) \in Nat /\ m = Bytes(Head(todo)) + k
  BY <1>1, TakesTail DEF Parsing
<1>3. stream.offset \in Nat BY DEF Parsing, Sound, StreamType
<1> QED BY <1>1, <1>2, <1>3 DEF Parsing

\* A step that reads a field and puts those it leads to in its place.
LEMMA Pushed ==
  ASSUME NEW tile \in Tiles, Parsing(tile), todo # <<>>, NEW p \in Seq(FieldsOf(tile)),
         todo' = p \o Tail(todo), UNCHANGED <<announced, whole>>, Sound(stream'),
         ForegroundFirst(p),
         \/ foreground' = foreground /\ Head(todo).op # "foreground"
         \/ foreground' = tile.foreground,
         whole => /\ ~stream'.overshot /\ stream'.size = stream.size
                  /\ \E n \in Nat :
                        Takes(p, n) /\ stream'.offset + n = stream.offset + Bytes(Head(todo))
  PROVE  Parsing(tile)'
<1> DEFINE F == FieldsOf(tile)
<1>1. todo \in Seq(F) /\ Tail(todo) \in Seq(F) /\ todo' \in Seq(F)
  <2>1. todo \in Seq(F) BY DEF Parsing
  <2> HIDE DEF F
  <2>2. Tail(todo) \in Seq(F) BY <2>1
  <2>3. p \in Seq(F) BY DEF F
  <2> QED BY <2>1, <2>2, <2>3
<1>2. ASSUME whole PROVE \E m : Takes(todo', m) /\ stream'.offset + m = stream'.size
  <2>1. PICK m : Takes(todo, m) /\ stream.offset + m = stream.size BY <1>2 DEF Parsing
  <2>2. PICK k \in Nat : Bytes(Head(todo)) \in Nat /\ m = Bytes(Head(todo)) + k /\ Takes(Tail(todo), k)
    BY <1>1, <2>1, TakesTail
  <2>3. PICK n \in Nat : Takes(p, n) /\ stream'.offset + n = stream.offset + Bytes(Head(todo)) BY <1>2
  <2>4. Takes(todo', n + k) BY <1>1, <2>2, <2>3, TakesBoth
  <2>5. stream.offset \in Nat /\ stream'.offset \in Nat BY DEF Parsing, Sound, StreamType
  <2>6. stream'.size = stream.size BY <1>2
  <2>7. stream'.offset + (n + k) = (stream'.offset + n) + k BY <2>2, <2>3, <2>5
  <2>8. stream'.offset + (n + k) = stream'.size BY <2>1, <2>2, <2>3, <2>5, <2>6, <2>7
  <2> QED BY <2>4, <2>8
<1>3. ASSUME whole PROVE foreground' = tile.foreground \/ ForegroundFirst(todo')
  <2>1. foreground = tile.foreground \/ ForegroundFirst(todo) BY <1>3 DEF Parsing
  <2> SUFFICES ASSUME Head(todo).op # "foreground", ForegroundFirst(todo)
               PROVE  ForegroundFirst(todo')
    BY <2>1
  <2>2. ForegroundFirst(Tail(todo)) BY <1>1, FirstTail
  <2> HIDE DEF F
  <2>3. p \in Seq(F) BY DEF F
  <2> QED BY <1>1, <2>2, <2>3, FirstBoth
<1>4. tile.foreground < announced' BY DEF Parsing
<1> QED BY <1>1, <1>2, <1>3, <1>4 DEF Parsing

\* The fields, by what tells them apart.
LEMMA FieldForm ==
  ASSUME NEW tile \in Tile, NEW f \in FieldsOf(tile)
  PROVE  /\ f.op \in {"read", "skip"} => f.n \in Nat /\ Bytes(f) = f.n
         /\ f.op \in {"list", "rawlist", "skiplist"} => f.n \in Nat /\ Bytes(f) = 4 + Count * f.n
         /\ f.op = "text" => Bytes(f) = 2 + Length
         /\ f.op = "foreground" => f = Foreground(tile)
         /\ f.op = "flags" => f = Flags(tile)
         /\ f.op = "type" => f = Type(tile)
         /\ f.op = "repeat" => f \in {Repeat(<<Over(5)>>, TileFields(tile)), Repeat(<<Read(4)>>, Object)}
<1>1. CASE f \in PlainFields
  <2>1. Bytes(f) = FieldSize(f) BY <1>1, PlainBytes
  <2>2. ASSUME NEW n \in Nat, f = Read(n) \/ f = Over(n)
        PROVE  f.op \in {"read", "skip"} /\ f.n = n /\ FieldSize(f) = n
    BY <2>2 DEF Read, Over, FieldSize
  <2>3. ASSUME NEW n \in Nat, f = List(n) \/ f = RawList(n) \/ f = SkipList(n)
        PROVE  f.op \in {"list", "rawlist", "skiplist"} /\ f.n = n /\ FieldSize(f) = 4 + Count * n
    BY <2>3 DEF List, RawList, SkipList, FieldSize
  <2>4. ASSUME f = Text PROVE f.op = "text" /\ FieldSize(f) = 2 + Length
    BY <2>4 DEF Text, FieldSize
  <2> QED BY <1>1, <2>1, <2>2, <2>3, <2>4 DEF PlainFields
<1>2. CASE f \in {Foreground(tile), Flags(tile), Type(tile)}
  BY <1>2 DEF Foreground, Flags, Type
<1>3. CASE f \in {Repeat(<<Over(5)>>, TileFields(tile)), Repeat(<<Read(4)>>, Object)}
  <2>1. f.op = "repeat" BY <1>3 DEF Repeat
  <2> QED BY <1>3, <2>1
<1> QED BY <1>1, <1>2, <1>3 DEF FieldsOf

\* The parse; what is known of bytes behind the end; what is known of a crash.
ParseInv ==
    /\ phase = "parsing" => \E tile \in Tiles : Parsing(tile)
    /\ stream.overread => stream.overshot /\ ~whole
    /\ phase = "crashed" => ~matched \/ (~whole /\ foreground >= announced)

\* Where there are no flags.
LEMMA PlainFirst ==
  ASSUME NEW s \in Seq(PlainFields)
  PROVE  ForegroundFirst(s)
<1>1. \A f \in PlainFields : f.op # "flags"
  BY DEF PlainFields, Read, Over, List, RawList, SkipList, Text
<1>2. \A i \in 1..Len(s) : s[i] \in PlainFields OBVIOUS
<1> QED BY <1>1, <1>2 DEF ForegroundFirst

\* One value, one text, or some bytes that are skipped.
LEMMA PlainStep ==
  ASSUME NEW tile \in Tiles, Parsing(tile), Plain
  PROVE  Parsing(tile)'
<1> DEFINE f == Head(todo)
<1>1. tile \in Tile /\ Length \in Nat BY MapAssumption DEF MapAssumption
<1>2. todo # <<>> /\ todo' = Tail(todo) /\ UNCHANGED <<announced, whole, foreground>>
  BY DEF Plain, Field, cache
<1>3. todo \in Seq(FieldsOf(tile)) /\ f \in FieldsOf(tile) /\ Sound(stream) BY <1>2 DEF Parsing
<1>4. Tail(todo) = <<>> \o Tail(todo) /\ <<>> \in Seq(FieldsOf(tile)) BY <1>2, <1>3
<1>5. f.op # "foreground" BY DEF Plain, Field
<1>6. stream.size \in Nat /\ stream.offset \in Nat BY <1>3 DEF Sound, StreamType
<1>7. /\ Sound(stream')
      /\ whole => ~stream'.overshot /\ stream'.size = stream.size
                  /\ stream'.offset = stream.offset + Bytes(f)
  <2>1. CASE f.op = "read" /\ stream' = ReadData(stream, f.n)
    <3>1. f.n \in Nat /\ Bytes(f) = f.n BY <1>1, <1>3, <2>1, FieldForm
    <3> QED BY <1>2, <1>3, <2>1, <3>1, ReadSound, HeadFits
  <2>2. CASE f.op = "text" /\ stream' = ReadText(stream, Length)
    <3>1. Bytes(f) = 2 + Length BY <1>1, <1>3, <2>2, FieldForm
    <3> QED BY <1>1, <1>2, <1>3, <2>2, <3>1, TextSound, HeadFits
  <2>3. CASE f.op = "skip" /\ stream' = Skip(stream, f.n)
    <3>1. f.n \in Nat /\ Bytes(f) = f.n BY <1>1, <1>3, <2>3, FieldForm
    <3>2. whole => ~stream.overshot /\ stream.offset + f.n <= stream.size
      BY <1>2, <3>1, HeadFits
    <3>3. /\ Sound(stream') /\ stream'.size = stream.size
          /\ stream.offset + f.n <= stream.size =>
                stream'.offset = stream.offset + f.n /\ stream'.overshot = stream.overshot
      BY <1>3, <2>3, <3>1, MovedSound DEF Skip
    <3> QED BY <3>1, <3>2, <3>3
  <2> QED BY <2>1, <2>2, <2>3 DEF Plain, Field
<1>8. ForegroundFirst(<<>>)
  <2>1. <<>> \in Seq(PlainFields) OBVIOUS
  <2> QED BY <2>1, PlainFirst
<1>9. whole => stream'.offset + 0 = stream.offset + Bytes(f)
  <2>1. stream'.offset \in Nat BY <1>7 DEF Sound, StreamType
  <2> QED BY <1>7, <2>1
<1> HIDE DEF f
<1> QED BY <1>2, <1>3, <1>4, <1>5, <1>7, <1>8, <1>9, TakesNothing, Pushed DEF f

\* A count that could be read, or that the memory holds, has its elements read;
\* in a whole map it can be read.
LEMMA ListStep ==
  ASSUME NEW tile \in Tiles, Parsing(tile), ReadList
  PROVE  Parsing(tile)'
<1> DEFINE f == Head(todo)
           Elements(count) == [i \in 1..count |-> Read(f.n)]
<1>1. tile \in Tile /\ Count \in Nat /\ Garbage \subseteq Nat BY MapAssumption DEF MapAssumption
<1>2. todo # <<>> /\ UNCHANGED <<announced, whole, foreground>>
      /\ stream' = ReadData(stream, 4) /\ f.op \in {"list", "rawlist"}
  BY DEF ReadList, Field, cache
<1>3. f \in FieldsOf(tile) /\ Sound(stream) BY <1>2 DEF Parsing
<1>4. f.n \in Nat /\ Bytes(f) = 4 + Count * f.n BY <1>1, <1>2, <1>3, FieldForm
<1>5. PICK count \in CountRead(IF Field("list") THEN {0} ELSE Garbage) :
           todo' = Elements(count) \o Tail(todo)
  BY DEF ReadList
<1>6. count \in Nat /\ (Succeeds(4) => count = Count) BY <1>1, <1>5 DEF CountRead
<1> DEFINE p == Elements(count)
<1>a. Read(f.n) \in PlainFields BY <1>4 DEF PlainFields
<1>b. p \in Seq(PlainFields) BY <1>6, <1>a
<1>c. todo' = p \o Tail(todo) BY <1>5
<1>7. p \in Seq(FieldsOf(tile)) /\ ForegroundFirst(p)
  <2> HIDE DEF p
  <2>1. PlainFields \subseteq FieldsOf(tile) BY DEF FieldsOf
  <2> QED BY <1>b, <2>1, PlainFirst
<1>8. Sound(stream') BY <1>2, <1>3, ReadSound
<1>9. ASSUME whole
      PROVE  /\ ~stream'.overshot /\ stream'.size = stream.size
             /\ \E n \in Nat : Takes(p, n) /\ stream'.offset + n = stream.offset + Bytes(f)
  <2>1. stream.offset \in Nat /\ stream.size \in Nat BY <1>3 DEF Sound, StreamType
  <2>2. Count * f.n \in Nat BY <1>1, <1>4
  <2>3. stream.offset + Bytes(f) <= stream.size /\ ~stream.overshot BY <1>2, <1>9, HeadFits
  <2>4. stream.offset + 4 <= stream.size BY <1>4, <2>1, <2>2, <2>3
  <2> DEFINE s == ReadData(stream, 4)
  <2>5. Fits(stream, 4) /\ stream'.offset = stream.offset + 4 /\ ~stream'.overshot
        /\ stream'.size = stream.size
    <3>1. s.size = stream.size /\ s.overshot = stream.overshot
          /\ Fits(stream, 4) /\ s.offset = stream.offset + 4
      BY <1>3, <2>3, <2>4, ReadSound
    <3> HIDE DEF s
    <3>2. stream' = s BY <1>2 DEF s
    <3> QED BY <2>3, <3>1, <3>2
  <2>6. count = Count BY <1>6, <2>5 DEF Succeeds
  <2>x. Takes(p, Count * f.n) BY <1>1, <1>4, <2>6, TakesAll
  <2>7. stream'.offset + Count * f.n = stream.offset + Bytes(f) BY <1>4, <2>1, <2>2, <2>5
  <2> QED BY <2>2, <2>5, <2>x, <2>7
<1> HIDE DEF p
<1> QED BY <1>2, <1>c, <1>7, <1>8, <1>9, Pushed

\* A count that could not be read is whatever the memory holds; in a whole map
\* it can be read.
LEMMA SkipListStep ==
  ASSUME NEW tile \in Tiles, Parsing(tile), ReadSkipList
  PROVE  Parsing(tile)'
<1> DEFINE f == Head(todo)
           s == ReadData(stream, 4)
<1>1. tile \in Tile /\ Count \in Nat /\ Garbage \subseteq Nat BY MapAssumption DEF MapAssumption
<1>2. todo # <<>> /\ todo' = Tail(todo) /\ UNCHANGED <<announced, whole, foreground>> /\ f.op = "skiplist"
  BY DEF ReadSkipList, Field, cache
<1>3. todo \in Seq(FieldsOf(tile)) /\ f \in FieldsOf(tile) /\ Sound(stream) BY <1>2 DEF Parsing
<1>4. f.n \in Nat /\ Bytes(f) = 4 + Count * f.n BY <1>1, <1>2, <1>3, FieldForm
<1>5. PICK count \in CountRead(Garbage) : stream' = Skip(s, count * f.n)
  BY DEF ReadSkipList
<1>6. count \in Nat /\ count * f.n \in Nat
  <2>1. count \in Nat BY <1>1, <1>5 DEF CountRead
  <2> QED BY <1>4, <2>1
<1>7. /\ Sound(s) /\ s.size = stream.size /\ s.overshot = stream.overshot
      /\ ~stream.overshot /\ stream.offset + 4 <= stream.size =>
              Fits(stream, 4) /\ s.offset = stream.offset + 4
  BY <1>3, ReadSound
<1> HIDE DEF s
<1>8. /\ Sound(stream') /\ stream'.size = s.size
      /\ s.offset + count * f.n <= s.size =>
            stream'.offset = s.offset + count * f.n /\ stream'.overshot = s.overshot
  BY <1>5, <1>6, <1>7, MovedSound DEF Skip
<1>9. ASSUME whole
      PROVE  /\ ~stream'.overshot /\ stream'.size = stream.size
             /\ stream'.offset + 0 = stream.offset + Bytes(f)
  <2>1. stream.offset \in Nat /\ stream.size \in Nat BY <1>3 DEF Sound, StreamType
  <2>2. Count * f.n \in Nat BY <1>1, <1>4
  <2>3. stream.offset + Bytes(f) <= stream.size /\ ~stream.overshot BY <1>2, <1>9, HeadFits
  <2>4. stream.offset + 4 <= stream.size BY <1>4, <2>1, <2>2, <2>3
  <2>5. Fits(stream, 4) /\ s.offset = stream.offset + 4 BY <1>7, <2>3, <2>4
  <2>6. count = Count BY <1>5, <2>5 DEF CountRead, Succeeds
  <2>7. s.offset + count * f.n = stream.offset + Bytes(f) BY <1>4, <2>1, <2>2, <2>5, <2>6
  <2>8. stream'.offset = stream.offset + Bytes(f) /\ stream'.overshot = s.overshot
    BY <1>7, <1>8, <2>3, <2>7
  <2>9. stream'.offset \in Nat BY <1>8 DEF Sound, StreamType
  <2> QED BY <1>7, <1>8, <2>3, <2>8, <2>9
<1>10. Tail(todo) = <<>> \o Tail(todo) /\ <<>> \in Seq(FieldsOf(tile)) BY <1>2, <1>3
<1>11. ForegroundFirst(<<>>)
  <2>1. Len(<<>>) = 0 OBVIOUS
  <2> QED BY <2>1 DEF ForegroundFirst
<1> QED BY <1>2, <1>8, <1>9, <1>10, <1>11, TakesNothing, Pushed

\* The tiles, or the objects.
LEMMA RepeatStep ==
  ASSUME NEW tile \in Tiles, Parsing(tile), ReadRepeat
  PROVE  Parsing(tile)'
<1> DEFINE F == FieldsOf(tile)
           f == Head(todo)
           fields == IF Succeeds(4) THEN f.fields ELSE <<>>
           p == f.between \o fields
<1>1. tile \in Tile BY MapAssumption DEF MapAssumption
<1>2. todo # <<>> /\ todo' = p \o Tail(todo) /\ UNCHANGED <<announced, whole, foreground>>
      /\ stream' = ReadData(stream, 4) /\ f.op = "repeat"
  <2>1. todo \in Seq(F) BY DEF Parsing
  <2>2. todo' = f.between \o fields \o Tail(todo) BY DEF ReadRepeat
  <2> QED BY <2>1, <2>2 DEF ReadRepeat, Field, cache
<1>3. f \in F /\ Sound(stream) BY <1>2 DEF Parsing
<1>4. f \in {Repeat(<<Over(5)>>, TileFields(tile)), Repeat(<<Read(4)>>, Object)}
  BY <1>1, <1>2, <1>3, FieldForm
<1>5. PICK n \in Nat, m \in Nat :
        /\ f.between \in Seq(F) /\ f.fields \in Seq(F)
        /\ ForegroundFirst(f.between) /\ ForegroundFirst(f.fields)
        /\ Takes(f.between, n) /\ Takes(f.fields, m) /\ Bytes(f) = 4 + (n + m)
  <2>1. CASE f = Repeat(<<Over(5)>>, TileFields(tile))
    <3>1. f.between = <<Over(5)>> /\ f.fields = TileFields(tile) BY <2>1 DEF Repeat
    <3>2. Over(5) \in F /\ Over(5) \in PlainFields /\ FieldSize(Over(5)) = 5
      BY DEF FieldsOf, PlainFields, Over, FieldSize
    <3>3. <<Over(5)>> \in Seq(F) /\ <<Over(5)>> \in Seq(PlainFields)
      <4> HIDE DEF F
      <4> QED BY <3>2
    <3>4. ForegroundFirst(<<Over(5)>>) BY <3>3, PlainFirst
    <3>5. Bytes(Over(5)) = 5 BY <3>2, PlainBytes
    <3>6. Takes(<<Over(5)>>, 5) BY <3>5, TakesOne
    <3>7. TileFields(tile) \in Seq(F) /\ Takes(TileFields(tile), TileSize(tile)) /\ TileSize(tile) \in Nat
      BY <1>1, TakesTile, TileSizes
    <3>8. Bytes(f) = 4 + (5 + TileSize(tile)) BY <1>1, <2>1, <3>7, OtherBytes
    <3>9. ForegroundFirst(TileFields(tile))
      <4>1. Len(TileFields(tile)) = 4 /\ TileFields(tile)[1] = Foreground(tile)
            /\ TileFields(tile)[2] = Read(2) /\ TileFields(tile)[3] = Read(2)
        BY DEF TileFields
      <4>2. Foreground(tile).op = "foreground" BY DEF Foreground
      <4>3. \A i \in 1..4 : i > 1 => 1 \in 1..(i - 1) OBVIOUS
      <4> QED BY <4>1, <4>2, <4>3 DEF ForegroundFirst
    <3> QED BY <3>1, <3>3, <3>4, <3>6, <3>7, <3>8, <3>9
  <2>2. CASE f = Repeat(<<Read(4)>>, Object)
    <3>1. f.between = <<Read(4)>> /\ f.fields = Object BY <2>2 DEF Repeat
    <3>2. Read(4) \in PlainFields /\ FieldSize(Read(4)) = 4 BY DEF PlainFields, Read, FieldSize
    <3>3. <<Read(4)>> \in Seq(PlainFields) BY <3>2
    <3>4. Bytes(Read(4)) = 4 BY <3>2, PlainBytes
    <3>5. Takes(<<Read(4)>>, 4) BY <3>4, TakesOne
    <3>6. Object \in Seq(PlainFields) /\ SizeOf(Object) \in Nat /\ Takes(Object, SizeOf(Object))
      BY ObjectPlain, TakesSize
    <3>7. ForegroundFirst(<<Read(4)>>) /\ ForegroundFirst(Object) BY <3>3, <3>6, PlainFirst
    <3>8. PlainFields \subseteq F BY DEF FieldsOf
    <3>9. <<Read(4)>> \in Seq(F) /\ Object \in Seq(F)
      <4> HIDE DEF F
      <4> QED BY <3>3, <3>6, <3>8
    <3>10. Bytes(f) = 4 + (4 + SizeOf(Object)) BY <1>1, <2>2, <3>6, OtherBytes
    <3> QED BY <3>1, <3>5, <3>6, <3>7, <3>9, <3>10
  <2> QED BY <1>4, <2>1, <2>2
<1>6. fields \in Seq(F) /\ ForegroundFirst(fields)
  <2>1. <<>> \in Seq(F) /\ Len(<<>>) = 0 OBVIOUS
  <2>2. ForegroundFirst(<<>>) BY <2>1 DEF ForegroundFirst
  <2> QED BY <1>5, <2>1, <2>2
<1>7. p \in Seq(F) /\ ForegroundFirst(p)
  <2> HIDE DEF fields, F
  <2> QED BY <1>5, <1>6, FirstBoth
<1>8. Sound(stream') BY <1>2, <1>3, ReadSound
<1>9. ASSUME whole
      PROVE  /\ ~stream'.overshot /\ stream'.size = stream.size
             /\ \E k \in Nat : Takes(p, k) /\ stream'.offset + k = stream.offset + Bytes(f)
  <2>1. stream.offset \in Nat /\ stream.size \in Nat BY <1>3 DEF Sound, StreamType
  <2>2. stream.offset + Bytes(f) <= stream.size /\ ~stream.overshot BY <1>2, <1>9, HeadFits
  <2>3. stream.offset + 4 <= stream.size BY <1>5, <2>1, <2>2
  <2>4. Fits(stream, 4) /\ stream'.offset = stream.offset + 4 /\ ~stream'.overshot
        /\ stream'.size = stream.size
    BY <1>2, <1>3, <2>2, <2>3, ReadSound
  <2>5. fields = f.fields BY <2>4 DEF Succeeds
  <2>6. Takes(p, n + m)
    <3> HIDE DEF F, fields
    <3> QED BY <1>5, <2>5, TakesBoth
  <2>7. n + m \in Nat /\ stream'.offset + (n + m) = stream.offset + Bytes(f) BY <1>5, <2>1, <2>4
  <2> QED BY <2>4, <2>6, <2>7
<1> HIDE DEF p
<1> QED BY <1>2, <1>7, <1>8, <1>9, Pushed

\* From here on the foreground in the tile is the map's, if it could be read.
LEMMA ForegroundStep ==
  ASSUME NEW tile \in Tiles, Parsing(tile), ReadForeground
  PROVE  Parsing(tile)'
<1> DEFINE f == Head(todo)
<1>1. tile \in Tile BY MapAssumption DEF MapAssumption
<1>2. todo # <<>> /\ todo' = Tail(todo) /\ UNCHANGED <<announced, whole>> /\ f.op = "foreground"
      /\ stream' = ReadData(stream, 2)
      /\ foreground' = IF Succeeds(2) THEN f.tile.foreground ELSE foreground
  BY DEF ReadForeground, Field, cache
<1>3. todo \in Seq(FieldsOf(tile)) /\ f \in FieldsOf(tile) /\ Sound(stream) BY <1>2 DEF Parsing
<1>4. f = Foreground(tile) BY <1>1, <1>2, <1>3, FieldForm
<1>5. Bytes(f) = 2 /\ f.tile = tile BY <1>1, <1>4, OtherBytes DEF Foreground
<1>6. Sound(stream') BY <1>2, <1>3, ReadSound
<1>7. stream.offset \in Nat /\ stream.size \in Nat BY <1>3 DEF Sound, StreamType
<1>8. ASSUME whole
      PROVE  ~stream'.overshot /\ stream'.size = stream.size /\ stream'.offset = stream.offset + 2
             /\ Succeeds(2)
  <2>1. stream.offset + 2 <= stream.size /\ ~stream.overshot BY <1>2, <1>5, <1>8, HeadFits
  <2> DEFINE s == ReadData(stream, 2)
  <2>2. s.size = stream.size /\ s.overshot = stream.overshot
        /\ Fits(stream, 2) /\ s.offset = stream.offset + 2
    BY <1>3, <2>1, ReadSound
  <2> HIDE DEF s
  <2>3. stream' = s BY <1>2 DEF s
  <2> QED BY <2>1, <2>2, <2>3 DEF Succeeds
<1>9. CASE whole
  <2>1. foreground' = tile.foreground BY <1>2, <1>5, <1>8, <1>9
  <2>2. stream'.offset + 0 = stream.offset + Bytes(f) BY <1>5, <1>7, <1>8, <1>9
  <2>3. Tail(todo) = <<>> \o Tail(todo) /\ <<>> \in Seq(FieldsOf(tile)) BY <1>2, <1>3
  <2>4. ForegroundFirst(<<>>)
    <3>1. <<>> \in Seq(PlainFields) OBVIOUS
    <3> QED BY <3>1, PlainFirst
  <2> HIDE DEF f
  <2> QED BY <1>2, <1>6, <1>8, <1>9, <2>1, <2>2, <2>3, <2>4, TakesNothing, Pushed DEF f
<1>10. CASE ~whole
  <2>1. todo' \in Seq(FieldsOf(tile)) BY <1>2, <1>3
  <2>2. tile.foreground < announced' /\ ~whole' BY <1>2, <1>10 DEF Parsing
  <2> QED BY <1>6, <2>1, <2>2 DEF Parsing
<1> QED BY <1>9, <1>10

\* The flags lead to as many fields as TileSize() counts, provided the foreground
\* that is asked is the map's.
LEMMA FlagsStep ==
  ASSUME NEW tile \in Tiles, Parsing(tile), ReadFlags
  PROVE  Parsing(tile)' /\ (whole => foreground = tile.foreground)
<1> DEFINE F == FieldsOf(tile)
           f == Head(todo)
           typed == (Succeeds(2) /\ tile.extra) \/ foreground \in LockLike
           a == IF Succeeds(2) /\ tile.locked THEN <<Read(2)>> ELSE <<>>
           b == IF typed THEN <<Type(tile)>> ELSE <<>>
           p == a \o b
<1>1. tile \in Tile BY MapAssumption DEF MapAssumption
<1>2. todo # <<>> /\ f.op = "flags" /\ stream' = ReadData(stream, 2)
      /\ UNCHANGED <<announced, whole, foreground>>
  BY DEF ReadFlags, Field, Cache
<1>3. todo \in Seq(F) /\ f \in F /\ Sound(stream) BY <1>2 DEF Parsing
<1>4. f = Flags(tile) BY <1>1, <1>2, <1>3, FieldForm
<1>5. Bytes(f) = TileSize(tile) - 6 /\ f.tile = tile /\ f.op # "foreground"
  BY <1>1, <1>2, <1>4, OtherBytes DEF Flags
<1>6. todo' = p \o Tail(todo) BY <1>5 DEF ReadFlags
<1>7. /\ Read(2) \in F /\ Read(2) \in PlainFields /\ Type(tile) \in F
      /\ Read(2).op # "flags" /\ Type(tile).op # "flags" /\ FieldSize(Read(2)) = 2
  BY DEF FieldsOf, PlainFields, Read, Type, FieldSize
<1>8. a \in Seq(F) /\ ForegroundFirst(a) /\ Takes(a, IF Succeeds(2) /\ tile.locked THEN 2 ELSE 0)
  <2>1. <<Read(2)>> \in Seq(PlainFields) /\ <<>> \in Seq(PlainFields) BY <1>7
  <2>2. <<Read(2)>> \in Seq(F) /\ <<>> \in Seq(F)
    <3> HIDE DEF F
    <3> QED BY <1>7
  <2>3. Bytes(Read(2)) = 2 BY <1>7, PlainBytes
  <2>4. Takes(<<Read(2)>>, 2) BY <2>3, TakesOne
  <2> QED BY <2>1, <2>2, <2>4, TakesNothing, PlainFirst
<1>9. SizeOf(ExtraFields(tile)) \in Nat /\ TileSize(tile) \in Nat BY <1>1, TileSizes
<1>10. b \in Seq(F) /\ ForegroundFirst(b)
       /\ Takes(b, IF typed THEN 1 + SizeOf(ExtraFields(tile)) ELSE 0)
  <2>1. <<Type(tile)>> \in Seq(F) /\ <<>> \in Seq(F)
    <3> HIDE DEF F
    <3> QED BY <1>7
  <2>2. ForegroundFirst(<<Type(tile)>>)
    <3>1. \A i \in 1..Len(<<Type(tile)>>) : <<Type(tile)>>[i] = Type(tile) OBVIOUS
    <3> QED BY <1>7, <3>1 DEF ForegroundFirst
  <2>3. ForegroundFirst(<<>>)
    <3>1. <<>> \in Seq(PlainFields) OBVIOUS
    <3> QED BY <3>1, PlainFirst
  <2>4. Bytes(Type(tile)) = 1 + SizeOf(ExtraFields(tile)) BY <1>1, OtherBytes
  <2>5. Takes(<<Type(tile)>>, 1 + SizeOf(ExtraFields(tile))) BY <1>9, <2>4, TakesOne
  <2> HIDE DEF typed
  <2> QED BY <2>1, <2>2, <2>3, <2>5, TakesNothing
<1>11. p \in Seq(F) /\ ForegroundFirst(p)
  <2> HIDE DEF a, b, F
  <2> QED BY <1>8, <1>10, FirstBoth
<1>12. Sound(stream') BY <1>2, <1>3, ReadSound
<1>13. ASSUME whole
       PROVE  /\ foreground = tile.foreground
              /\ ~stream'.overshot /\ stream'.size = stream.size
              /\ \E n \in Nat : Takes(p, n) /\ stream'.offset + n = stream.offset + Bytes(f)
  <2>1. foreground = tile.foreground
    <3>1. foreground = tile.foreground \/ ForegroundFirst(todo) BY <1>13 DEF Parsing
    <3>2. 1 \in 1..Len(todo) /\ todo[1].op = "flags" /\ 1..(1 - 1) = {} BY <1>2, <1>3
    <3> QED BY <3>1, <3>2 DEF ForegroundFirst
  <2>2. stream.offset \in Nat /\ stream.size \in Nat BY <1>3 DEF Sound, StreamType
  <2>3. stream.offset + Bytes(f) <= stream.size /\ ~stream.overshot BY <1>2, <1>13, HeadFits
  <2> DEFINE x == IF tile.locked THEN 2 ELSE 0
             y == IF tile.extra \/ tile.foreground \in LockLike
                  THEN 1 + SizeOf(ExtraFields(tile)) ELSE 0
  <2>4. x \in Nat /\ y \in Nat /\ Bytes(f) = 2 + (x + y)
    <3>1. x \in Nat /\ y \in Nat BY <1>9
    <3>2. TileSize(tile) = 8 + x + y BY DEF TileSize
    <3> HIDE DEF x, y
    <3> QED BY <1>5, <3>1, <3>2
  <2> HIDE DEF x, y
  <2>5. stream.offset + 2 <= stream.size BY <2>2, <2>3, <2>4
  <2> DEFINE s == ReadData(stream, 2)
  <2>6. s.size = stream.size /\ s.overshot = stream.overshot
        /\ Fits(stream, 2) /\ s.offset = stream.offset + 2
    BY <1>3, <2>3, <2>5, ReadSound
  <2> HIDE DEF s
  <2>7. stream' = s BY <1>2 DEF s
  <2>8. Takes(a, x) BY <1>8, <2>6 DEF Succeeds, x
  <2>9. Takes(b, y)
    <3>1. typed <=> tile.extra \/ tile.foreground \in LockLike BY <2>1, <2>6 DEF Succeeds
    <3> QED BY <1>10, <3>1 DEF y
  <2>10. Takes(p, x + y)
    <3> HIDE DEF a, b, F
    <3> QED BY <1>8, <1>10, <2>8, <2>9, TakesBoth
  <2>11. x + y \in Nat /\ stream'.offset + (x + y) = stream.offset + Bytes(f)
    BY <2>2, <2>4, <2>6, <2>7
  <2> HIDE DEF p
  <2> QED BY <2>1, <2>3, <2>6, <2>7, <2>10, <2>11
<1> HIDE DEF p
<1>14. Parsing(tile)' BY <1>2, <1>5, <1>6, <1>11, <1>12, <1>13, Pushed
<1> QED BY <1>13, <1>14

\* The fields of the extra data.
LEMMA ExtraStep ==
  ASSUME NEW tile \in Tiles, Parsing(tile), ReadExtra
  PROVE  Parsing(tile)'
<1> DEFINE f == Head(todo)
           p == IF Succeeds(1) THEN ExtraFields(f.tile) ELSE <<>>
<1>1. tile \in Tile BY MapAssumption DEF MapAssumption
<1>2. todo # <<>> /\ todo' = p \o Tail(todo) /\ UNCHANGED <<announced, whole, foreground>>
      /\ stream' = ReadData(stream, 1) /\ f.op = "type"
  BY DEF ReadExtra, Field, cache
<1>3. f \in FieldsOf(tile) /\ Sound(stream) BY <1>2 DEF Parsing
<1>4. f = Type(tile) BY <1>1, <1>2, <1>3, FieldForm
<1>5. f.tile = tile /\ f.op # "foreground" /\ Bytes(f) = 1 + SizeOf(ExtraFields(tile))
  <2>1. f.tile = tile BY <1>4 DEF Type
  <2>2. f.op # "foreground" BY <1>2
  <2> HIDE DEF f
  <2>3. Bytes(f) = 1 + SizeOf(ExtraFields(tile)) BY <1>1, <1>4, OtherBytes
  <2> QED BY <2>1, <2>2, <2>3
<1>6. ExtraFields(tile) \in Seq(PlainFields) /\ SizeOf(ExtraFields(tile)) \in Nat
      /\ Takes(ExtraFields(tile), SizeOf(ExtraFields(tile)))
  BY <1>1, ExtraPlain, TakesSize
<1>7. p \in Seq(PlainFields) BY <1>5, <1>6
<1>8. p \in Seq(FieldsOf(tile)) /\ ForegroundFirst(p)
  <2> HIDE DEF p
  <2>1. PlainFields \subseteq FieldsOf(tile) BY DEF FieldsOf
  <2> QED BY <1>7, <2>1, PlainFirst
<1>9. Sound(stream') BY <1>2, <1>3, ReadSound
<1>10. ASSUME whole
       PROVE  /\ ~stream'.overshot /\ stream'.size = stream.size
              /\ \E n \in Nat : Takes(p, n) /\ stream'.offset + n = stream.offset + Bytes(f)
  <2>1. stream.offset \in Nat /\ stream.size \in Nat BY <1>3 DEF Sound, StreamType
  <2>2. stream.offset + Bytes(f) <= stream.size /\ ~stream.overshot BY <1>2, <1>10, HeadFits
  <2>3. stream.offset + 1 <= stream.size BY <1>5, <1>6, <2>1, <2>2
  <2> DEFINE s == ReadData(stream, 1)
  <2>4. s.size = stream.size /\ s.overshot = stream.overshot
        /\ Fits(stream, 1) /\ s.offset = stream.offset + 1
    BY <1>3, <2>2, <2>3, ReadSound
  <2> HIDE DEF s
  <2>5. stream' = s BY <1>2 DEF s
  <2>6. Takes(p, SizeOf(ExtraFields(tile))) BY <1>5, <1>6, <2>4 DEF Succeeds
  <2>7. stream'.offset + SizeOf(ExtraFields(tile)) = stream.offset + Bytes(f)
    BY <1>5, <1>6, <2>1, <2>4, <2>5
  <2> HIDE DEF p
  <2> QED BY <1>6, <2>2, <2>4, <2>5, <2>6, <2>7
<1> HIDE DEF p
<1> QED BY <1>2, <1>5, <1>8, <1>9, <1>10, Pushed

\* A map begins with all its fields ahead.
LEMMA MapStep ==
  ASSUME NEW tile \in Tiles, NEW cut \in Cuts, SendMapData(tile, cut)
  PROVE  Parsing(tile)'
<1>1. tile \in Tile /\ cut \in Nat BY MapAssumption DEF MapAssumption
<1>2. MapSize(tile) \in Nat /\ MapSize(tile) < SizeMax
      /\ MapFields(tile) \in Seq(FieldsOf(tile)) /\ Takes(MapFields(tile), MapSize(tile))
  BY <1>1, TakesMap, SizeAssumption DEF SizeAssumption
<1>3. /\ tile.foreground < announced /\ announced' = announced /\ cut <= MapSize(tile)
      /\ stream' = Stream(MapSize(tile) - cut) /\ whole' = (cut = 0) /\ todo' = MapFields(tile)
  BY DEF SendMapData, Cache
<1>4. MapSize(tile) - cut \in Nat /\ MapSize(tile) - cut < SizeMax
  <2>1. SizeMax \in Nat BY SizeAssumption DEF SizeAssumption
  <2> QED BY <1>1, <1>2, <1>3, <2>1
<1>5. /\ stream' \in StreamType /\ stream'.size = MapSize(tile) - cut /\ stream'.offset = 0
      /\ ~stream'.overshot /\ ~stream'.overread
  BY <1>3, <1>4 DEF Stream, StreamType
<1>6. Sound(stream') BY <1>4, <1>5 DEF Sound
<1>7. ASSUME whole' PROVE stream'.offset + MapSize(tile) = stream'.size
  <2>1. cut = 0 BY <1>3, <1>7
  <2>2. MapSize(tile) - cut = MapSize(tile) /\ 0 + MapSize(tile) = MapSize(tile) BY <1>2, <2>1
  <2> QED BY <1>5, <2>2
<1>8. ForegroundFirst(todo')
  <2>1. Len(MapFields(tile)) = 8
        /\ \A i \in 1..8 : MapFields(tile)[i].op \in {"read", "skip", "text", "repeat"}
    BY DEF MapFields, Read, Over, Text, Repeat
  <2> QED BY <1>3, <2>1 DEF ForegroundFirst
<1> QED BY <1>2, <1>3, <1>5, <1>6, <1>7, <1>8 DEF Parsing

\* Every step keeps the invariant of the parse.
LEMMA ParseKept ==
  ASSUME CacheInv, CacheInv', ParseInv, [Next]_vars
  PROVE  ParseInv'
<1>1. CASE UNCHANGED vars
  BY <1>1 DEF vars, parse, cache, ParseInv, Parsing
<1>2. CASE Start
  <2>1. phase' = "up" /\ stream' = Stream(0) BY <1>2 DEF Start, Launch
  <2>2. ~stream'.overread BY <2>1 DEF Stream
  <2> QED BY <2>1, <2>2 DEF ParseInv
<1>3. CASE Clear
  <2>1. phase = "on" /\ phase' = "on" /\ UNCHANGED <<stream, whole>> BY <1>3 DEF Clear, cache
  <2> QED BY <2>1 DEF ParseInv
<1>4. CASE CacheNext /\ UNCHANGED parse
  <2>1. phase' \in {"down", "up", "on", "crashed"}
    /\ (phase' = "crashed" => phase = "crashed" /\ UNCHANGED <<matched, announced>>)
    BY <1>4 DEF CacheNext, Install, Running, Logon, SendItemDatabaseData, Logoff, Quit, CacheInv
  <2>2. UNCHANGED <<stream, whole, foreground>> BY <1>4 DEF parse
  <2> QED BY <2>1, <2>2 DEF ParseInv
<1>5. ASSUME NEW tile \in Tiles, NEW cut \in Cuts, SendMapData(tile, cut) PROVE ParseInv'
  <2>1. Parsing(tile)' BY <1>5, MapStep
  <2>2. phase' = "parsing" BY <1>5 DEF SendMapData, Cache
  <2>3. (stream.overread => stream.overshot /\ ~whole)' BY <2>1 DEF Parsing, Sound
  <2> QED BY <2>1, <2>2, <2>3 DEF ParseInv
<1>6. CASE Plain \/ ReadList \/ ReadSkipList \/ ReadRepeat \/ ReadForeground \/ ReadExtra
  <2>1. phase = "parsing" /\ phase' = "parsing"
    BY <1>6 DEF Plain, ReadList, ReadSkipList, ReadRepeat, ReadForeground, ReadExtra, Field, cache
  <2>2. PICK tile \in Tiles : Parsing(tile) BY <2>1 DEF ParseInv
  <2>3. Parsing(tile)'
    BY <1>6, <2>2, PlainStep, ListStep, SkipListStep, RepeatStep, ForegroundStep, ExtraStep
  <2>4. (stream.overread => stream.overshot /\ ~whole)' BY <2>3 DEF Parsing, Sound
  <2> QED BY <2>1, <2>3, <2>4 DEF ParseInv
<1>7. CASE ReadFlags
  <2>1. phase = "parsing" /\ phase' \in {"parsing", "crashed"}
        /\ (phase' = "crashed" => Null(foreground))
        /\ UNCHANGED <<matched, announced, whole, foreground>>
    BY <1>7 DEF ReadFlags, Field, Cache
  <2>2. PICK tile \in Tiles : Parsing(tile) BY <2>1 DEF ParseInv
  <2>3. Parsing(tile)' /\ (whole => foreground = tile.foreground) BY <1>7, <2>2, FlagsStep
  <2>4. (stream.overread => stream.overshot /\ ~whole)' BY <2>3 DEF Parsing, Sound
  <2>5. ASSUME phase' = "crashed", matched PROVE ~whole /\ foreground >= announced
    <3>1. db = Whole(announced) /\ announced \in Nat
      BY <2>1, <2>5, BuildAssumption DEF CacheInv, BuildAssumption
    <3>2. foreground >= announced BY <2>1, <2>5, <3>1 DEF Null, Whole
    <3>3. tile.foreground \in Nat /\ tile.foreground < announced
      BY <2>2, MapAssumption DEF Parsing, MapAssumption, Tile
    <3> QED BY <2>3, <3>1, <3>2, <3>3
  <2> QED BY <2>1, <2>3, <2>4, <2>5 DEF ParseInv
<1>8. CASE Parsed
  <2>1. phase' = "on" /\ stream' = Stream(0) BY <1>8 DEF Parsed, Cache
  <2>2. ~stream'.overread BY <2>1 DEF Stream
  <2> QED BY <2>1, <2>2 DEF ParseInv
<1> QED BY <1>1, <1>2, <1>3, <1>4, <1>5, <1>6, <1>7, <1>8 DEF Next

LEMMA ParseAlways == Spec => []ParseInv
<1>1. Init => ParseInv
  <2> SUFFICES ASSUME Init PROVE ParseInv OBVIOUS
  <2>1. phase = "down" /\ stream = Stream(0) BY DEF Init, CacheInit
  <2>2. ~stream.overread BY <2>1 DEF Stream
  <2> QED BY <2>1, <2>2 DEF ParseInv
<1> QED BY <1>1, ParseKept, CacheAlways, PTL DEF Spec

\* However long the texts and lists of a map are and whatever an uninitialised
\* count holds: the parser of a whole map stays within its bytes; behind the end
\* of a map that was cut it gets only once skip() has passed that end.
THEOREM OverreadOnlyIfCut == Spec => []OverreadExplained
<1>1. ParseInv => OverreadExplained BY DEF ParseInv, OverreadExplained
<1> QED BY <1>1, ParseAlways, PTL

\* With items of the server's hash, no map of the server crashes the proxy, unless
\* it is cut before the foreground of a tile in which another session left one
\* that this server has not.
THEOREM CrashOnlyIfOld == Spec => NullExplained
<1>1. ParseInv' => (phase' = "crashed" => ~matched' \/ (~whole' /\ foreground' >= announced'))
  BY DEF ParseInv
<1>2. ParseInv' /\ [Next]_vars =>
        [phase' = "crashed" => ~matched \/ (~whole /\ foreground >= announced)]_vars
  <2> SUFFICES ASSUME ParseInv', Next, phase' = "crashed"
               PROVE  ~matched \/ (~whole /\ foreground >= announced)
    OBVIOUS
  <2>1. UNCHANGED <<matched, whole, foreground, announced>>
    <3>1. CASE Start \/ Clear \/ Plain \/ ReadList \/ ReadSkipList \/ ReadRepeat
               \/ ReadForeground \/ ReadExtra \/ Parsed
      <4>1. (phase' = phase /\ phase \in {"on", "parsing"}) \/ phase' \in {"up", "on"}
        BY <3>1 DEF Start, Launch, Clear, Plain, ReadList, ReadSkipList, ReadRepeat,
                    ReadForeground, ReadExtra, Parsed, Field, Cache, cache
      <4> QED BY <4>1
    <3>2. CASE CacheNext /\ UNCHANGED parse
      BY <3>2 DEF CacheNext, Install, Running, Logon, SendItemDatabaseData, Logoff, Quit, parse
    <3>3. ASSUME NEW tile \in Tiles, NEW cut \in Cuts, SendMapData(tile, cut) PROVE FALSE
      BY <3>3 DEF SendMapData, Cache
    <3>4. CASE ReadFlags BY <3>4 DEF ReadFlags, Cache
    <3> QED BY <3>1, <3>2, <3>3, <3>4 DEF Next
  <2> QED BY <1>1, <2>1
<1> QED BY <1>2, ParseAlways, PTL DEF Spec, NullExplained
=============================================================================
