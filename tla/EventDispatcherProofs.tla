------------------------ MODULE EventDispatcherProofs ------------------------
(***************************************************************************)
(* Theorems of EventDispatcher.  First what an insertion and a removal do  *)
(* to the listeners of one event type: an insertion keeps the vector equal *)
(* to the end of the callback list, and its priorities in order; a removal *)
(* of a listener that stands empties the vector.  The inductive invariant  *)
(* then adds to the properties that each list holds handles that were      *)
(* registered, and that a dispatch has walked a prefix of its list.        *)
(***************************************************************************)
EXTENDS EventDispatcher, SequenceTheorems, WellFoundedInduction, TLAPS
-----------------------------------------------------------------------------
(* The listeners of one event type *)

\* The elements of a concatenation, of an insertion and of a removal.
LEMMA ConcatIndex ==
  ASSUME NEW S, NEW a \in Seq(S), NEW b \in Seq(S)
  PROVE /\ a \o b \in Seq(S) /\ Len(a \o b) = Len(a) + Len(b)
        /\ \A k \in 1..(Len(a)+Len(b)) : (a \o b)[k] = IF k <= Len(a) THEN a[k] ELSE b[k-Len(a)]
  OBVIOUS
\* t is s with x at place i, or without its element at place i.
With(s, t, i, x) == \A k \in 1..(Len(s) + 1) :
    t[k] = IF k < i THEN s[k] ELSE IF k = i THEN x ELSE s[k - 1]
Without(s, t, i) == \A k \in 1..(Len(s) - 1) : t[k] = IF k < i THEN s[k] ELSE s[k + 1]

LEMMA InsertAtIndex ==
  ASSUME NEW S, NEW s \in Seq(S), NEW i \in 1..(Len(s)+1), NEW e \in S
  PROVE /\ InsertAt(s, i, e) \in Seq(S)
        /\ Len(InsertAt(s, i, e)) = Len(s) + 1
        /\ With(s, InsertAt(s, i, e), i, e)
<1>0. Len(s) \in Nat /\ i \in Int OBVIOUS
<1> DEFINE a == SubSeq(s,1,i-1) \o <<e>>
           b == SubSeq(s,i,Len(s))
<1>1. SubSeq(s,1,i-1) \in Seq(S) /\ Len(SubSeq(s,1,i-1)) = i-1 /\ \A k \in 1..(i-1) : SubSeq(s,1,i-1)[k] = s[k]
  OBVIOUS
<1>2. b \in Seq(S) /\ Len(b) = Len(s)-i+1 /\ \A k \in 1..(Len(s)-i+1) : b[k] = s[k+i-1]
  OBVIOUS
<1>3. a \in Seq(S) /\ Len(a) = i /\ \A k \in 1..i : a[k] = IF k < i THEN s[k] ELSE e
  BY <1>1
<1>4. InsertAt(s,i,e) = a \o b BY DEF InsertAt
<1> HIDE DEF a, b
<1>5. a \o b \in Seq(S) /\ Len(a \o b) = Len(s)+1
  <2>1. a \o b \in Seq(S) /\ Len(a \o b) = Len(a) + Len(b)
    BY <1>2, <1>3, ConcatIndex
  <2> QED BY <1>0, <1>2, <1>3, <2>1
<1>6. ASSUME NEW k \in 1..(Len(s)+1) PROVE (a \o b)[k] = IF k < i THEN s[k] ELSE IF k = i THEN e ELSE s[k-1]
  <2>1. (a \o b)[k] = IF k <= Len(a) THEN a[k] ELSE b[k-Len(a)]
    BY <1>2, <1>3, ConcatIndex
  <2>2. CASE k <= i BY <2>1, <2>2, <1>3
  <2>3. CASE k > i 
    <3>1. k - i \in 1..(Len(s)-i+1) BY <2>3
    <3>2. b[k-i] = s[k-i+i-1] BY <3>1, <1>2
    <3> QED BY <2>1, <2>3, <3>2, <1>3
  <2>4. k <= i \/ k > i BY <1>0
  <2> QED BY <2>2, <2>3, <2>4
<1> QED BY <1>4, <1>5, <1>6 DEF With

LEMMA RemoveAtIndex ==
  ASSUME NEW S, NEW s \in Seq(S), NEW i \in 1..Len(s)
  PROVE /\ RemoveAt(s, i) \in Seq(S)
        /\ Len(RemoveAt(s, i)) = Len(s) - 1
        /\ Without(s, RemoveAt(s, i), i)
<1> DEFINE a == SubSeq(s,1,i-1)
           b == SubSeq(s,i+1,Len(s))
<1>1. a \in Seq(S) /\ Len(a) = i-1 /\ \A k \in 1..(i-1) : a[k] = s[k]
  OBVIOUS
<1>2. b \in Seq(S) /\ Len(b) = Len(s)-i /\ \A k \in 1..(Len(s)-i) : b[k] = s[k+i]
  OBVIOUS
<1>4. RemoveAt(s,i) = a \o b BY DEF RemoveAt
<1> HIDE DEF a, b
<1>5. a \o b \in Seq(S) /\ Len(a \o b) = Len(s)-1
  <2>1. a \o b \in Seq(S) /\ Len(a \o b) = Len(a) + Len(b)
    BY <1>1, <1>2, ConcatIndex
  <2>2. Len(s) \in Nat /\ i \in Int OBVIOUS
  <2> QED BY <1>1, <1>2, <2>1, <2>2
<1>6. ASSUME NEW k \in 1..(Len(s)-1) PROVE (a \o b)[k] = IF k < i THEN s[k] ELSE s[k+1]
  <2>0. Len(s) \in Nat /\ i \in Int OBVIOUS
  <2>1. (a \o b)[k] = IF k <= Len(a) THEN a[k] ELSE b[k-Len(a)]
    BY <1>1, <1>2, ConcatIndex
  <2>2. CASE k < i BY <2>1, <2>2, <1>1
  <2>3. CASE k >= i 
    <3>1. k - (i - 1) \in 1..(Len(s)-i) BY <2>3
    <3>2. b[k-(i-1)] = s[k-(i-1)+i] BY <3>1, <1>2
    <3> QED BY <2>1, <2>3, <3>2, <1>1
  <2>4. k < i \/ k >= i BY <2>0
  <2> QED BY <2>2, <2>3, <2>4
<1> QED BY <1>4, <1>5, <1>6 DEF Without

\* A set of indices has a least one.
LEMMA LeastIndex ==
  ASSUME NEW T, T \subseteq Nat, T # {}
  PROVE  \E i \in T : \A j \in T : i <= j
<1>1. PICK i \in T : \A j \in T : ~(<<j, i>> \in OpToRel(<, Nat))
  BY NatLessThanWellFounded, WFMin
<1>2. \A j \in T : ~(j < i)
  BY <1>1 DEF OpToRel
<1> QED BY <1>2

Entry(P, H) == [priority : P, handle : H]
List(P, H) == [entries : Seq(Entry(P, H)), order : Seq(H)]

Sound(l) == Agree(l) /\ Distinct(l) /\ Ordered(l)

\* m is l with a listener of priority p and handle h at place i of the entries,
\* or with all entries dropped and the listener at place i of the order gone.
Inserted(l, m, i, p, h) ==
    /\ i \in 1..(Len(l.entries) + 1)
    /\ Len(m.entries) = Len(l.entries) + 1 /\ Len(m.order) = Len(l.order) + 1
    /\ With(l.entries, m.entries, i, [priority |-> p, handle |-> h])
    /\ With(l.order, m.order, Forgotten(l) + i, h)
    /\ Range(m.order) = Range(l.order) \cup {h}
Deleted(l, m, i, h) ==
    /\ m.entries = <<>>
    /\ i \in DOMAIN l.order
    /\ Len(m.order) = Len(l.order) - 1
    /\ Without(l.order, m.order, i)
    /\ Range(m.order) = Range(l.order) \ {h}

\* What a sequence holds after an insertion.
LEMMA WithElements ==
  ASSUME NEW S, NEW s \in Seq(S), NEW t \in Seq(S), NEW i \in 1..(Len(s) + 1), NEW x \in S,
         Len(t) = Len(s) + 1, With(s, t, i, x)
  PROVE  /\ Range(t) = Range(s) \cup {x}
         /\ IsInjective(s) /\ x \notin Range(s) => IsInjective(t)
<1>0. /\ Len(s) \in Nat /\ i \in Int /\ DOMAIN s = 1..Len(s) /\ DOMAIN t = 1..(Len(s) + 1)
      /\ i \in DOMAIN t
  OBVIOUS
<1>1. t[i] = x BY <1>0 DEF With
<1>2. \A k \in DOMAIN t : k < i => k \in DOMAIN s /\ t[k] = s[k] BY <1>0 DEF With
<1>3. ASSUME NEW k \in DOMAIN t, k > i PROVE k - 1 \in DOMAIN s /\ t[k] = s[k - 1]
  <2>1. k \in Int /\ ~(k < i) /\ k # i /\ k - 1 \in 1..Len(s) BY <1>0, <1>3
  <2> QED BY <1>0, <2>1 DEF With
<1>4. \A k \in DOMAIN t : k < i \/ k = i \/ k > i BY <1>0
<1>5. \A k \in DOMAIN t : t[k] \in Range(s) \cup {x}
  BY <1>1, <1>2, <1>3, <1>4 DEF Range
<1>6. ASSUME NEW k \in DOMAIN s PROVE s[k] \in Range(t)
  <2>1. CASE k < i
    <3>1. k \in DOMAIN t /\ t[k] = s[k] BY <1>0, <1>2, <2>1
    <3> QED BY <3>1 DEF Range
  <2>2. CASE k >= i
    <3>1. k + 1 \in DOMAIN t /\ k + 1 > i /\ (k + 1) - 1 = k BY <1>0, <2>2
    <3>2. t[k + 1] = s[k] BY <1>3, <3>1
    <3> QED BY <3>1, <3>2 DEF Range
  <2> QED BY <1>0, <2>1, <2>2
<1>7. Range(t) = Range(s) \cup {x}
  <2>1. x \in Range(t) BY <1>0, <1>1 DEF Range
  <2> QED BY <1>5, <1>6, <2>1 DEF Range
<1>8. ASSUME IsInjective(s), x \notin Range(s), NEW a \in DOMAIN t, NEW b \in DOMAIN t, t[a] = t[b]
      PROVE  a = b
  <2>0. /\ \A k \in DOMAIN s : s[k] # x
        /\ \A j, k \in DOMAIN s : s[j] = s[k] => j = k
        /\ a \in Int /\ b \in Int
    BY <1>0, <1>8 DEF Range, IsInjective
  <2>1. CASE a = i BY <1>1, <1>2, <1>3, <1>4, <1>8, <2>0, <2>1
  <2>2. CASE b = i BY <1>1, <1>2, <1>3, <1>4, <1>8, <2>0, <2>2
  <2>3. CASE a < i /\ b < i BY <1>2, <1>8, <2>0, <2>3
  <2>4. CASE a > i /\ b > i
    <3>1. a - 1 = b - 1 BY <1>3, <1>8, <2>0, <2>4
    <3> QED BY <2>0, <3>1
  <2>5. CASE a < i /\ b > i
    <3>1. a = b - 1 BY <1>2, <1>3, <1>8, <2>0, <2>5
    <3> QED BY <1>0, <2>0, <2>5, <3>1
  <2>6. CASE a > i /\ b < i
    <3>1. b = a - 1 BY <1>2, <1>3, <1>8, <2>0, <2>6
    <3> QED BY <1>0, <2>0, <2>6, <3>1
  <2> QED BY <1>4, <2>1, <2>2, <2>3, <2>4, <2>5, <2>6
<1> QED BY <1>7, <1>8 DEF IsInjective

\* What a sequence holds after a removal.
LEMMA WithoutElements ==
  ASSUME NEW S, NEW s \in Seq(S), NEW t \in Seq(S), NEW i \in 1..Len(s),
         Len(t) = Len(s) - 1, Without(s, t, i), IsInjective(s)
  PROVE  Range(t) = Range(s) \ {s[i]} /\ IsInjective(t)
<1>0. /\ Len(s) \in Nat /\ i \in Int /\ DOMAIN s = 1..Len(s) /\ DOMAIN t = 1..(Len(s) - 1)
      /\ \A j, k \in DOMAIN s : s[j] = s[k] => j = k
  BY DEF IsInjective
\* From where each remaining element came.
<1>1. ASSUME NEW k \in DOMAIN t
      PROVE  \E j \in DOMAIN s : j = (IF k < i THEN k ELSE k + 1) /\ j # i /\ t[k] = s[j]
  <2>1. k \in Int /\ k \in DOMAIN s /\ k + 1 \in DOMAIN s BY <1>0
  <2>2. t[k] = IF k < i THEN s[k] ELSE s[k + 1] BY <1>0 DEF Without
  <2>3. CASE k < i BY <2>1, <2>2, <2>3
  <2>4. CASE ~(k < i)
    <3>1. k + 1 # i BY <1>0, <2>1, <2>4
    <3> QED BY <2>1, <2>2, <2>4, <3>1
  <2> QED BY <2>3, <2>4
<1>2. ASSUME NEW j \in DOMAIN s, j # i PROVE s[j] \in Range(t)
  <2>1. CASE j < i
    <3>1. j \in DOMAIN t BY <1>0, <2>1
    <3>2. t[j] = s[j] BY <1>0, <2>1, <3>1 DEF Without
    <3> QED BY <3>1, <3>2 DEF Range
  <2>2. CASE j > i
    <3>1. j - 1 \in DOMAIN t /\ ~(j - 1 < i) /\ (j - 1) + 1 = j BY <1>0, <2>2
    <3>2. t[j - 1] = s[j] BY <1>0, <3>1 DEF Without
    <3> QED BY <3>1, <3>2 DEF Range
  <2> QED BY <1>0, <1>2, <2>1, <2>2
<1>3. ASSUME NEW a \in DOMAIN t, NEW b \in DOMAIN t, t[a] = t[b] PROVE a = b
  <2>1. PICK c \in DOMAIN s : c = (IF a < i THEN a ELSE a + 1) /\ t[a] = s[c] BY <1>1
  <2>2. PICK d \in DOMAIN s : d = (IF b < i THEN b ELSE b + 1) /\ t[b] = s[d] BY <1>1
  <2>3. c = d BY <1>0, <1>3, <2>1, <2>2
  <2>4. a \in Int /\ b \in Int BY <1>0
  <2> QED BY <1>0, <2>1, <2>2, <2>3, <2>4
<1>4. Range(t) \subseteq Range(s) \ {s[i]}
  <2>1. ASSUME NEW k \in DOMAIN t PROVE t[k] \in Range(s) \ {s[i]}
    <3>1. PICK j \in DOMAIN s : j # i /\ t[k] = s[j] BY <1>1
    <3>2. s[j] # s[i] BY <1>0, <3>1
    <3> QED BY <3>1, <3>2 DEF Range
  <2> QED BY <2>1 DEF Range
<1>5. Range(s) \ {s[i]} \subseteq Range(t) BY <1>2 DEF Range
<1> QED BY <1>3, <1>4, <1>5 DEF IsInjective

\* The position of an element of a sequence without doubles.
LEMMA PositionIs ==
  ASSUME NEW s, IsInjective(s), NEW i \in DOMAIN s
  PROVE  PositionOf(s, s[i]) = i
BY DEF PositionOf, IsInjective

\* Place() splits the list: nothing before it is behind p, everything from it on is.
LEMMA PlaceSplits ==
  ASSUME NEW P, P \subseteq Int, NEW H, NEW es \in Seq(Entry(P, H)), NEW p \in P,
         \A i, j \in DOMAIN es : i < j => es[i].priority <= es[j].priority
  PROVE  /\ Place(es, p) \in 1..(Len(es) + 1)
         /\ \A i \in DOMAIN es : i < Place(es, p) => es[i].priority <= p
         /\ \A i \in DOMAIN es : i >= Place(es, p) => es[i].priority > p
<1>0. /\ Len(es) \in Nat /\ DOMAIN es = 1..Len(es) /\ p \in Int
      /\ \A i \in DOMAIN es : es[i].priority \in Int
  <2>1. Len(es) \in Nat /\ DOMAIN es = 1..Len(es)
    <3> HIDE DEF Entry
    <3> QED OBVIOUS
  <2>3. p \in Int OBVIOUS
  <2>2. ASSUME NEW i \in DOMAIN es PROVE es[i].priority \in Int
    <3>1. es[i] \in Entry(P, H) OBVIOUS
    <3> QED BY <3>1 DEF Entry
  <2> QED BY <2>1, <2>2, <2>3
<1>1. CASE Behind(es, p) = {}
  <2>1. Place(es, p) = Len(es) + 1 BY <1>1 DEF Place
  <2>2. \A i \in DOMAIN es : ~(es[i].priority > p) BY <1>1 DEF Behind
  <2> QED BY <2>1, <2>2, <1>0
<1>2. CASE Behind(es, p) # {}
  <2>1. Behind(es, p) \subseteq Nat BY <1>0 DEF Behind
  <2>2. \E i \in Behind(es, p) : \A j \in Behind(es, p) : i <= j
    BY <1>2, <2>1, LeastIndex
  <2>3. /\ Place(es, p) \in Behind(es, p)
        /\ \A j \in Behind(es, p) : Place(es, p) <= j
    BY <1>2, <2>2 DEF Place
  <2>4. Place(es, p) \in DOMAIN es /\ es[Place(es, p)].priority > p
    BY <2>3 DEF Behind
  <2>5. ASSUME NEW i \in DOMAIN es, i < Place(es, p) PROVE es[i].priority <= p
    <3>1. i \notin Behind(es, p) BY <2>3, <2>5, <2>4, <1>0
    <3> QED BY <3>1, <1>0 DEF Behind
  <2>6. ASSUME NEW i \in DOMAIN es, i >= Place(es, p) PROVE es[i].priority > p
    <3>1. es[Place(es, p)].priority <= es[i].priority
      BY <2>4, <2>6, <1>0
    <3> QED BY <3>1, <2>4, <1>0
  <2> QED BY <2>4, <2>5, <2>6, <1>0
<1> QED BY <1>1, <1>2

\* Where the listener of an entry stands.
LEMMA SamePlace ==
  ASSUME NEW P, NEW H, NEW l \in List(P, H), Agree(l), Distinct(l), NEW i \in DOMAIN l.entries
  PROVE  /\ Forgotten(l) + i \in DOMAIN l.order
         /\ PositionOf(l.order, l.entries[i].handle) = Forgotten(l) + i
<1>1. /\ l.entries \in Seq(Entry(P, H)) /\ l.order \in Seq(H)
  BY DEF List
<1> DEFINE n == Len(l.entries)
           f == Forgotten(l)
<1>2. n \in Nat /\ Len(l.order) \in Nat /\ i \in 1..n /\ DOMAIN l.order = 1..Len(l.order)
  <2> HIDE DEF Entry
  <2> QED BY <1>1
<1>3. f \in Nat /\ f + n = Len(l.order) /\ l.order[f + i] = l.entries[i].handle
  BY <1>2 DEF Agree, Forgotten
<1>4. f + i \in 1..Len(l.order)
  <2> HIDE DEF n, f
  <2> QED BY <1>2, <1>3
<1> QED BY <1>2, <1>3, <1>4, PositionIs DEF Distinct

\* appendListener() keeps a list sound and adds the listener.
LEMMA AppendedSound ==
  ASSUME NEW P, P \subseteq Int, NEW H, NEW l \in List(P, H), Sound(l),
         NEW p \in P, NEW h \in H, h \notin Range(l.order)
  PROVE  /\ Appended(l, p, h) \in List(P, H)
         /\ Sound(Appended(l, p, h))
         /\ Inserted(l, Appended(l, p, h), Place(l.entries, p), p, h)
<1> DEFINE es == l.entries
           o == l.order
           f == Forgotten(l)
           pl == Place(es, p)
           m == Appended(l, p, h)
           x == [priority |-> p, handle |-> h]
<1>0. /\ es \in Seq(Entry(P, H)) /\ o \in Seq(H) /\ Len(es) \in Nat /\ DOMAIN es = 1..Len(es)
      /\ Len(o) \in Nat /\ DOMAIN o = 1..Len(o) /\ x \in Entry(P, H)
  <2>1. es \in Seq(Entry(P, H)) /\ o \in Seq(H) BY DEF List
  <2>2. x \in Entry(P, H) BY DEF Entry
  <2> HIDE DEF Entry, es, o
  <2> QED BY <2>1, <2>2
<1>f. f \in Nat /\ f + Len(es) = Len(o) /\ \A i \in DOMAIN es : o[f + i] = es[i].handle
  <2>1. f >= 0 /\ f = Len(o) - Len(es) /\ \A i \in DOMAIN es : o[f + i] = es[i].handle
    BY DEF Sound, Agree, Forgotten
  <2> HIDE DEF f, es, o
  <2> QED BY <1>0, <2>1
<1>1. /\ pl \in 1..(Len(es) + 1)
      /\ \A i \in DOMAIN es : i < pl => es[i].priority <= p
      /\ \A i \in DOMAIN es : i >= pl => es[i].priority > p
  BY <1>0, PlaceSplits DEF Sound, Ordered
<1>2. m.entries = InsertAt(es, pl, x)
  BY DEF Appended
<1>3. /\ m.entries \in Seq(Entry(P, H)) /\ Len(m.entries) = Len(es) + 1
      /\ \A k \in 1..(Len(es) + 1) :
            m.entries[k] = IF k < pl THEN es[k] ELSE IF k = pl THEN x ELSE es[k - 1]
  <2> DEFINE S == Entry(P, H)
             t == InsertAt(es, pl, x)
  <2>1. es \in Seq(S) /\ x \in S /\ m.entries = t BY <1>0, <1>2
  <2> HIDE DEF m, pl, es, o, x, S
  <2>2. pl \in 1..(Len(es) + 1) BY <1>1
  <2>3. t \in Seq(S) /\ Len(t) = Len(es) + 1 /\ With(es, t, pl, x)
    BY <2>1, <2>2, InsertAtIndex
  <2> HIDE DEF t
  <2> QED BY <2>1, <2>3 DEF S, With
<1>p. f + pl \in 1..(Len(o) + 1)
  <2> HIDE DEF f, pl, es, o
  <2> QED BY <1>0, <1>f, <1>1
<1>n. /\ Len(es) \in Nat /\ Len(o) \in Nat /\ f \in Nat /\ f + Len(es) = Len(o)
      /\ pl \in Int /\ pl >= 1 /\ pl <= Len(es) + 1
  <2>1. Len(es) \in Nat /\ Len(o) \in Nat BY <1>0
  <2>2. f \in Nat /\ f + Len(es) = Len(o) BY <1>f
  <2>3. pl \in 1..(Len(es) + 1) BY <1>1
  <2> HIDE DEF f, pl, es, o
  <2> QED BY <2>1, <2>2, <2>3
<1>4. m.order \in Seq(H) /\ Len(m.order) = Len(o) + 1 /\ With(o, m.order, f + pl, h)
  <2>1. CASE pl > Len(es)
    <3>1. m.order = Append(o, h) BY <2>1 DEF Appended
    <3> HIDE DEF m, pl, es, o, x, f
    <3>2. f + pl = Len(o) + 1 BY <2>1, <1>n
    <3> QED BY <3>1, <3>2, <1>0 DEF With
  <2>2. CASE ~(pl > Len(es))
    <3>1. m.order = InsertAt(o, PositionOf(o, es[pl].handle), h)
      BY <2>2 DEF Appended, InsertBefore
    <3>2. pl \in DOMAIN es
      <4> HIDE DEF pl, es
      <4> QED BY <2>2, <1>0, <1>1
    <3>3. PositionOf(o, es[pl].handle) = f + pl
      BY <3>2, SamePlace DEF Sound
    <3> HIDE DEF m, pl, es, o, x, f
    <3> DEFINE t == InsertAt(o, f + pl, h)
    <3>4. m.order = t BY <3>1, <3>3
    <3>5. t \in Seq(H) /\ Len(t) = Len(o) + 1 /\ With(o, t, f + pl, h)
      BY <1>0, <1>p, InsertAtIndex
    <3> HIDE DEF t
    <3> QED BY <3>4, <3>5
  <2> QED BY <2>1, <2>2
<1>5. m \in List(P, H)
  <2>1. m = [entries |-> m.entries, order |-> m.order] BY DEF Appended
  <2> QED BY <2>1, <1>3, <1>4 DEF List
<1>6. DOMAIN m.entries = 1..(Len(es) + 1) /\ x.handle = h /\ x.priority = p
  BY <1>3, <1>0
<1>i. IsInjective(o) /\ h \notin Range(o) BY DEF Sound, Distinct
<1>g. Forgotten(m) = Len(m.order) - Len(m.entries) BY DEF Forgotten
<1> HIDE DEF m, pl, es, o, x, f
<1>7. Forgotten(m) = f
  <2>1. Len(m.order) = Len(o) + 1 /\ Len(m.entries) = Len(es) + 1 BY <1>3, <1>4
  <2> QED BY <2>1, <1>g, <1>n
<1>8. Agree(m)
  <2>1. ASSUME NEW k \in 1..(Len(es) + 1) PROVE m.order[f + k] = m.entries[k].handle
    <3>0. /\ k \in Int /\ pl \in Int /\ f + k \in 1..(Len(o) + 1)
          /\ (f + k < f + pl <=> k < pl) /\ (f + k = f + pl <=> k = pl)
      BY <1>0, <1>1, <1>f
    <3>1. m.order[f + k] = IF k < pl THEN o[f + k] ELSE IF k = pl THEN h ELSE o[f + k - 1]
      <4>1. \A j \in 1..(Len(o) + 1) : m.order[j] = IF j < f + pl THEN o[j]
                                                     ELSE IF j = f + pl THEN h ELSE o[j - 1]
        BY <1>4 DEF With
      <4> DEFINE z == f + k
      <4>2. z \in 1..(Len(o) + 1) BY <3>0
      <4>3. (z < f + pl <=> k < pl) /\ (z = f + pl <=> k = pl) BY <3>0
      <4> HIDE DEF z
      <4>4. m.order[z] = IF z < f + pl THEN o[z] ELSE IF z = f + pl THEN h ELSE o[z - 1]
        BY <4>1, <4>2
      <4>5. m.order[z] = IF k < pl THEN o[z] ELSE IF k = pl THEN h ELSE o[z - 1]
        BY <4>3, <4>4
      <4>6. z = f + k /\ z \in Int /\ f \in Int /\ k \in Int BY <3>0, <1>n DEF z
      <4> QED BY <4>5, <4>6
    <3>2. CASE k < pl
      <4>1. k \in DOMAIN es /\ m.entries[k] = es[k] BY <3>0, <3>2, <1>0, <1>1, <1>3
      <4> QED BY <4>1, <3>1, <3>2, <1>f
    <3>3. CASE k = pl
      BY <3>1, <3>3, <1>3, <1>6, <1>0, <1>1
    <3>4. CASE k > pl
      <4>1. k - 1 \in DOMAIN es /\ f + k - 1 = f + (k - 1) BY <3>0, <3>4, <1>0, <1>1, <1>f
      <4>2. o[f + k - 1] = es[k - 1].handle BY <4>1, <1>f
      <4>3. m.entries[k] = es[k - 1] BY <3>0, <3>4, <1>3
      <4> QED BY <4>2, <4>3, <3>0, <3>1, <3>4
    <3> QED BY <3>0, <3>2, <3>3, <3>4
  <2> QED BY <2>1, <1>6, <1>7, <1>f DEF Agree
<1>9. Range(m.order) = Range(o) \cup {h} /\ Distinct(m)
  <2> DEFINE t == m.order
             q == f + pl
  <2>1. o \in Seq(H) /\ t \in Seq(H) /\ q \in 1..(Len(o) + 1) /\ Len(t) = Len(o) + 1 /\ With(o, t, q, h)
    BY <1>0, <1>4, <1>p
  <2> HIDE DEF t, q
  <2>2. Range(t) = Range(o) \cup {h} /\ (IsInjective(o) /\ h \notin Range(o) => IsInjective(t))
    BY <2>1, WithElements
  <2> QED BY <2>2, <1>i DEF t, Distinct
<1>10. Ordered(m)
  <2>1. ASSUME NEW i \in 1..(Len(es) + 1), NEW j \in 1..(Len(es) + 1), i < j
        PROVE  m.entries[i].priority <= m.entries[j].priority
    <3>1. \A k \in 1..(Len(es) + 1) : k < pl =>
             k \in DOMAIN es /\ m.entries[k] = es[k] /\ es[k].priority <= p
      BY <1>0, <1>1, <1>3
    <3>2. \A k \in 1..(Len(es) + 1) : k > pl =>
             k - 1 \in DOMAIN es /\ m.entries[k] = es[k - 1] /\ es[k - 1].priority > p
      <4>1. ASSUME NEW k \in 1..(Len(es) + 1), k > pl
            PROVE  k - 1 \in DOMAIN es /\ k - 1 >= pl /\ m.entries[k] = es[k - 1]
        <5>1. Len(es) \in Nat /\ pl \in Int /\ k \in Int BY <1>0, <1>1
        <5>2. k - 1 \in 1..Len(es) /\ k - 1 >= pl BY <4>1, <5>1, <1>1
        <5>3. m.entries[k] = es[k - 1] BY <4>1, <5>1, <1>3
        <5> QED BY <5>2, <5>3, <1>0
      <4>2. \A k \in 1..(Len(es) + 1) : k > pl =>
               k - 1 \in DOMAIN es /\ k - 1 >= pl /\ m.entries[k] = es[k - 1]
        BY <4>1
      <4>3. \A n \in DOMAIN es : n >= pl => es[n].priority > p BY <1>1
      <4> QED BY <4>2, <4>3
    <3>3. m.entries[pl].priority = p
      BY <1>0, <1>1, <1>3, <1>6
    <3>4. \A a, b \in DOMAIN es : a < b => es[a].priority <= es[b].priority
      BY DEF Sound, Ordered, es
    <3>5. /\ pl \in Int /\ i \in Int /\ j \in Int /\ p \in Int
          /\ \A k \in DOMAIN es : es[k].priority \in Int
      <4>1. ASSUME NEW k \in DOMAIN es PROVE es[k].priority \in Int
        <5>1. es[k] \in Entry(P, H) BY <1>0
        <5> QED BY <5>1 DEF Entry
      <4>2. Len(es) \in Nat /\ pl \in Int BY <1>0, <1>1
      <4>3. i \in Int /\ j \in Int BY <4>2
      <4> QED BY <4>1, <4>2, <4>3
    <3>6. CASE j < pl
      <4>1. i < pl BY <2>1, <3>5, <3>6
      <4> QED BY <4>1, <2>1, <3>1, <3>4, <3>6
    <3>7. CASE j = pl
      <4>1. i < pl BY <2>1, <3>7
      <4> QED BY <4>1, <3>1, <3>3, <3>7
    <3>8. CASE j > pl /\ i = pl
      BY <3>2, <3>3, <3>5, <3>8
    <3>9. CASE j > pl /\ i < pl
      BY <3>1, <3>2, <3>5, <3>9
    <3>10. CASE j > pl /\ i > pl
      <4>1. i - 1 < j - 1 BY <2>1, <3>5
      <4> QED BY <4>1, <3>2, <3>4, <3>10
    <3> QED BY <3>5, <3>6, <3>7, <3>8, <3>9, <3>10
  <2> QED BY <2>1, <1>6 DEF Ordered
<1>11. With(es, m.entries, pl, x) BY <1>3 DEF With
<1>12. Inserted(l, m, pl, p, h)
  BY <1>1, <1>3, <1>4, <1>9, <1>11 DEF Inserted, es, o, x, f
<1> QED
  BY <1>5, <1>8, <1>9, <1>10, <1>12 DEF Sound, m, pl, es

\* If every entry stands, operator== tells none of them from a listener that
\* stands, and all of them from one that does not.
LEMMA KeptAllOrNone ==
  ASSUME NEW S, NEW l, l.entries \in Seq(S), NEW h,
         \A i \in DOMAIN l.entries : Live(l, l.entries[i].handle)
  PROVE  Kept(l, h) = IF Live(l, h) THEN <<>> ELSE l.entries
<1> DEFINE es == l.entries
           n == Len(es)
           stay[i \in 0..n] ==
             IF i = 0 THEN <<>>
             ELSE IF Live(l, es[i].handle) = Live(l, h) THEN stay[i - 1]
             ELSE Append(stay[i - 1], es[i])
           body(g, i) == IF i = 0 THEN <<>>
                         ELSE IF Live(l, es[i].handle) = Live(l, h) THEN g[i - 1]
                         ELSE Append(g[i - 1], es[i])
           some == [i \in 0..n |-> IF Live(l, h) THEN <<>> ELSE SubSeq(es, 1, i)]
<1>1. Kept(l, h) = stay[n] BY DEF Kept
<1>2. n \in Nat /\ DOMAIN es = 1..n OBVIOUS
<1>3. stay = CHOOSE g : g = [i \in 0..n |-> body(g, i)] BY DEF stay
<1> HIDE DEF stay
<1>4. \A i \in 1..n : (Live(l, es[i].handle) = Live(l, h)) <=> Live(l, h)
  BY <1>2 DEF Live
<1>5. some = [i \in 0..n |-> body(some, i)]
  <2>1. ASSUME NEW i \in 0..n PROVE some[i] = body(some, i)
    <3>1. CASE i = 0
      <4>1. SubSeq(es, 1, 0) = <<>> BY <1>2
      <4> QED BY <3>1, <4>1
    <3>2. CASE i # 0
      <4>1. i \in 1..n /\ i - 1 \in 0..n BY <1>2, <3>2
      <4>2. CASE Live(l, h)
        BY <1>4, <3>2, <4>1, <4>2
      <4>3. CASE ~Live(l, h)
        <5>1. Append(SubSeq(es, 1, i - 1), es[i]) = SubSeq(es, 1, i) BY <1>2, <4>1
        <5>2. some[i - 1] = SubSeq(es, 1, i - 1) /\ some[i] = SubSeq(es, 1, i) BY <4>1, <4>3
        <5>3. body(some, i) = Append(some[i - 1], es[i])
          <6>1. ~(Live(l, es[i].handle) = Live(l, h)) BY <1>4, <4>1, <4>3
          <6> HIDE DEF some
          <6> QED BY <3>2, <6>1
        <5> HIDE DEF body, some
        <5> QED BY <5>1, <5>2, <5>3
      <4> QED BY <4>2, <4>3
    <3> QED BY <3>1, <3>2
  <2> QED BY <2>1
<1>6. stay = [i \in 0..n |-> body(stay, i)]
  <2> HIDE DEF body, some
  <2> QED BY <1>3, <1>5
<1>7. \A i \in 0..n : stay[i] = some[i]
  <2> DEFINE T == {i \in 0..n : stay[i] # some[i]}
  <2>1. ASSUME T # {} PROVE FALSE
    <3>1. PICK i \in T : \A j \in T : i <= j
      <4>1. T \subseteq Nat BY <1>2
      <4> HIDE DEF T
      <4> QED BY <2>1, <4>1, LeastIndex
    <3>2. i \in 0..n /\ stay[i] # some[i] OBVIOUS
    <3>3. stay[i] = body(stay, i) /\ some[i] = body(some, i)
      <4> HIDE DEF body, some, stay
      <4> QED BY <1>5, <1>6, <3>2
    <3>4. CASE i = 0
      <4> HIDE DEF some, stay
      <4> QED BY <3>2, <3>3, <3>4
    <3>5. CASE i # 0
      <4>1. i - 1 \in 0..n /\ ~(i <= i - 1) BY <1>2, <3>2, <3>5
      <4>2. stay[i - 1] = some[i - 1] BY <3>1, <4>1
      <4> HIDE DEF some, stay
      <4> QED BY <3>2, <3>3, <3>5, <4>2
    <3> QED BY <3>4, <3>5
  <2> QED BY <2>1
<1>8. SubSeq(es, 1, n) = es BY <1>2, SubSeqFull
<1>9. n \in 0..n /\ stay[n] = some[n]
  <2>1. n \in 0..n BY <1>2
  <2> HIDE DEF stay, some
  <2> QED BY <1>7, <2>1
<1>10. some[n] = IF Live(l, h) THEN <<>> ELSE SubSeq(es, 1, n) BY <1>9
<1> QED BY <1>1, <1>8, <1>9, <1>10

\* removeListener() of a listener that stands takes that one from the callback
\* list and drops the entries of all; of another it changes nothing.
LEMMA RemovedSound ==
  ASSUME NEW P, NEW H, NEW l \in List(P, H), Sound(l), NEW h
  PROVE  /\ Removed(l, h) \in List(P, H)
         /\ Sound(Removed(l, h))
         /\ h \notin Range(l.order) => Removed(l, h) = l
         /\ h \in Range(l.order) => Deleted(l, Removed(l, h), PositionOf(l.order, h), h)
<1> DEFINE es == l.entries
           o == l.order
           m == Removed(l, h)
<1>0. /\ es \in Seq(Entry(P, H)) /\ o \in Seq(H) /\ l = [entries |-> es, order |-> o]
  BY DEF List
<1>1. \A i \in DOMAIN es : Live(l, es[i].handle)
  <2>1. ASSUME NEW i \in DOMAIN es PROVE es[i].handle \in Range(o)
    <3>1. Forgotten(l) + i \in DOMAIN o /\ o[Forgotten(l) + i] = es[i].handle
      BY SamePlace DEF Sound, Agree
    <3> QED BY <3>1 DEF Range
  <2> QED BY <2>1 DEF Live
<1>2. Kept(l, h) = IF Live(l, h) THEN <<>> ELSE es
  BY <1>0, <1>1, KeptAllOrNone
<1>3. CASE h \notin Range(o)
  <2>1. m = l BY <1>0, <1>2, <1>3 DEF Removed, Live
  <2> QED BY <2>1, <1>3
<1>4. CASE h \in Range(o)
  <2> DEFINE i == PositionOf(o, h)
             r == RemoveAt(o, i)
  <2>1. m = [entries |-> <<>>, order |-> r] BY <1>2, <1>4 DEF Removed, Live
  <2>2. IsInjective(o) BY DEF Sound, Distinct
  <2>3. i \in DOMAIN o /\ o[i] = h
    <3>1. PICK k \in DOMAIN o : o[k] = h BY <1>4 DEF Range
    <3> QED BY <2>2, <3>1, PositionIs
  <2> HIDE DEF i, o, es, m
  <2>4. DOMAIN o = 1..Len(o) /\ i \in 1..Len(o) /\ Len(o) \in Nat BY <1>0, <2>3
  <2>5. r \in Seq(H) /\ Len(r) = Len(o) - 1 /\ Without(o, r, i)
    BY <1>0, <2>4, RemoveAtIndex
  <2> HIDE DEF r
  <2>6. Range(r) = Range(o) \ {h} /\ IsInjective(r)
    <3>1. Range(r) = Range(o) \ {o[i]} /\ IsInjective(r)
      BY <1>0, <2>2, <2>4, <2>5, WithoutElements
    <3> QED BY <2>3, <3>1
  <2>7. m.entries = <<>> /\ m.order = r BY <2>1
  <2>8. m \in List(P, H) BY <2>1, <2>5 DEF List
  <2>9. DOMAIN m.entries = {} /\ Forgotten(m) >= 0
    <3>1. DOMAIN m.entries = {} /\ Len(m.entries) = 0 /\ Len(m.order) \in Nat
      BY <2>5, <2>7
    <3> QED BY <3>1 DEF Forgotten
  <2>10. Sound(m)
    BY <2>6, <2>7, <2>9 DEF Sound, Agree, Distinct, Ordered
  <2>11. Deleted(l, m, i, h)
    BY <2>3, <2>5, <2>6, <2>7 DEF Deleted, o
  <2> QED BY <1>4, <2>8, <2>10, <2>11 DEF m, i, o
<1> QED BY <1>3, <1>4
-----------------------------------------------------------------------------
(* The dispatcher *)

ListInv(t) ==
    /\ Sound(listeners[t])
    /\ Range(listeners[t].order) \subseteq Range(used[t])
    /\ Range(listeners[t].order) = Range(used[t]) => Forgotten(listeners[t]) = 0
    /\ IsInjective(used[t])

\* ForgottenFirst, of one type.
KeptBehind(t) ==
    LET l == listeners[t] IN
    \A i, j \in DOMAIN l.order :
        i <= Forgotten(l) /\ Forgotten(l) < j => Before(t, l.order[i], l.order[j])

OldFirst(t) ==
    LET es == listeners[t].entries IN
    \A i, j \in DOMAIN es :
        i < j /\ es[i].priority = es[j].priority => Before(t, es[i].handle, es[j].handle)

WalkInv ==
    current # NoType =>
        /\ at <= Len(listeners[current].order) + 1
        /\ called = SubSeq(listeners[current].order, 1, at - 1)

Idle == current = NoType => ~canceled

Inv ==
    /\ TypeOK
    /\ Idle
    /\ \A t \in EventTypes : ListInv(t)
    /\ \A t \in EventTypes : OldFirst(t) /\ KeptBehind(t)
    /\ WalkInv

LEMMA PrioritiesAreInts == PriorityRange \subseteq Int
BY DEF PriorityRange

LEMMA ListType ==
  ASSUME TypeOK, NEW t \in EventTypes
  PROVE  /\ listeners[t] \in List(PriorityRange, Handles)
         /\ used[t] \in Seq(Handles)
BY DEF TypeOK, List, Entries, Entry

\* Registering a handle moves no earlier one.
LEMMA PositionAppend ==
  ASSUME NEW S, NEW s \in Seq(S), NEW h \in S, h \notin Range(s),
         IsInjective(s)
  PROVE  /\ PositionOf(Append(s, h), h) = Len(s) + 1
         /\ \A g \in Range(s) : /\ PositionOf(s, g) \in 1..Len(s)
                                /\ PositionOf(Append(s, h), g) = PositionOf(s, g)
         /\ IsInjective(Append(s, h))
         /\ Range(Append(s, h)) = Range(s) \cup {h}
<1> DEFINE r == Append(s, h)
<1>1. /\ Len(s) \in Nat /\ DOMAIN s = 1..Len(s) /\ DOMAIN r = 1..(Len(s) + 1)
      /\ r[Len(s) + 1] = h /\ \A i \in 1..Len(s) : r[i] = s[i]
      /\ \A i, j \in DOMAIN s : s[i] = s[j] => i = j
  BY DEF IsInjective
<1>2. \A i \in DOMAIN s : s[i] # h
  BY DEF Range
<1> HIDE DEF r
<1>3. \A i, j \in DOMAIN r : r[i] = r[j] => i = j
  <2>1. \A i \in DOMAIN r : i = Len(s) + 1 \/ i \in DOMAIN s BY <1>1
  <2> QED BY <2>1, <1>1, <1>2
<1>4. PositionOf(r, h) = Len(s) + 1
  <2>1. Len(s) + 1 \in DOMAIN r BY <1>1
  <2> QED BY <2>1, <1>1, <1>3 DEF PositionOf
<1>5. ASSUME NEW g \in Range(s)
      PROVE  PositionOf(s, g) \in 1..Len(s) /\ PositionOf(r, g) = PositionOf(s, g)
  <2>1. PICK i \in DOMAIN s : s[i] = g BY DEF Range
  <2>2. PositionOf(s, g) = i BY <2>1 DEF PositionOf
  <2>3. i \in DOMAIN r /\ r[i] = g BY <2>1, <1>1
  <2>4. PositionOf(r, g) = i BY <2>3, <1>3 DEF PositionOf
  <2> QED BY <2>1, <2>2, <2>4, <1>1
<1>6. Range(r) = Range(s) \cup {h}
  <2>1. \A i \in DOMAIN r : r[i] \in Range(s) \cup {h}
    <3>1. \A i \in DOMAIN r : i = Len(s) + 1 \/ i \in DOMAIN s BY <1>1
    <3> QED BY <3>1, <1>1 DEF Range
  <2>2. \A i \in DOMAIN s : s[i] \in Range(r)
    <3>1. \A i \in DOMAIN s : i \in DOMAIN r /\ r[i] = s[i] BY <1>1
    <3> QED BY <3>1 DEF Range
  <2>3. h \in Range(r)
    <3>1. Len(s) + 1 \in DOMAIN r BY <1>1
    <3> QED BY <3>1, <1>1 DEF Range
  <2> QED BY <2>1, <2>2, <2>3 DEF Range
<1> QED BY <1>3, <1>4, <1>5, <1>6 DEF r, IsInjective

LEMMA InitInv == Init => Inv
<1> SUFFICES ASSUME Init PROVE Inv OBVIOUS
<1>1. ASSUME NEW t \in EventTypes
      PROVE  listeners[t].entries = <<>> /\ listeners[t].order = <<>> /\ used[t] = <<>>
  BY DEF Init, NoListeners
<1>2. TypeOK
  <2>1. NoListeners \in [entries : Seq(Entries), order : Seq(Handles)] BY DEF NoListeners
  <2>2. listeners \in [EventTypes -> [entries : Seq(Entries), order : Seq(Handles)]]
    BY <2>1 DEF Init
  <2>3. <<>> \in Seq(Handles) OBVIOUS
  <2>4. used \in [EventTypes -> Seq(Handles)] /\ called \in Seq(Handles) BY <2>3 DEF Init
  <2>5. current \in EventTypes \cup {NoType} /\ canceled \in BOOLEAN BY DEF Init
  <2>6. at \in Nat \ {0} BY DEF Init
  <2> QED BY <2>2, <2>4, <2>5, <2>6 DEF TypeOK
<1>3. ASSUME NEW t \in EventTypes PROVE ListInv(t) /\ OldFirst(t) /\ KeptBehind(t)
  <2>1. /\ DOMAIN listeners[t].entries = {} /\ DOMAIN listeners[t].order = {} /\ DOMAIN used[t] = {}
        /\ Len(listeners[t].order) = 0 /\ Len(listeners[t].entries) = 0
    BY <1>1
  <2>2. Range(listeners[t].order) = {} /\ Forgotten(listeners[t]) = 0
    BY <2>1 DEF Range, Forgotten
  <2> QED BY <2>1, <2>2 DEF ListInv, OldFirst, KeptBehind, Sound, Agree, Distinct, Ordered, IsInjective
<1>4. WalkInv /\ Idle BY DEF Init, WalkInv, Idle
<1> QED BY <1>2, <1>3, <1>4 DEF Inv

\* appendListener()
LEMMA AppendInv ==
  ASSUME Inv, NEW u \in EventTypes, NEW p \in PriorityRange, NEW h \in Handles,
         AppendListener(u, p, h)
  PROVE  Inv'
<1>1. /\ listeners[u] \in List(PriorityRange, Handles) /\ Sound(listeners[u])
      /\ used[u] \in Seq(Handles) /\ h \notin Range(used[u]) /\ h \notin Range(listeners[u].order)
  BY ListType DEF Inv, ListInv, AppendListener
<1> DEFINE l == listeners[u]
           m == Appended(l, p, h)
           pl == Place(l.entries, p)
           n == Len(l.entries)
           f == Forgotten(l)
<1>2. /\ m \in List(PriorityRange, Handles) /\ Sound(m) /\ Range(m.order) = Range(l.order) \cup {h}
      /\ pl \in 1..(n + 1) /\ Len(m.entries) = n + 1 /\ Len(m.order) = Len(l.order) + 1
      /\ \A k \in 1..(n + 1) :
            m.entries[k] = IF k < pl THEN l.entries[k]
                           ELSE IF k = pl THEN [priority |-> p, handle |-> h]
                           ELSE l.entries[k - 1]
      /\ \A k \in 1..(Len(l.order) + 1) :
            m.order[k] = IF k < f + pl THEN l.order[k]
                         ELSE IF k = f + pl THEN h
                         ELSE l.order[k - 1]
  <2>1. l \in List(PriorityRange, Handles) /\ Sound(l) /\ h \notin Range(l.order) BY <1>1
  <2> HIDE DEF l
  <2>2. m \in List(PriorityRange, Handles) /\ Sound(m) /\ Inserted(l, m, pl, p, h)
    BY <2>1, PrioritiesAreInts, AppendedSound
  <2> QED BY <2>2 DEF Inserted, With
<1>l. /\ n \in Nat /\ DOMAIN l.entries = 1..n /\ DOMAIN m.entries = 1..(n + 1)
      /\ f \in Nat /\ f + n = Len(l.order) /\ Forgotten(m) = f
      /\ DOMAIN l.order = 1..(f + n) /\ DOMAIN m.order = 1..(f + n + 1)
      /\ Len(used[u]) \in Nat
  <2>1. /\ l.entries \in Seq(Entry(PriorityRange, Handles)) /\ l.order \in Seq(Handles)
        /\ m.entries \in Seq(Entry(PriorityRange, Handles)) /\ m.order \in Seq(Handles)
        /\ Len(used[u]) \in Nat
    BY <1>1, <1>2 DEF List
  <2>2. f >= 0 /\ f = Len(l.order) - n /\ Forgotten(m) = Len(m.order) - Len(m.entries)
    BY <1>1 DEF Sound, Agree, Forgotten
  <2> HIDE DEF l, m, f
  <2>3. /\ n \in Nat /\ DOMAIN l.entries = 1..n /\ Len(l.order) \in Nat /\ DOMAIN l.order = 1..Len(l.order)
        /\ DOMAIN m.entries = 1..Len(m.entries) /\ DOMAIN m.order = 1..Len(m.order)
    BY <2>1
  <2> HIDE DEF n
  <2> QED BY <2>1, <2>2, <2>3, <1>2
<1>3. /\ listeners' = [listeners EXCEPT ![u] = m] /\ used' = [used EXCEPT ![u] = Append(@, h)]
      /\ listeners'[u] = m /\ used'[u] = Append(used[u], h)
      /\ \A t \in EventTypes \ {u} : listeners'[t] = listeners[t] /\ used'[t] = used[t]
      /\ UNCHANGED event /\ current = NoType
  BY DEF AppendListener, Inv, TypeOK
<1>4. TypeOK'
  <2>1. m \in [entries : Seq(Entries), order : Seq(Handles)]
    BY <1>2 DEF List, Entries, Entry
  <2>2. Append(used[u], h) \in Seq(Handles) BY <1>1
  <2> HIDE DEF m
  <2> QED BY <1>3, <2>1, <2>2 DEF Inv, TypeOK, event
<1>5. /\ PositionOf(Append(used[u], h), h) = Len(used[u]) + 1
      /\ \A g \in Range(used[u]) : /\ PositionOf(used[u], g) \in 1..Len(used[u])
                                   /\ PositionOf(Append(used[u], h), g) = PositionOf(used[u], g)
      /\ IsInjective(Append(used[u], h))
      /\ Range(Append(used[u], h)) = Range(used[u]) \cup {h}
  BY <1>1, PositionAppend DEF Inv, ListInv
<1>6. ListInv(u)'
  <2>1. Sound(listeners'[u]) BY <1>2, <1>3
  <2>2. Range(l.order) \subseteq Range(used[u]) /\ (Range(l.order) = Range(used[u]) => f = 0)
    BY DEF Inv, ListInv
  <2>3. Range(listeners'[u].order) = Range(l.order) \cup {h} /\ Forgotten(listeners'[u]) = f
    BY <1>2, <1>3, <1>l
  <2>4. Range(used'[u]) = Range(used[u]) \cup {h} BY <1>3, <1>5
  <2>5. h \notin Range(used[u]) BY <1>1
  <2>6. IsInjective(used'[u]) BY <1>3, <1>5
  <2> HIDE DEF l, f
  <2>7. Range(listeners'[u].order) = Range(used'[u]) => f = 0
    BY <2>2, <2>3, <2>4, <2>5
  <2> QED BY <2>1, <2>2, <2>3, <2>4, <2>6, <2>7 DEF ListInv
<1>7. OldFirst(u)'
  <2>0. /\ n \in Nat /\ DOMAIN l.entries = 1..n /\ DOMAIN m.entries = 1..(n + 1)
        /\ Len(used[u]) \in Nat
    BY <1>l
  <2>1. \A k \in DOMAIN l.entries : l.entries[k].handle \in Range(used[u])
    <3>1. \A k \in DOMAIN l.entries : f + k \in DOMAIN l.order /\ l.order[f + k] = l.entries[k].handle
      <4>1. \A k \in DOMAIN l.entries : l.order[f + k] = l.entries[k].handle
        BY <1>1 DEF Sound, Agree
      <4> HIDE DEF l, f, n
      <4> QED BY <4>1, <1>l
    <3>2. Range(l.order) \subseteq Range(used[u]) BY DEF Inv, ListInv
    <3> QED BY <3>1, <3>2 DEF Range
  <2>2. \A i, j \in DOMAIN l.entries :
           i < j /\ l.entries[i].priority = l.entries[j].priority =>
             PositionOf(used[u], l.entries[i].handle) < PositionOf(used[u], l.entries[j].handle)
    BY DEF Inv, OldFirst, Before
  <2>3. \A k \in DOMAIN l.entries : k >= pl => l.entries[k].priority # p
    <3>1. \A k \in DOMAIN l.entries : k >= pl => l.entries[k].priority > p
      <4>1. /\ l.entries \in Seq(Entry(PriorityRange, Handles))
            /\ \A i, j \in DOMAIN l.entries : i < j => l.entries[i].priority <= l.entries[j].priority
        BY <1>1 DEF List, Sound, Ordered
      <4> HIDE DEF l
      <4> QED BY <4>1, PrioritiesAreInts, PlaceSplits
    <3>2. p \in Int BY PrioritiesAreInts
    <3> QED BY <3>1, <3>2
  <2> DEFINE x == [priority |-> p, handle |-> h]
  <2>4. x.priority = p /\ x.handle = h OBVIOUS
  <2> HIDE DEF l, m, pl, n, x
  <2>5. ASSUME NEW i \in 1..(n + 1), NEW j \in 1..(n + 1), i < j,
               m.entries[i].priority = m.entries[j].priority
        PROVE  PositionOf(Append(used[u], h), m.entries[i].handle)
                 < PositionOf(Append(used[u], h), m.entries[j].handle)
    <3>0. i \in Int /\ j \in Int /\ pl \in Int BY <1>2, <2>0
    <3>1. ASSUME NEW k \in 1..(n + 1), k < pl
          PROVE  k \in DOMAIN l.entries /\ m.entries[k] = l.entries[k]
      BY <3>1, <1>2, <2>0
    <3>2. ASSUME NEW k \in 1..(n + 1), k > pl
          PROVE  k - 1 \in DOMAIN l.entries /\ k - 1 >= pl /\ m.entries[k] = l.entries[k - 1]
      BY <3>2, <1>2, <2>0
    <3>3. m.entries[pl] = x BY <1>2, <2>0 DEF x
    <3>4. CASE j < pl
      <4>1. i < pl BY <2>5, <3>0, <3>4
      <4> QED BY <2>5, <3>1, <3>4, <4>1, <2>1, <2>2, <1>5
    <3>5. CASE j = pl
      <4>1. i < pl BY <2>5, <3>5
      <4>2. m.entries[i].handle \in Range(used[u]) BY <4>1, <3>1, <2>1
      <4> QED BY <4>2, <3>3, <3>5, <2>4, <2>0, <1>5
    <3>6. CASE j > pl /\ i = pl
      BY <2>5, <3>2, <3>3, <3>6, <2>3, <2>4
    <3>7. CASE j > pl /\ i < pl
      <4>1. i < j - 1 BY <3>0, <3>7
      <4> QED BY <2>5, <3>1, <3>2, <3>7, <4>1, <2>1, <2>2, <1>5
    <3>8. CASE j > pl /\ i > pl
      <4>1. i - 1 < j - 1 BY <2>5, <3>0
      <4> QED BY <2>5, <3>2, <3>8, <4>1, <2>1, <2>2, <1>5
    <3> QED BY <3>0, <3>4, <3>5, <3>6, <3>7, <3>8
  <2> DEFINE v == Append(used[u], h)
  <2>6. listeners'[u] = m /\ used'[u] = v BY <1>3
  <2>7. \A i, j \in DOMAIN m.entries :
           i < j /\ m.entries[i].priority = m.entries[j].priority =>
             PositionOf(v, m.entries[i].handle) < PositionOf(v, m.entries[j].handle)
    BY <2>0, <2>5
  <2> HIDE DEF v
  <2> QED BY <2>6, <2>7 DEF OldFirst, Before
<1>b. KeptBehind(u)'
  <2>1. \A g \in Range(used[u]) : PositionOf(Append(used[u], h), g) = PositionOf(used[u], g)
                                  /\ PositionOf(used[u], g) <= Len(used[u])
    BY <1>5, <1>l
  <2>2. \A k \in DOMAIN l.order : l.order[k] \in Range(used[u])
    <3>1. Range(l.order) \subseteq Range(used[u]) BY DEF Inv, ListInv
    <3> QED BY <3>1 DEF Range
  <2>3. \A i, j \in DOMAIN l.order : i <= f /\ f < j =>
           PositionOf(used[u], l.order[i]) < PositionOf(used[u], l.order[j])
    BY DEF Inv, KeptBehind, Before
  <2>4. ASSUME NEW i \in DOMAIN m.order, NEW j \in DOMAIN m.order, i <= f, f < j
        PROVE  PositionOf(Append(used[u], h), m.order[i]) < PositionOf(Append(used[u], h), m.order[j])
    <3> HIDE DEF l, m, pl, n, f
    <3>0. i \in Int /\ j \in Int /\ pl \in Int /\ pl >= 1 /\ pl <= n + 1 BY <1>2, <1>l
    <3>1. i \in DOMAIN l.order /\ m.order[i] = l.order[i]
      <4>1. i \in 1..(f + n) /\ i < f + pl BY <2>4, <3>0, <1>l
      <4>2. m.order[i] = l.order[i] BY <4>1, <1>2, <1>l
      <4> QED BY <4>1, <4>2, <1>l
    <3>2. j \in 1..(Len(l.order) + 1) BY <1>l
    <3>3. CASE j < f + pl
      <4>1. j \in DOMAIN l.order BY <3>0, <3>2, <3>3, <1>l
      <4>2. m.order[j] = l.order[j] BY <3>2, <3>3, <1>2
      <4> QED BY <2>1, <2>2, <2>3, <2>4, <3>1, <4>1, <4>2
    <3>4. CASE j = f + pl
      <4>1. m.order[j] = h BY <3>0, <3>2, <3>4, <1>2, <1>l
      <4>2. l.order[i] \in Range(used[u]) BY <2>2, <3>1
      <4>3. PositionOf(used[u], l.order[i]) \in 1..Len(used[u]) BY <4>2, <1>5
      <4> QED BY <2>1, <3>1, <4>1, <4>2, <4>3, <1>5, <1>l
    <3>5. CASE j > f + pl
      <4>1. j - 1 \in DOMAIN l.order /\ f < j - 1 BY <3>0, <3>2, <3>5, <1>l
      <4>2. m.order[j] = l.order[j - 1]
        <5>1. ~(j < f + pl) /\ j # f + pl BY <3>0, <3>5, <1>l
        <5> QED BY <3>2, <5>1, <1>2
      <4> QED BY <2>1, <2>2, <2>3, <2>4, <3>1, <4>1, <4>2
    <3>6. j < f + pl \/ j = f + pl \/ j > f + pl
      <4>1. f \in Int BY <1>l
      <4> QED BY ONLY <3>0, <4>1
    <3> QED BY ONLY <3>3, <3>4, <3>5, <3>6
  <2> DEFINE v == Append(used[u], h)
  <2>5. listeners'[u] = m /\ used'[u] = v /\ Forgotten(m) = f BY <1>3, <1>l
  <2>6. \A i, j \in DOMAIN m.order : i <= f /\ f < j =>
           PositionOf(v, m.order[i]) < PositionOf(v, m.order[j])
    BY <2>4
  <2> HIDE DEF v, m, f
  <2> QED BY <2>5, <2>6 DEF KeptBehind, Before
<1>8. ASSUME NEW t \in EventTypes, t # u PROVE ListInv(t)' /\ OldFirst(t)' /\ KeptBehind(t)'
  <2>1. listeners'[t] = listeners[t] /\ used'[t] = used[t] BY <1>3, <1>8
  <2> QED BY <2>1 DEF Inv, ListInv, OldFirst, KeptBehind, Before
<1>9. WalkInv' /\ Idle' BY <1>3 DEF Inv, Idle, WalkInv, event
<1> QED BY <1>4, <1>6, <1>7, <1>b, <1>8, <1>9 DEF Inv

\* removeListener()
LEMMA RemoveInv ==
  ASSUME Inv, NEW u \in EventTypes, NEW h \in Handles, RemoveListener(u, h)
  PROVE  Inv'
<1>1. /\ listeners' = [listeners EXCEPT ![u] = Removed(@, h)]
      /\ listeners'[u] = Removed(listeners[u], h) /\ used' = used
      /\ \A t \in EventTypes \ {u} : listeners'[t] = listeners[t]
      /\ UNCHANGED event /\ current = NoType
  BY DEF RemoveListener, Inv, TypeOK
<1>2. listeners[u] \in List(PriorityRange, Handles) /\ Sound(listeners[u])
  BY ListType DEF Inv, ListInv
<1>3. WalkInv' /\ Idle' BY <1>1 DEF Inv, Idle, WalkInv, event
<1>4. ASSUME NEW t \in EventTypes, t # u PROVE ListInv(t)' /\ OldFirst(t)' /\ KeptBehind(t)'
  <2>1. listeners'[t] = listeners[t] /\ used'[t] = used[t] BY <1>1, <1>4
  <2> QED BY <2>1 DEF Inv, ListInv, OldFirst, KeptBehind, Before
<1>5. /\ Removed(listeners[u], h) \in List(PriorityRange, Handles) /\ Sound(Removed(listeners[u], h))
      /\ h \notin Range(listeners[u].order) => Removed(listeners[u], h) = listeners[u]
      /\ h \in Range(listeners[u].order) =>
            Deleted(listeners[u], Removed(listeners[u], h), PositionOf(listeners[u].order, h), h)
  BY <1>2, RemovedSound
<1>6. TypeOK'
  <2> DEFINE m == Removed(listeners[u], h)
  <2>1. m \in [entries : Seq(Entries), order : Seq(Handles)]
    BY <1>5 DEF List, Entries, Entry
  <2> HIDE DEF m
  <2> QED BY <1>1, <2>1 DEF Inv, TypeOK, event, m
<1>7. CASE h \notin Range(listeners[u].order)
  <2>1. listeners'[u] = listeners[u] /\ used'[u] = used[u] BY <1>1, <1>5, <1>7
  <2>2. ListInv(u)' /\ OldFirst(u)' /\ KeptBehind(u)'
    BY <2>1 DEF Inv, ListInv, OldFirst, KeptBehind, Before
  <2> QED BY <2>2, <1>3, <1>4, <1>6 DEF Inv
<1>8. CASE h \in Range(listeners[u].order)
  <2> DEFINE m == Removed(listeners[u], h)
  <2>1. /\ m \in List(PriorityRange, Handles) /\ Sound(m) /\ m.entries = <<>>
        /\ Range(m.order) = Range(listeners[u].order) \ {h}
    BY <1>5, <1>8 DEF Deleted
  <2>2. Range(listeners[u].order) \subseteq Range(used[u]) /\ IsInjective(used[u]) BY DEF Inv, ListInv
  <2>3. listeners'[u] = m /\ used'[u] = used[u] BY <1>1
  <2> HIDE DEF m
  <2>4. Range(m.order) \subseteq Range(used[u]) /\ Range(m.order) # Range(used[u])
    BY <1>8, <2>1, <2>2
  <2>5. ListInv(u)' BY <2>1, <2>2, <2>3, <2>4 DEF ListInv
  <2>6. DOMAIN m.entries = {} /\ Forgotten(m) = Len(m.order) /\ DOMAIN m.order = 1..Len(m.order)
        /\ Len(m.order) \in Nat
    <3>1. m.order \in Seq(Handles) BY <2>1 DEF List
    <3>2. DOMAIN m.entries = {} /\ Len(m.entries) = 0 BY <2>1
    <3>3. DOMAIN m.order = 1..Len(m.order) /\ Len(m.order) \in Nat BY <3>1
    <3> QED BY <3>2, <3>3 DEF Forgotten
  <2>7. OldFirst(u)' BY <2>3, <2>6 DEF OldFirst
  <2>8. KeptBehind(u)'
    <3>1. \A j \in DOMAIN m.order : ~(Forgotten(m) < j) BY <2>6
    <3> QED BY <2>3, <3>1 DEF KeptBehind
  <2> QED BY <2>5, <2>7, <2>8, <1>3, <1>4, <1>6 DEF Inv
<1> QED BY <1>7, <1>8

LEMMA DispatchInv ==
  ASSUME Inv, NEW t \in EventTypes, Dispatch(t)
  PROVE  Inv'
<1>1. UNCHANGED <<listeners, used>> /\ current' = t /\ at' = 1 /\ canceled' = FALSE /\ called' = <<>>
  BY DEF Dispatch
<1>2. \A u \in EventTypes : ListInv(u)' /\ OldFirst(u)' /\ KeptBehind(u)'
  BY <1>1 DEF Inv, ListInv, OldFirst, KeptBehind, Before
<1>3. TypeOK'
  <2>1. called' \in Seq(Handles) BY <1>1
  <2>2. at' \in Nat \ {0} BY <1>1
  <2> QED BY <1>1, <2>1, <2>2 DEF Inv, TypeOK
<1>4. WalkInv'
  <2>1. listeners[t].order \in Seq(Handles) /\ Len(listeners[t].order) \in Nat
    BY ListType DEF Inv, List
  <2>2. SubSeq(listeners[t].order, 1, 0) = <<>>
    BY <2>1, SubSeqEmpty
  <2> QED BY <1>1, <2>1, <2>2 DEF WalkInv
<1>5. Idle' BY <1>1 DEF Idle
<1> QED BY <1>2, <1>3, <1>4, <1>5 DEF Inv

LEMMA InvokeInv ==
  ASSUME Inv, NEW cancels \in BOOLEAN, Invoke(cancels)
  PROVE  Inv'
<1> DEFINE o == listeners[current].order
<1>1. /\ UNCHANGED <<listeners, used, current>> /\ current \in EventTypes /\ current # NoType
      /\ called' = Append(called, o[at]) /\ at' = at + 1 /\ canceled' = cancels
      /\ at <= Len(o)
  BY DEF Invoke, CanContinue, Inv, TypeOK
<1>2. o \in Seq(Handles) /\ Len(o) \in Nat /\ at \in Nat \ {0} /\ called = SubSeq(o, 1, at - 1)
  BY <1>1, ListType DEF Inv, TypeOK, List, WalkInv
<1>3. \A u \in EventTypes : ListInv(u)' /\ OldFirst(u)' /\ KeptBehind(u)'
  BY <1>1 DEF Inv, ListInv, OldFirst, KeptBehind, Before
<1> HIDE DEF o
<1>4. o[at] \in Handles BY <1>1, <1>2
<1>5. TypeOK'
  <2>1. called' \in Seq(Handles) BY <1>1, <1>4 DEF Inv, TypeOK
  <2>2. at' \in Nat \ {0} BY <1>1, <1>2
  <2> QED BY <1>1, <2>1, <2>2 DEF Inv, TypeOK
<1>6. called' = SubSeq(o, 1, at)
  BY <1>1, <1>2
<1>7. WalkInv'
  BY <1>1, <1>2, <1>6 DEF WalkInv, o
<1>8. Idle' BY <1>1 DEF Idle
<1> QED BY <1>3, <1>5, <1>7, <1>8 DEF Inv

LEMMA ReturnInv ==
  ASSUME Inv, Return
  PROVE  Inv'
<1>1. UNCHANGED <<listeners, used>> /\ current' = NoType /\ at' = 1 /\ canceled' = FALSE /\ called' = <<>>
  BY DEF Return
<1>2. \A u \in EventTypes : ListInv(u)' /\ OldFirst(u)' /\ KeptBehind(u)'
  BY <1>1 DEF Inv, ListInv, OldFirst, KeptBehind, Before
<1>3. TypeOK'
  <2>1. called' \in Seq(Handles) BY <1>1
  <2>2. at' \in Nat \ {0} BY <1>1
  <2> QED BY <1>1, <2>1, <2>2 DEF Inv, TypeOK
<1>4. WalkInv' BY <1>1 DEF WalkInv
<1>5. Idle' BY <1>1 DEF Idle
<1> QED BY <1>2, <1>3, <1>4, <1>5 DEF Inv

THEOREM Invariance == Spec => []Inv
<1>1. Inv /\ [Next]_vars => Inv'
  <2> SUFFICES ASSUME Inv, [Next]_vars PROVE Inv' OBVIOUS
  <2>1. CASE UNCHANGED vars
    BY <2>1 DEF vars, Inv, TypeOK, Idle, ListInv, OldFirst, KeptBehind, Before, WalkInv
  <2>2. CASE Next
    BY <2>2, AppendInv, RemoveInv, DispatchInv, InvokeInv, ReturnInv DEF Next
  <2> QED BY <2>1, <2>2
<1> QED BY InitInv, <1>1, PTL DEF Spec

\* Every variable keeps its type (the dispatcher of event.hpp 171-229).
THEOREM TypeCorrect == Spec => []TypeOK
BY Invariance, PTL DEF Inv

\* After any additions and removals handles_ holds the end of the callback list,
\* and all of it if no listener was removed; none stands twice.
THEOREM AlwaysInSync == Spec => []InSync
<1>1. Inv => InSync BY DEF Inv, ListInv, Sound, InSync
<1> QED BY <1>1, Invariance, PTL

\* The insertions of appendListener() alone keep the priorities of the
\* listeners that handles_ knows in order.
THEOREM AlwaysSorted == Spec => []Sorted
<1>1. Inv => Sorted BY DEF Inv, ListInv, Sound, Sorted
<1> QED BY <1>1, Invariance, PTL

\* Of two such listeners with one priority the first to register is first.
THEOREM AlwaysStable == Spec => []Stable
<1>1. Inv => Stable BY DEF Inv, OldFirst, Stable
<1> QED BY <1>1, Invariance, PTL

\* Whatever its priority, a listener that registers after a removal is called
\* after all that were there before it.
THEOREM RemovalForgets == Spec => []ForgottenFirst
<1>1. Inv => ForgottenFirst BY DEF Inv, KeptBehind, ForgottenFirst
<1> QED BY <1>1, Invariance, PTL

\* A dispatch gives the event to every listener, in order, until it is canceled.
THEOREM AllServed == Spec => []Served
<1>1. Inv => Served
  <2> SUFFICES ASSUME Inv, current # NoType
               PROVE  /\ called = SubSeq(listeners[current].order, 1, at - 1)
                      /\ ~canceled /\ ~CanContinue => Range(called) = Range(listeners[current].order)
    BY DEF Served
  <2> DEFINE l == listeners[current]
             o == l.order
  <2>1. current \in EventTypes BY DEF Inv, TypeOK
  <2>2. /\ o \in Seq(Handles) /\ Len(o) \in Nat /\ at \in Nat \ {0}
        /\ at <= Len(o) + 1 /\ called = SubSeq(o, 1, at - 1)
    <3>1. /\ at \in Nat \ {0} /\ at <= Len(o) + 1 /\ called = SubSeq(o, 1, at - 1)
      BY <2>1 DEF Inv, TypeOK, WalkInv
    <3>2. o \in Seq(Handles) BY <2>1, ListType DEF Inv, List
    <3> HIDE DEF l
    <3> QED BY <3>1, <3>2
  <2> HIDE DEF l
  <2>3. ASSUME ~canceled, ~CanContinue PROVE Range(called) = Range(o)
    <3>1. at = Len(o) + 1 BY <2>2, <2>3, SMTT(30) DEF CanContinue, l
    <3>2. called = SubSeq(o, 1, Len(o)) BY <3>1, <2>2
    <3>3. called = o BY <2>2, <3>2, SubSeqFull
    <3> QED BY <3>3
  <2> QED BY <2>2, <2>3 DEF l
<1> QED BY <1>1, Invariance, PTL

\* No listener sees a canceled event.
THEOREM CancellationIsFinal == Spec => CancelIsFinal
<1>1. Inv /\ [Next]_vars => [canceled => called' = called \/ current' = NoType]_vars
  <2> SUFFICES ASSUME Inv, Next, canceled PROVE called' = called \/ current' = NoType
    OBVIOUS
  <2>1. CASE \E t \in EventTypes, p \in PriorityRange, h \in Handles : AppendListener(t, p, h)
    BY <2>1 DEF AppendListener, event
  <2>2. CASE \E t \in EventTypes, h \in Handles : RemoveListener(t, h)
    BY <2>2 DEF RemoveListener, event
  <2>3. CASE \E t \in EventTypes : Dispatch(t)
    BY <2>3 DEF Dispatch, Inv, Idle
  <2>4. CASE \E cancels \in BOOLEAN : Invoke(cancels)
    BY <2>4 DEF Invoke, CanContinue
  <2>5. CASE Return
    BY <2>5 DEF Return
  <2> QED BY <2>1, <2>2, <2>3, <2>4, <2>5 DEF Next
<1> QED BY <1>1, Invariance, PTL DEF Spec, CancelIsFinal
=============================================================================
