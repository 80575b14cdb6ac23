-------------------------- MODULE PacketPathProofs --------------------------
(***************************************************************************)
(* What holds of a packet's way through the proxy, for all packets, any    *)
(* number of callbacks and whatever the scripts do: Init establishes Inv,  *)
(* every step keeps it, and it implies the properties.  The dispatcher is  *)
(* used as EventDispatcher specifies it.                                   *)
(***************************************************************************)
EXTENDS PacketPath, WellFoundedInduction, SequenceTheorems, TLAPS

\* Who is served, and in which order, once the core is built.
ServedBy(t) ==
    CASE t = "Input" -> <<"commands", "bridge">>
      [] t \in {"Quit", "OnSendToServer"} -> <<"bridge", "connection">>
      [] t = "Log" -> <<"bridge">>
      [] t \in RawEvents -> <<"bridge", "forwarding">>

\* The calls of Construction for a type; Log has one.
FirstCall(t) ==
    CASE t = "OnSendToServer" -> 1 [] t = "Quit" -> 2 [] t = "ClientBoundPacket" -> 3
      [] t = "ServerBoundPacket" -> 4 [] t = "Input" -> 5 [] t = "Log" -> 11
SecondCall(t) ==
    CASE t = "ServerBoundPacket" -> 6 [] t = "ClientBoundPacket" -> 7 [] t = "Input" -> 8
      [] t = "Quit" -> 9 [] t = "OnSendToServer" -> 10 [] t = "Log" -> 12

EntryFor(c) == [priority |-> c[3], handle |-> c[1]]
One(c) == [entries |-> <<EntryFor(c)>>, order |-> <<c[1]>>]
Two(c, d) == [entries |-> <<EntryFor(c), EntryFor(d)>>, order |-> <<c[1], d[1]>>]

\* The listeners of a type after n calls: a later one of higher priority goes first.
Standing(t, n) ==
    IF n < FirstCall(t) THEN NoListeners
    ELSE LET c == Construction[FirstCall(t)] IN
         IF n < SecondCall(t) THEN One(c)
         ELSE LET d == Construction[SecondCall(t)] IN
              IF c[3] > d[3] THEN Two(d, c) ELSE Two(c, d)

\* Who has registered after n calls.
Registrants(t, n) ==
    IF n < FirstCall(t) THEN <<>>
    ELSE IF n < SecondCall(t) THEN <<Construction[FirstCall(t)][1]>>
    ELSE <<Construction[FirstCall(t)][1], Construction[SecondCall(t)][1]>>

Entry == [priority : -128..127, handle : Components]
List == [entries : Seq(Entry), order : Seq(Components)]

\* Every entry is of a listener that stands.
InStep(l) == \A i \in DOMAIN l.entries : Live(l, l.entries[i].handle)

ListsInv ==
    /\ \A t \in EventTypes : InStep(listeners[t])
    /\ pc # "destruct" => \A t \in EventTypes : listeners[t] = Standing(t, built)
    /\ \A t \in EventTypes : used[t] = Registrants(t, IF pc = "construct" THEN built ELSE 11)
    /\ pc \notin {"construct", "destruct"} => built = 11

\* The bridge's place among the listeners.
BridgeAt(t) == IF t = "Input" THEN 2 ELSE 1
LastPlace(t) == IF t = "Log" THEN 1 ELSE 2

Dispatching == pc \in {"dispatch", "command", "bridge", "callback"}
InBridge == pc \in {"bridge", "callback"}

\* Where the main thread is, and with which event of which packet.
FlowInv ==
    /\ Dispatching <=> current # NoType
    /\ pc = "construct" => packet = NoPacket
    /\ Dispatching \/ pc = "emitted" => packet \in Packets /\ ~Malformed(packet)
    /\ Dispatching => /\ current \in {FirstEvent(packet), RawEvent(packet)}
                      /\ at \in 1..(LastPlace(current) + 1)
    /\ pc = "command" => current = "Input" /\ at = 1 /\ ~canceled
    /\ InBridge => at = BridgeAt(current)
    /\ pc = "emitted" => FirstEvent(packet) \in TypedEvents
    /\ pc = "emitted" \/ current \in TypedEvents => serial < MaxEvents

ContextsInv == valid = IF InBridge THEN {serial} ELSE {}

\* The callbacks that are still to run, those that ran, and those there were.
RoundInv ==
    Dispatching =>
        /\ Range(ran) \subseteq Audience
        /\ \A i, j \in DOMAIN ran :
              i < j => ran[i] # ran[j] /\ ran[i].priority <= ran[j].priority
        /\ at <= BridgeAt(current) /\ ~InBridge => ran = <<>>
        /\ pc = "dispatch" /\ at <= BridgeAt(current) /\ ~canceled => callbacks = known
        /\ InBridge => /\ todo \cup Range(ran) = Audience
                       /\ todo \cap Range(ran) = {}
                       /\ \A i \in DOMAIN ran : \A d \in todo : ran[i].priority <= d.priority
        /\ at > BridgeAt(current) /\ ~canceled => Range(ran) = Audience

\* Of an event that is over only the packet's fate is left.
FateInv ==
    /\ Dispatching \/ pc = "emitted" => (fate.vetoed <=> canceled)
    /\ (Dispatching /\ current \in TypedEvents) \/ pc = "emitted" => fate.written = 0
    /\ Dispatching /\ current = "OnSendToServer" /\ at = 3 => canceled
    /\ (pc = "emitted" /\ ~canceled) \/ (Dispatching /\ current \in RawEvents)
           => FirstEvent(packet) # "OnSendToServer"
    /\ Dispatching /\ current \in RawEvents =>
           IF at = 3 THEN ~canceled /\ fate.written = IF up[Other(packet.from)] THEN 1 ELSE 0
           ELSE fate.written = 0
    /\ fate.commanded =>
           /\ fate.written = 0 /\ ran = <<>>
           /\ Dispatching \/ pc = "emitted" =>
                 pc = "command" \/ (canceled /\ pc \in {"dispatch", "emitted"})
    /\ Arrived => fate.written = IF Deliverable THEN 1 ELSE 0

Inv == TypeOK /\ ListsInv /\ FlowInv /\ ContextsInv /\ RoundInv /\ FateInv
-----------------------------------------------------------------------------
(* Listeners *)

\* The lists of a dispatcher nobody has registered with, of one and of two listeners.
LEMMA FewStand ==
  /\ NoListeners \in List /\ InStep(NoListeners)
  /\ \A c : c[3] \in -128..127 /\ c[1] \in Components => One(c) \in List /\ InStep(One(c))
  /\ \A c, d : /\ c[3] \in -128..127 /\ c[1] \in Components
               /\ d[3] \in -128..127 /\ d[1] \in Components /\ c[1] # d[1]
               => Two(c, d) \in List /\ InStep(Two(c, d))
<1>1. NoListeners \in List /\ InStep(NoListeners)
  BY DEF NoListeners, List, InStep
<1>2. ASSUME NEW c, c[3] \in -128..127, c[1] \in Components
      PROVE  One(c) \in List /\ InStep(One(c))
  <2>1. EntryFor(c) \in Entry /\ EntryFor(c).handle = c[1] BY <1>2 DEF EntryFor, Entry
  <2>2. One(c) \in List BY <1>2, <2>1 DEF One, List
  <2>3. InStep(One(c)) BY <2>1 DEF One, InStep, Live, Range
  <2> QED BY <2>2, <2>3
<1>3. ASSUME NEW c, c[3] \in -128..127, c[1] \in Components,
             NEW d, d[3] \in -128..127, d[1] \in Components, c[1] # d[1]
      PROVE  Two(c, d) \in List /\ InStep(Two(c, d))
  <2>1. EntryFor(c) \in Entry /\ EntryFor(c).handle = c[1] BY <1>3 DEF EntryFor, Entry
  <2>2. EntryFor(d) \in Entry /\ EntryFor(d).handle = d[1] BY <1>3 DEF EntryFor, Entry
  <2>3. Two(c, d) \in List BY <1>3, <2>1, <2>2 DEF Two, List
  <2>4. InStep(Two(c, d)) BY <1>3, <2>1, <2>2 DEF Two, InStep, Live, Range
  <2> QED BY <2>3, <2>4
<1> QED BY <1>1, <1>2, <1>3

\* Two elements, one after the other.
LEMMA Pairs ==
  ASSUME NEW a, NEW b
  PROVE  <<a>> \o <<b>> = <<a, b>> /\ Append(<<a>>, b) = <<a, b>>
<1> DEFINE S == {a, b}
           s == <<a>>
           t == <<b>>
           u == <<a, b>>
<1>1. s \in Seq(S) /\ Len(s) = 1 /\ s[1] = a /\ t \in Seq(S) /\ Len(t) = 1 /\ t[1] = b OBVIOUS
<1>2. u \in Seq(S) /\ Len(u) = 2 /\ u[1] = a /\ u[2] = b OBVIOUS
<1>3. b \in S OBVIOUS
<1> HIDE DEF S, s, t, u
<1>4. s \o t = u
  <2>1. /\ s \o t \in Seq(S) /\ Len(s \o t) = Len(s) + Len(t)
        /\ \A i \in 1..(Len(s) + Len(t)) : (s \o t)[i] = IF i <= Len(s) THEN s[i] ELSE t[i - Len(s)]
    BY <1>1, ConcatProperties
  <2>2. Len(s \o t) = Len(u) /\ \A i \in 1..Len(u) : (s \o t)[i] = u[i] BY <1>1, <1>2, <2>1
  <2> QED BY <1>2, <2>1, <2>2, SeqEqual
<1>5. Append(s, b) = s \o <<b>> BY <1>1, <1>3, AppendIsConcat
<1> QED BY <1>4, <1>5 DEF s, t, u

\* Inserting into a sequence of no or one element.
LEMMA InsertFew ==
  ASSUME NEW a, NEW b
  PROVE  /\ InsertAt(<<>>, 1, b) = <<b>>
         /\ InsertAt(<<a>>, 1, b) = <<b, a>>
         /\ InsertAt(<<a>>, 2, b) = <<a, b>>
<1> DEFINE S == {a, b}
           e == <<>>
           s == <<a>>
           t == <<b>>
<1>1. /\ e \in Seq(S) /\ Len(e) = 0 /\ s \in Seq(S) /\ Len(s) = 1 /\ s[1] = a
      /\ t \in Seq(S) /\ Len(t) = 1 /\ t[1] = b
  OBVIOUS
<1>2. SubSeq(e, 1, 0) = e /\ SubSeq(s, 1, 0) = e /\ SubSeq(s, 2, 1) = e BY SubSeqEmpty
<1>3. \A q \in Seq(S) : e \o q = q /\ q \o e = q BY ConcatEmptySeq
<1>4. t \o s = <<b, a>> /\ s \o t = <<a, b>> BY Pairs
<1> HIDE DEF S, e, s, t
<1>8. SubSeq(s, 1, 1) = s BY <1>1, SubSeqFull
<1>5. InsertAt(e, 1, b) = t
  <2>1. InsertAt(e, 1, b) = (SubSeq(e, 1, 0) \o t) \o SubSeq(e, 1, 0) BY <1>1 DEF InsertAt, t
  <2> QED BY <1>1, <1>2, <1>3, <1>8, <2>1
<1>6. InsertAt(s, 1, b) = t \o s
  <2>1. InsertAt(s, 1, b) = (SubSeq(s, 1, 0) \o t) \o SubSeq(s, 1, 1) BY <1>1 DEF InsertAt, t
  <2> QED BY <1>1, <1>2, <1>3, <1>8, <2>1
<1>7. InsertAt(s, 2, b) = s \o t
  <2>1. InsertAt(s, 2, b) = (SubSeq(s, 1, 1) \o t) \o SubSeq(s, 2, 1) BY <1>1 DEF InsertAt, t
  <2>2. s \o t \in Seq(S) BY <1>1
  <2> QED BY <1>1, <1>2, <1>3, <1>8, <2>1, <2>2
<1> QED BY <1>4, <1>5, <1>6, <1>7 DEF e, s, t

\* The first listener of a type.
LEMMA AppendedFirst ==
  ASSUME NEW c
  PROVE  Appended(NoListeners, c[3], c[1]) = One(c)
<1>1. Behind(<<>>, c[3]) = {} /\ Len(<<>>) = 0 BY DEF Behind
<1>2. Place(<<>>, c[3]) = 1 BY <1>1 DEF Place
<1>3. Append(<<>>, c[1]) = <<c[1]>> OBVIOUS
<1> QED BY <1>1, <1>2, <1>3, InsertFew DEF Appended, NoListeners, One, EntryFor

\* The second one goes before the first if its priority is higher.
LEMMA AppendedSecond ==
  ASSUME NEW c, NEW d
  PROVE  Appended(One(c), d[3], d[1]) = IF c[3] > d[3] THEN Two(d, c) ELSE Two(c, d)
<1> DEFINE es == <<EntryFor(c)>>
           o == <<c[1]>>
<1>1. Len(es) = 1 /\ DOMAIN es = {1} /\ es[1] = EntryFor(c) OBVIOUS
<1>2. EntryFor(c).priority = c[3] /\ EntryFor(c).handle = c[1] BY DEF EntryFor
<1>3. Behind(es, d[3]) = IF c[3] > d[3] THEN {1} ELSE {} BY <1>1, <1>2 DEF Behind
<1>4. Place(es, d[3]) = IF c[3] > d[3] THEN 1 ELSE 2 BY <1>1, <1>3 DEF Place
<1>5. PositionOf(o, c[1]) = 1
  <2>1. DOMAIN o = {1} /\ o[1] = c[1] OBVIOUS
  <2> QED BY <2>1 DEF PositionOf
<1>6. Append(o, d[1]) = <<c[1], d[1]>> BY Pairs
<1>7. One(c).entries = es /\ One(c).order = o BY DEF One
<1> HIDE DEF es, o
<1>8. CASE c[3] > d[3]
  <2>1. Appended(One(c), d[3], d[1])
          = [entries |-> InsertAt(es, 1, EntryFor(d)), order |-> InsertAt(o, 1, d[1])]
    <3>1. Place(One(c).entries, d[3]) = 1 /\ ~(1 > Len(One(c).entries)) BY <1>1, <1>4, <1>7, <1>8
    <3>2. InsertBefore(One(c).order, One(c).entries[1].handle, d[1]) = InsertAt(o, 1, d[1])
      BY <1>1, <1>2, <1>5, <1>7 DEF InsertBefore
    <3> QED BY <3>1, <3>2, <1>7 DEF Appended, EntryFor
  <2> QED BY <1>8, <2>1, InsertFew DEF Two, es, o
<1>9. CASE ~(c[3] > d[3])
  <2>1. Appended(One(c), d[3], d[1])
          = [entries |-> InsertAt(es, 2, EntryFor(d)), order |-> <<c[1], d[1]>>]
    <3>1. Place(One(c).entries, d[3]) = 2 BY <1>4, <1>7, <1>9
    <3>2. Len(One(c).entries) = 1 BY <1>1, <1>7
    <3>3. 2 > Len(One(c).entries) BY <3>2
    <3> QED BY <3>1, <3>3, <1>6, <1>7 DEF Appended, EntryFor
  <2> QED BY <1>9, <2>1, InsertFew DEF Two, es
<1> QED BY <1>8, <1>9

\* What is left when one element is taken out.
LEMMA TakenOut ==
  ASSUME NEW S, NEW s \in Seq(S), NEW i \in 1..Len(s)
  PROVE  /\ RemoveAt(s, i) \in Seq(S)
         /\ Len(RemoveAt(s, i)) = Len(s) - 1
         /\ \A k \in 1..(Len(s) - 1) : RemoveAt(s, i)[k] = IF k < i THEN s[k] ELSE s[k + 1]
<1> DEFINE a == SubSeq(s, 1, i - 1)
           b == SubSeq(s, i + 1, Len(s))
<1>1. Len(s) \in Nat /\ i \in Int OBVIOUS
<1>2. a \in Seq(S) /\ Len(a) = i - 1 /\ \A k \in 1..(i - 1) : a[k] = s[k] OBVIOUS
<1>3. b \in Seq(S) /\ Len(b) = Len(s) - i /\ \A k \in 1..(Len(s) - i) : b[k] = s[k + i]
  OBVIOUS
<1>4. RemoveAt(s, i) = a \o b BY DEF RemoveAt
<1> HIDE DEF a, b
<1>5. /\ a \o b \in Seq(S) /\ Len(a \o b) = Len(a) + Len(b)
      /\ \A k \in 1..(Len(a) + Len(b)) :
            (a \o b)[k] = IF k <= Len(a) THEN a[k] ELSE b[k - Len(a)]
  BY <1>2, <1>3, ConcatProperties
<1>6. ASSUME NEW k \in 1..(Len(s) - 1)
      PROVE  (a \o b)[k] = IF k < i THEN s[k] ELSE s[k + 1]
  <2>1. CASE k < i BY <1>1, <1>2, <1>3, <1>5, <2>1
  <2>2. CASE ~(k < i)
    <3>1. k - (i - 1) \in 1..(Len(s) - i) BY <1>1, <2>2
    <3>2. b[k - (i - 1)] = s[k - (i - 1) + i] BY <1>3, <3>1
    <3>3. (a \o b)[k] = b[k - (i - 1)] BY <1>1, <1>2, <1>3, <1>5, <2>2
    <3> QED BY <1>1, <2>2, <3>2, <3>3
  <2> QED BY <2>1, <2>2
<1> QED BY <1>1, <1>2, <1>3, <1>4, <1>5, <1>6

\* A set of indices has a least one.
LEMMA LeastIndex ==
  ASSUME NEW T, T \subseteq Nat, T # {}
  PROVE  \E i \in T : \A j \in T : i <= j
<1>1. PICK i \in T : \A j \in T : ~(<<j, i>> \in OpToRel(<, Nat))
  BY NatLessThanWellFounded, WFMin
<1>2. \A j \in T : ~(j < i)
  BY <1>1 DEF OpToRel
<1> QED BY <1>2

\* If every entry stands, operator== tells none of them from a listener that
\* stands, and all of them from one that does not.
LEMMA KeptAllOrNone ==
  ASSUME NEW S, NEW l, l.entries \in Seq(S), NEW h,
         \A i \in DOMAIN l.entries : Live(l, l.entries[i].handle)
  PROVE  Kept(l, h) = IF Live(l, h) THEN <<>> ELSE l.entries
<1> DEFINE es == l.entries
           n == Len(es)
           stay[i \in 0..n] ==
             IF i = 0 THEN <<>>
             ELSE IF Live(l, es[i].handle) = Live(l, h) THEN stay[i - 1]
             ELSE Append(stay[i - 1], es[i])
           body(g, i) == IF i = 0 THEN <<>>
                         ELSE IF Live(l, es[i].handle) = Live(l, h) THEN g[i - 1]
                         ELSE Append(g[i - 1], es[i])
           some == [i \in 0..n |-> IF Live(l, h) THEN <<>> ELSE SubSeq(es, 1, i)]
<1>1. Kept(l, h) = stay[n] BY DEF Kept
<1>2. n \in Nat /\ DOMAIN es = 1..n OBVIOUS
<1>3. stay = CHOOSE g : g = [i \in 0..n |-> body(g, i)] BY DEF stay
<1> HIDE DEF stay
<1>4. \A i \in 1..n : (Live(l, es[i].handle) = Live(l, h)) <=> Live(l, h)
  BY <1>2 DEF Live
<1>5. some = [i \in 0..n |-> body(some, i)]
  <2>1. ASSUME NEW i \in 0..n PROVE some[i] = body(some, i)
    <3>1. CASE i = 0
      <4>1. SubSeq(es, 1, 0) = <<>> BY <1>2
      <4> QED BY <3>1, <4>1
    <3>2. CASE i # 0
      <4>1. i \in 1..n /\ i - 1 \in 0..n BY <1>2, <3>2
      <4>2. CASE Live(l, h)
        BY <1>4, <3>2, <4>1, <4>2
      <4>3. CASE ~Live(l, h)
        <5>1. Append(SubSeq(es, 1, i - 1), es[i]) = SubSeq(es, 1, i) BY <1>2, <4>1
        <5>2. some[i - 1] = SubSeq(es, 1, i - 1) /\ some[i] = SubSeq(es, 1, i) BY <4>1, <4>3
        <5>3. body(some, i) = Append(some[i - 1], es[i])
          <6>1. ~(Live(l, es[i].handle) = Live(l, h)) BY <1>4, <4>1, <4>3
          <6> HIDE DEF some
          <6> QED BY <3>2, <6>1
        <5> HIDE DEF body, some
        <5> QED BY <5>1, <5>2, <5>3
      <4> QED BY <4>2, <4>3
    <3> QED BY <3>1, <3>2
  <2> QED BY <2>1
<1>6. stay = [i \in 0..n |-> body(stay, i)]
  <2> HIDE DEF body, some
  <2> QED BY <1>3, <1>5
<1>7. \A i \in 0..n : stay[i] = some[i]
  <2> DEFINE T == {i \in 0..n : stay[i] # some[i]}
  <2>1. ASSUME T # {} PROVE FALSE
    <3>1. PICK i \in T : \A j \in T : i <= j
      <4>1. T \subseteq Nat BY <1>2
      <4> HIDE DEF T
      <4> QED BY <2>1, <4>1, LeastIndex
    <3>2. i \in 0..n /\ stay[i] # some[i] OBVIOUS
    <3>3. stay[i] = body(stay, i) /\ some[i] = body(some, i)
      <4> HIDE DEF body, some, stay
      <4> QED BY <1>5, <1>6, <3>2
    <3>4. CASE i = 0
      <4> HIDE DEF some, stay
      <4> QED BY <3>2, <3>3, <3>4
    <3>5. CASE i # 0
      <4>1. i - 1 \in 0..n /\ ~(i <= i - 1) BY <1>2, <3>2, <3>5
      <4>2. stay[i - 1] = some[i - 1] BY <3>1, <4>1
      <4> HIDE DEF some, stay
      <4> QED BY <3>2, <3>3, <3>5, <4>2
    <3> QED BY <3>4, <3>5
  <2> QED BY <2>1
<1>8. SubSeq(es, 1, n) = es BY <1>2, SubSeqFull
<1>9. n \in 0..n /\ stay[n] = some[n]
  <2>1. n \in 0..n BY <1>2
  <2> HIDE DEF stay, some
  <2> QED BY <1>7, <2>1
<1>10. some[n] = IF Live(l, h) THEN <<>> ELSE SubSeq(es, 1, n) BY <1>9
<1> QED BY <1>1, <1>8, <1>9, <1>10

\* removeListener() leaves a list in step.
LEMMA RemovedInStep ==
  ASSUME NEW l \in List, InStep(l), NEW h \in Components
  PROVE  Removed(l, h) \in List /\ InStep(Removed(l, h))
<1> DEFINE es == l.entries
           o == l.order
           m == Removed(l, h)
<1>0. es \in Seq(Entry) /\ o \in Seq(Components) /\ l = [entries |-> es, order |-> o]
  BY DEF List
<1>1. Kept(l, h) = IF Live(l, h) THEN <<>> ELSE es
  BY <1>0, KeptAllOrNone DEF InStep
<1>2. CASE ~Live(l, h)
  <2>1. m = l BY <1>0, <1>1, <1>2 DEF Removed
  <2> QED BY <2>1
<1>3. CASE Live(l, h)
  <2> DEFINE i == PositionOf(o, h)
             r == RemoveAt(o, i)
  <2>1. m = [entries |-> <<>>, order |-> r] BY <1>1, <1>3 DEF Removed
  <2>2. \E k \in DOMAIN o : o[k] = h BY <1>3 DEF Live, Range
  <2>3. i \in DOMAIN o BY <2>2 DEF PositionOf
  <2> HIDE DEF i, o, es, m
  <2>4. i \in 1..Len(o) BY <1>0, <2>3
  <2>5. r \in Seq(Components) BY <1>0, <2>4, TakenOut
  <2> HIDE DEF r
  <2>6. m \in List BY <2>1, <2>5 DEF List
  <2>7. DOMAIN m.entries = {} BY <2>1
  <2>8. InStep(m) BY <2>7 DEF InStep
  <2> QED BY <2>6, <2>8 DEF m
<1> QED BY <1>2, <1>3

\* What the calls of Construction say.
LEMMA Calls ==
  /\ Len(Construction) = 11
  /\ \A n \in 1..11 : LET c == Construction[n] IN
        /\ c[1] \in Components /\ c[2] \in EventTypes /\ c[3] \in -128..127
        /\ FirstCall(c[2]) = n \/ SecondCall(c[2]) = n
  /\ \A t \in EventTypes :
        /\ FirstCall(t) \in 1..11 /\ SecondCall(t) \in 2..12 /\ FirstCall(t) < SecondCall(t)
        /\ Construction[FirstCall(t)][2] = t
        /\ SecondCall(t) < 12 =>
              /\ Construction[SecondCall(t)][2] = t
              /\ Construction[FirstCall(t)][1] # Construction[SecondCall(t)][1]
<1>1. Len(Construction) = 11 BY DEF Construction
<1>2. ASSUME NEW n \in 1..11
      PROVE  LET c == Construction[n] IN
                /\ c[1] \in Components /\ c[2] \in EventTypes /\ c[3] \in -128..127
                /\ FirstCall(c[2]) = n \/ SecondCall(c[2]) = n
  BY DEF Construction, Components, EventTypes, TypedEvents, RawEvents, Normal, Highest, FairlyHigh,
         FirstCall, SecondCall
<1>3. ASSUME NEW t \in EventTypes
      PROVE  /\ FirstCall(t) \in 1..11 /\ SecondCall(t) \in 2..12 /\ FirstCall(t) < SecondCall(t)
             /\ Construction[FirstCall(t)][2] = t
             /\ SecondCall(t) < 12 =>
                   /\ Construction[SecondCall(t)][2] = t
                   /\ Construction[FirstCall(t)][1] # Construction[SecondCall(t)][1]
  BY DEF Construction, EventTypes, TypedEvents, RawEvents, FirstCall, SecondCall
<1> QED BY <1>1, <1>2, <1>3

\* One call of the constructor.
LEMMA StandingGrows ==
  ASSUME NEW n \in 0..10, NEW t \in EventTypes
  PROVE  LET c == Construction[n + 1] IN
         /\ c[2] = t => /\ Appended(Standing(t, n), c[3], c[1]) = Standing(t, n + 1)
                        /\ Standing(t, n + 1) \in List
                        /\ InStep(Standing(t, n + 1))
                        /\ Append(Registrants(t, n), c[1]) = Registrants(t, n + 1)
                        /\ c[1] \notin Range(Registrants(t, n))
         /\ c[2] # t => /\ Standing(t, n + 1) = Standing(t, n)
                        /\ Registrants(t, n + 1) = Registrants(t, n)
<1> DEFINE c == Construction[n + 1]
           f == Construction[FirstCall(t)]
<1>1. /\ n + 1 \in 1..11 /\ c[1] \in Components /\ c[3] \in -128..127
      /\ f[1] \in Components /\ f[3] \in -128..127
      /\ FirstCall(t) \in 1..11 /\ SecondCall(t) \in 2..12 /\ FirstCall(t) < SecondCall(t)
      /\ f[2] = t
      /\ SecondCall(t) < 12 => Construction[SecondCall(t)][2] = t
      /\ FirstCall(c[2]) = n + 1 \/ SecondCall(c[2]) = n + 1
  BY Calls
<1>2. CASE c[2] # t
  <2>1. n + 1 # FirstCall(t) /\ n + 1 # SecondCall(t) BY <1>1, <1>2
  <2>2. (n < FirstCall(t) <=> n + 1 < FirstCall(t)) /\ (n < SecondCall(t) <=> n + 1 < SecondCall(t))
    BY <1>1, <2>1
  <2> QED BY <1>2, <2>2 DEF Standing, Registrants
<1>3. CASE c[2] = t /\ n + 1 = FirstCall(t)
  <2>1. n < FirstCall(t) /\ n + 1 < SecondCall(t) /\ ~(n + 1 < FirstCall(t)) BY <1>1, <1>3
  <2>2. Standing(t, n) = NoListeners /\ Standing(t, n + 1) = One(c)
    BY <1>3, <2>1 DEF Standing
  <2>3. Registrants(t, n) = <<>> /\ Registrants(t, n + 1) = <<c[1]>>
    BY <1>3, <2>1 DEF Registrants
  <2>4. Append(<<>>, c[1]) = <<c[1]>> /\ Range(<<>>) = {} BY DEF Range
  <2> QED BY <1>1, <1>3, <2>2, <2>3, <2>4, AppendedFirst, FewStand
<1>4. CASE c[2] = t /\ n + 1 = SecondCall(t)
  <2>1. ~(n < FirstCall(t)) /\ n < SecondCall(t) /\ ~(n + 1 < FirstCall(t)) /\ ~(n + 1 < SecondCall(t))
    BY <1>1, <1>4
  <2>2. f[1] # c[1] BY <1>1, <1>4, Calls
  <2>3. Standing(t, n) = One(f) /\ Standing(t, n + 1) = IF f[3] > c[3] THEN Two(c, f) ELSE Two(f, c)
    BY <1>4, <2>1 DEF Standing
  <2>4. Registrants(t, n) = <<f[1]>> /\ Registrants(t, n + 1) = <<f[1], c[1]>>
    BY <1>4, <2>1 DEF Registrants
  <2>5. ASSUME NEW g, NEW h PROVE Append(<<g>>, h) = <<g, h>> /\ Range(<<g>>) = {g}
    <3>1. \A i \in DOMAIN <<g>> : i = 1 OBVIOUS
    <3>2. 1 \in DOMAIN <<g>> /\ <<g>>[1] = g OBVIOUS
    <3>3. Range(<<g>>) = {g} BY <3>1, <3>2 DEF Range
    <3> DEFINE s == Append(<<g>>, h)
    <3>4. <<g>> \in Seq({g, h}) OBVIOUS
    <3>5. s \in Seq({g, h}) /\ Len(s) = 2 /\ s[1] = g /\ s[2] = h BY <3>4
    <3> HIDE DEF s
    <3>6. s = <<g, h>> BY <3>5
    <3> QED BY <3>3, <3>6 DEF s
  <2> QED BY <1>1, <1>4, <2>2, <2>3, <2>4, <2>5, AppendedSecond, FewStand
<1>5. c[2] = t => n + 1 = FirstCall(t) \/ n + 1 = SecondCall(t) BY <1>1
<1> QED BY <1>2, <1>3, <1>4, <1>5

\* Who calls the constructor's registration is among the registrants in the end.
LEMMA RegistrantsCalled ==
  ASSUME NEW n \in 1..11
  PROVE  Construction[n][1] \in Range(Registrants(Construction[n][2], 11))
<1> DEFINE t == Construction[n][2]
           f == Construction[FirstCall(t)][1]
           g == Construction[SecondCall(t)][1]
<1>1. /\ t \in EventTypes /\ (FirstCall(t) = n \/ SecondCall(t) = n)
      /\ FirstCall(t) \in 1..11 /\ SecondCall(t) \in 2..12
  BY Calls
<1>2. CASE SecondCall(t) > 11
  <2>1. Registrants(t, 11) = <<f>> /\ Construction[n][1] = f
    BY <1>1, <1>2 DEF Registrants
  <2>2. 1 \in DOMAIN <<f>> /\ <<f>>[1] = f OBVIOUS
  <2> QED BY <2>1, <2>2 DEF Range
<1>3. CASE ~(SecondCall(t) > 11)
  <2>1. Registrants(t, 11) = <<f, g>> /\ (Construction[n][1] = f \/ Construction[n][1] = g)
    BY <1>1, <1>3 DEF Registrants
  <2>2. /\ 1 \in DOMAIN <<f, g>> /\ <<f, g>>[1] = f
        /\ 2 \in DOMAIN <<f, g>> /\ <<f, g>>[2] = g
    OBVIOUS
  <2> QED BY <2>1, <2>2 DEF Range
<1> QED BY <1>2, <1>3

\* When all have registered.
LEMMA AllStand ==
  ASSUME NEW t \in EventTypes
  PROVE  Standing(t, 11).order = ServedBy(t)
BY DEF Standing, ServedBy, Construction, FirstCall, SecondCall, One, Two, EventTypes, TypedEvents,
       RawEvents, Normal, Highest, FairlyHigh
-----------------------------------------------------------------------------
(* Steps *)

\* What the scripts do between and in their callbacks.
ScriptStep ==
    \/ \E t \in CallbackTypes, p \in Priorities : On(t, p)
    \/ \E h \in 0..(MaxCallbacks - 1) : Off(h)
    \/ Register("say")
    \/ \E p \in Chars : SetPrefix(p)

\* What happens between the packets.
PeerStep == \E side \in Sides : Connect(side) \/ Disconnect(side)

\* What a dispatch goes through.
CommandStep == CommandRuns \/ CommandReturns \/ NoCommand
BridgeStep == BridgeEnters \/ BridgeLeaves \/ CallbackReturns \/ CallbackVetoes
                \/ \E c \in todo : CallbackRuns(c)
ContextStep == (\E ctx \in {serial, kept} : ContextCancels(ctx)) \/ KeepContext \/ Modify
HandlerStep == ConnectionRedirects \/ ConnectionQuits \/ Forward
EventStep == DispatchReturns \/ AfterTyped \/ \E p \in Packets : Receive(p)

PathStep == ScriptStep \/ PeerStep \/ CommandStep \/ BridgeStep \/ ContextStep \/ HandlerStep
                \/ EventStep

\* Every step is one of these.
LEMMA Steps ==
  ASSUME [Next]_vars
  PROVE  Construct \/ Start \/ Stop \/ Destruct \/ PathStep \/ UNCHANGED vars
BY DEF Next, Listeners, Scripts, ScriptStep, PeerStep, CommandStep, BridgeStep, ContextStep,
       HandlerStep, EventStep, PathStep

\* Listeners come and go with the core only.
LEMMA CoreStays ==
  ASSUME PathStep
  PROVE  /\ UNCHANGED core
         /\ pc' = "construct" <=> pc = "construct"
         /\ pc' = "destruct" <=> pc = "destruct"
<1>1. CASE ScriptStep BY <1>1 DEF ScriptStep, On, Off, Register, SetPrefix
<1>2. CASE PeerStep BY <1>2 DEF PeerStep, Connect, Disconnect
<1>3. CASE CommandStep BY <1>3 DEF CommandStep, CommandRuns, CommandReturns, NoCommand, Invoking
<1>4. CASE BridgeStep
  BY <1>4 DEF BridgeStep, BridgeEnters, BridgeLeaves, CallbackRuns, CallbackReturns, CallbackVetoes,
              Invoking
<1>5. CASE ContextStep BY <1>5 DEF ContextStep, ContextCancels, KeepContext, Modify
<1>6. CASE HandlerStep
  BY <1>6 DEF HandlerStep, ConnectionRedirects, ConnectionQuits, Forward, Invoking
<1>7. CASE EventStep
  BY <1>7 DEF EventStep, DispatchReturns, DispatchDone, AfterTyped, Receive, Begin
<1> QED BY <1>1, <1>2, <1>3, <1>4, <1>5, <1>6, <1>7 DEF PathStep

\* The listeners are those of Construction, in their order, until the core is
\* taken apart.
ListTypes ==
    /\ built \in 0..11
    /\ listeners \in [EventTypes -> List]
    /\ used \in [EventTypes -> Seq(Components)]

\* TypeOK says it in other words.
LEMMA ListTyped == TypeOK => ListTypes
BY Calls DEF TypeOK, ListTypes, List, Entry

\* Registering and removing leave no entry whose listener is gone.
LEMMA ListsKept ==
  ASSUME ListTypes, ListsInv, [Next]_vars
  PROVE  ListTypes' /\ ListsInv'
<1>1. CASE Construct
  <2> DEFINE c == Construction[built + 1]
  <2>1. /\ built \in 0..10 /\ built' = built + 1 /\ pc = "construct" /\ pc' = pc
        /\ listeners' = [listeners EXCEPT ![c[2]] = Appended(listeners[c[2]], c[3], c[1])]
        /\ used' = [used EXCEPT ![c[2]] = Append(used[c[2]], c[1])]
    BY <1>1, Calls, SMTT(30) DEF Construct, ListTypes
  <2>2. c[2] \in EventTypes /\ c[1] \in Components BY <2>1, Calls
  <2> HIDE DEF c
  <2>3. ASSUME NEW t \in EventTypes
        PROVE  /\ listeners'[t] \in List /\ InStep(listeners'[t])
               /\ listeners'[t] = Standing(t, built')
               /\ used'[t] \in Seq(Components) /\ used'[t] = Registrants(t, built')
    <3>1. listeners[t] = Standing(t, built) /\ used[t] = Registrants(t, built)
      BY <2>1 DEF ListsInv
    <3>2. CASE c[2] = t
      <4>1. listeners'[t] = Appended(Standing(t, built), c[3], c[1])
        BY <2>1, <3>1, <3>2 DEF ListTypes
      <4>2. used'[t] = Append(Registrants(t, built), c[1]) /\ used'[t] \in Seq(Components)
        BY <2>1, <2>2, <3>1, <3>2 DEF ListTypes
      <4>3. /\ Appended(Standing(t, built), c[3], c[1]) = Standing(t, built + 1)
            /\ Standing(t, built + 1) \in List
            /\ InStep(Standing(t, built + 1))
            /\ Append(Registrants(t, built), c[1]) = Registrants(t, built + 1)
        BY <2>1, <3>2, StandingGrows DEF c
      <4> QED BY <2>1, <4>1, <4>2, <4>3
    <3>3. CASE c[2] # t
      <4>1. listeners'[t] = listeners[t] /\ used'[t] = used[t]
        BY <2>1, <3>3 DEF ListTypes
      <4>2. Standing(t, built') = Standing(t, built) /\ Registrants(t, built') = Registrants(t, built)
        BY <2>1, <3>3, StandingGrows DEF c
      <4> QED BY <3>1, <4>1, <4>2 DEF ListTypes, ListsInv
    <3> QED BY <3>2, <3>3
  <2>4. DOMAIN listeners' = EventTypes /\ DOMAIN used' = EventTypes /\ built' \in 0..11
    BY <2>1 DEF ListTypes
  <2>5. ListTypes'
    <3>1. listeners' = [t \in EventTypes |-> listeners'[t]] /\ used' = [t \in EventTypes |-> used'[t]]
      BY <2>1, <2>4 DEF ListTypes
    <3> QED BY <2>3, <2>4, <3>1 DEF ListTypes
  <2> QED BY <2>1, <2>3, <2>5 DEF ListsInv
<1>2. CASE Destruct
  <2> DEFINE c == Construction[built]
  <2>1. /\ built \in 1..11 /\ built' = built - 1 /\ pc = "destruct" /\ pc' = pc
        /\ listeners' = [listeners EXCEPT ![c[2]] = Removed(listeners[c[2]], c[1])]
        /\ used' = used
    BY <1>2 DEF Destruct, ListTypes
  <2>2. c[2] \in EventTypes /\ c[1] \in Components BY <2>1, Calls
  <2> HIDE DEF c
  <2>3. ASSUME NEW l \in List, InStep(l)
        PROVE  Removed(l, c[1]) \in List /\ InStep(Removed(l, c[1]))
    BY <2>2, <2>3, RemovedInStep
  <2>4. ListTypes' BY <2>1, <2>2, <2>3 DEF ListTypes, ListsInv
  <2>5. \A t \in EventTypes : InStep(listeners'[t]) BY <2>1, <2>2, <2>3 DEF ListTypes, ListsInv
  <2> QED BY <2>1, <2>4, <2>5 DEF ListsInv
<1>3. CASE Start BY <1>3, Calls DEF Start, core, ListTypes, ListsInv
<1>4. CASE Stop BY <1>4 DEF Stop, core, ListTypes, ListsInv
<1>5. CASE PathStep BY <1>5, CoreStays DEF core, ListTypes, ListsInv
<1>6. CASE UNCHANGED vars BY <1>6 DEF vars, core, ListTypes, ListsInv
<1> QED BY Steps, <1>1, <1>2, <1>3, <1>4, <1>5, <1>6

\* Before the first call of the constructor.
LEMMA ListsBegin == Init => ListTypes /\ ListsInv
<1> SUFFICES ASSUME Init PROVE ListTypes /\ ListsInv OBVIOUS
<1>1. \A t \in EventTypes : 0 < FirstCall(t) BY Calls
<1>2. \A t \in EventTypes : Standing(t, 0) = NoListeners /\ Registrants(t, 0) = <<>>
  BY <1>1 DEF Standing, Registrants
<1> QED BY <1>2, FewStand DEF Init, ListTypes, ListsInv

-----------------------------------------------------------------------------
(* Types *)

\* A packet has a first event, and a raw one.
LEMMA EventsOf ==
  ASSUME NEW p \in Packets
  PROVE  /\ p \in Packet /\ p # NoPacket /\ p.from \in Sides /\ Other(p.from) \in Sides
         /\ RawEvent(p) \in RawEvents
         /\ FirstEvent(p) \in TypedEvents \cup {RawEvent(p)}
<1>1. p \in Packet BY PathAssumption DEF PathAssumption
<1>2. p # NoPacket
  <2>1. DOMAIN p = {"from", "size", "decodes", "id", "reads", "text"} /\ DOMAIN NoPacket = {"from"}
    BY <1>1 DEF Packet, NoPacket
  <2> QED BY <2>1
<1> QED BY <1>1, <1>2 DEF Packet, Sides, Other, RawEvent, RawEvents, FirstEvent, Registered

\* The priority of a callback is an int8_t.
LEMMA Int8 == ASSUME NEW p \in Int PROVE ToInt8(p) \in -128..127
BY DEF ToInt8

\* The other variables are typed by themselves.
CallbackTyped ==
    /\ callbacks \subseteq Callback /\ next_handle \in 0..MaxCallbacks
    /\ todo \subseteq Callback /\ ran \in Seq(Callback) /\ known \subseteq Callback
Fates == [vetoed : BOOLEAN, commanded : BOOLEAN, modified : BOOLEAN,
          written : Nat, sent : {"none", "original", "modified"}]
StateTyped ==
    /\ prefix \in Chars /\ commands \subseteq Names
    /\ up \in [Sides -> BOOLEAN]
    /\ packet \in Packets \cup {NoPacket}
    /\ current \in EventTypes \cup {NoType} /\ at \in Nat \ {0} /\ canceled \in BOOLEAN
    /\ serial \in 0..MaxEvents
    /\ valid \subseteq 0..MaxEvents /\ kept \in 0..MaxEvents
    /\ pc \in {"construct", "idle", "dispatch", "command", "bridge", "callback", "emitted", "destruct"}
    /\ fate \in Fates

\* The three parts are TypeOK.
LEMMA TypeParts == TypeOK <=> ListTypes /\ CallbackTyped /\ StateTyped
BY Calls DEF TypeOK, ListTypes, List, Entry, CallbackTyped, StateTyped, Fates

\* Scripts register callbacks, and dispatches go through them.
LEMMA CallbacksTyped ==
  ASSUME CallbackTyped, [Next]_vars
  PROVE  CallbackTyped'
<1> USE PathAssumption DEF PathAssumption, bridge, event, history, CallbackTyped
<1>1. CASE Construct \/ Start \/ Stop \/ Destruct
  BY <1>1 DEF Construct, Start, Stop, Destruct
<1>2. CASE UNCHANGED vars BY <1>2 DEF vars
<1>3. ASSUME NEW t \in CallbackTypes, NEW p \in Priorities, On(t, p) PROVE CallbackTyped'
  <2>1. [handle |-> next_handle, type |-> t, priority |-> ToInt8(p)] \in Callback
    <3>1. p \in Int OBVIOUS
    <3> QED BY <3>1, Int8 DEF Callback
  <2> QED BY <1>3, <2>1 DEF On
<1>4. CASE ScriptStep BY <1>3, <1>4 DEF ScriptStep, Off, Register, SetPrefix
<1>5. CASE PeerStep BY <1>5 DEF PeerStep, Connect, Disconnect
<1>6. CASE CommandStep BY <1>6 DEF CommandStep, CommandRuns, CommandReturns, NoCommand
<1>7. CASE BridgeStep
  BY <1>7 DEF BridgeStep, BridgeEnters, BridgeLeaves, CallbackRuns, CallbackReturns, CallbackVetoes
<1>8. CASE ContextStep BY <1>8 DEF ContextStep, ContextCancels, KeepContext, Modify
<1>9. CASE HandlerStep BY <1>9 DEF HandlerStep, ConnectionRedirects, ConnectionQuits, Forward
<1>10. CASE DispatchReturns BY <1>10 DEF DispatchReturns
<1> <<>> \in Seq(Callback) OBVIOUS
<1>11. CASE AfterTyped
  <2>1. UNCHANGED <<callbacks, next_handle, todo>> BY <1>11 DEF AfterTyped
  <2>2. UNCHANGED <<ran, known>> \/ (ran' = <<>> /\ known' = callbacks) BY <1>11 DEF AfterTyped, Begin
  <2> QED BY <2>1, <2>2
<1>12. ASSUME NEW p \in Packets, Receive(p) PROVE CallbackTyped'
  <2>1. UNCHANGED <<callbacks, next_handle, todo>> BY <1>12 DEF Receive
  <2>2. UNCHANGED <<ran, known>> \/ (ran' = <<>> /\ known' = callbacks) BY <1>12 DEF Receive, Begin
  <2> QED BY <2>1, <2>2
<1> QED BY Steps, <1>1, <1>2, <1>4, <1>5, <1>6, <1>7, <1>8, <1>9, <1>10, <1>11, <1>12
        DEF PathStep, EventStep

\* The marks that are put on a packet.
LEMMA FateTypes ==
  ASSUME NEW f \in Fates
  PROVE  /\ [f EXCEPT !.commanded = TRUE] \in Fates /\ [f EXCEPT !.modified = TRUE] \in Fates
         /\ [f EXCEPT !.vetoed = TRUE] \in Fates
         /\ [f EXCEPT !.written = f.written + 1, !.sent = "original"] \in Fates
         /\ Unseen \in Fates
<1>1. [f EXCEPT !.commanded = TRUE] \in Fates BY DEF Fates
<1>2. [f EXCEPT !.modified = TRUE] \in Fates BY DEF Fates
<1>3. [f EXCEPT !.vetoed = TRUE] \in Fates BY DEF Fates
<1>4. [f EXCEPT !.written = f.written + 1, !.sent = "original"] \in Fates
  <2>1. f.written + 1 \in Nat BY DEF Fates
  <2> QED BY <2>1 DEF Fates
<1>5. Unseen \in Fates BY DEF Fates, Unseen
<1> QED BY <1>1, <1>2, <1>3, <1>4, <1>5

\* The number of events stays in its bound because a typed event leaves room
\* for the raw one.
LEMMA StateTypes ==
  ASSUME StateTyped, FlowInv, [Next]_vars
  PROVE  StateTyped'
<1> USE PathAssumption DEF PathAssumption, registry, event, contexts, history, StateTyped
<1>1. CASE Construct \/ Start \/ Stop \/ Destruct
  BY <1>1 DEF Construct, Start, Stop, Destruct
<1>2. CASE UNCHANGED vars BY <1>2 DEF vars
<1>3. CASE ScriptStep BY <1>3 DEF ScriptStep, On, Off, Register, SetPrefix, Names
<1>4. CASE PeerStep BY <1>4 DEF PeerStep, Connect, Disconnect
<1>5. CASE CommandStep
  <2>1. CASE CommandRuns BY <2>1, FateTypes DEF CommandRuns
  <2>2. CASE CommandReturns
    <3>1. canceled' \in BOOLEAN BY <2>2 DEF CommandReturns
    <3>2. fate' \in Fates BY <2>2, FateTypes DEF CommandReturns
    <3>3. /\ at' = at + 1 /\ pc' = "dispatch"
          /\ UNCHANGED <<registry, up, packet, current, serial, contexts>>
      BY <2>2 DEF CommandReturns
    <3> QED BY <3>1, <3>2, <3>3
  <2>3. CASE NoCommand BY <2>3 DEF NoCommand
  <2> QED BY <1>5, <2>1, <2>2, <2>3 DEF CommandStep
<1>6. CASE BridgeStep
  <2>1. CASE BridgeEnters BY <2>1 DEF BridgeEnters
  <2>2. CASE BridgeLeaves BY <2>2 DEF BridgeLeaves
  <2>3. CASE CallbackReturns BY <2>3 DEF CallbackReturns
  <2>4. CASE CallbackVetoes
    <3>1. canceled' \in BOOLEAN BY <2>4 DEF CallbackVetoes
    <3>2. fate' \in Fates BY <2>4, FateTypes DEF CallbackVetoes
    <3>3. /\ at' = at + 1 /\ pc' = "dispatch" /\ valid' = valid \ {serial}
          /\ UNCHANGED <<registry, up, packet, current, serial, kept>>
      BY <2>4 DEF CallbackVetoes
    <3> QED BY <3>1, <3>2, <3>3
  <2>5. ASSUME NEW c \in todo, CallbackRuns(c) PROVE StateTyped' BY <2>5 DEF CallbackRuns
  <2> QED BY <1>6, <2>1, <2>2, <2>3, <2>4, <2>5 DEF BridgeStep
<1>7. CASE ContextStep
  <2>1. ASSUME NEW ctx \in {serial, kept}, ContextCancels(ctx) PROVE StateTyped'
    <3>1. canceled' \in BOOLEAN /\ fate' \in Fates
      BY <2>1 DEF ContextCancels, Fates
    <3> QED BY <2>1, <3>1 DEF ContextCancels
  <2>2. CASE KeepContext BY <2>2 DEF KeepContext
  <2>3. CASE Modify BY <2>3, FateTypes DEF Modify
  <2> QED BY <1>7, <2>1, <2>2, <2>3 DEF ContextStep
<1>8. CASE HandlerStep
  <2>1. CASE ConnectionRedirects
    <3>1. canceled' \in BOOLEAN BY <2>1 DEF ConnectionRedirects
    <3>2. fate' \in Fates BY <2>1, FateTypes DEF ConnectionRedirects
    <3>3. at' = at + 1 /\ UNCHANGED <<registry, up, packet, current, serial, contexts, pc>>
      BY <2>1 DEF ConnectionRedirects
    <3> QED BY <3>1, <3>2, <3>3
  <2>2. CASE ConnectionQuits BY <2>2 DEF ConnectionQuits
  <2>3. CASE Forward
    <3>1. fate' \in Fates BY <2>3, FateTypes DEF Forward
    <3> QED BY <2>3, <3>1 DEF Forward
  <2> QED BY <1>8, <2>1, <2>2, <2>3 DEF HandlerStep
<1>9. CASE DispatchReturns BY <1>9 DEF DispatchReturns
<1>10. ASSUME NEW p \in Packets, Receive(p) PROVE StateTyped'
  <2>1. /\ FirstEvent(p) \in EventTypes /\ p.from \in Sides
    BY EventsOf DEF EventTypes
  <2>2. fate' = Unseen /\ packet' = p BY <1>10 DEF Receive
  <2>3. serial + 1 \in 0..MaxEvents BY <1>10 DEF Receive
  <2>4. UNCHANGED <<prefix, commands, valid, kept>> BY <1>10 DEF Receive
  <2>5. CASE Malformed(p)
    <3>1. up' = [up EXCEPT ![p.from] = FALSE] /\ UNCHANGED <<current, at, canceled, serial, pc>>
      BY <1>10, <2>5 DEF Receive
    <3> QED BY <2>1, <2>2, <2>4, <3>1, FateTypes
  <2>6. CASE ~Malformed(p)
    <3>1. Begin(FirstEvent(p)) /\ UNCHANGED up BY <1>10, <2>6 DEF Receive
    <3>2. canceled' \in BOOLEAN BY <3>1 DEF Begin
    <3>3. current' = FirstEvent(p) /\ at' = 1 /\ serial' = serial + 1 /\ pc' = "dispatch"
      BY <3>1 DEF Begin
    <3>4. fate' \in Fates /\ up' = up BY <2>2, <3>1, FateTypes
    <3> QED BY <2>1, <2>2, <2>3, <2>4, <3>2, <3>3, <3>4
  <2> QED BY <2>5, <2>6
<1>11. CASE AfterTyped
  <2>1. packet \in Packets BY <1>11 DEF AfterTyped, FlowInv
  <2>2. serial + 1 \in 0..MaxEvents /\ RawEvent(packet) \in EventTypes
    BY <1>11, <2>1, EventsOf DEF AfterTyped, FlowInv, EventTypes
  <2>3. UNCHANGED <<prefix, commands, up, packet, valid, kept, fate>> BY <1>11 DEF AfterTyped
  <2>4. CASE canceled
    BY <1>11, <2>3, <2>4 DEF AfterTyped
  <2>5. CASE ~canceled
    <3>1. Begin(RawEvent(packet)) BY <1>11, <2>5 DEF AfterTyped
    <3>2. canceled' \in BOOLEAN BY <3>1 DEF Begin
    <3> QED BY <2>2, <2>3, <3>1, <3>2 DEF Begin
  <2> QED BY <2>4, <2>5
<1> QED BY Steps, <1>1, <1>2, <1>3, <1>4, <1>5, <1>6, <1>7, <1>8, <1>9, <1>10, <1>11
        DEF PathStep, EventStep
-----------------------------------------------------------------------------
(* Where the main thread is *)

\* Everybody's place among the listeners.
LEMMA ServedPlaces ==
  ASSUME NEW t \in EventTypes
  PROVE  /\ Len(ServedBy(t)) = LastPlace(t) /\ LastPlace(t) \in {1, 2} /\ BridgeAt(t) \in 1..LastPlace(t)
         /\ \A i \in 1..LastPlace(t) :
               /\ ServedBy(t)[i] = "commands" <=> t = "Input" /\ i = 1
               /\ ServedBy(t)[i] = "bridge" <=> i = BridgeAt(t)
               /\ ServedBy(t)[i] = "connection" <=> t \in {"Quit", "OnSendToServer"} /\ i = 2
               /\ ServedBy(t)[i] = "forwarding" <=> t \in RawEvents /\ i = 2
BY DEF ServedBy, LastPlace, BridgeAt, EventTypes, TypedEvents, RawEvents

\* Which listener is asked, where in the list it is, and for which events.
LEMMA WhoIsInvoked ==
  ASSUME ListsInv, StateTyped, FlowInv
  PROVE  /\ Dispatching => /\ current \in EventTypes /\ packet \in Packets
                           /\ Order = ServedBy(current) /\ Len(Order) = LastPlace(current)
         /\ \A who : Invoking(who) =>
               /\ Dispatching /\ pc = "dispatch" /\ ~canceled /\ at \in 1..LastPlace(current)
               /\ who = "commands" => current = "Input" /\ at = 1
               /\ who = "bridge" => at = BridgeAt(current)
               /\ who = "connection" => current \in {"Quit", "OnSendToServer"} /\ at = 2
               /\ who = "forwarding" => current \in RawEvents /\ at = 2
         /\ DispatchDone =>
               /\ Dispatching /\ pc = "dispatch"
               /\ ~canceled => at = LastPlace(current) + 1
<1>1. ASSUME Dispatching
      PROVE  /\ current \in EventTypes /\ packet \in Packets
             /\ Order = ServedBy(current) /\ Len(Order) = LastPlace(current)
             /\ at \in 1..(LastPlace(current) + 1)
  <2>1. current \in EventTypes /\ packet \in Packets BY <1>1 DEF FlowInv, StateTyped
  <2>2. listeners[current] = Standing(current, 11)
    BY <1>1, <2>1 DEF ListsInv, Dispatching
  <2> QED BY <1>1, <2>1, <2>2, AllStand, ServedPlaces DEF Order, FlowInv
<1>2. pc = "dispatch" => Dispatching BY DEF Dispatching
<1>3. ASSUME NEW who, Invoking(who)
      PROVE  /\ Dispatching /\ pc = "dispatch" /\ ~canceled /\ at \in 1..LastPlace(current)
             /\ who = ServedBy(current)[at] /\ current \in EventTypes
  <2>1. pc = "dispatch" /\ ~canceled /\ at <= Len(Order) /\ Order[at] = who BY <1>3 DEF Invoking
  <2>2. LastPlace(current) \in {1, 2} BY <1>1, <1>2, <2>1, ServedPlaces
  <2> QED BY <1>1, <1>2, <2>1, <2>2
<1>4. ASSUME DispatchDone
      PROVE  Dispatching /\ pc = "dispatch" /\ (~canceled => at = LastPlace(current) + 1)
  <2>1. pc = "dispatch" /\ (canceled \/ at > Len(Order)) BY <1>4 DEF DispatchDone
  <2>2. LastPlace(current) \in {1, 2} BY <1>1, <1>2, <2>1, ServedPlaces
  <2> QED BY <1>1, <1>2, <2>1, <2>2
<1> QED BY <1>1, <1>3, <1>4, ServedPlaces

\* A new event is at its beginning.
LEMMA BeginFlow ==
  ASSUME NEW t \in EventTypes, Begin(t), StateTyped, packet' \in Packets, ~Malformed(packet'),
         t \in {FirstEvent(packet'), RawEvent(packet')}, t \in TypedEvents => serial + 1 < MaxEvents
  PROVE  FlowInv'
<1>1. current' = t /\ at' = 1 /\ pc' = "dispatch" /\ serial' = serial + 1 BY DEF Begin
<1>2. t # NoType BY DEF EventTypes, TypedEvents, RawEvents, NoType
<1>3. LastPlace(t) \in {1, 2} BY ServedPlaces
<1> QED BY <1>1, <1>2, <1>3 DEF FlowInv, Dispatching, InBridge

\* on_receive() and dispatch() take the main thread through its places in order.
LEMMA FlowKept ==
  ASSUME ListsInv, StateTyped, FlowInv, [Next]_vars
  PROVE  FlowInv'
<1> USE DEF event, Dispatching, InBridge
<1>1. /\ Dispatching => LastPlace(current) \in {1, 2} /\ BridgeAt(current) \in 1..LastPlace(current)
      /\ Dispatching => current \in EventTypes /\ current # NoType
      /\ at \in Nat
  <2>1. NoType \notin EventTypes BY DEF EventTypes, TypedEvents, RawEvents, NoType
  <2> QED BY <2>1, WhoIsInvoked, ServedPlaces DEF StateTyped
<1>2. ASSUME UNCHANGED <<packet, current, at, canceled, serial, pc>> PROVE FlowInv'
  BY <1>2 DEF FlowInv
<1>3. CASE Construct \/ Destruct BY <1>2, <1>3 DEF Construct, Destruct
<1>4. CASE Start \/ Stop BY <1>4 DEF Start, Stop, FlowInv
<1>5. CASE UNCHANGED vars BY <1>2, <1>5 DEF vars
<1>6. CASE ScriptStep BY <1>2, <1>6 DEF ScriptStep, On, Off, Register, SetPrefix
<1>7. CASE PeerStep BY <1>7 DEF PeerStep, Connect, Disconnect, FlowInv
<1>8. CASE CommandStep
  <2>1. CASE CommandRuns
    <3>1. current = "Input" /\ at = 1 /\ ~canceled /\ pc = "dispatch"
      BY <2>1, WhoIsInvoked DEF CommandRuns
    <3> QED BY <2>1, <3>1 DEF CommandRuns, FlowInv
  <2>2. CASE CommandReturns
    <3>1. current = "Input" /\ at = 1 BY <2>2 DEF CommandReturns, FlowInv
    <3>2. LastPlace(current) = 2 BY <3>1 DEF LastPlace
    <3> QED BY <2>2, <3>1, <3>2 DEF CommandReturns, FlowInv
  <2>3. CASE NoCommand
    <3>1. current = "Input" /\ at = 1 /\ pc = "dispatch" BY <2>3, WhoIsInvoked DEF NoCommand
    <3>2. LastPlace(current) = 2 BY <3>1 DEF LastPlace
    <3> QED BY <2>3, <3>1, <3>2 DEF NoCommand, FlowInv, history
  <2> QED BY <1>8, <2>1, <2>2, <2>3 DEF CommandStep
<1>9. CASE BridgeStep
  <2>1. CASE BridgeEnters
    <3>1. at = BridgeAt(current) /\ pc = "dispatch" BY <2>1, WhoIsInvoked DEF BridgeEnters
    <3> QED BY <2>1, <3>1 DEF BridgeEnters, FlowInv
  <2>2. CASE BridgeLeaves BY <1>1, <2>2 DEF BridgeLeaves, FlowInv
  <2>3. CASE CallbackReturns BY <2>3 DEF CallbackReturns, FlowInv
  <2>4. CASE CallbackVetoes BY <1>1, <2>4 DEF CallbackVetoes, FlowInv
  <2>5. ASSUME NEW c \in todo, CallbackRuns(c) PROVE FlowInv' BY <2>5 DEF CallbackRuns, FlowInv
  <2> QED BY <1>9, <2>1, <2>2, <2>3, <2>4, <2>5 DEF BridgeStep
<1>10. CASE ContextStep
  <2>1. ASSUME NEW ctx \in {serial, kept}, ContextCancels(ctx) PROVE FlowInv'
    BY <2>1 DEF ContextCancels, FlowInv
  <2>2. CASE KeepContext \/ Modify BY <1>2, <2>2 DEF KeepContext, Modify
  <2> QED BY <1>10, <2>1, <2>2 DEF ContextStep
<1>11. CASE HandlerStep
  <2>1. ASSUME at \in 1..LastPlace(current), pc = "dispatch", at' = at + 1,
               UNCHANGED <<packet, current, serial, pc>>
        PROVE  FlowInv'
    BY <1>1, <2>1 DEF FlowInv
  <2>2. ASSUME NEW who, Invoking(who) PROVE at \in 1..LastPlace(current) /\ pc = "dispatch"
    BY <2>2, WhoIsInvoked
  <2>3. CASE ConnectionRedirects BY <2>1, <2>2, <2>3 DEF ConnectionRedirects
  <2>4. CASE ConnectionQuits BY <2>1, <2>2, <2>4 DEF ConnectionQuits
  <2>5. CASE Forward BY <2>1, <2>2, <2>5 DEF Forward
  <2> QED BY <1>11, <2>3, <2>4, <2>5 DEF HandlerStep
<1>12. CASE DispatchReturns
  <2>1. pc = "dispatch" BY <1>12 DEF DispatchReturns, DispatchDone
  <2>2. RawEvent(packet) \notin TypedEvents BY DEF RawEvent, TypedEvents
  <2>3. NoType \notin TypedEvents BY DEF NoType, TypedEvents
  <2> QED BY <1>12, <2>1, <2>2, <2>3 DEF DispatchReturns, FlowInv
<1>13. CASE AfterTyped
  <2>1. pc = "emitted" /\ packet' = packet /\ packet \in Packets /\ ~Malformed(packet)
    BY <1>13 DEF AfterTyped, FlowInv
  <2>2. CASE canceled BY <1>13, <2>1, <2>2 DEF AfterTyped, FlowInv
  <2>3. CASE ~canceled
    <3>1. Begin(RawEvent(packet)) BY <1>13, <2>3 DEF AfterTyped
    <3>2. RawEvent(packet) \in EventTypes /\ RawEvent(packet) \notin TypedEvents
      BY DEF EventTypes, RawEvent, RawEvents, TypedEvents
    <3> QED BY <2>1, <3>1, <3>2, BeginFlow
  <2> QED BY <2>2, <2>3
<1>14. ASSUME NEW p \in Packets, Receive(p) PROVE FlowInv'
  <2>1. pc = "idle" /\ packet' = p /\ serial + 2 <= MaxEvents BY <1>14 DEF Receive
  <2>2. CASE Malformed(p) BY <1>14, <2>1, <2>2 DEF Receive, FlowInv
  <2>3. CASE ~Malformed(p)
    <3>1. Begin(FirstEvent(p)) BY <1>14, <2>3 DEF Receive
    <3>2. FirstEvent(p) \in EventTypes BY EventsOf DEF EventTypes
    <3>3. serial + 1 < MaxEvents BY <2>1, PathAssumption DEF PathAssumption, StateTyped
    <3> QED BY <2>1, <2>3, <3>1, <3>2, <3>3, BeginFlow
  <2> QED BY <2>2, <2>3
<1> QED BY Steps, <1>3, <1>4, <1>5, <1>6, <1>7, <1>8, <1>9, <1>10, <1>11, <1>12, <1>13, <1>14
        DEF PathStep, EventStep
-----------------------------------------------------------------------------
(* Contexts *)

\* Every way out of invoke_callbacks() invalidates the context it made.
LEMMA ContextsKept ==
  ASSUME ListsInv, StateTyped, FlowInv, ContextsInv, [Next]_vars
  PROVE  ContextsInv'
<1> USE DEF InBridge, event, contexts, history, ContextsInv
<1>1. CASE Construct \/ Start \/ Stop \/ Destruct BY <1>1 DEF Construct, Start, Stop, Destruct
<1>2. CASE UNCHANGED vars BY <1>2 DEF vars
<1>3. CASE ScriptStep BY <1>3 DEF ScriptStep, On, Off, Register, SetPrefix
<1>4. CASE PeerStep BY <1>4 DEF PeerStep, Connect, Disconnect
<1>5. CASE CommandStep BY <1>5 DEF CommandStep, CommandRuns, CommandReturns, NoCommand, Invoking
<1>6. CASE BridgeStep
  BY <1>6 DEF BridgeStep, BridgeEnters, BridgeLeaves, CallbackRuns, CallbackReturns, CallbackVetoes,
              Invoking
<1>7. CASE ContextStep BY <1>7 DEF ContextStep, ContextCancels, KeepContext, Modify
<1>8. CASE HandlerStep
  BY <1>8 DEF HandlerStep, ConnectionRedirects, ConnectionQuits, Forward, Invoking
<1>9. CASE DispatchReturns BY <1>9 DEF DispatchReturns, DispatchDone
<1>10. CASE AfterTyped BY <1>10 DEF AfterTyped, Begin
<1>11. ASSUME NEW p \in Packets, Receive(p) PROVE ContextsInv'
  BY <1>11 DEF Receive, Begin
<1> QED BY Steps, <1>1, <1>2, <1>3, <1>4, <1>5, <1>6, <1>7, <1>8, <1>9, <1>10, <1>11
        DEF PathStep, EventStep
-----------------------------------------------------------------------------
(* The round of the callbacks *)

\* A new event has been given to nobody.
LEMMA BeginRound ==
  ASSUME NEW t \in EventTypes, Begin(t), callbacks' = callbacks
  PROVE  RoundInv'
<1>1. current' = t /\ at' = 1 /\ pc' = "dispatch" /\ ran' = <<>> /\ known' = callbacks' BY DEF Begin
<1>2. Range(ran') = {} /\ DOMAIN ran' = {} BY <1>1 DEF Range
<1>3. BridgeAt(current') \in {1, 2} BY DEF BridgeAt
<1>4. ~(at' > BridgeAt(current')) BY <1>1, <1>3
<1>5. Range(ran') \subseteq Audience' BY <1>2
<1>6. \A i, j \in DOMAIN ran' :
         i < j => ran'[i] # ran'[j] /\ ran'[i].priority <= ran'[j].priority
  BY <1>2
<1>7. ~InBridge' BY <1>1 DEF InBridge
<1> QED BY <1>1, <1>4, <1>5, <1>6, <1>7 DEF RoundInv

\* The next callback joins those that ran.
LEMMA AppendRan ==
  ASSUME CallbackTyped, NEW c \in Callback
  PROVE  LET r == Append(ran, c) IN
         /\ Range(r) = Range(ran) \cup {c}
         /\ DOMAIN ran = 1..Len(ran) /\ Len(ran) \in Nat
         /\ DOMAIN r = 1..(Len(ran) + 1) /\ r[Len(ran) + 1] = c
         /\ \A i \in DOMAIN ran : r[i] = ran[i]
<1> DEFINE r == Append(ran, c)
<1>1. /\ DOMAIN ran = 1..Len(ran) /\ Len(ran) \in Nat
      /\ DOMAIN r = 1..(Len(ran) + 1) /\ r[Len(ran) + 1] = c
      /\ \A i \in DOMAIN ran : r[i] = ran[i]
  BY DEF CallbackTyped
<1> HIDE DEF r
<1>2. Range(r) = Range(ran) \cup {c}
  <2>1. \A i \in DOMAIN r : i \in DOMAIN ran \/ i = Len(ran) + 1 BY <1>1
  <2>2. DOMAIN ran \subseteq DOMAIN r /\ Len(ran) + 1 \in DOMAIN r BY <1>1
  <2> QED BY <1>1, <2>1, <2>2 DEF Range
<1> QED BY <1>1, <1>2 DEF r

\* Callbacks come and go, and the round stays what it was when the event began.
LEMMA RoundKept ==
  ASSUME ListsInv, StateTyped, CallbackTyped, FlowInv, RoundInv, [Next]_vars
  PROVE  RoundInv'
<1> USE DEF event, bridge, history
<1>1. /\ Dispatching => current \in EventTypes
      /\ \A t : BridgeAt(t) \in {1, 2} /\ 1 \in Nat /\ 2 \in Nat
      /\ at \in Nat
  BY WhoIsInvoked DEF BridgeAt, StateTyped
<1>2. ASSUME UNCHANGED <<current, at, canceled, pc, todo, ran, known>>,
             callbacks' = callbacks \/ pc # "dispatch"
      PROVE  RoundInv'
  BY <1>2 DEF RoundInv, Dispatching, InBridge, Audience
<1>3. CASE Construct \/ Destruct BY <1>2, <1>3 DEF Construct, Destruct
<1>4. CASE Start \/ Stop BY <1>4 DEF Start, Stop, RoundInv, Dispatching
<1>5. CASE UNCHANGED vars BY <1>2, <1>5 DEF vars
<1>6. CASE ScriptStep
  <2>1. UNCHANGED <<event, pc, todo, history>> BY <1>6 DEF ScriptStep, On, Off, Register, SetPrefix
  <2>2. pc # "dispatch" BY <1>6 DEF ScriptStep, On, Off, Register, SetPrefix, ScriptRuns
  <2> QED BY <1>2, <2>1, <2>2
<1>7. CASE PeerStep BY <1>2, <1>7 DEF PeerStep, Connect, Disconnect
<1>8. CASE CommandStep
  <2>1. CASE CommandRuns
    <3>1. current = "Input" /\ at = 1 /\ pc = "dispatch" /\ ~canceled
      BY <2>1, WhoIsInvoked DEF CommandRuns
    <3>2. BridgeAt("Input") = 2 BY DEF BridgeAt
    <3>3. ran = <<>> BY <3>1, <3>2 DEF RoundInv, Dispatching, InBridge
    <3> QED BY <2>1, <3>1, <3>2, <3>3 DEF CommandRuns, RoundInv, Dispatching, InBridge, Audience
  <2>2. CASE CommandReturns
    <3>1. current = "Input" /\ at = 1 /\ pc = "command" BY <2>2 DEF CommandReturns, FlowInv
    <3>2. BridgeAt("Input") = 2 BY DEF BridgeAt
    <3>3. ran = <<>> BY <3>1, <3>2 DEF RoundInv, Dispatching, InBridge
    <3> QED BY <2>2, <3>1, <3>2, <3>3 DEF CommandReturns, RoundInv, Dispatching, InBridge, Audience
  <2>3. CASE NoCommand
    <3>1. current = "Input" /\ at = 1 /\ pc = "dispatch" /\ ~canceled
      BY <2>3, WhoIsInvoked DEF NoCommand
    <3>2. BridgeAt("Input") = 2 BY DEF BridgeAt
    <3> QED BY <2>3, <3>1, <3>2 DEF NoCommand, RoundInv, Dispatching, InBridge, Audience
  <2> QED BY <1>8, <2>1, <2>2, <2>3 DEF CommandStep
<1>9. CASE BridgeEnters
  <2>1. at = BridgeAt(current) /\ pc = "dispatch" /\ ~canceled
    BY <1>9, WhoIsInvoked DEF BridgeEnters
  <2>2. ran = <<>> /\ callbacks = known
    BY <1>1, <2>1 DEF RoundInv, Dispatching, InBridge
  <2>3. Range(ran) = {} /\ DOMAIN ran = {} BY <2>2 DEF Range
  <2>4. /\ todo' = Audience /\ pc' = "bridge" /\ UNCHANGED <<current, at, canceled, ran, known>>
    BY <1>9, <2>2 DEF BridgeEnters, Audience
  <2> QED BY <1>1, <2>1, <2>3, <2>4 DEF RoundInv, Dispatching, InBridge, Audience
<1>10. CASE BridgeLeaves
  <2>1. pc = "bridge" /\ at = BridgeAt(current) BY <1>10 DEF BridgeLeaves, FlowInv, InBridge
  <2>2. ~canceled => Range(ran) = Audience
    BY <1>10, <2>1 DEF BridgeLeaves, RoundInv, Dispatching, InBridge
  <2> QED BY <1>1, <1>10, <2>1, <2>2 DEF BridgeLeaves, RoundInv, Dispatching, InBridge, Audience
<1>11. CASE CallbackReturns BY <1>11 DEF CallbackReturns, RoundInv, Dispatching, InBridge, Audience
<1>12. CASE CallbackVetoes
  <2>1. pc = "callback" /\ at = BridgeAt(current) BY <1>12 DEF CallbackVetoes, FlowInv, InBridge
  <2> QED BY <1>1, <1>12, <2>1 DEF CallbackVetoes, RoundInv, Dispatching, InBridge, Audience
<1>13. ASSUME NEW c \in todo, CallbackRuns(c) PROVE RoundInv'
  <2>1. /\ pc = "bridge" /\ pc' = "callback" /\ ~canceled /\ First(c)
        /\ todo' = todo \ {c} /\ ran' = Append(ran, c)
        /\ UNCHANGED <<current, at, canceled, known>>
    BY <1>13 DEF CallbackRuns
  <2>2. c \in Callback /\ \A d \in todo : d \in Callback BY DEF CallbackTyped
  <2>3. /\ Range(ran') = Range(ran) \cup {c}
        /\ DOMAIN ran = 1..Len(ran) /\ Len(ran) \in Nat
        /\ DOMAIN ran' = 1..(Len(ran) + 1) /\ ran'[Len(ran) + 1] = c
        /\ \A i \in DOMAIN ran : ran'[i] = ran[i]
    BY <2>1, <2>2, AppendRan
  <2>4. /\ Range(ran) \subseteq Audience
        /\ \A i, j \in DOMAIN ran :
              i < j => ran[i] # ran[j] /\ ran[i].priority <= ran[j].priority
        /\ todo \cup Range(ran) = Audience
        /\ todo \cap Range(ran) = {}
        /\ \A i \in DOMAIN ran : \A d \in todo : ran[i].priority <= d.priority
    BY <2>1 DEF RoundInv, Dispatching, InBridge
  <2>5. at = BridgeAt(current) BY <2>1 DEF FlowInv, InBridge
  <2>6. Audience' = Audience BY <2>1 DEF Audience
  <2>7. Range(ran') \subseteq Audience' /\ todo' \cup Range(ran') = Audience'
        /\ todo' \cap Range(ran') = {}
    BY <2>1, <2>3, <2>4, <2>6
  <2>8. ASSUME NEW i \in DOMAIN ran', NEW j \in DOMAIN ran', i < j
        PROVE  ran'[i] # ran'[j] /\ ran'[i].priority <= ran'[j].priority
    <3>1. i \in DOMAIN ran BY <2>3, <2>8
    <3>2. CASE j \in DOMAIN ran BY <2>3, <2>4, <2>8, <3>1, <3>2
    <3>3. CASE j = Len(ran) + 1
      <4>1. ran'[i] = ran[i] /\ ran'[j] = c BY <2>3, <3>1, <3>3
      <4>2. ran[i] \in Range(ran) BY <3>1 DEF Range
      <4> QED BY <2>4, <3>1, <4>1, <4>2
    <3> QED BY <2>3, <3>2, <3>3
  <2>9. ASSUME NEW i \in DOMAIN ran', NEW d \in todo' PROVE ran'[i].priority <= d.priority
    <3>1. CASE i \in DOMAIN ran BY <2>1, <2>3, <2>4, <2>9, <3>1
    <3>2. CASE i = Len(ran) + 1 BY <2>1, <2>3, <2>9, <3>2 DEF First
    <3> QED BY <2>3, <3>1, <3>2
  <2> QED BY <1>1, <2>1, <2>5, <2>7, <2>8, <2>9 DEF RoundInv, Dispatching, InBridge
<1>14. CASE ContextStep
  <2>1. ASSUME NEW ctx \in {serial, kept}, ContextCancels(ctx) PROVE RoundInv'
    <3>1. at = BridgeAt(current) BY <2>1 DEF ContextCancels, FlowInv, InBridge
    <3> QED BY <1>1, <2>1, <3>1 DEF ContextCancels, RoundInv, Dispatching, InBridge, Audience
  <2>2. CASE KeepContext \/ Modify BY <1>2, <2>2 DEF KeepContext, Modify
  <2> QED BY <1>14, <2>1, <2>2 DEF ContextStep
<1>15. CASE HandlerStep
  <2>1. ASSUME pc = "dispatch", ~canceled, at = 2, at > BridgeAt(current), at' = at + 1,
               UNCHANGED <<current, pc, ran, known>>
        PROVE  RoundInv'
    BY <1>1, <2>1 DEF RoundInv, Dispatching, InBridge, Audience
  <2>2. ASSUME Invoking("connection") \/ Invoking("forwarding")
        PROVE  pc = "dispatch" /\ ~canceled /\ at = 2 /\ at > BridgeAt(current)
    <3>1. /\ pc = "dispatch" /\ ~canceled /\ at = 2
          /\ current \in {"Quit", "OnSendToServer"} \cup RawEvents
      BY <2>2, WhoIsInvoked
    <3>2. BridgeAt(current) = 1 BY <3>1 DEF BridgeAt, RawEvents
    <3> QED BY <3>1, <3>2
  <2>3. CASE ConnectionRedirects BY <2>1, <2>2, <2>3 DEF ConnectionRedirects
  <2>4. CASE ConnectionQuits BY <2>1, <2>2, <2>4 DEF ConnectionQuits
  <2>5. CASE Forward BY <2>1, <2>2, <2>5 DEF Forward
  <2> QED BY <1>15, <2>3, <2>4, <2>5 DEF HandlerStep
<1>16. CASE DispatchReturns BY <1>16 DEF DispatchReturns, RoundInv, Dispatching
<1>17. CASE AfterTyped
  <2>1. CASE canceled BY <1>17, <2>1 DEF AfterTyped, RoundInv, Dispatching
  <2>2. CASE ~canceled
    <3>1. Begin(RawEvent(packet)) /\ callbacks' = callbacks BY <1>17, <2>2 DEF AfterTyped
    <3>2. RawEvent(packet) \in EventTypes BY DEF EventTypes, RawEvent, RawEvents
    <3> QED BY <3>1, <3>2, BeginRound
  <2> QED BY <2>1, <2>2
<1>18. ASSUME NEW p \in Packets, Receive(p) PROVE RoundInv'
  <2>1. CASE Malformed(p) BY <1>18, <2>1 DEF Receive, RoundInv, Dispatching
  <2>2. CASE ~Malformed(p)
    <3>1. Begin(FirstEvent(p)) /\ callbacks' = callbacks BY <1>18, <2>2 DEF Receive
    <3>2. FirstEvent(p) \in EventTypes BY EventsOf DEF EventTypes
    <3> QED BY <3>1, <3>2, BeginRound
  <2> QED BY <2>1, <2>2
<1> QED BY Steps, <1>3, <1>4, <1>5, <1>6, <1>7, <1>8, <1>9, <1>10, <1>11, <1>12, <1>13, <1>14,
           <1>15, <1>16, <1>17, <1>18
        DEF PathStep, BridgeStep, EventStep
-----------------------------------------------------------------------------
(* What becomes of the packet *)

\* What the marks leave alone.
LEMMA FateFields ==
  ASSUME NEW f \in Fates
  PROVE  /\ f.vetoed \in BOOLEAN /\ f.written \in Nat
         /\ LET g == [f EXCEPT !.vetoed = TRUE] IN
            g.vetoed /\ g.commanded = f.commanded /\ g.written = f.written
         /\ LET g == [f EXCEPT !.commanded = TRUE] IN
            g.commanded /\ g.vetoed = f.vetoed /\ g.written = f.written
         /\ LET g == [f EXCEPT !.modified = TRUE] IN
            /\ g.vetoed = f.vetoed /\ g.commanded = f.commanded /\ g.written = f.written
         /\ LET g == [f EXCEPT !.written = f.written + 1, !.sent = "original"] IN
            /\ g.vetoed = f.vetoed /\ g.commanded = f.commanded /\ g.written = f.written + 1
         /\ ~Unseen.vetoed /\ ~Unseen.commanded /\ Unseen.written = 0
BY DEF Fates, Unseen

\* An event of a packet that nobody has forwarded.
LEMMA BeginFate ==
  ASSUME NEW t \in EventTypes, Begin(t), ~fate'.vetoed, ~fate'.commanded, fate'.written = 0,
         t \in RawEvents => FirstEvent(packet') # "OnSendToServer"
  PROVE  FateInv'
<1>1. current' = t /\ at' = 1 /\ pc' = "dispatch" /\ canceled' = FALSE BY DEF Begin
<1> QED BY <1>1 DEF FateInv, Dispatching, Arrived

\* A packet is written once at most, by the last listener of its raw event.
LEMMA FateKept ==
  ASSUME ListsInv, StateTyped, FlowInv, RoundInv, FateInv, [Next]_vars
  PROVE  FateInv'
<1> USE DEF event, history
<1>1. /\ fate \in Fates /\ at \in Nat /\ canceled \in BOOLEAN
      /\ TypedEvents \cap RawEvents = {} /\ "OnSendToServer" \in TypedEvents
      /\ NoType \notin EventTypes
  BY DEF StateTyped, TypedEvents, RawEvents, EventTypes, NoType
<1>2. ASSUME UNCHANGED <<packet, up, current, at, canceled, pc, ran, fate>> PROVE FateInv'
  BY <1>2 DEF FateInv, Dispatching, Arrived, Deliverable
<1>3. CASE Construct \/ Destruct BY <1>2, <1>3 DEF Construct, Destruct
<1>4. CASE Start
  BY <1>4 DEF Start, FateInv, Dispatching, Arrived, FlowInv
<1>5. CASE Stop BY <1>5 DEF Stop, FateInv, Dispatching, Arrived
<1>6. CASE UNCHANGED vars BY <1>2, <1>6 DEF vars
<1>7. CASE ScriptStep BY <1>2, <1>7 DEF ScriptStep, On, Off, Register, SetPrefix
<1>8. CASE PeerStep BY <1>8 DEF PeerStep, Connect, Disconnect, FateInv, Dispatching, Arrived
\* Before the last listener of a raw event and in a typed one, nothing is written.
<1>9. ASSUME Dispatching, Dispatching', UNCHANGED <<packet, current>>,
             fate'.written = fate.written, fate'.vetoed <=> canceled',
             current \in RawEvents => UNCHANGED up /\ at # 3 /\ at' # 3,
             current = "OnSendToServer" => at' # 3 \/ canceled',
             fate'.commanded => ran' = <<>> /\ fate'.written = 0 /\ (pc' = "command" \/ (canceled' /\ pc' = "dispatch"))
      PROVE  FateInv'
  <2>1. pc' # "emitted" /\ ~Arrived' BY <1>9 DEF Dispatching, Arrived
  <2>2. /\ current \in TypedEvents => fate.written = 0
        /\ current \in RawEvents => fate.written = 0 /\ FirstEvent(packet) # "OnSendToServer"
    BY <1>9 DEF FateInv
  <2> QED BY <1>1, <1>9, <2>1, <2>2 DEF FateInv
<1>10. CASE CommandStep
  <2>1. CASE CommandRuns
    <3>1. current = "Input" /\ at = 1 /\ Dispatching /\ ~canceled
      BY <2>1, WhoIsInvoked DEF CommandRuns
    <3>2. BridgeAt("Input") = 2 BY DEF BridgeAt
    <3>3. ran = <<>> /\ fate.written = 0
      <4>1. pc = "dispatch" BY <2>1 DEF CommandRuns, Invoking
      <4>2. ran = <<>> BY <3>1, <3>2, <4>1 DEF RoundInv, InBridge
      <4> QED BY <3>1, <4>2 DEF FateInv, TypedEvents
    <3>4. fate'.commanded /\ fate'.vetoed = fate.vetoed /\ fate'.written = fate.written
      BY <1>1, <2>1, FateFields DEF CommandRuns
    <3>5. /\ pc' = "command" /\ Dispatching'
          /\ UNCHANGED <<packet, up, current, at, canceled, ran>>
      BY <2>1 DEF CommandRuns, Dispatching
    <3>6. fate.vetoed <=> canceled BY <3>1 DEF FateInv
    <3> QED BY <1>9, <3>1, <3>3, <3>4, <3>5, <3>6
  <2>2. CASE CommandReturns
    <3>1. current = "Input" /\ at = 1 /\ Dispatching
      BY <2>2 DEF CommandReturns, FlowInv, Dispatching
    <3>2. "Input" \notin RawEvents BY DEF RawEvents
    <3>3. fate'.vetoed /\ fate'.commanded = fate.commanded /\ fate'.written = fate.written
      BY <1>1, <2>2, FateFields DEF CommandReturns
    <3>4. /\ pc' = "dispatch" /\ Dispatching' /\ canceled'
          /\ UNCHANGED <<packet, current, ran>>
      BY <2>2 DEF CommandReturns, Dispatching
    <3>5. fate.commanded => ran = <<>> /\ fate.written = 0 BY DEF FateInv
    <3> QED BY <1>9, <3>1, <3>2, <3>3, <3>4, <3>5
  <2>3. CASE NoCommand
    <3>1. current = "Input" /\ at = 1 /\ Dispatching /\ ~canceled /\ pc = "dispatch"
      BY <2>3, WhoIsInvoked DEF NoCommand
    <3>2. "Input" \notin RawEvents BY DEF RawEvents
    <3>3. /\ Dispatching' /\ UNCHANGED <<packet, current, canceled, pc, ran, fate>>
      BY <2>3, <3>1 DEF NoCommand, Dispatching
    <3>4. (fate.vetoed <=> canceled) /\ ~fate.commanded BY <3>1 DEF FateInv
    <3> QED BY <1>9, <3>1, <3>2, <3>3, <3>4
  <2> QED BY <1>10, <2>1, <2>2, <2>3 DEF CommandStep
\* No callback runs for a chat command.
<1>11. InBridge => /\ Dispatching /\ at = BridgeAt(current) /\ ~fate.commanded
                   /\ (fate.vetoed <=> canceled)
  BY DEF InBridge, Dispatching, FlowInv, FateInv
<1>12. Dispatching => /\ BridgeAt(current) \in {1, 2}
                      /\ current \in RawEvents \cup {"OnSendToServer"} => BridgeAt(current) = 1
  BY DEF BridgeAt, RawEvents
<1>13. CASE BridgeStep
  <2>1. CASE BridgeEnters
    <3>1. Dispatching /\ pc = "dispatch" /\ at = BridgeAt(current) /\ ~canceled
      BY <2>1, WhoIsInvoked DEF BridgeEnters
    <3>2. Dispatching' /\ UNCHANGED <<packet, up, current, at, canceled, ran, fate>>
      BY <2>1 DEF BridgeEnters, Dispatching
    <3>3. (fate.vetoed <=> canceled) /\ ~fate.commanded BY <3>1 DEF FateInv
    <3> QED BY <1>9, <1>12, <3>1, <3>2, <3>3
  <2>2. CASE BridgeLeaves
    <3>1. InBridge BY <2>2 DEF BridgeLeaves, InBridge
    <3>2. /\ Dispatching' /\ at' = at + 1
          /\ UNCHANGED <<packet, up, current, canceled, ran, fate>>
      BY <2>2 DEF BridgeLeaves, Dispatching
    <3> QED BY <1>9, <1>11, <1>12, <3>1, <3>2
  <2>3. CASE CallbackReturns
    <3>1. InBridge BY <2>3 DEF CallbackReturns, InBridge
    <3>2. /\ Dispatching' /\ UNCHANGED <<packet, up, current, at, canceled, ran, fate>>
      BY <2>3 DEF CallbackReturns, Dispatching
    <3> QED BY <1>9, <1>11, <1>12, <3>1, <3>2
  <2>4. CASE CallbackVetoes
    <3>1. InBridge BY <2>4 DEF CallbackVetoes, InBridge
    <3>2. /\ Dispatching' /\ at' = at + 1 /\ canceled'
          /\ UNCHANGED <<packet, up, current>>
      BY <2>4 DEF CallbackVetoes, Dispatching
    <3>3. fate'.vetoed /\ fate'.commanded = fate.commanded /\ fate'.written = fate.written
      BY <1>1, <2>4, FateFields DEF CallbackVetoes
    <3> QED BY <1>9, <1>11, <1>12, <3>1, <3>2, <3>3
  <2>5. ASSUME NEW c \in todo, CallbackRuns(c) PROVE FateInv'
    <3>1. InBridge BY <2>5 DEF CallbackRuns, InBridge
    <3>2. /\ Dispatching' /\ UNCHANGED <<packet, up, current, at, canceled, fate>>
      BY <2>5 DEF CallbackRuns, Dispatching
    <3> QED BY <1>9, <1>11, <1>12, <3>1, <3>2
  <2> QED BY <1>13, <2>1, <2>2, <2>3, <2>4, <2>5 DEF BridgeStep
<1>14. CASE ContextStep
  <2>1. ASSUME NEW ctx \in {serial, kept}, ContextCancels(ctx) PROVE FateInv'
    <3>1. InBridge BY <2>1 DEF ContextCancels, InBridge
    <3>2. /\ Dispatching' /\ UNCHANGED <<packet, up, current, at, ran>>
          /\ canceled' = (canceled \/ ctx = serial)
      BY <2>1 DEF ContextCancels, Dispatching
    <3>3. /\ fate'.vetoed = (fate.vetoed \/ ctx = serial)
          /\ fate'.commanded = fate.commanded /\ fate'.written = fate.written
      BY <1>1, <2>1 DEF ContextCancels, Fates
    <3> QED BY <1>9, <1>11, <1>12, <3>1, <3>2, <3>3
  <2>2. CASE KeepContext BY <1>2, <2>2 DEF KeepContext
  <2>3. CASE Modify
    <3>1. InBridge BY <2>3 DEF Modify, InBridge
    <3>2. /\ Dispatching' /\ UNCHANGED <<packet, up, current, at, canceled, ran>>
      BY <2>3 DEF Modify, Dispatching
    <3>3. fate'.vetoed = fate.vetoed /\ fate'.commanded = fate.commanded /\ fate'.written = fate.written
      BY <1>1, <2>3, FateFields DEF Modify
    <3> QED BY <1>9, <1>11, <1>12, <3>1, <3>2, <3>3
  <2> QED BY <1>14, <2>1, <2>2, <2>3 DEF ContextStep
<1>15. CASE HandlerStep
  <2>1. ASSUME NEW who \in {"connection", "forwarding"}, Invoking(who)
        PROVE  /\ Dispatching /\ pc = "dispatch" /\ at = 2 /\ ~fate.commanded
               /\ ~canceled /\ ~fate.vetoed /\ fate.written = 0
               /\ who = "connection" => current \in {"Quit", "OnSendToServer"}
               /\ who = "forwarding" => current \in RawEvents
    <3>1. /\ Dispatching /\ pc = "dispatch" /\ at = 2 /\ ~canceled
          /\ who = "connection" => current \in {"Quit", "OnSendToServer"}
          /\ who = "forwarding" => current \in RawEvents
      BY <2>1, WhoIsInvoked
    <3>2. current \in TypedEvents \cup RawEvents BY <3>1 DEF TypedEvents
    <3> QED BY <3>1, <3>2 DEF FateInv
  <2>2. CASE ConnectionRedirects
    <3>1. /\ Dispatching /\ current = "OnSendToServer" /\ ~fate.commanded
      BY <2>1, <2>2 DEF ConnectionRedirects
    <3>2. /\ Dispatching' /\ canceled' /\ UNCHANGED <<packet, current>>
      BY <2>2, <3>1 DEF ConnectionRedirects, Dispatching
    <3>3. fate'.vetoed /\ fate'.commanded = fate.commanded /\ fate'.written = fate.written
      BY <1>1, <2>2, FateFields DEF ConnectionRedirects
    <3> QED BY <1>1, <1>9, <3>1, <3>2, <3>3
  <2>3. CASE ConnectionQuits
    <3>1. Dispatching /\ current = "Quit" /\ ~fate.commanded /\ ~canceled /\ ~fate.vetoed
      BY <2>1, <2>3 DEF ConnectionQuits
    <3>2. "Quit" \notin RawEvents BY DEF RawEvents
    <3>3. Dispatching' /\ UNCHANGED <<packet, current, canceled, fate>>
      BY <2>3, <3>1 DEF ConnectionQuits, Dispatching
    <3> QED BY <1>9, <3>1, <3>2, <3>3
  <2>4. CASE Forward
    <3>1. /\ Dispatching /\ current \in RawEvents /\ ~fate.commanded /\ ~canceled /\ ~fate.vetoed
          /\ at = 2 /\ fate.written = 0 /\ pc = "dispatch"
      BY <2>1, <2>4 DEF Forward
    <3>2. UNCHANGED <<packet, up, current, canceled, pc>> /\ at' = 3
      BY <2>4, <3>1 DEF Forward
    <3>3. /\ fate'.vetoed = fate.vetoed /\ fate'.commanded = fate.commanded
          /\ fate'.written = IF up[Other(packet.from)] THEN 1 ELSE 0
      BY <1>1, <2>4, <3>1, FateFields DEF Forward
    <3>4. FirstEvent(packet) # "OnSendToServer" BY <3>1 DEF FateInv
    <3> QED BY <1>1, <3>1, <3>2, <3>3, <3>4 DEF FateInv, Dispatching, Arrived
  <2> QED BY <1>15, <2>2, <2>3, <2>4 DEF HandlerStep
<1>16. CASE DispatchReturns
  <2>1. /\ Dispatching /\ pc = "dispatch" /\ current \in EventTypes
        /\ ~canceled => at = LastPlace(current) + 1
    BY <1>16, WhoIsInvoked DEF DispatchReturns
  <2>2. UNCHANGED <<packet, up, canceled, ran, fate>> /\ current' = NoType
    BY <1>16 DEF DispatchReturns
  <2>3. packet \in Packets /\ ~Malformed(packet) BY <2>1 DEF FlowInv
  <2>4. CASE current \in TypedEvents
    <3>1. pc' = "emitted" /\ ~Dispatching' /\ ~Arrived'
      BY <1>16, <2>4 DEF DispatchReturns, Dispatching, Arrived
    <3>2. current = FirstEvent(packet)
      <4>1. current \in {FirstEvent(packet), RawEvent(packet)} BY <2>1 DEF FlowInv
      <4>2. RawEvent(packet) \in RawEvents BY <2>3, EventsOf
      <4> QED BY <1>1, <2>4, <4>1, <4>2
    <3>3. ~canceled => FirstEvent(packet) # "OnSendToServer"
      <4>1. LastPlace("OnSendToServer") = 2 BY DEF LastPlace
      <4> QED BY <2>1, <3>2, <4>1 DEF FateInv
    <3> QED BY <2>1, <2>2, <2>4, <3>1, <3>3 DEF FateInv
  <2>5. CASE current \in RawEvents
    <3>1. pc' = "idle" /\ ~Dispatching'
      BY <1>1, <1>16, <2>5 DEF DispatchReturns, Dispatching
    <3>2. LastPlace(current) = 2 BY <2>5 DEF LastPlace, RawEvents
    <3>3. /\ fate.vetoed <=> canceled
          /\ FirstEvent(packet) # "OnSendToServer"
          /\ IF at = 3 THEN ~canceled /\ fate.written = IF up[Other(packet.from)] THEN 1 ELSE 0
             ELSE fate.written = 0
      BY <2>1, <2>5 DEF FateInv
    <3>4. fate.written = IF Deliverable THEN 1 ELSE 0
      BY <2>1, <2>3, <3>2, <3>3 DEF Deliverable
    <3>5. Deliverable' = Deliverable BY <2>2 DEF Deliverable
    <3>6. fate.commanded => fate.written = 0 /\ ran = <<>> BY DEF FateInv
    <3> QED BY <2>2, <3>1, <3>4, <3>5, <3>6 DEF FateInv
  <2> QED BY <2>1, <2>4, <2>5 DEF EventTypes
<1>17. CASE AfterTyped
  <2>1. pc = "emitted" /\ UNCHANGED <<packet, up, fate>> BY <1>17 DEF AfterTyped
  <2>2. /\ fate.vetoed <=> canceled
        /\ fate.written = 0
        /\ fate.commanded => canceled /\ ran = <<>>
        /\ ~canceled => FirstEvent(packet) # "OnSendToServer"
    BY <2>1 DEF FateInv
  <2>3. CASE canceled
    <3>1. pc' = "idle" /\ ~Dispatching' /\ UNCHANGED ran
      BY <1>17, <2>3 DEF AfterTyped, Dispatching
    <3>2. ~Deliverable' BY <2>1, <2>2, <2>3 DEF Deliverable
    <3> QED BY <2>1, <2>2, <3>1, <3>2 DEF FateInv
  <2>4. CASE ~canceled
    <3>1. Begin(RawEvent(packet)) BY <1>17, <2>4 DEF AfterTyped
    <3>2. RawEvent(packet) \in EventTypes BY DEF EventTypes, RawEvent, RawEvents
    <3> QED BY <2>1, <2>2, <2>4, <3>1, <3>2, BeginFate
  <2> QED BY <2>3, <2>4
<1>18. ASSUME NEW p \in Packets, Receive(p) PROVE FateInv'
  <2>1. packet' = p /\ fate' = Unseen /\ pc = "idle" BY <1>18 DEF Receive
  <2>2. ~fate'.vetoed /\ ~fate'.commanded /\ fate'.written = 0 BY <1>1, <2>1, FateFields
  <2>3. CASE Malformed(p)
    <3>1. pc' = "idle" /\ ~Dispatching' BY <1>18, <2>1, <2>3 DEF Receive, Dispatching
    <3>2. ~Deliverable' BY <2>1, <2>3 DEF Deliverable
    <3> QED BY <2>2, <3>1, <3>2 DEF FateInv
  <2>4. CASE ~Malformed(p)
    <3>1. Begin(FirstEvent(p)) BY <1>18, <2>4 DEF Receive
    <3>2. FirstEvent(p) \in EventTypes BY EventsOf DEF EventTypes
    <3>3. FirstEvent(p) \in RawEvents => FirstEvent(packet') # "OnSendToServer"
      BY <1>1, <2>1
    <3> QED BY <2>2, <3>1, <3>2, <3>3, BeginFate
  <2> QED BY <2>3, <2>4
<1> QED BY Steps, <1>3, <1>4, <1>5, <1>6, <1>7, <1>8, <1>10, <1>13, <1>14, <1>15, <1>16, <1>17, <1>18
        DEF PathStep, EventStep
-----------------------------------------------------------------------------
(* The invariant *)

\* Nothing has arrived.
LEMMA InvBegins == Init => Inv
<1> SUFFICES ASSUME Init PROVE Inv OBVIOUS
<1>1. ListTypes /\ ListsInv BY ListsBegin
<1>2. CallbackTyped
  <2>1. <<>> \in Seq(Callback) OBVIOUS
  <2> QED BY <2>1, PathAssumption DEF Init, CallbackTyped, PathAssumption
<1>3. StateTyped
  <2>1. Unseen \in Fates BY DEF Unseen, Fates
  <2>2. 0 \in 0..MaxEvents BY PathAssumption DEF PathAssumption
  <2>3. /\ canceled \in BOOLEAN /\ up \in [Sides -> BOOLEAN] /\ fate = Unseen
        /\ prefix \in Chars /\ commands \subseteq Names
    BY DEF Init, Chars, Names
  <2>4. /\ packet = NoPacket /\ current = NoType /\ at = 1 /\ serial = 0 /\ valid = {} /\ kept = 0
        /\ pc = "construct"
    BY DEF Init
  <2> QED BY <2>1, <2>2, <2>3, <2>4 DEF StateTyped
<1>4. FlowInv
  <2>1. NoType \notin TypedEvents BY DEF NoType, TypedEvents
  <2> QED BY <2>1 DEF Init, FlowInv, Dispatching, InBridge
<1>5. ContextsInv BY DEF Init, ContextsInv, InBridge
<1>6. RoundInv BY DEF Init, RoundInv, Dispatching
<1>7. FateInv BY DEF Init, FateInv, Dispatching, Arrived, Unseen
<1> QED BY <1>1, <1>2, <1>3, <1>4, <1>5, <1>6, <1>7, TypeParts DEF Inv

\* The parts are kept one after the other; each needs those before it.
LEMMA InvKept == Inv /\ [Next]_vars => Inv'
<1> SUFFICES ASSUME Inv, [Next]_vars PROVE Inv' OBVIOUS
<1>1. /\ ListTypes /\ CallbackTyped /\ StateTyped
      /\ ListsInv /\ FlowInv /\ ContextsInv /\ RoundInv /\ FateInv
  BY TypeParts DEF Inv
<1>2. ListTypes' /\ ListsInv' BY <1>1, ListsKept
<1>3. CallbackTyped' BY <1>1, CallbacksTyped
<1>4. StateTyped' BY <1>1, StateTypes
<1>5. FlowInv' BY <1>1, FlowKept
<1>6. ContextsInv' BY <1>1, ContextsKept
<1>7. RoundInv' BY <1>1, RoundKept
<1>8. FateInv' BY <1>1, FateKept
<1>9. TypeOK' BY <1>2, <1>3, <1>4, TypeParts, PTL
<1> QED BY <1>2, <1>5, <1>6, <1>7, <1>8, <1>9 DEF Inv

\* The inductive invariant: where the main thread is with a packet, what the
\* scripts have seen of its event and what became of it fit together.
THEOREM Invariance == Spec => []Inv
BY InvBegins, InvKept, PTL DEF Spec

\* The types are right: the listeners of client.cpp, server.cpp and core.cpp,
\* the callbacks of the scripts and the packet's fate.
THEOREM TypeCorrect == Spec => []TypeOK
<1>1. Inv => TypeOK BY DEF Inv
<1> QED BY <1>1, Invariance, PTL

\* No context is valid outside its own invoke_callbacks(), which has one
\* (script_event_bridge.cpp 317-341).
THEOREM ContextsAlwaysDie == Spec => []ContextsDie
<1>1. Inv => ContextsDie BY DEF Inv, ContextsInv, ContextsDie, InBridge
<1> QED BY <1>1, Invariance, PTL

\* An event goes once to every callback there was when it began, by priority,
\* unless it is canceled (script_event_bridge.cpp 303-382).
THEOREM EveryRound == Spec => []OneRound
<1>1. Inv => OneRound
  <2> SUFFICES ASSUME Inv, current # NoType PROVE OneRound BY DEF OneRound
  <2>1. Dispatching BY DEF Inv, FlowInv
  <2>2. ASSUME DispatchDone, ~canceled PROVE Range(ran) = Audience
    <3>1. current \in EventTypes /\ at = LastPlace(current) + 1
      BY <2>1, <2>2, WhoIsInvoked, TypeParts DEF Inv
    <3>2. at > BridgeAt(current) BY <3>1, ServedPlaces
    <3> QED BY <2>1, <2>2, <3>2 DEF Inv, RoundInv
  <2> QED BY <2>1, <2>2 DEF Inv, RoundInv, OneRound
<1> QED BY <1>1, Invariance, PTL

\* A packet is forwarded once if it is to be forwarded, and otherwise not at
\* all; no script sees a chat command (client.cpp 69-106, server.cpp 65-102).
THEOREM ForwardedOnce == Spec => []Forwarded
<1>1. Inv => Forwarded BY DEF Inv, FateInv, Forwarded
<1> QED BY <1>1, Invariance, PTL

\* In a canceled event no callback runs any more and nothing is forwarded
\* (event.hpp 160-163, script_event_bridge.cpp 320-339).
THEOREM CancellationIsFinal == Spec => CancelIsFinal
<1>1. Inv /\ [Next]_vars =>
        [canceled /\ current # NoType => ran' = ran /\ fate'.written = fate.written]_vars
  <2> SUFFICES ASSUME Inv, [Next]_vars, canceled, current # NoType
               PROVE  ran' = ran /\ fate'.written = fate.written
    OBVIOUS
  <2> USE DEF history
  <2>1. /\ fate \in Fates /\ Dispatching /\ pc # "idle" /\ pc # "emitted"
    BY TypeParts DEF Inv, StateTyped, FlowInv, Dispatching
  <2>10. /\ [fate EXCEPT !.vetoed = TRUE].written = fate.written
         /\ [fate EXCEPT !.commanded = TRUE].written = fate.written
         /\ [fate EXCEPT !.modified = TRUE].written = fate.written
    BY <2>1 DEF Fates
  <2>2. CASE Construct \/ Start \/ Stop \/ Destruct \/ UNCHANGED vars
    BY <2>2 DEF Construct, Start, Stop, Destruct, vars
  <2>3. CASE ScriptStep BY <2>3 DEF ScriptStep, On, Off, Register, SetPrefix
  <2>4. CASE PeerStep BY <2>4 DEF PeerStep, Connect, Disconnect
  <2>5. CASE CommandStep
    BY <2>5, <2>10 DEF CommandStep, CommandRuns, CommandReturns, NoCommand, Invoking
  <2>6. CASE BridgeStep
    BY <2>1, <2>6, <2>10 DEF BridgeStep, BridgeEnters, BridgeLeaves, CallbackRuns,
                             CallbackReturns, CallbackVetoes, Invoking
  <2>7. CASE ContextStep
    <3>1. ASSUME NEW ctx \in {serial, kept}, ContextCancels(ctx)
          PROVE  ran' = ran /\ fate'.written = fate.written
      BY <2>1, <3>1 DEF ContextCancels, Fates
    <3> QED BY <2>7, <2>10, <3>1 DEF ContextStep, KeepContext, Modify
  <2>8. CASE HandlerStep
    BY <2>8 DEF HandlerStep, ConnectionRedirects, ConnectionQuits, Forward, Invoking
  <2>9. CASE EventStep BY <2>1, <2>9 DEF EventStep, DispatchReturns, AfterTyped, Receive
  <2> QED BY Steps, <2>2, <2>3, <2>4, <2>5, <2>6, <2>7, <2>8, <2>9 DEF PathStep
<1> QED BY <1>1, Invariance, PTL DEF Spec, CancelIsFinal

\* What leaves the proxy has been shown to every script that listens to its raw
\* event (core.cpp 37-51, script_event_bridge.cpp 131-175).
THEOREM ScriptsAlwaysFirst == Spec => ScriptsSeeFirst
<1>1. Inv /\ [Next]_vars => [fate'.written > fate.written => Range(ran) = Audience]_vars
  <2> SUFFICES ASSUME Inv, [Next]_vars, fate'.written > fate.written
               PROVE  Range(ran) = Audience
    OBVIOUS
  <2> USE DEF history
  <2>1. fate \in Fates /\ fate.written \in Nat
    <3>1. fate \in Fates BY TypeParts DEF Inv, StateTyped
    <3> QED BY <3>1, FateFields
  <2>2. fate'.written # fate.written /\ fate'.written # 0 BY <2>1
  <2>11. /\ [fate EXCEPT !.vetoed = TRUE].written = fate.written
         /\ [fate EXCEPT !.commanded = TRUE].written = fate.written
         /\ [fate EXCEPT !.modified = TRUE].written = fate.written
    BY <2>1 DEF Fates
  <2>3. CASE Construct \/ Start \/ Stop \/ Destruct \/ UNCHANGED vars
    BY <2>2, <2>3 DEF Construct, Start, Stop, Destruct, vars
  <2>4. CASE ScriptStep BY <2>2, <2>4 DEF ScriptStep, On, Off, Register, SetPrefix
  <2>5. CASE PeerStep BY <2>2, <2>5 DEF PeerStep, Connect, Disconnect
  <2>6. CASE CommandStep
    BY <2>2, <2>6, <2>11 DEF CommandStep, CommandRuns, CommandReturns, NoCommand
  <2>7. CASE BridgeStep
    BY <2>2, <2>7, <2>11 DEF BridgeStep, BridgeEnters, BridgeLeaves, CallbackRuns,
                             CallbackReturns, CallbackVetoes
  <2>8. CASE ContextStep
    <3>1. ASSUME NEW ctx \in {serial, kept}, ContextCancels(ctx) PROVE FALSE
      BY <2>1, <2>2, <3>1 DEF ContextCancels, Fates
    <3> QED BY <2>2, <2>8, <2>11, <3>1 DEF ContextStep, KeepContext, Modify
  <2>9. CASE HandlerStep
    <3>1. CASE ConnectionRedirects BY <2>1, <2>2, <3>1, FateFields DEF ConnectionRedirects
    <3>2. CASE ConnectionQuits BY <2>2, <3>2 DEF ConnectionQuits
    <3>3. CASE Forward
      <4>1. Dispatching /\ ~canceled /\ current \in RawEvents /\ at = 2
        BY <3>3, WhoIsInvoked, TypeParts DEF Forward, Inv
      <4>2. BridgeAt(current) = 1 BY <4>1 DEF BridgeAt, RawEvents
      <4> QED BY <4>1, <4>2 DEF Inv, RoundInv
    <3> QED BY <2>9, <3>1, <3>2, <3>3 DEF HandlerStep
  <2>10. CASE EventStep
    BY <2>1, <2>2, <2>10, FateFields DEF EventStep, DispatchReturns, AfterTyped, Receive
  <2> QED BY Steps, <2>3, <2>4, <2>5, <2>6, <2>7, <2>8, <2>9, <2>10 DEF PathStep
<1> QED BY <1>1, Invariance, PTL DEF Spec, ScriptsSeeFirst
-----------------------------------------------------------------------------
(* The dispatcher *)

\* The operators of the two modules are the same.
LEMMA SameLists ==
  ASSUME NEW l, NEW p, NEW h
  PROVE  Dispatcher!Appended(l, p, h) = Appended(l, p, h) /\ Dispatcher!Removed(l, h) = Removed(l, h)
<1>1. Dispatcher!Appended(l, p, h) = Appended(l, p, h)
  BY DEF Dispatcher!Appended, Appended, Dispatcher!Place, Place, Dispatcher!Behind, Behind,
         Dispatcher!InsertBefore, InsertBefore, Dispatcher!PositionOf, PositionOf,
         Dispatcher!InsertAt, InsertAt
<1>2. Dispatcher!Removed(l, h) = Removed(l, h)
  BY DEF Dispatcher!Removed, Removed, Dispatcher!Kept, Kept, Dispatcher!Live, Live,
         Dispatcher!Range, Range, Dispatcher!PositionOf, PositionOf, Dispatcher!RemoveAt, RemoveAt
<1> QED BY <1>1, <1>2

\* What the dispatcher sees of a state.
LEMMA Seen ==
  ASSUME FlowInv
  PROVE  /\ ~Dispatching => current = NoType
         /\ InListener <=> pc \in {"command", "bridge", "callback"}
BY DEF FlowInv, InListener

\* A listener's answer is what Invoke() says.
LEMMA InvokeStep ==
  ASSUME Inv, Dispatching, Dispatching', UNCHANGED core, current' = current, at' = at + 1, pc' = "dispatch",
         at \in 1..LastPlace(current), InListener \/ ~canceled, canceled' \in BOOLEAN
  PROVE  Dispatcher!Invoke(canceled')
<1>1. /\ current \in EventTypes /\ current # NoType /\ Order = ServedBy(current)
      /\ Len(Order) = LastPlace(current) /\ at \in Nat \ {0}
  BY WhoIsInvoked, TypeParts DEF Inv, FlowInv, StateTyped
<1>2. Order' = Order BY DEF Order, core
<1>3. SubSeq(Order, 1, at' - 1) = Append(SubSeq(Order, 1, at - 1), Order[at])
  <2>1. Order \in Seq(Components)
    <3>1. listeners[current] \in List
      BY <1>1, TypeParts DEF Inv, ListTypes
    <3> QED BY <3>1 DEF Order, List
  <2>2. LastPlace(current) \in {1, 2} BY <1>1, ServedPlaces
  <2>3. Len(Order) \in Nat /\ at \in 1..Len(Order) BY <1>1, <2>2
  <2> HIDE DEF Order
  <2> QED BY <2>1, <2>3
<1>4. ~InListener' BY DEF InListener
<1>5. LastPlace(current) \in {1, 2} BY <1>1, ServedPlaces
<1>6. at <= Len(Order) BY <1>1, <1>5
<1>7. current' # NoType /\ at' = at + 1 BY <1>1
<1>8. (IF current' = NoType THEN <<>> ELSE SubSeq(Order', 1, at' - 1))
        = Append(IF current = NoType THEN <<>> ELSE SubSeq(Order, 1, at - 1), Order[at])
  BY <1>1, <1>2, <1>3, <1>7
<1>9. (current' # NoType /\ ~InListener' /\ canceled') = canceled'
  BY <1>4, <1>7
<1>10. ~(current # NoType /\ ~InListener /\ canceled) OBVIOUS
<1>11. UNCHANGED <<listeners, used>> BY DEF core
<1>12. NoType = Dispatcher!NoType BY DEF NoType, Dispatcher!NoType
<1>13. Order = listeners[current].order BY DEF Order
<1> HIDE DEF Order
<1> QED BY <1>1, <1>6, <1>7, <1>8, <1>9, <1>10, <1>11, <1>12, <1>13
        DEF Dispatcher!Invoke, Dispatcher!CanContinue

DispatcherSees == UNCHANGED Dispatcher!vars

\* Nothing that the dispatcher sees changes.
LEMMA Unseeing ==
  ASSUME UNCHANGED <<core, current>>,
         current = NoType \/ (UNCHANGED <<at, canceled>> /\ (InListener <=> InListener'))
                          \/ (UNCHANGED at /\ InListener' /\ (InListener \/ ~canceled))
  PROVE  DispatcherSees
<1>1. Order' = Order BY DEF Order, core
<1>2. UNCHANGED <<listeners, used>> BY DEF core
<1>3. /\ (IF current = NoType THEN 1 ELSE at)' = IF current = NoType THEN 1 ELSE at
      /\ (current # NoType /\ ~InListener /\ canceled)' = (current # NoType /\ ~InListener /\ canceled)
      /\ (IF current = NoType THEN <<>> ELSE SubSeq(Order, 1, at - 1))'
           = IF current = NoType THEN <<>> ELSE SubSeq(Order, 1, at - 1)
  BY <1>1
<1> HIDE DEF Order, InListener
<1> QED BY <1>2, <1>3 DEF DispatcherSees, Dispatcher!vars

\* One more listener is called.
LEMMA InvokeIsNext ==
  ASSUME NEW cancels \in BOOLEAN, Dispatcher!Invoke(cancels)
  PROVE  Dispatcher!Next
BY DEF Dispatcher!Next

\* A new event is dispatched.
LEMMA DispatchStep ==
  ASSUME NEW t \in EventTypes, Begin(t), current = NoType, UNCHANGED core
  PROVE  Dispatcher!Next
<1>1. t # NoType BY DEF EventTypes, TypedEvents, RawEvents, NoType
<1>2. /\ current' = t /\ at' = 1 /\ canceled' = FALSE
      /\ UNCHANGED <<listeners, used>>
  BY DEF Begin, core
<1>3. SubSeq(Order', 1, at' - 1) = <<>> BY <1>2
<1>4. NoType = Dispatcher!NoType BY DEF NoType, Dispatcher!NoType
<1> HIDE DEF Order
<1>5. Dispatcher!Dispatch(t) BY <1>1, <1>2, <1>3, <1>4 DEF Dispatcher!Dispatch
<1> QED BY <1>5 DEF Dispatcher!Next

\* A step of a component is one of the dispatcher's, or none.
LEMMA DispatcherKept ==
  ASSUME Inv, [Next]_vars
  PROVE  DispatcherSees \/ Dispatcher!Next
<1> USE DEF event, history
<1>1. /\ ListTypes /\ StateTyped /\ ListsInv /\ FlowInv
      /\ (Dispatching <=> current # NoType) /\ canceled \in BOOLEAN
      /\ NoType = Dispatcher!NoType
  BY TypeParts DEF Inv, FlowInv, StateTyped, NoType, Dispatcher!NoType
<1>2. CASE Construct
  <2> DEFINE c == Construction[built + 1]
  <2>1. /\ built \in 0..10 /\ pc = "construct"
        /\ listeners' = [listeners EXCEPT ![c[2]] = Appended(listeners[c[2]], c[3], c[1])]
        /\ used' = [used EXCEPT ![c[2]] = Append(used[c[2]], c[1])]
        /\ UNCHANGED <<current, at, canceled, pc>>
    <3>1. built \in 0..11 BY <1>1 DEF ListTypes
    <3>2. built < 11 BY <1>2, <3>1, Calls DEF Construct
    <3>3. built \in 0..10 BY <3>1, <3>2
    <3> QED BY <1>2, <3>3 DEF Construct
  <2>2. current = NoType /\ current' = NoType BY <1>1, <2>1 DEF Dispatching
  <2>3. c[2] \in EventTypes /\ c[1] \in Components /\ c[3] \in -128..127
    <3>1. built + 1 \in 1..11 BY <2>1
    <3> QED BY <3>1, Calls
  <2>4. c[1] \notin Range(used[c[2]])
    <3>1. used[c[2]] = Registrants(c[2], built) BY <2>1, <2>3, <1>1 DEF ListsInv
    <3> QED BY <2>1, <2>3, <3>1, StandingGrows
  <2>5. Dispatcher!Range(used[c[2]]) = Range(used[c[2]]) BY DEF Dispatcher!Range, Range
  <2> HIDE DEF c
  <2>6. Dispatcher!AppendListener(c[2], c[3], c[1])
    BY <1>1, <2>1, <2>2, <2>4, <2>5, SameLists DEF Dispatcher!AppendListener, Dispatcher!event
  <2>7. c[3] \in Dispatcher!PriorityRange BY <2>3 DEF Dispatcher!PriorityRange
  <2> QED BY <2>3, <2>6, <2>7 DEF Dispatcher!Next
<1>3. CASE Destruct
  <2> DEFINE c == Construction[built]
  <2>1. /\ built \in 1..11 /\ pc = "destruct"
        /\ listeners' = [listeners EXCEPT ![c[2]] = Removed(listeners[c[2]], c[1])]
        /\ UNCHANGED <<used, current, at, canceled, pc>>
    BY <1>1, <1>3 DEF Destruct, ListTypes
  <2>2. current = NoType /\ current' = NoType BY <1>1, <2>1 DEF Dispatching
  <2>3. c[2] \in EventTypes /\ c[1] \in Components BY <2>1, Calls
  <2>4. c[1] \in Range(used[c[2]])
    <3>1. used[c[2]] = Registrants(c[2], 11) BY <2>1, <2>3, <1>1 DEF ListsInv
    <3> QED BY <2>1, <3>1, RegistrantsCalled
  <2>5. Dispatcher!Range(used[c[2]]) = Range(used[c[2]]) BY DEF Dispatcher!Range, Range
  <2> HIDE DEF c
  <2>6. Dispatcher!RemoveListener(c[2], c[1])
    BY <1>1, <2>1, <2>2, <2>4, <2>5, SameLists DEF Dispatcher!RemoveListener, Dispatcher!event
  <2> QED BY <2>3, <2>6 DEF Dispatcher!Next
<1>4. CASE Start \/ Stop
  <2>1. current = NoType BY <1>1, <1>4 DEF Start, Stop, Dispatching
  <2> QED BY <1>4, <2>1, Unseeing DEF Start, Stop
<1>5. CASE UNCHANGED vars BY <1>5, Unseeing DEF vars, InListener
<1>6. CASE ScriptStep
  <2>1. UNCHANGED <<core, event, pc>> BY <1>6 DEF ScriptStep, On, Off, Register, SetPrefix
  <2> QED BY <2>1, Unseeing DEF InListener
<1>7. CASE PeerStep BY <1>7, Unseeing DEF PeerStep, Connect, Disconnect, InListener
<1>8. CASE CommandStep
  <2>1. CASE CommandRuns
    <3>1. ~canceled BY <2>1 DEF CommandRuns, Invoking
    <3>2. UNCHANGED <<core, current, at>> /\ InListener' BY <2>1 DEF CommandRuns, InListener
    <3> QED BY <3>1, <3>2, Unseeing
  <2>2. CASE CommandReturns
    <3>1. /\ Dispatching /\ at = 1 /\ current = "Input" /\ InListener
      BY <1>1, <2>2 DEF CommandReturns, FlowInv, Dispatching, InListener
    <3>2. canceled' \in BOOLEAN BY <2>2 DEF CommandReturns
    <3>3. LastPlace(current) = 2 BY <3>1 DEF LastPlace
    <3>4. /\ Dispatching' /\ at' = at + 1 /\ pc' = "dispatch" /\ UNCHANGED <<core, current>>
      BY <2>2 DEF CommandReturns, Dispatching
    <3>5. at \in 1..LastPlace(current) BY <3>1, <3>3
    <3> QED BY <3>1, <3>2, <3>4, <3>5, InvokeStep, InvokeIsNext
  <2>3. CASE NoCommand
    <3>1. /\ Dispatching /\ at \in 1..LastPlace(current) /\ pc = "dispatch" /\ ~canceled
      BY <1>1, <2>3, WhoIsInvoked DEF NoCommand
    <3>2. /\ at' = at + 1 /\ UNCHANGED <<core, current, pc, canceled>>
      BY <2>3 DEF NoCommand
    <3>3. Dispatching' BY <3>1, <3>2 DEF Dispatching
    <3> QED BY <1>1, <3>1, <3>2, <3>3, InvokeStep, InvokeIsNext
  <2> QED BY <1>8, <2>1, <2>2, <2>3 DEF CommandStep
<1>9. ASSUME pc \in {"bridge", "callback"}
      PROVE  /\ Dispatching /\ InListener /\ at \in 1..LastPlace(current)
  <2>1. Dispatching /\ InListener /\ at = BridgeAt(current) BY <1>1, <1>9 DEF Dispatching, InListener, FlowInv, InBridge
  <2>2. current \in EventTypes BY <1>1, <2>1, WhoIsInvoked
  <2> QED BY <2>1, <2>2, ServedPlaces
<1>10. CASE BridgeStep
  <2>1. CASE BridgeEnters
    <3>1. ~canceled BY <2>1 DEF BridgeEnters, Invoking
    <3>2. UNCHANGED <<core, current, at>> /\ InListener' BY <2>1 DEF BridgeEnters, InListener
    <3> QED BY <3>1, <3>2, Unseeing
  <2>2. CASE BridgeLeaves
    <3>1. /\ pc = "bridge" /\ Dispatching' /\ at' = at + 1 /\ pc' = "dispatch"
          /\ UNCHANGED <<core, current, canceled>>
      BY <2>2 DEF BridgeLeaves, Dispatching
    <3> QED BY <1>1, <1>9, <3>1, InvokeStep, InvokeIsNext
  <2>3. CASE CallbackReturns BY <2>3, Unseeing DEF CallbackReturns, InListener
  <2>4. CASE CallbackVetoes
    <3>1. /\ pc = "callback" /\ Dispatching' /\ at' = at + 1 /\ pc' = "dispatch"
          /\ UNCHANGED <<core, current>>
      BY <2>4 DEF CallbackVetoes, Dispatching
    <3>2. canceled' \in BOOLEAN BY <2>4 DEF CallbackVetoes
    <3> QED BY <1>9, <3>1, <3>2, InvokeStep, InvokeIsNext
  <2>5. ASSUME NEW c \in todo, CallbackRuns(c) PROVE DispatcherSees
    BY <2>5, Unseeing DEF CallbackRuns, InListener
  <2> QED BY <1>10, <2>1, <2>2, <2>3, <2>4, <2>5 DEF BridgeStep
<1>11. CASE ContextStep
  <2>1. /\ pc = "callback" /\ pc' = pc /\ UNCHANGED <<core, current, at>>
    BY <1>11 DEF ContextStep, ContextCancels, KeepContext, Modify
  <2>2. InListener /\ InListener' BY <2>1 DEF InListener
  <2> QED BY <2>1, <2>2, Unseeing
<1>12. CASE HandlerStep
  <2>1. ASSUME NEW who, Invoking(who), at' = at + 1, UNCHANGED <<core, current, pc>>,
               canceled' \in BOOLEAN
        PROVE  Dispatcher!Next
    <3>1. /\ Dispatching /\ at \in 1..LastPlace(current) /\ pc = "dispatch" /\ ~canceled
      BY <1>1, <2>1, WhoIsInvoked
    <3>2. Dispatching' BY <2>1, <3>1 DEF Dispatching
    <3> QED BY <2>1, <3>1, <3>2, InvokeStep, InvokeIsNext
  <2>2. CASE ConnectionRedirects
    <3>1. canceled' \in BOOLEAN BY <2>2 DEF ConnectionRedirects
    <3> QED BY <2>1, <2>2, <3>1 DEF ConnectionRedirects
  <2>3. CASE ConnectionQuits BY <1>1, <2>1, <2>3 DEF ConnectionQuits
  <2>4. CASE Forward BY <1>1, <2>1, <2>4 DEF Forward
  <2> QED BY <1>12, <2>2, <2>3, <2>4 DEF HandlerStep
<1>13. CASE DispatchReturns
  <2>1. /\ Dispatching /\ pc = "dispatch" /\ current \in EventTypes /\ Len(Order) = LastPlace(current)
        /\ ~canceled => at = LastPlace(current) + 1
    BY <1>1, <1>13, WhoIsInvoked DEF DispatchReturns
  <2>2. LastPlace(current) \in {1, 2} BY <2>1, ServedPlaces
  <2>3. canceled \/ ~(at <= Len(Order)) BY <2>1, <2>2
  <2>4. current # NoType /\ current' = NoType /\ UNCHANGED <<listeners, used>>
    BY <1>1, <1>13, <2>1 DEF DispatchReturns, core
  <2>5. ~InListener BY <2>1 DEF InListener
  <2>6. Dispatcher!Return
    BY <1>1, <2>3, <2>4, <2>5 DEF Dispatcher!Return, Dispatcher!CanContinue, Order
  <2> QED BY <2>6 DEF Dispatcher!Next
<1>14. CASE AfterTyped
  <2>1. current = NoType /\ UNCHANGED core BY <1>1, <1>14 DEF AfterTyped, Dispatching
  <2>2. CASE canceled BY <1>14, <2>1, <2>2, Unseeing DEF AfterTyped
  <2>3. CASE ~canceled
    <3>1. Begin(RawEvent(packet)) BY <1>14, <2>3 DEF AfterTyped
    <3>2. RawEvent(packet) \in EventTypes BY DEF EventTypes, RawEvent, RawEvents
    <3> QED BY <2>1, <3>1, <3>2, DispatchStep
  <2> QED BY <2>2, <2>3
<1>15. ASSUME NEW p \in Packets, Receive(p) PROVE DispatcherSees \/ Dispatcher!Next
  <2>1. current = NoType /\ UNCHANGED core BY <1>1, <1>15 DEF Receive, Dispatching
  <2>2. CASE Malformed(p) BY <1>15, <2>1, <2>2, Unseeing DEF Receive
  <2>3. CASE ~Malformed(p)
    <3>1. Begin(FirstEvent(p)) BY <1>15, <2>3 DEF Receive
    <3>2. FirstEvent(p) \in EventTypes BY EventsOf DEF EventTypes
    <3> QED BY <2>1, <3>1, <3>2, DispatchStep
  <2> QED BY <2>2, <2>3
<1> QED BY Steps, <1>2, <1>3, <1>4, <1>5, <1>6, <1>7, <1>8, <1>10, <1>11, <1>12, <1>13, <1>14, <1>15
        DEF PathStep, EventStep

\* The components use the dispatcher as it is specified: listeners come and go
\* between the dispatches, and each is asked in its turn (core.cpp 34-51,
\* event.hpp 150-216).
THEOREM UsesDispatcher == Spec => DispatcherSpec
<1>1. Init => Dispatcher!Init
  BY SameLists DEF Init, Dispatcher!Init, Dispatcher!NoType, NoType, Dispatcher!NoListeners, NoListeners
<1>2. Inv /\ [Next]_vars => [UNCHANGED Dispatcher!vars \/ Dispatcher!Next]_(Dispatcher!vars)
  BY DispatcherKept DEF DispatcherSees
<1> QED BY <1>1, <1>2, Invariance, PTL DEF Spec, DispatcherSpec
=============================================================================
