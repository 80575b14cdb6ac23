---------------------------- MODULE ListenerList ----------------------------
(***************************************************************************)
(* The listeners of one event type in event::PriorityEventDispatcher       *)
(* (event/event.hpp), which keeps them twice: entries is the vector in     *)
(* handles_, with the priorities, and order is the callback list inside    *)
(* eventpp, which is the one a dispatch walks.  Handles are compared by    *)
(* whether their listeners stand, so that a removal forgets the priorities *)
(* of all others.                                                          *)
(***************************************************************************)
EXTENDS Integers, SequencesExt

\* struct Priority
Highest == -128
MutFairlyHigh == 64
FairlyHigh == -64
Normal == 0

NoListeners == [entries |-> <<>>, order |-> <<>>]

\* The entries a listener of priority p goes before.
Behind(entries, p) == {i \in DOMAIN entries : entries[i].priority > p}

Place(entries, p) ==
    IF Behind(entries, p) = {} THEN Len(entries) + 1
    ELSE CHOOSE i \in Behind(entries, p) : \A j \in Behind(entries, p) : i <= j

PositionOf(order, h) == CHOOSE i \in DOMAIN order : order[i] = h

\* eventpp's insert(): before the node of a handle.
InsertBefore(order, before, h) == InsertAt(order, PositionOf(order, before), h)

\* appendListener(); prependListener() is the same with Highest.
Appended(l, p, h) ==
    LET at == Place(l.entries, p) IN
    [entries |-> InsertAt(l.entries, at, [priority |-> p, handle |-> h]),
     order |-> IF at > Len(l.entries) THEN Append(l.order, h)
               ELSE InsertBefore(l.order, l.entries[at].handle, h)]

\* A Handle is a weak pointer to eventpp's node, and converts to bool: does the node still stand?
Live(l, h) == h \in Range(l.order)

\* std::erase_if() of the entries with e.handle == handle.  Handles have no
\* comparison of their own: == compares what the two convert to.
Kept(l, h) ==
    LET kept[i \in 0..Len(l.entries)] ==
            IF i = 0 THEN <<>>
            ELSE IF Live(l, l.entries[i].handle) = Live(l, h) THEN kept[i - 1]
            ELSE Append(kept[i - 1], l.entries[i])
    IN  kept[Len(l.entries)]

\* removeListener(): the vector is searched first, then eventpp drops the node.
Removed(l, h) ==
    [entries |-> Kept(l, h),
     order |-> IF Live(l, h) THEN RemoveAt(l.order, PositionOf(l.order, h)) ELSE l.order]
-----------------------------------------------------------------------------

\* How many listeners have no entry any more: an effective removal drops the entries of all.
Forgotten(l) == Len(l.order) - Len(l.entries)

\* The entries are those of the end of the callback list, in its order.
Agree(l) ==
    /\ Forgotten(l) >= 0
    /\ \A i \in DOMAIN l.entries : l.order[Forgotten(l) + i] = l.entries[i].handle

Distinct(l) == IsInjective(l.order)

\* A smaller number is served first.
Ordered(l) == \A i, j \in DOMAIN l.entries :
    i < j => l.entries[i].priority <= l.entries[j].priority
=============================================================================
