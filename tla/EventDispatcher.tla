--------------------------- MODULE EventDispatcher ---------------------------
(***************************************************************************)
(* event::PriorityEventDispatcher (event/event.hpp): listeners come and go *)
(* between dispatches, and a dispatch calls those of its type until one of *)
(* them cancels the event.  Listeners of this program neither add nor      *)
(* remove listeners while they are called.                                 *)
(***************************************************************************)
EXTENDS ListenerList, FiniteSets

CONSTANTS
    EventTypes,
    Handles       \* a registration takes a handle that was never used

NoType == "none"

PriorityRange == -128..127  \* int8_t

VARIABLES
    listeners,    \* handles_ and the callback list, for each event type
    used,         \* history: the handles of each type, in order of registration
    current,      \* the type of the event in dispatch
    at,           \* the place of the next listener in the callback list
    canceled,     \* Event::canceled of the event in dispatch
    called        \* history: the listeners it was given to

vars == <<listeners, used, current, at, canceled, called>>
event == <<current, at, canceled, called>>

Init ==
    /\ listeners = [t \in EventTypes |-> NoListeners]
    /\ used = [t \in EventTypes |-> <<>>]
    /\ current = NoType /\ at = 1 /\ canceled = FALSE /\ called = <<>>

\* appendListener(t, callback, p)
AppendListener(t, p, h) ==
    /\ current = NoType
    /\ h \notin Range(used[t])
    /\ UNCHANGED event
    /\ used' = [used EXCEPT ![t] = Append(@, h)]
    /\ listeners' = [listeners EXCEPT ![t] = Appended(@, p, h)]

\* removeListener(t, h), with a handle of this type, also one that was removed before
RemoveListener(t, h) ==
    /\ current = NoType
    /\ h \in Range(used[t])
    /\ UNCHANGED <<used, event>>
    /\ listeners' = [listeners EXCEPT ![t] = Removed(@, h)]

\* dispatch() of an event of type t
Dispatch(t) ==
    /\ current = NoType
    /\ current' = t /\ at' = 1 /\ canceled' = FALSE /\ called' = <<>>
    /\ UNCHANGED <<listeners, used>>

\* EventPolicies::canContinueInvoking(), asked after each listener; a new event is not canceled
CanContinue == ~canceled /\ at <= Len(listeners[current].order)

\* One listener is called, and may cancel the event.
Invoke(cancels) ==
    /\ current # NoType /\ CanContinue
    /\ called' = Append(called, listeners[current].order[at])
    /\ at' = at + 1
    /\ canceled' = cancels
    /\ UNCHANGED <<listeners, used, current>>

Return ==
    /\ current # NoType /\ ~CanContinue
    /\ current' = NoType /\ at' = 1 /\ canceled' = FALSE /\ called' = <<>>
    /\ UNCHANGED <<listeners, used>>

Next ==
    \/ Return
    \/ \E cancels \in BOOLEAN : Invoke(cancels)
    \/ \E t \in EventTypes : Dispatch(t)
    \/ \E t \in EventTypes, h \in Handles : RemoveListener(t, h)
    \/ \E t \in EventTypes, p \in PriorityRange, h \in Handles : AppendListener(t, p, h)

Spec == Init /\ [][Next]_vars
-----------------------------------------------------------------------------

Entries == [priority : PriorityRange, handle : Handles]

TypeOK ==
    /\ listeners \in [EventTypes -> [entries : Seq(Entries), order : Seq(Handles)]]
    /\ used \in [EventTypes -> Seq(Handles)]
    /\ current \in EventTypes \cup {NoType}
    /\ at \in Nat \ {0}
    /\ canceled \in BOOLEAN
    /\ called \in Seq(Handles)

Before(t, g, h) == PositionOf(used[t], g) < PositionOf(used[t], h)

\* After any additions and removals, equal priorities and stale handles
\* included, no listener stands twice, the vector holds the end of the callback
\* list, and all of it as long as none was removed (event.hpp 176-206).
InSync == \A t \in EventTypes :
    LET l == listeners[t] IN
    /\ Agree(l) /\ Distinct(l)
    /\ Range(l.order) = Range(used[t]) => Forgotten(l) = 0

\* A dispatch walks the callback list, which knows no priorities: the
\* insertions alone keep the listeners that have an entry in their order
\* (event.hpp 180-186).
Sorted == \A t \in EventTypes : Ordered(listeners[t])

\* Of two such listeners with one priority the first to register is called first.
Stable == \A t \in EventTypes :
    LET es == listeners[t].entries IN
    \A i, j \in DOMAIN es :
        i < j /\ es[i].priority = es[j].priority => Before(t, es[i].handle, es[j].handle)

\* A removal makes the dispatcher forget the priorities of the listeners that
\* stay: they are called before all that register later, a Highest one included
\* (event.hpp 202).
ForgottenFirst == \A t \in EventTypes :
    LET l == listeners[t] IN
    \A i, j \in DOMAIN l.order :
        i <= Forgotten(l) /\ Forgotten(l) < j => Before(t, l.order[i], l.order[j])

\* A dispatch gives the event to the listeners in the list's order, to none
\* twice, and passes one over only when an earlier one canceled the event
\* (event.hpp 160-163, 208-216).
Served ==
    current # NoType =>
        /\ called = SubSeq(listeners[current].order, 1, at - 1)
        /\ ~canceled /\ ~CanContinue => Range(called) = Range(listeners[current].order)

\* No listener sees a canceled event (event.hpp 162).
CancelIsFinal == [][canceled => called' = called \/ current' = NoType]_vars
=============================================================================
