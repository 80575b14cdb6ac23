----------------------------- MODULE PacketPath -----------------------------
(***************************************************************************)
(* One packet through the proxy: Client/Server::on_receive decode it,      *)
(* dispatch the typed event of its id and then the raw event, and the      *)
(* listeners of Core::Core handle them: the chat commands, the callbacks   *)
(* of the scripts (ScriptEventBridge), the ConnectionHandler, and the      *)
(* ForwardingHandler, which writes the packet to the other side.           *)
(* Everything runs on the main thread; scripts act in their callbacks, in  *)
(* Lua commands, and between packets (ScriptScheduler).                    *)
(***************************************************************************)
EXTENDS ListenerList, FiniteSets

CONSTANTS
    Packets,       \* what the two peers send
    CallbackTypes, \* the events scripts listen to
    Priorities,    \* the int priorities they give to event.on()
    MaxCallbacks,  \* bound on next_handle_
    MaxEvents      \* bound on the events dispatched

Sides == {"Client", "Server"}        \* the game client, the game server
Other(side) == IF side = "Client" THEN "Server" ELSE "Client"

\* Typed events, and the events of packets as they arrived.
TypedEvents == {"Input", "Quit", "OnSendToServer", "Log"}
RawEvents == {"ServerBoundPacket", "ClientBoundPacket"}
EventTypes == TypedEvents \cup RawEvents
NoType == "none"

\* PacketRegistry has no factory for OnNameChanged, which does have an id.
Registered == TypedEvents
PacketIds == Registered \cup {"OnNameChanged", "Unknown"}

Chars == {"/", "!"}
Names == {"warp", "say", "unknown"}
NoText == [first |-> "", name |-> ""]
Texts == [first : Chars \cup {""}, name : Names \cup {""}]

Packet == [from : Sides,
           size : {"short", "normal", "long"},
           decodes : BOOLEAN,     \* the message type is known and the variant is well formed
           id : PacketIds,        \* derive_packet_id()
           reads : BOOLEAN,       \* IPacket::read() accepts the payload
           text : Texts]
NoPacket == [from |-> "none"]

ASSUME PathAssumption ==
    /\ Packets \subseteq Packet
    /\ CallbackTypes \subseteq EventTypes
    /\ Priorities \subseteq Int
    /\ MaxCallbacks \in Nat /\ MaxEvents \in Nat

Components == {"connection", "forwarding", "commands", "bridge"}

\* The appendListener() calls of Core::Core, in the order it makes them.
Construction == <<
    <<"connection", "OnSendToServer", Normal>>,
    <<"connection", "Quit", Normal>>,
    <<"forwarding", "ClientBoundPacket", Normal>>,
    <<"forwarding", "ServerBoundPacket", Normal>>,
    <<"commands", "Input", Highest>>,
    <<"bridge", "ServerBoundPacket", FairlyHigh>>,
    <<"bridge", "ClientBoundPacket", FairlyHigh>>,
    <<"bridge", "Input", FairlyHigh>>,
    <<"bridge", "Quit", FairlyHigh>>,
    <<"bridge", "OnSendToServer", FairlyHigh>>,
    <<"bridge", "Log", FairlyHigh>> >>

VARIABLES
    built,       \* how many listeners of Construction are in place
    listeners,   \* the dispatcher's listeners, for each event type
    used,        \* history: who has registered for each, in order
    callbacks,   \* ScriptEventBridge::callbacks_
    next_handle, \* next_handle_
    prefix,      \* CommandRegistry::prefix_
    commands,    \* the names in CommandRegistry::commands_
    up,          \* is_connected() of each side
    packet,      \* the packet on its way, or the last one
    current, at, canceled,   \* the event in dispatch
    serial,      \* the number of events dispatched: the identity of an event
    todo,        \* what is left of invoke_callbacks()'s applicable_callbacks
    valid,       \* the events whose contexts have *is_valid
    kept,        \* the event of a context some script kept in a variable
    pc,          \* the main thread's place
    ran,         \* history: the callbacks this event was given to
    known,       \* history: the callbacks there were when this event began
    fate         \* history: what became of the packet

core == <<built, listeners, used>>
bridge == <<callbacks, next_handle>>
registry == <<prefix, commands>>
event == <<current, at, canceled, serial>>
contexts == <<valid, kept>>
history == <<ran, known, fate>>
vars == <<core, bridge, registry, up, packet, event, todo, contexts, pc, history>>

Unseen == [vetoed |-> FALSE, commanded |-> FALSE, modified |-> FALSE,
           written |-> 0, sent |-> "none"]

Init ==
    /\ built = 0
    /\ listeners = [t \in EventTypes |-> NoListeners]
    /\ used = [t \in EventTypes |-> <<>>]
    /\ callbacks = {} /\ next_handle = 0
    /\ prefix = "/" /\ commands = {"warp"}
    /\ up = [side \in Sides |-> FALSE]
    /\ packet = NoPacket
    /\ current = NoType /\ at = 1 /\ canceled = FALSE /\ serial = 0
    /\ todo = {} /\ valid = {} /\ kept = 0
    /\ pc = "construct"
    /\ ran = <<>> /\ known = {} /\ fate = Unseen
-----------------------------------------------------------------------------
(* Construction and destruction of the core. *)

Construct ==
    /\ pc = "construct" /\ built < Len(Construction)
    /\ built' = built + 1
    /\ LET c == Construction[built + 1] IN
       /\ listeners' = [listeners EXCEPT ![c[2]] = Appended(@, c[3], c[1])]
       /\ used' = [used EXCEPT ![c[2]] = Append(@, c[1])]
    /\ UNCHANGED <<bridge, registry, up, packet, event, todo, contexts, pc, history>>

\* Core::run() starts, with the scripts loaded.
Start ==
    /\ pc = "construct" /\ built = Len(Construction)
    /\ pc' = "idle"
    /\ UNCHANGED <<core, bridge, registry, up, packet, event, todo, contexts, history>>

\* Core::run() returns and the members are destroyed, the last one first.
Stop ==
    /\ pc = "idle"
    /\ pc' = "destruct"
    /\ UNCHANGED <<core, bridge, registry, up, packet, event, todo, contexts, history>>

Destruct ==
    /\ pc = "destruct" /\ built > 0
    /\ built' = built - 1
    /\ LET c == Construction[built] IN
       listeners' = [listeners EXCEPT ![c[2]] = Removed(@, c[1])]
    /\ UNCHANGED <<used, bridge, registry, up, packet, event, todo, contexts, pc, history>>
-----------------------------------------------------------------------------
(* What scripts may do whenever they run. *)

ScriptRuns ==
    \/ pc = "construct" /\ built = Len(Construction)
    \/ pc \in {"idle", "callback", "command"}

\* static_cast<int8_t>
ToInt8(p) == ((p + 128) % 256) - 128

\* The copy is a reference, and a dispatch in progress gains the callback.
MutOn(t, p) ==
    /\ ScriptRuns /\ next_handle < MaxCallbacks
    /\ LET c == [handle |-> next_handle, type |-> t, priority |-> ToInt8(p)] IN
       /\ callbacks' = callbacks \cup {c}
       /\ todo' = IF pc = "callback" /\ t = current THEN todo \cup {c} ELSE todo
    /\ next_handle' = next_handle + 1
    /\ UNCHANGED <<core, registry, up, packet, event, contexts, pc, history>>

\* event.on(): register_callback()
On(t, p) ==
    /\ ScriptRuns /\ next_handle < MaxCallbacks
    /\ callbacks' = callbacks \cup {[handle |-> next_handle, type |-> t, priority |-> ToInt8(p)]}
    /\ next_handle' = next_handle + 1
    /\ UNCHANGED <<core, registry, up, packet, event, todo, contexts, pc, history>>

\* event.off(): unregister_callback(); a dispatch in progress has its own copy
Off(h) ==
    /\ ScriptRuns
    /\ callbacks' = {c \in callbacks : c.handle # h}
    /\ UNCHANGED <<core, next_handle, registry, up, packet, event, todo, contexts, pc, history>>

\* command.register(), which replaces a command of the same name, and
\* command.set_prefix()
Register(name) ==
    /\ ScriptRuns
    /\ commands' = commands \cup {name}
    /\ UNCHANGED <<core, bridge, prefix, up, packet, event, todo, contexts, pc, history>>

SetPrefix(p) ==
    /\ ScriptRuns
    /\ prefix' = p
    /\ UNCHANGED <<core, bridge, commands, up, packet, event, todo, contexts, pc, history>>

Scripts ==
    \/ \E t \in CallbackTypes, p \in Priorities : On(t, p)
    \/ \E h \in 0..(MaxCallbacks - 1) : Off(h)
    \/ Register("say")
    \/ \E p \in Chars : SetPrefix(p)
-----------------------------------------------------------------------------
(* The peers. *)

Connect(side) ==
    /\ pc = "idle" /\ ~up[side]
    /\ up' = [up EXCEPT ![side] = TRUE] /\ packet' = NoPacket
    /\ UNCHANGED <<core, bridge, registry, event, todo, contexts, pc, history>>

Disconnect(side) ==
    /\ pc = "idle" /\ up[side]
    /\ up' = [up EXCEPT ![side] = FALSE] /\ packet' = NoPacket
    /\ UNCHANGED <<core, bridge, registry, event, todo, contexts, pc, history>>

\* dispatch() of a new event for the packet
Begin(t) ==
    /\ current' = t /\ at' = 1 /\ canceled' = FALSE /\ serial' = serial + 1
    /\ ran' = <<>> /\ known' = callbacks
    /\ pc' = "dispatch"

Malformed(p) == p.size = "short" \/ (p.from = "Client" /\ p.size = "long")

RawEvent(p) == IF p.from = "Client" THEN "ServerBoundPacket" ELSE "ClientBoundPacket"

\* PacketDecoder::decode() and PacketRegistry::create(): an id without a
\* factory becomes a generic packet, a registered one must read().
Decoded(p) == p.decodes /\ (p.id \in Registered => p.reads)

\* The first event of a packet: PacketEventRegistry has one for every registered id.
FirstEvent(p) == IF Decoded(p) /\ p.id \in Registered THEN p.id ELSE RawEvent(p)

\* Client::on_receive() and Server::on_receive(): a malformed packet ends the connection
Receive(p) ==
    /\ pc = "idle" /\ up[p.from] /\ serial + 2 <= MaxEvents
    /\ packet' = p
    /\ fate' = Unseen
    /\ IF Malformed(p)
       THEN /\ up' = [up EXCEPT ![p.from] = FALSE]
            /\ UNCHANGED <<event, pc, ran, known>>
       ELSE /\ Begin(FirstEvent(p))
            /\ UNCHANGED up
    /\ UNCHANGED <<core, bridge, registry, todo, contexts>>
-----------------------------------------------------------------------------
(* A dispatch. *)

Order == listeners[current].order

\* The next listener is called although the event is canceled.
MutInvoking(who) == pc = "dispatch" /\ at <= Len(Order) /\ Order[at] = who

Invoking(who) == pc = "dispatch" /\ ~canceled /\ at <= Len(Order) /\ Order[at] = who

\* CommandHandler::on_text_packet() and CommandRegistry::execute(): the command of a
\* script is Lua, and may do what scripts do.
IsCommand(text) == text.first = prefix /\ text.name # "" /\ text.name \in commands

CommandRuns ==
    /\ Invoking("commands") /\ IsCommand(packet.text)
    /\ pc' = "command"
    /\ fate' = [fate EXCEPT !.commanded = TRUE]
    /\ UNCHANGED <<core, bridge, registry, up, packet, event, todo, contexts, ran, known>>

\* execute() returns true, whatever the command returned.
CommandReturns ==
    /\ pc = "command"
    /\ canceled' = TRUE /\ at' = at + 1 /\ pc' = "dispatch"
    /\ fate' = [fate EXCEPT !.vetoed = TRUE]
    /\ UNCHANGED <<core, bridge, registry, up, packet, current, serial, todo, contexts, ran, known>>

NoCommand ==
    /\ Invoking("commands") /\ ~IsCommand(packet.text)
    /\ at' = at + 1
    /\ UNCHANGED <<core, bridge, registry, up, packet, current, canceled, serial, todo, contexts,
                   pc, history>>

\* invoke_callbacks(): a copy of the callbacks of this type, and a context
BridgeEnters ==
    /\ Invoking("bridge")
    /\ todo' = {c \in callbacks : c.type = current}
    /\ valid' = valid \cup {serial}
    /\ pc' = "bridge"
    /\ UNCHANGED <<core, bridge, registry, up, packet, event, kept, history>>

\* std::ranges::sort() leaves the order of equal priorities open.
First(c) == \A d \in todo : c.priority <= d.priority

\* The loop does not ask event.canceled.
MutCallbackRuns(c) ==
    /\ pc = "bridge"
    /\ c \in todo /\ First(c)
    /\ todo' = todo \ {c}
    /\ ran' = Append(ran, c)
    /\ pc' = "callback"
    /\ UNCHANGED <<core, bridge, registry, up, packet, event, contexts, known, fate>>

CallbackRuns(c) ==
    /\ pc = "bridge" /\ ~canceled
    /\ c \in todo /\ First(c)
    /\ todo' = todo \ {c}
    /\ ran' = Append(ran, c)
    /\ pc' = "callback"
    /\ UNCHANGED <<core, bridge, registry, up, packet, event, contexts, known, fate>>

\* ctx:cancel(), through this context or one that was kept: check_valid() throws if it is stale
ContextCancels(ctx) ==
    /\ pc = "callback" /\ ctx \in valid
    /\ canceled' = (canceled \/ ctx = serial)
    /\ fate' = [fate EXCEPT !.vetoed = @ \/ ctx = serial]
    /\ UNCHANGED <<core, bridge, registry, up, packet, current, at, serial, todo, contexts, pc,
                   ran, known>>

\* A script keeps a copy of its context.
KeepContext ==
    /\ pc = "callback"
    /\ kept' = serial
    /\ UNCHANGED <<core, bridge, registry, up, packet, event, todo, valid, pc, history>>

\* A script assigns to a field of the typed packet.
Modify ==
    /\ pc = "callback" /\ current \in TypedEvents
    /\ fate' = [fate EXCEPT !.modified = TRUE]
    /\ UNCHANGED <<core, bridge, registry, up, packet, event, todo, contexts, pc, ran, known>>

\* The callback returns nothing or true, or fails: a failure is logged.
CallbackReturns ==
    /\ pc = "callback"
    /\ pc' = "bridge"
    /\ UNCHANGED <<core, bridge, registry, up, packet, event, todo, contexts, history>>

\* The break skips the invalidation of the context.
MutCallbackVetoes ==
    /\ pc = "callback"
    /\ canceled' = TRUE /\ at' = at + 1 /\ pc' = "dispatch"
    /\ todo' = {}
    /\ fate' = [fate EXCEPT !.vetoed = TRUE]
    /\ UNCHANGED <<core, bridge, registry, up, packet, current, serial, contexts, ran, known>>

\* The callback returns false.
CallbackVetoes ==
    /\ pc = "callback"
    /\ canceled' = TRUE /\ at' = at + 1 /\ pc' = "dispatch"
    /\ todo' = {} /\ valid' = valid \ {serial}
    /\ fate' = [fate EXCEPT !.vetoed = TRUE]
    /\ UNCHANGED <<core, bridge, registry, up, packet, current, serial, kept, ran, known>>

BridgeLeaves ==
    /\ pc = "bridge" /\ (canceled \/ todo = {})
    /\ todo' = {} /\ valid' = valid \ {serial}
    /\ at' = at + 1 /\ pc' = "dispatch"
    /\ UNCHANGED <<core, bridge, registry, up, packet, current, canceled, serial, kept, history>>

\* ConnectionHandler: OnSendToServer is replaced by another packet
ConnectionRedirects ==
    /\ Invoking("connection") /\ current = "OnSendToServer"
    /\ canceled' = TRUE /\ at' = at + 1
    /\ fate' = [fate EXCEPT !.vetoed = TRUE]
    /\ UNCHANGED <<core, bridge, registry, up, packet, current, serial, todo, contexts, pc,
                   ran, known>>

\* ConnectionHandler: the game client's quit ends both connections
ConnectionQuits ==
    /\ Invoking("connection") /\ current = "Quit"
    /\ up' = IF packet.from = "Client" THEN [side \in Sides |-> FALSE] ELSE up
    /\ at' = at + 1
    /\ UNCHANGED <<core, bridge, registry, packet, current, canceled, serial, todo, contexts, pc,
                   history>>

\* ForwardingHandler writes the data as they arrived.
Forward ==
    /\ Invoking("forwarding")
    /\ at' = at + 1
    /\ fate' = IF up[Other(packet.from)]
               THEN [fate EXCEPT !.written = @ + 1, !.sent = "original"]
               ELSE fate
    /\ UNCHANGED <<core, bridge, registry, up, packet, current, canceled, serial, todo, contexts,
                   pc, ran, known>>

DispatchDone == pc = "dispatch" /\ (canceled \/ at > Len(Order))

\* dispatch() returns.
DispatchReturns ==
    /\ DispatchDone
    /\ pc' = IF current \in TypedEvents THEN "emitted" ELSE "idle"
    /\ current' = NoType
    /\ UNCHANGED <<core, bridge, registry, up, packet, at, canceled, serial, todo, contexts, history>>

\* The raw event follows in any case.
MutAfterTyped ==
    /\ pc = "emitted"
    /\ Begin(RawEvent(packet))
    /\ UNCHANGED <<core, bridge, registry, up, packet, todo, contexts, fate>>

\* on_receive(): after a typed event that nobody canceled, the raw one
AfterTyped ==
    /\ pc = "emitted"
    /\ IF canceled
       THEN pc' = "idle" /\ UNCHANGED <<event, ran, known>>
       ELSE Begin(RawEvent(packet))
    /\ UNCHANGED <<core, bridge, registry, up, packet, todo, contexts, fate>>
-----------------------------------------------------------------------------

Listeners ==
    \/ CommandRuns \/ CommandReturns \/ NoCommand
    \/ BridgeEnters \/ BridgeLeaves
    \/ \E c \in todo : CallbackRuns(c)
    \/ \E ctx \in {serial, kept} : ContextCancels(ctx)
    \/ KeepContext \/ Modify \/ CallbackReturns \/ CallbackVetoes
    \/ ConnectionRedirects \/ ConnectionQuits \/ Forward
    \/ DispatchReturns \/ AfterTyped

Next ==
    \/ Construct \/ Start \/ Stop \/ Destruct
    \/ Scripts
    \/ \E side \in Sides : Connect(side) \/ Disconnect(side)
    \/ \E p \in Packets : Receive(p)
    \/ Listeners

Spec == Init /\ [][Next]_vars
-----------------------------------------------------------------------------

Callback == [handle : Nat, type : EventTypes, priority : -128..127]

TypeOK ==
    /\ built \in 0..Len(Construction)
    /\ listeners \in [EventTypes -> [entries : Seq([priority : -128..127, handle : Components]),
                                     order : Seq(Components)]]
    /\ used \in [EventTypes -> Seq(Components)]
    /\ callbacks \subseteq Callback /\ next_handle \in 0..MaxCallbacks
    /\ prefix \in Chars /\ commands \subseteq Names
    /\ up \in [Sides -> BOOLEAN]
    /\ packet \in Packets \cup {NoPacket}
    /\ current \in EventTypes \cup {NoType} /\ at \in Nat \ {0} /\ canceled \in BOOLEAN
    /\ serial \in 0..MaxEvents
    /\ todo \subseteq Callback /\ valid \subseteq 0..MaxEvents /\ kept \in 0..MaxEvents
    /\ pc \in {"construct", "idle", "dispatch", "command", "bridge", "callback", "emitted", "destruct"}
    /\ ran \in Seq(Callback) /\ known \subseteq Callback
    /\ fate \in [vetoed : BOOLEAN, commanded : BOOLEAN, modified : BOOLEAN,
                  written : Nat, sent : {"none", "original", "modified"}]

Arrived == pc = "idle" /\ packet # NoPacket

\* A packet is forwarded once, unless it was malformed, somebody canceled one
\* of its events, it is a redirection that the proxy replaces by its own, or
\* nobody is there to take it; it is then not forwarded at all (client.cpp
\* 69-106, server.cpp 65-102, connection_handler.cpp 71-103, forwarding_handler.cpp
\* 16-43).  A chat command stays between the game client and the proxy: no
\* script sees it either (command_handler.cpp 37-78).
Deliverable ==
    /\ ~Malformed(packet) /\ ~fate.vetoed
    /\ FirstEvent(packet) # "OnSendToServer"
    /\ up[Other(packet.from)]

Forwarded ==
    /\ Arrived => fate.written = IF Deliverable THEN 1 ELSE 0
    /\ fate.commanded => fate.written = 0 /\ ran = <<>>

Audience == {c \in known : c.type = current}

\* An event goes to the callbacks there were when it began, by priority, to none
\* twice, and to all of them unless it is canceled, whatever they register and
\* unregister on the way (script_event_bridge.cpp 303-342, 344-382).
OneRound ==
    current # NoType =>
        /\ Range(ran) \subseteq Audience
        /\ \A i, j \in DOMAIN ran :
              i < j => ran[i] # ran[j] /\ ran[i].priority <= ran[j].priority
        /\ DispatchDone /\ ~canceled => Range(ran) = Audience

\* A context outlives its event in no way that check_valid() lets pass, on any
\* of the ways out of invoke_callbacks() (script_event_bridge.cpp 317-341).
ContextsDie == valid \subseteq {serial} /\ (valid # {} => pc \in {"bridge", "callback"})

\* After the cancellation no other callback runs and nothing is forwarded.
CancelIsFinal == [][
    canceled /\ current # NoType => ran' = ran /\ fate'.written = fate.written]_vars

\* Every script that listens has seen a packet before it leaves.
ScriptsSeeFirst == [][fate'.written > fate.written => Range(ran) = Audience]_vars

\* A script changed a field of the packet that then goes out.
ModificationForwarded == Arrived /\ fate.modified /\ fate.written > 0 => fate.sent = "modified"

InListener == pc \in {"command", "bridge", "callback"}

\* The components use the dispatcher as it is specified alone.
Dispatcher == INSTANCE EventDispatcher WITH
    Handles <- Components,
    at <- IF current = NoType THEN 1 ELSE at,
    canceled <- current # NoType /\ ~InListener /\ canceled,
    called <- IF current = NoType THEN <<>> ELSE SubSeq(Order, 1, at - 1)

DispatcherSpec ==
    /\ Dispatcher!Init
    /\ [][UNCHANGED Dispatcher!vars \/ Dispatcher!Next]_(Dispatcher!vars)
=============================================================================
