# Verification of GTProxy

GTProxy sits between a Growtopia game and a Growtopia server. It answers the
game's HTTPS login with its own address, accepts the game's ENet connection,
opens one of its own to the real server, decodes what passes, lets listeners and
Lua scripts look at it, change it or cancel it, and forwards the rest. This
directory holds TLA+ models of the parts of it that are hard to test, the TLC
runs that check them on small instances, and TLAPS proofs for all instances.

Paths below are relative to the repository's `src/` directory.

## 1. Inventory

| Component | State | Operations | Interacts with |
|---|---|---|---|
| `core::Scheduler` (`core/scheduler`) | `task_queue_`, `ready_queue_`, `pending_`/`cancelled_`/`running_tasks_`, `tasks_by_tag_`, flags, three condition variables | `schedule*`, `cancel*`, `pause`, `resume`, `stop`, `wait_all`, queries; a timer thread and N workers | commands (`WarpCommand`), `CommandContext` |
| Session: `network::Client`, `network::Server`, `core::WebServer`, `ConnectionHandler` | two ENet peers, two pairs of pending address and port | ENet events, HTTPS POST, quit, disconnect and `OnSendToServer` packets | dispatcher; HTTPS threads |
| `scripting::ScriptScheduler` and `Core::run` | `tasks_`, the loop's clock | `schedule`, `schedule_periodic`, `cancel`, `cancel_all`, `update` | Lua callbacks |
| `event::Dispatcher` (`event/event.hpp`) | listeners by type and priority | `appendListener`, `prependListener`, `dispatch`, `cancel` | everything |
| `ScriptEventBridge` | Lua callbacks by type and priority | `register_callback`, `unregister`, `invoke_callbacks` | dispatcher, Lua |
| Commands (`command/`) | registry, aliases, `CommandContext` | register, unregister, execute, warp, skin, debug | scheduler (other threads), ENet peers |
| World (`core/handlers/world_handler`, `world/`, `player/`) | world, tiles, dropped objects, players, inventory | one handler per packet | dispatcher, Lua bindings; the server's world |
| Items (`item/`) | items by id, version | `parse`, `load_from_file` | connection handler, Lua |
| Packets (`packet/`), codecs (`utils/`) | registries; otherwise none | decode, encode, `TextParse`, `ByteStream`, `PacketVariant` | client and server |
| Forwarding (`core/handlers/forwarding_handler`) | none | raw packet events to the other side | client, server |
| Configuration, logging, hashes, random numbers, DNS, Lua engine, script loader, bindings | configuration file, singletons | | |

What is hard in this program:

* **Threads.** Three kinds of threads meet: the main loop (ENet, Lua, handlers),
  the HTTPS server's, and the scheduler's. Only the scheduler has a mutex.
* **Condition variables.** The scheduler has three; `pause()`/`resume()` touch
  the predicate of one of them without its mutex.
* **Two connections, one slot each.** Each ENet host has a single peer. A session
  is two connections that should live and die together, but graceful
  disconnection, `disconnect_now`, a lost event and a new login interleave.
* **Re-entrancy.** Lua callbacks run inside loops over the very containers that
  they change.
* **Stale handles.** A periodic task gets a new id every round; a listener's handle
  says whether its listener stands, but not which one it is.
* **A mirror that nobody owns.** The copy of the world is cleared, filled and
  patched by packets that pass, in both directions; the server's answers to an
  older request may still be on their way, and some requests are not seen at all.
* **Widths and unchecked reads.** 8 and 16 bit fields are compared with wider or
  negative values, and the parsers of maps and items look at no result.

`PROJECT.json` lists each hazard at its line with the properties aimed at it.

## 2. Modules

| Module | Models | Proved in |
|---|---|---|
| `Scheduler` | `core/scheduler.{hpp,cpp}` | `SchedulerProofs` |
| `TaskLifecycle` | what the scheduler promises about one task (abstract) | refinement in `SchedulerProofs` |
| `ProxySession` | the session: both peers, the login, the redirect | `ProxySessionProofs` |
| `ScriptScheduler` | `scripting/script_scheduler` in the loop of `core/core.cpp` | `ScriptSchedulerProofs` |
| `ListenerList` | the two copies of a listener list in `event/event.hpp` (operators) | `EventDispatcherProofs` |
| `EventDispatcher` | registration, removal and dispatch | `EventDispatcherProofs` |
| `PacketPath` | one packet through `on_receive`, the listeners of `Core::Core` and the scripts, to the other side | `PacketPathProofs` |
| `World` | `core/handlers/world_handler.cpp`, `world/`, `player/`: the copy of the world beside the server's | `WorldProofs` |
| `WarpCommand` | `/warp` and `/exit` beside that world; its delayed task | `WorldProofs` |
| `ByteStream` | the reader of `utils/byte_stream.hpp` (operators) | `WorldMapProofs` |
| `ItemCache` | `item/item_database.cpp`, `items.dat` and `utils/zlib.hpp` over sessions and restarts | `WorldMapProofs` |
| `WorldMap` | `World::serialize()` down to the extra data of the tiles, with the items | `WorldMapProofs` |
| `PacketCodec` | `utils/text_parse.hpp`, `packet/packet_id.hpp`, text messages; `OnSendToServer` through `packet/packet_variant.hpp` | `PacketCodecProofs` |
| `MCScheduler`, `MCProxySession`, `MCScriptScheduler`, `MCPacketPath`, `MCWarpCommand`, `MCWorldMap`, `MCPacketCodec` | the instances TLC checks | |

`EventDispatcher` and `PacketPath` extend `ListenerList`; `PacketPath` instantiates
`EventDispatcher`, and `Scheduler` instantiates `TaskLifecycle`, as abstract
specifications that they are checked to implement. `WarpCommand` extends `World`;
`WorldMap` extends `ItemCache` and `ByteStream`.

In every module the operators named `Mut...` stand before the definition they
are a mistaken version of; each property is checked to fail with one of them in
the definition's place. They take no part in any specification.

### Scheduler

One critical section on `mutex_` is one action. The exception is the timer
thread: `pause()` and `resume()` write the atomic `paused_` without the mutex, so
each of the timer's reads of it is a step, and `MutexFree` keeps the other
threads out of the section meanwhile. The state is the code's, container by
container; `ready_queue` is a sequence, the priority queue a set with `Top` (ties
are arbitrary, as `std::priority_queue` leaves them). `schedule()` is three
steps: the id and deadline before the lock (`ScheduleBegin`), the insertion
(`ScheduleCommit`, or `ScheduleReject` when stopped) and `notify_one` after the
unlock (`ScheduleNotify`). `stop()` is its flag, its notification and its join.
Condition variables may wake spuriously. `should_continue` is a choice made when
a round of a stoppable task ends. History: `promoted` counts promotions since
`pause()`; `root` in a task record names the `schedule()` call it descends from.

`TaskLifecycle` is the promise: unborn, waiting, revoked or committed, running,
gone; a periodic task's next round is born as the last one ends. Under the
mapping a cancellation of a task in the priority queue is `Revoke`, one of a task
already in `ready_queue_` changes nothing (the code returns true, yet the task
runs: that is what the model and the proof say).

### ProxySession

`game` and `up` are the states of the two peer slots, `speer` and `cpeer` the
saved `peer_` pointers. `UpDisconnect`, `UpDisconnectNow`, `GameDisconnect` and
`Connect` are the methods of `Client` and `Server`; the actions are the ENet
events with their listeners in the order in which they are registered, and the
packets handled by `ConnectionHandler`. The listeners of `ClientConnect` are
three steps (`ClientConnect`, `WebClear`, `FinishConnect`) because an HTTPS
handler may write the pending endpoint between them. An HTTPS handler is `ask`,
then the address, then the port, or a failure at either. The port of
`ConnectionHandler` starts uninitialised (`Junk`). A script may cancel the events
in `Vetoable`. ENet itself is external: one slot per host,
`enet_host_connect` fails unless it is free, and a disconnection frees it when
it is acknowledged or times out. History: `told` (where the game was told to go),
`target` (what it was told when it came), `left_early` (a game left while its
upstream was not being closed).

### ScriptScheduler

Everything is on the main thread, so the difficulty is re-entrancy: the phase
says whether scripts are loading, the loop is at its top, events are being
processed, or `update()` is between callbacks or inside one. Scripts act in the
phases `load`, `events` and `callback`. `tasks_` is a set because ids grow.
History: `due`, `known`, `stopped`.

### ListenerList and EventDispatcher

`PriorityEventDispatcher` keeps every list twice: `handles_`, a vector with the
priorities, and eventpp's callback list, which is what `dispatch` walks.
`appendListener` looks for the place in the one and inserts before the handle
found there in the other. `Appended` and `Removed` do this to a record of both
(`entries`, `order`). The order of the priorities exists only because every
insertion keeps it. `prependListener` is the same as `appendListener` in the source.

`removeListener` erases from the vector what has `e.handle == handle`. eventpp is
not in the repository. Its handle is taken to be what the code's other uses of it
say: a weak pointer that converts to `bool`, without a comparison of its own. Then
`==` compares whether the two listeners stand (`Live`), and while the one to be
removed does, every entry whose listener stands goes (`Kept`), while eventpp drops
only the one node. So after a removal the dispatcher has forgotten the priorities
of the listeners that stay (`Forgotten`): what registers later is called behind all
of them, `Highest` included. Removing a listener that has gone drops the entries of
others that have. In this program nobody would notice: listeners are removed in
destructors only (`command_handler.cpp` 47, `script_event_bridge.cpp` 121,
`ScopedHandle`), and nothing registers after them.

`EventDispatcher` adds the walk: a
dispatch takes the listeners of its type one by one until one cancels the event
(`canContinueInvoking`). Listeners of this program do not change the lists while
they are called, so the specification lets them do so only between dispatches;
`DispatcherSpec` checks that `PacketPath` really uses it so. A removal during
`Destruct` is what a `ScopedHandle` does.

### PacketPath

`Construct` registers the listeners in the order in which `Core::Core` builds its
members, `Destruct` removes them in reverse. `Receive` is the start of
`Client::on_receive` or `Server::on_receive`: size checks that end the connection,
the decoding, then the typed event or, for what has none, the raw one.
`DispatchReturns` and `AfterTyped` are the rest: the raw event follows a typed one
that nobody canceled. Each listener is its own action: the command handler
(`CommandRuns`, `CommandReturns`, `NoCommand`), the bridge's copy of the callbacks,
its loop and its three ways out (`BridgeEnters` to `BridgeLeaves`), the redirection
and the quit of `ConnectionHandler`, and `Forward`. Scripts act between packets, in
callbacks and in Lua commands: they register and unregister callbacks, cancel
through a context they hold or held, keep contexts, modify packets, register
commands and change the prefix. A callback that fails behaves as one that returns
nothing. `packet` stays after its way is over, so that an invariant can say what
became of it (`Arrived`). History: `ran`, `known`, `fate`.

Abstractions: a packet is its size class, the outcome of its decoding, an id and
for chat the first character and the command's name. Four of the registered ids
stand for all: one with a command listener, two with connection listeners, one
with none. A text of five bytes or fewer is one that does not decode. What a
command sends is left out, and so is `WorldHandler`, which listens but cancels
nothing; a `command.execute()` inside a callback is the further things that
scripts do there. A script that replaces a built-in command leaves the names as
they are.

### World and WarpCommand

`World` has three parties. The server knows who and what is in the world; the game
sends requests; the proxy sees some of both and keeps `players`, `local_net_id`,
`tiles` and `objects`. `up` and `down` are the packets on their way, in order, as
ENet delivers them; between the server's answer and its arrival everything else may
happen. `Clear`, `AddPlayer`, `RemovePlayer` and `ReadMap` are methods of `World`,
`OnJoinRequest` to `ItemChangeObject` the handlers, `Spawned` to `ObjectChanged`
what `read()` makes of the bytes, conversions included. A join may pass unseen, for
it is recognised by a regular expression that standard libraries read differently
(see `PacketCodec`). The server is external: what it sends is what the handlers are
written for. Positions and amounts are left out. `SendTileUpdateData` is read into a
tile that is thrown away, and is left out too. History: `players` has the visit
instead of the `Player`, `mapped` and `clean` say what came since `clear()`.

`WarpCommand` adds the tasks: `Execute` is `/warp`, which exits at once, cancels by
tag and schedules; `Start` is a worker taking the task and looking at
`is_connected()`; `Join` is the rest of it, on the worker's thread. `running` is a
set: the pool has several workers, and one may take a warp while another is still
between the two. `NameRead` is the name it finds behind its reference. What the wire
does not carry is in `asked` and `wrote`. `Scheduler` has what `cancel_by_tag()`
does in full; here the queue is the set `waiting`. History: `ousted`, `alone`.

### ItemCache, ByteStream and WorldMap

`ItemCache` is `items.dat` over sessions and restarts: the hash the server
announces, the file, the items in memory, the game's own copy. `Reads` is
`SendItemDatabaseData::read()` with `DecompressedSize`, and `Parse` keeps as many
items as the header says, because no read is checked. Items are numbers, and a
build knows those below its own number.

`ByteStream` is a reader as a record: size, offset, and whether it read behind the
end. `WorldMap` reads a map with it. `MapFields` to `UnknownFields` are the layout
as the reader has it (there is no writer in the repository: a whole map is one that
this reader finds to end where its data end); the actions take one field each,
and what a field holds matters only where it decides what is read next: a count,
a foreground, flags, a type. A map may lack its last bytes (`Cuts`; 0 for none). One
tile, one object and `Count` elements of each list stand for more. A count that is
not read is 0 where the code initialises it; the count of Solar (type 25, `RawList`)
and those that `handle_unknown_type` skips by are not initialised, and may be
anything in `Garbage`.

### PacketCodec

The bytes of a text are `Symbols`: two separators and words. `Tokenize`, `Parse`,
`Add`, `Set`, `RemoveKey` and `GetRaw` are the methods of `TextParse`, `Received` is
what the decoder makes of a text's length, `DerivePacketId` searches it for the
patterns with either meaning of `^` and `$` (`line_anchors`). `ReadOnSendToServer`
and `WriteOnSendToServer` go through `GetVariant` and `Transmitted`, and
`OnSendToServer` is the handler of `ConnectionHandler`. A text passes from the game
over the script's edits to the server, which reads as the proxy does.
`ReceivedAsEdited` and `OthersKept` suppose that the script put no separator where
the format has it (`Separable`). An entry with an empty key continues the line
before it: `ReceivedAsEdited` says that it arrives as further values of that entry,
unless it is the first of all, and `OthersKept` supposes that the script did not use
the empty key. `Said` is what the server sends (external). `RedirectKept` supposes
an address that is not empty: behind an empty one `get_raw()` begins with a `|`,
which `parse()` drops, and the door becomes the key. It states the login mode cut to
a byte, as `write()` and `read()` of the redirect leave it.

## 3. Runs

| Run | Question | Bounds |
|---|---|---|
| `core` | containers, tag index and marks agree; sleepers are woken; cancellation; no two rounds of a task at once; enough workers for what is ready; `TaskLifecycle` | 2 workers, 1 waiter, 2 ids, 2 clock values, 1 tag, a one-shot and a stoppable periodic task |
| `sched_live` | `StopReturns`, `PendingRuns`, `WaitAllReturns` | 1 worker, 1 waiter, 2 ids, the periodic task, no cancellation |
| `session` | peers never dangle, an orphan upstream has one cause, pairs go down together, sessions settle, the slot is freed | 2 endpoints, 2 HTTPS threads, vetoed connects |
| `redirect` (violation) | is every redirect followed? | 2 endpoints, 1 HTTPS thread |
| `script_rounds` | rounds are complete and closed; nothing runs after its end; a one-shot runs | 3 tasks, delays 0 and 2, intervals 0 and 1 |
| `packets` | what is forwarded, who sees it and in which order, how long contexts live; `PacketPath` implements `EventDispatcher` | all kinds of packets, 2 callbacks, priorities 0 and 200, 3 events |
| `modify` (violation) | does a modification go out? | 1 callback, 2 events |
| `world` | what the copy of the world may lack and may not have; which warps join, and from where | 2 visits, 2 net ids, 1 tile, 2 objects, 2 warps, 2 packets each way |
| `warp` (violation) | does a warp reach the world it named? | 2 warps |
| `maps` | when the parser reads behind its data or looks up what is not there; which items are in memory | 40 tiles, whole and cut at 7 places, uninitialised counts 0 and 2, 2 builds |
| `items` (violation) | are the items parsed that the server sends? | 2 builds |
| `codecs` | what is recognised, what the server reads of an edited text, what the game reads of a redirect | texts of up to 3 of 8 lines, 2 edits, lengths below 14; redirects of 5 to 7 values, some of them empty |

The bounds suffice for the interesting cases. Two workers race for one ready task,
and a periodic task and a one-shot share the queue. Two endpoints tell a wrong
server from the right one, and two HTTPS threads tear a pair. Two callbacks, one
registered while the other runs, are the smallest round that can be unfair; priority
200 wraps to -56 and runs first. Two visits let late packets of one spoil the other,
with net ids that are given again; objects 1 and 65537 are the same in 16 bits. Two
warps are one that waits and one that ousts it. Among `Cuts` are ends within a
length, a list, an uninitialised count and a text, and each type of extra data that
is read has its tile. A text of 14 symbols or more stands for one whose size does
not fit in 16 bits. `MaxId` and `MaxTime` cap ids and the clock; at the bound a
periodic task ends instead of starting another round. `MaxCallbacks` caps the
handles given out, `MaxEvents` the events dispatched (a packet takes at most two),
`MaxVisits` the worlds entered, `MaxWire` the packets on their way, `MaxWarps` the
commands, `MaxEdits` the edits. To keep the states few, `MCWarpCommand` lets nobody
build after the first warp, which is given where nothing was dropped.
`CHECK_DEADLOCK FALSE` stands where the model really stops: `PacketPath` after
`Destruct`, and `WorldMap` once bytes behind the end were read.

**Fairness.** *Scheduler*: weak fairness of the timer, of the clock and of
`stop()`'s own thread; strong fairness of whoever waits for the mutex (a worker,
`schedule()`, `wait_all()`), for an operating system's mutex is granted
eventually if it keeps being free. Nobody is obliged to call anything.
`PendingRuns` supposes that `pause()` is never called: `resume()` notifies without
the mutex, its notification can fall between the timer's evaluation of its
predicate and its sleep, and the timer then sleeps until the next notification.
`WaitAllReturns` supposes that no one cancels, and the run leaves cancellations
out altogether: when the timer forgets the last, cancelled, task it does not
notify `idle_cv_`. *ProxySession*: the main thread
leaves its listeners, and ENet ends each handshake and each disconnection. No
packet has to arrive and no one has to connect. *ScriptScheduler*: the loop runs,
callbacks return, time passes. The other modules have no liveness property: what
they promise holds at each step or once nothing is on its way.

**Findings.** `modify` shows that the README's "Supports packet debugging and
modification" and the modification that `scripts/test_event.lua` makes do not hold
of assigning to a field: `on_receive` dispatches the raw event with the bytes as
they arrived, and these are what `ForwardingHandler` writes. A script has to
cancel the event and send a packet of its own. `redirect` disagrees with the
README's "Works well with sub-server redirection": the game leaves by an ordinary
disconnection, the upstream peer is asked to disconnect gracefully, and the game
may be back before that slot is free; `enet_host_connect` then fails, nobody looks
at the result, the pending endpoint is cleared and the game is left without an
upstream. `warp`: the delayed task keeps a reference to `world_name`, a variable of
`execute()`, which has returned 1750 ms before; "Warping to ..." announces one
name and the task joins whatever the memory holds. `items`: `decompress_zlib()`
resizes the vector to the expected size and then appends to it, so the size check
after it always fails, and the code that announces "Successfully parsed items.dat"
and "Saved items.dat to ..." is never reached; only a file that somebody else brings
up to date helps.

Other behaviour of the code that the models make visible, though no document
contradicts it:

* in the scheduler the lost wakeup of `resume()` and `wait_all()` missing the end
  of cancelled tasks;
* removing a listener makes the dispatcher forget the priorities of those that stay
  (`ForgottenFirst`), if eventpp's handles are what they seem;
* in the session a new login whose endpoint is cleared by the previous connection's
  `ClientDisconnect`, a torn pair of two concurrent logins, and a game that leaves
  during the upstream handshake leaving that connection behind (`OrphanExplained`
  says it is the only way);
* a script task scheduled in an event callback is charged the round before it
  (`NeverEarly` says by how much it may be early);
* an event priority above 127 wraps to a negative one, and a command that fails is
  hidden from the server all the same;
* of an `ItemChangeObject` the change is unsigned, so the branches for -1 and -3
  never run: drops are not added, and each such report
  removes object 65535 instead. An object whose id has more than 16 bits is never removed;
* tiles only lose blocks, since only punches are acted on (`NothingInvented`), and
  a tile without extra data keeps the extra data of the tile before it unless the
  copy was cleared (`CleanMirror`);
* an empty or old `items.dat` lets the first map crash the proxy, for `get_item()`
  is null and is not checked. Even the right one does not always help: a tile that
  has extra data by its flag is not looked up, so the foreground of a newer build
  may stay in it, and a map of an older one that is cut before that tile's foreground
  looks it up (`NullExplained` names both);
* behind the end of its data `ByteStream` finds everything to fit
  (`OverreadExplained` says when it gets there);
* a line without a value is dropped by `TextParse`, of entries with one key only
  the first is found, and an entry with an empty key continues the line before it;
  where `$` matches at the end of the text only, a `join_request` of several lines
  is not recognised and the copy of the world not cleared.

## 4. Proofs

TLAPS proves these for every value of the constants, from the assumptions named
in the modules (`SchedulerAssumption`, `SessionAssumption`, `ScriptAssumption`,
`PathAssumption`, `WorldAssumption`, `WarpAssumption`, `BuildAssumption`,
`MapAssumption`, `SizeAssumption`: a map fits into memory; `CodecAssumption` and
`RedirectAssumption`: texts, keys and values are sequences of symbols, and what
stands between separators has none in it).

* `SchedulerProofs`. Three inductive invariants, each on top of the last.
  `ControlInv` holds the types and what a program counter implies (a thread that
  sleeps has not missed a notification); it gives `SleepersWake` and `PauseHolds`.
  `StoreInv` ties the containers together: that the ids are kept exactly is not
  inductive without it, for it must also say that ids at or above `next_id` are
  nowhere. It gives `ContainersExact`: the containers, the marks of the cancelled,
  the tag index and the three counts of `pending_count()`, `running_count()` and the
  rest agree. `ChainInv` speaks of the rounds: it gives `OneLivePerChain`,
  `NeverEarly`, `CancelEndsChain` and, step by step, `ImplementsLifecycle`.
  `WorkersCoverReady` is inductive beside the types; its proof counts the workers
  that are on their way to the queue (`CountWorkers`: a step wakes or takes at most
  one). `IdleAnnounced` needs no more: `IdleStep` names the two steps after which no
  task is left, a worker that notifies all and a timer that forgets a cancelled
  task.
* `ProxySessionProofs`. `PeerInv` strengthens `OrphanExplained` to the handshake and
  to the time in the listeners; it gives `PeerPointers`, `OrphanExplained` and
  `PairTeardown`. `OrderlyInv` says where the endpoint that the game was told is
  kept until it comes back for it (`PendingInv`), what the HTTPS handlers have
  written (`PostInv`) and where the connection leads (`TargetInv`); it gives
  `RightServer` under `OrderlySpec`, assuming that no script vetoes the events.
* `ScriptSchedulerProofs`. `RoundInv` and `SettledInv` follow the batch through
  `update()`, `StoppedInv` remembers who stopped a periodic task, `ChargeInv` counts
  the time charged to each task.
* `EventDispatcherProofs` first proves of `Appended` and `Removed` that they keep a
  list sound (no handle twice, the entries ordered, and those of the end of the
  callback list) and what else they leave as it was. A removal erases all entries or
  none (`KeptAllOrNone`), because all that are there have listeners that stand: that
  is why the entries are never those of the middle. The invariant is built on them:
  every list is sound, the entries of one priority are in the order in which they
  were registered, and what lost its entry registered before what has one
  (`OldFirst`, `KeptBehind`). It gives `InSync`, `Sorted`, `Stable`,
  `ForgottenFirst`, `Served` and `CancelIsFinal`.
* `PacketPathProofs`. `ListsInv` says which listeners a type has after so many calls
  of the constructor (`Standing`), hence who is served in which place (`ServedBy`):
  all else depends on that order. `FlowInv` places the main thread: which event of
  which packet, and how far down the list. `RoundInv` divides the audience of an
  event into the callbacks that ran and those in `todo`, the first never behind the
  second in priority; before the bridge has its turn no callback can have come or
  gone, since a script that runs before it (a command) ends in cancellation.
  `FateInv` follows the packet: nothing is written before the last listener of its
  raw event, and a typed event that anyone canceled has no raw one. Together they
  give `ContextsDie`, `OneRound`, `Forwarded`, `CancelIsFinal` and
  `ScriptsSeeFirst`, and that each step is one of `EventDispatcher` or invisible to
  it (`DispatcherSpec`).
* `WorldProofs`. `TypeInv` types the packets on their way with the rest. `OustedInv`
  and `AloneInv` are about the warps: an ousted task neither waits nor runs, and
  while the latest is alone no other runs and the last request on its way is the
  exit it began with. `PlayersInv` is what `PlayersKnown` needs to be inductive: it
  says of the state in which all packets are still on their way what the copy will
  know when they have arrived (`WillKnow`, `WillBeLocal`: the last packet that names
  a player decides), as long as no join is on its way. `CopyInv` does the same for
  `NothingInvented`: it starts from the last map on its way, or from the copy if
  there is none, and says that for every block of it that the server has not any
  more a punch is on its way, two when that block is behind another one (`Owed`),
  and that an object the server has not will be taken away (`WillLack`). What the
  server breaks it pays with the punch it sends (`OwedBroken`), what passes or what
  the game punches itself strikes one block and owes one punch less (`OwedStruck`).
  `CleanInv` is the converse of `PlayersInv`, and holds only while the copy stays
  clean (`StaysClean` looks at what is on its way): until the map the copy is empty
  (`ClearedInv`), nobody will be there whom the server does not show
  (`NoStrangers`), and because `RemovePlayer` spares the local player, no one else
  may ever become local or be removed as such (`LocalIsOwn`). With `PlayersInv` it
  gives `CleanMirror`.
* `WorldMapProofs`. `CacheInv` (a match means that the server's build is in memory)
  gives `ItemsAreAnnounced`. For `OverreadExplained` the invariant `ParseInv`
  relates what is left of the stream to `todo`: the fields ahead of a whole map take
  exactly the bytes that are left (`Takes`), the flags stand behind the foreground
  that decides about the extra data (`ForegroundFirst`), and a stream that has not
  passed its end stands before it (`Sound`). That a whole map is read to its end is
  thereby proved of every tile, and of lists and texts of any length. The foreground
  in the tile is this map's when its flags are read, or the map is cut: with
  `CacheInv` that is `NullExplained`. The lengths are folds, and what a fold returns
  for every sequence needs induction. The library's induction theorems take a
  formula as a parameter, which the installed provers cannot instantiate;
  `NatSetInduction` takes a set instead, and rests on `LeastNumber`, that is on the
  well-foundedness of inclusion among finite sets. `FoldExists` then gives the
  function that the fold chooses, and `TakesSize` what `SizeOf` returns.
* `PacketCodecProofs` does the same for texts of any length, over sets of sequences
  (`SeqInduction`): what `FoldLeft`, `FlattenSeq` and `Split` make of one more
  element, hence that the lines of `get_raw()` are those of its entries
  (`SplitGetRaw`), that a line is read as the entry it was written for, with each
  value cut at its separators (`LineIsReread`), and so what `parse()` makes of
  `get_raw()` (`ParseGetRaw`). `MessageInv` follows a message through the edits:
  while no separator was misplaced every entry has a key without separators, values
  without a line break, and at least one value (`DataWritable`), and while the empty
  key was not used every entry has a line of its own and the entries with keys that
  nobody touched are those of the text (`OthersUntouched`). What stands under an
  empty key is written as further values of the entry before it (`RawConcat`); so if
  the first entry has a key, there are entries with keys that have the same text and
  the same keys in the same order (`LooseAsWritten`), and for these `ParseGetRaw`
  holds. With `GotReread` and `KindOfData` it gives `ReceivedAsEdited`, `OthersKept`
  and `KindIsAction`: in `get_raw()` of what `parse()` has left a pattern can only
  match at the start of an entry (`SearchedLine`, `ActionEntry`). `RedirectKept` is
  inductive by itself and rests on `AddressIsFound`: the address is the key under
  which door and token are found again.

Proved and therefore in no run any more: the type invariants of `Scheduler`,
`ScriptScheduler`, `ProxySession`, `EventDispatcher`, `PacketPath` and
`WarpCommand`; `PauseHolds` and `CancelSticks` (within `ImplementsLifecycle`, which
is checked); `NeverEarly` of `Scheduler`; `RightServer`; and all of
`EventDispatcher`, which the run `packets` checks to be used as specified. Only
model-checked: every liveness property, for fairness and `ENABLED` are out of the
prover's reach.

## 5. Not modelled

`PROJECT.json` lists every component with its status. Not modelled are the DNS
resolver, configuration and logger, the Lua engine and the stateless bindings, the
vendored utilities and the commands that only send a packet: they keep no state
that another step reads. Of the packet structures only those are modelled that a
handler reads; the others copy fields. The race of a warp's worker with the main
thread inside ENet (`warp_command.hpp` 50) is listed as a hazard without a
property: its steps would be those of ENet.
