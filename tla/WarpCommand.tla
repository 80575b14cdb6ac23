---------------------------- MODULE WarpCommand ----------------------------
(***************************************************************************)
(* command::WarpCommand beside the world: /warp leaves the world at once   *)
(* and has a worker of the core's scheduler join the other one 1750 ms     *)
(* later, straight through the Client: no event tells the WorldHandler.    *)
(* Joins and exits carry no name on the wire; what the task asks for is    *)
(* kept in asked and wrote.                                                *)
(***************************************************************************)
EXTENDS World

CONSTANTS
    Args,        \* the first argument of a /warp, or none
    Junk,        \* what the memory of a name may hold once it is freed
    MaxWarps     \* bound on the commands given

None == "none"
\* The names a warp takes.
Names == Args \ {None, "exit", "too long"}

ASSUME WarpAssumption == MaxWarps \in Nat

VARIABLES
    issued,      \* how many warps were scheduled: the id of the latest task
    asked,       \* history: the name each was given
    waiting,     \* the tasks with the tag "warp" in the scheduler's queue
    running,     \* the tasks that workers have taken
    wrote,       \* history: the name in the latest join of a warp since the last /warp
    ousted,      \* history: the tasks that waited when a later warp was given
    alone        \* history: nothing but the latest warp joins since it was given

tasks == <<issued, waiting, running>>
warp == <<tasks, asked, wrote, ousted, alone>>
allvars == <<vars, warp>>

WarpInit ==
    /\ Init
    /\ issued = 0 /\ asked = <<>> /\ waiting = {} /\ running = {}
    /\ wrote = None /\ ousted = {} /\ alone = FALSE

\* PacketHelper::write() to a Client without a peer does nothing.
Write(r) == up' = IF connected THEN Append(up, r) ELSE up

\* The earlier tasks stay.
MutCancelByTag(ts) == ts

\* cancel_by_tag("warp"): a task that a worker has is not in the queue any more.
CancelByTag(ts) == {}

\* The world is not left.
MutQuit == UNCHANGED up

Quit == Write("exit")

\* The Log packets to the game are left out.
Execute(arg) ==
    /\ issued < MaxWarps /\ Len(up) < MaxWire
    /\ arg \in Names
    /\ Quit
    /\ issued' = issued + 1 /\ asked' = Append(asked, arg)
    /\ waiting' = CancelByTag(waiting) \cup {issued'}
    /\ ousted' = ousted \cup waiting /\ wrote' = None
    /\ alone' = (connected /\ running = {})
    /\ UNCHANGED <<connected, server, down, mirror, history, running>>

\* ExitCommand, which no handler sees either.
ExitCommand ==
    /\ Len(up) < MaxWire /\ Quit
    /\ UNCHANGED <<connected, server, down, mirror, history, warp>>

\* Without a name, with "exit" and with a name that is too long it only logs.
Refuse(arg) == arg \notin Names /\ UNCHANGED allvars

\* 1750 ms later a worker takes the task, which looks at is_connected(); other
\* workers may have theirs still.
Start(t) ==
    /\ t \in waiting
    /\ waiting' = waiting \ {t}
    /\ running' = IF connected THEN running \cup {t} ELSE running
    /\ UNCHANGED <<vars, issued, asked, wrote, ousted, alone>>

\* The reference survives execute().
MutNameRead(t) == {asked[t]}

\* world_name was a variable of execute(), which has returned.
NameRead(t) == Names \cup {Junk}

Join(t) ==
    /\ t \in running /\ Len(up) < MaxWire
    /\ \E name \in NameRead(t) : wrote' = name
    /\ Write("join")
    /\ running' = running \ {t}
    /\ UNCHANGED <<connected, server, down, mirror, history, issued, asked, waiting, ousted, alone>>

\* What goes on in the world meanwhile.
Meanwhile ==
    /\ alone' = (alone /\ connected' /\ ~GameJoins)
    /\ UNCHANGED <<tasks, asked, wrote, ousted>>

WorldStep == Next /\ Meanwhile

WarpNext ==
    \/ WorldStep
    \/ ExitCommand
    \/ \E arg \in Args : Execute(arg) \/ Refuse(arg)
    \/ \E t \in waiting : Start(t)
    \/ \E t \in running : Join(t)

WarpSpec == WarpInit /\ [][WarpNext]_allvars
-----------------------------------------------------------------------------

WarpTypeOK ==
    /\ TypeOK
    /\ issued \in 0..MaxWarps /\ asked \in [1..issued -> Names]
    /\ waiting \subseteq 1..issued /\ running \subseteq 1..issued
    /\ wrote \in Names \cup {Junk, None}
    /\ alone \in BOOLEAN

\* A warp that still waits when the next one is given never joins
\* (warp_command.hpp 38).
OustedNeverJoins == running \cap ousted = {}

\* Where the avatar is once the server has answered all that is on its way.
WillBeInside == IF up = <<>> THEN inside ELSE up[Len(up)] = "join"

\* The join of a warp finds the avatar outside of any world, unless the game
\* joined one, the connection was lost, or an earlier warp was already running
\* (warp_command.hpp 38-56).
WarpsFromOutside ==
    [][alone /\ running \ running' # {} => ~WillBeInside]_allvars

\* "Warping to <name>..." (warp_command.hpp 44): the world joined is the one
\* the command named.
WarpReachesNamed ==
    [][\A t \in running \ running' : wrote' = asked[t]]_allvars
=============================================================================
