------------------------------- MODULE World -------------------------------
(***************************************************************************)
(* world::World, the proxy's copy of the world the game is in, as          *)
(* core::handlers::WorldHandler keeps it from the packets that pass,       *)
(* beside the world as the server has it.  ENet delivers the packets of a  *)
(* direction in order; requests take their time to the server, and what it *)
(* has sent meanwhile still arrives.                                       *)
(***************************************************************************)
EXTENDS Integers, Sequences, FiniteSets

CONSTANTS
    NetIds,       \* what the server numbers the players of a world with
    Size,         \* the number of tiles
    Ground,       \* the tiles of the server's maps
    ObjectIds,    \* ids of objects on the ground
    FirstDrops,   \* a map's counters of dropped objects
    MaxVisits,    \* bound on the worlds entered
    MaxWire       \* bound on the packets on their way, each direction

Fist == 18              \* the item id of a punch
Block == 2              \* any other item
Nobody == -1

Places == 1..Size
Tile == [foreground : {0, Block}, background : {0, Block}, extra : BOOLEAN]
Maps == [Places -> Tile]

ASSUME WorldAssumption ==
    /\ Ground \subseteq Tile
    /\ NetIds \subseteq Nat /\ ObjectIds \subseteq Nat /\ FirstDrops \subseteq Nat
    /\ Size \in Nat /\ MaxVisits \in Nat /\ MaxWire \in Nat

VARIABLES
    connected,           \* Client::is_connected()
    inside, visit,       \* server: is the avatar in a world, and the worlds so far
    residents, own,      \* server: the net ids shown in it, the avatar's among them
    blocks,              \* server: the tiles
    drops, last_drop,    \* server: the objects on the ground, the latest id
    up, down,            \* packets on their way to the server and from it
    players,             \* players_: the visit a net id was seen in, 0 for none
    local_net_id,        \* local_net_id_
    tiles,               \* tile_map_.tiles_
    objects, drop_id,    \* object_map_
    mapped,              \* history: the visit of the last map since clear()
    clean                \* history: all that came since clear() belongs to this visit

server == <<inside, visit, residents, own, blocks, drops, last_drop>>
people == <<players, local_net_id>>
object_map == <<objects, drop_id>>
mirror == <<people, tiles, object_map>>
history == <<mapped, clean>>
vars == <<connected, server, up, down, mirror, history>>

NoPlayers == [n \in NetIds |-> 0]
-----------------------------------------------------------------------------
(* What the packets' read() makes of the bytes *)

ToUint8(n) == n % 256
ToUint16(n) == n % 65536

Spawned(n, local) == [type |-> "OnSpawn", net_id |-> n, local |-> local, world |-> visit]
Removed(n) == [type |-> "OnRemove", net_id |-> n]
MapData(world, m, os, latest) ==
    [type |-> "SendMapData", world |-> world, tiles |-> m, objects |-> os, drop_id |-> latest]
TileChanged(i, item) == [type |-> "TileChangeRequest", place |-> i, item |-> item]
ObjectChanged(change, id) ==
    [type |-> "ItemChangeObject", change |-> ToUint8(change), id |-> ToUint16(id)]
-----------------------------------------------------------------------------

Init ==
    /\ connected = TRUE
    /\ inside = FALSE /\ visit = 0 /\ residents = {} /\ own = Nobody
    /\ blocks = <<>> /\ drops = {} /\ last_drop = 0
    /\ up = <<>> /\ down = <<>>
    /\ players = NoPlayers /\ local_net_id = Nobody
    /\ tiles = <<>> /\ objects = {} /\ drop_id = 0
    /\ mapped = 0 /\ clean = TRUE
-----------------------------------------------------------------------------
(* World *)

\* A player that is there already is left alone.
MutAddPlayer(n, is_local, world) ==
    /\ local_net_id' = IF is_local THEN n ELSE local_net_id
    /\ players' = IF players[n] = 0 THEN [players EXCEPT ![n] = world] ELSE players

AddPlayer(n, is_local, world) ==
    /\ local_net_id' = IF is_local THEN n ELSE local_net_id
    /\ players' = [players EXCEPT ![n] = world]

\* The local player is removed like any other.
MutRemovePlayer(n) == players' = [players EXCEPT ![n] = 0] /\ UNCHANGED local_net_id

RemovePlayer(n) ==
    /\ players' = IF n # local_net_id THEN [players EXCEPT ![n] = 0] ELSE players
    /\ UNCHANGED local_net_id

\* The tiles stay.
MutClear ==
    /\ players' = NoPlayers /\ local_net_id' = Nobody
    /\ objects' = {} /\ drop_id' = 0
    /\ UNCHANGED tiles

\* clear() keeps the version and the name only.
Clear ==
    /\ players' = NoPlayers /\ local_net_id' = Nobody
    /\ tiles' = <<>> /\ objects' = {} /\ drop_id' = 0

\* Tile::serialize(): a tile without extra data keeps what the element had.
TileRead(sent, old) == [sent EXCEPT !.extra = @ \/ old.extra]

NewTile == [foreground |-> 0, background |-> 0, extra |-> FALSE]

\* World::serialize() of a whole map: resize() keeps the elements there are.
ReadMap(m) ==
    /\ tiles' = [i \in DOMAIN m.tiles |->
                    TileRead(m.tiles[i], IF i \in DOMAIN tiles THEN tiles[i] ELSE NewTile)]
    /\ objects' = m.objects /\ drop_id' = m.drop_id
-----------------------------------------------------------------------------
(* WorldHandler *)

OnJoinRequest ==
    /\ Clear
    /\ mapped' = 0 /\ clean' = TRUE

OnSpawn(m) ==
    /\ AddPlayer(m.net_id, m.local, m.world)
    /\ clean' = (clean /\ m.world = mapped)
    /\ UNCHANGED <<tiles, object_map, mapped>>

OnRemove(m) ==
    /\ RemovePlayer(m.net_id)
    /\ UNCHANGED <<tiles, object_map, history>>

SendMapData(m) ==
    /\ ReadMap(m)
    /\ mapped' = m.world /\ clean' = (clean /\ mapped = 0)
    /\ UNCHANGED people

\* The background goes first.
MutStruck(tile) == IF tile.background # 0 THEN [tile EXCEPT !.background = 0]
                   ELSE [tile EXCEPT !.foreground = 0]

Struck(tile) == IF tile.foreground # 0 THEN [tile EXCEPT !.foreground = 0]
                ELSE [tile EXCEPT !.background = 0]

\* Requests of the game and the server's answers alike; other items place
\* nothing.
TileChangeRequest(i, item) ==
    /\ tiles' = IF i \in DOMAIN tiles /\ item = Fist THEN [tiles EXCEPT ![i] = Struck(@)]
                ELSE tiles
    /\ UNCHANGED <<people, object_map, history>>

\* Any other change is taken for the collection by a player.
ItemChangeObject(m) ==
    /\ objects' = CASE m.change = -1 -> objects \cup {drop_id + 1}
                    [] m.change = -3 -> objects
                    [] OTHER -> objects \ {m.id}
    /\ drop_id' = IF m.change = -1 THEN drop_id + 1 ELSE drop_id
    /\ UNCHANGED <<people, tiles, history>>

\* SendTileUpdateData is read into a tile that is thrown away: it is left out.
Handle(m) ==
    CASE m.type = "OnSpawn" -> OnSpawn(m)
      [] m.type = "OnRemove" -> OnRemove(m)
      [] m.type = "SendMapData" -> SendMapData(m)
      [] m.type = "TileChangeRequest" -> TileChangeRequest(m.place, m.item)
      [] m.type = "ItemChangeObject" -> ItemChangeObject(m)

\* A packet of the server passes.
FromServer ==
    /\ down # <<>>
    /\ Handle(Head(down)) /\ down' = Tail(down)
    /\ UNCHANGED <<connected, server, up>>
-----------------------------------------------------------------------------
(* The game *)

Request(r) == connected /\ Len(up) < MaxWire /\ up' = Append(up, r)

\* A standard library whose $ matches at the end of the text only does not
\* recognise a join_request, which has more lines (PacketCodec): no event.
GameJoins ==
    /\ Request("join")
    /\ OnJoinRequest \/ UNCHANGED <<mirror, history>>
    /\ UNCHANGED <<connected, server, down>>

\* QuitToExit has no handler.
GameExits ==
    /\ Request("exit")
    /\ UNCHANGED <<connected, server, down, mirror, history>>

\* A request that the server refuses or grants by Break.
GamePunches(i) ==
    /\ connected /\ TileChangeRequest(i, Fist)
    /\ UNCHANGED <<connected, server, up, down>>
-----------------------------------------------------------------------------
(* The server *)

\* The server's world is of no interest while the avatar is outside.
Outside ==
    /\ inside' = FALSE /\ residents' = {} /\ own' = Nobody
    /\ blocks' = <<>> /\ drops' = {} /\ last_drop' = 0

Send(m) == Len(down) < MaxWire /\ down' = Append(down, m)

\* The answer to a join: the avatar leaves where it was, and gets a map.
Enter ==
    /\ up # <<>> /\ Head(up) = "join" /\ up' = Tail(up)
    /\ visit < MaxVisits /\ visit' = visit + 1
    /\ inside' = TRUE /\ residents' = {} /\ own' = Nobody
    /\ last_drop' \in FirstDrops
    /\ blocks' \in [Places -> Ground]
    /\ drops' \in SUBSET {o \in ObjectIds : o <= last_drop'}
    /\ Send(MapData(visit', blocks', drops', last_drop'))
    /\ UNCHANGED <<connected, mirror, history>>

\* The answer to an exit, or to a join that is refused outside.
Exit ==
    /\ up # <<>> /\ (Head(up) = "exit" \/ ~inside) /\ up' = Tail(up)
    /\ Outside
    /\ UNCHANGED <<connected, visit, down, mirror, history>>

Spawn(n, local) ==
    /\ inside /\ n \notin residents /\ residents' = residents \cup {n}
    /\ local => own = Nobody
    /\ own' = IF local THEN n ELSE own
    /\ Send(Spawned(n, local))
    /\ UNCHANGED <<connected, inside, visit, blocks, drops, last_drop, up, mirror, history>>

Leave(n) ==
    /\ inside /\ n \in residents \ {own} /\ residents' = residents \ {n}
    /\ Send(Removed(n))
    /\ UNCHANGED <<connected, inside, visit, own, blocks, drops, last_drop, up, mirror, history>>

TileAnswer(i, item, tile) ==
    /\ inside /\ blocks' = [blocks EXCEPT ![i] = tile]
    /\ Send(TileChanged(i, item))
    /\ UNCHANGED <<connected, inside, visit, residents, own, drops, last_drop, up, mirror, history>>

Broken(tile) == IF tile.foreground # 0 THEN [tile EXCEPT !.foreground = 0]
                ELSE [tile EXCEPT !.background = 0]
Break(i) == i \in DOMAIN blocks /\ TileAnswer(i, Fist, Broken(blocks[i]))
Place(i) ==
    /\ i \in DOMAIN blocks /\ blocks[i].foreground = 0
    /\ TileAnswer(i, Block, [blocks[i] EXCEPT !.foreground = Block])

ObjectChange(change, id, now) ==
    /\ inside /\ drops' = now
    /\ Send(ObjectChanged(change, id))
    /\ UNCHANGED <<connected, inside, visit, residents, own, blocks, up, mirror, history>>

Drop ==
    /\ last_drop + 1 \in ObjectIds /\ last_drop' = last_drop + 1
    /\ ObjectChange(-1, -1, drops \cup {last_drop'})
Restock(o) == o \in drops /\ ObjectChange(-3, o, drops) /\ UNCHANGED last_drop
Collect(o, n) == o \in drops /\ n \in residents
                 /\ ObjectChange(n, o, drops \ {o}) /\ UNCHANGED last_drop

\* The upstream connection is lost, with all that was on its way; nobody
\* clears the copy.
Lose ==
    /\ connected /\ connected' = FALSE
    /\ up' = <<>> /\ down' = <<>>
    /\ Outside
    /\ UNCHANGED <<visit, mirror, history>>

Reconnect ==
    /\ ~connected /\ connected' = TRUE
    /\ UNCHANGED <<server, up, down, mirror, history>>
-----------------------------------------------------------------------------

\* Who is where.
Moving ==
    \/ GameJoins \/ GameExits \/ FromServer
    \/ Enter \/ Exit \/ Lose \/ Reconnect
    \/ \E n \in NetIds : Leave(n) \/ \E local \in BOOLEAN : Spawn(n, local)

\* What is done to blocks and objects.
Building ==
    \/ \E i \in Places : GamePunches(i) \/ Break(i) \/ Place(i)
    \/ Drop
    \/ \E o \in ObjectIds : Restock(o) \/ \E n \in NetIds : Collect(o, n)

Next == Moving \/ Building

Spec == Init /\ [][Next]_vars
-----------------------------------------------------------------------------

TypeOK ==
    /\ connected \in BOOLEAN /\ inside \in BOOLEAN /\ clean \in BOOLEAN
    /\ visit \in 0..MaxVisits /\ mapped \in 0..MaxVisits
    /\ residents \subseteq NetIds /\ own \in residents \cup {Nobody}
    /\ blocks \in Maps \cup {<<>>} /\ tiles \in Maps \cup {<<>>}
    /\ drops \subseteq ObjectIds /\ objects \subseteq ObjectIds
    /\ last_drop \in Nat /\ drop_id \in Nat
    /\ up \in Seq({"join", "exit"}) /\ Len(down) <= MaxWire
    /\ players \in [NetIds -> 0..MaxVisits]
    /\ local_net_id \in NetIds \cup {Nobody}

\* Scripts that ask for the local net id find its player, whatever came and
\* went (scripts/test_world.lua 30-42, world.hpp 23-45).
LocalKnown == local_net_id # Nobody => players[local_net_id] # 0

\* Nothing is on its way, and the avatar is in a world.
Settled == inside /\ up = <<>> /\ down = <<>>

\* Whoever the server shows is known as a player of this world, and the avatar
\* as the local one, also after a /warp and after late packets of the world
\* before (world_handler.cpp 45-88).  /nick and /skin then name the avatar.
NobodyMissing ==
    Settled => /\ \A n \in residents : players[n] = visit
               /\ own # Nobody => local_net_id = own

PlayersKnown == LocalKnown /\ NobodyMissing

\* The copy may lack blocks and objects, but has none that the server has not,
\* as long as the ids of objects fit in 16 bits (world_handler.cpp 142-234).
NothingInvented ==
    Settled =>
        /\ DOMAIN tiles = DOMAIN blocks
        /\ \A i \in DOMAIN tiles :
              /\ tiles[i].foreground \in {0, blocks[i].foreground}
              /\ tiles[i].background \in {0, blocks[i].background}
        /\ \A o \in objects : o < 65536 => o \in drops

\* After a join of the game that no late spawn or second map spoiled, the copy
\* has the players the server shows and no others, no local player but the
\* avatar, and the tiles' extra data are the ones of this map (world.hpp 23-45,
\* world_handler.cpp 26-43).
CleanMirror ==
    Settled /\ clean =>
        /\ {n \in NetIds : players[n] # 0} = residents
        /\ local_net_id = own
        /\ \A i \in DOMAIN tiles : tiles[i].extra = blocks[i].extra
=============================================================================
