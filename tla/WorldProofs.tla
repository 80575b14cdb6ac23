----------------------------- MODULE WorldProofs -----------------------------
(***************************************************************************)
(* What holds of the proxy's copy of the world, and of the warps beside    *)
(* it, in every world: Init establishes Inv, every step keeps it, and it   *)
(* implies the properties.                                                 *)
(***************************************************************************)
EXTENDS WarpCommand, TLAPS

Requests == {"join", "exit"}

Spawns == [type : {"OnSpawn"}, net_id : NetIds, local : BOOLEAN, world : 1..MaxVisits]
Removes == [type : {"OnRemove"}, net_id : NetIds]
MapDatas == [type : {"SendMapData"}, world : 1..MaxVisits, tiles : Maps,
             objects : SUBSET ObjectIds, drop_id : Nat]
TileChanges == [type : {"TileChangeRequest"}, place : Places, item : {Fist, Block}]
ObjectChanges == [type : {"ItemChangeObject"}, change : Nat, id : Nat]

Message == Spawns \cup Removes \cup MapDatas \cup TileChanges \cup ObjectChanges

ServerType ==
    /\ connected \in BOOLEAN /\ inside \in BOOLEAN
    /\ visit \in 0..MaxVisits /\ (inside => visit > 0)
    /\ residents \subseteq NetIds /\ own \in residents \cup {Nobody}
    /\ blocks \in Maps \cup {<<>>}
    /\ drops \subseteq ObjectIds /\ last_drop \in Nat

WireType ==
    /\ up \in Seq(Requests)
    /\ down \in Seq(Message) /\ Len(down) <= MaxWire

MirrorType ==
    /\ players \in [NetIds -> 0..MaxVisits]
    /\ local_net_id \in NetIds \cup {Nobody}
    /\ tiles \in Maps \cup {<<>>}
    /\ objects \subseteq ObjectIds /\ drop_id \in Nat
    /\ mapped \in 0..MaxVisits /\ clean \in BOOLEAN

TasksType ==
    /\ issued \in 0..MaxWarps /\ asked \in [1..issued -> Names]
    /\ waiting \subseteq 1..issued /\ running \subseteq 1..issued
    /\ wrote \in Names \cup {Junk, None}
    /\ alone \in BOOLEAN

TypeInv == ServerType /\ WireType /\ MirrorType /\ TasksType

\* Every action of the specification, so that each invariant can be taken
\* through them in the same order.
Step ==
    \/ GameJoins \/ GameExits \/ FromServer \/ Enter \/ Exit \/ Lose \/ Reconnect
    \/ \E n \in NetIds : Leave(n)
    \/ \E n \in NetIds, local \in BOOLEAN : Spawn(n, local)
    \/ \E i \in Places : GamePunches(i) \/ Break(i) \/ Place(i)
    \/ Drop
    \/ \E o \in ObjectIds : Restock(o) \/ \E n \in NetIds : Collect(o, n)

\* A step of the world is one of its actions.
LEMMA WorldSteps ==
  ASSUME WorldStep
  PROVE  Step
BY DEF WorldStep, Next, Moving, Building, Step

\* A step of the specification is one of the world's or one of the warps'.
LEMMA Steps ==
  ASSUME [WarpNext]_allvars
  PROVE  \/ WorldStep
         \/ ExitCommand
         \/ \E arg \in Args : Execute(arg)
         \/ \E t \in waiting : Start(t)
         \/ \E t \in running : Join(t)
         \/ UNCHANGED allvars
BY DEF WarpNext, Refuse
-----------------------------------------------------------------------------
(* Types *)

\* The type of a message tells its kind.
LEMMA Kinds ==
  ASSUME NEW m \in Message
  PROVE  \/ m.type = "OnSpawn" /\ m \in Spawns
         \/ m.type = "OnRemove" /\ m \in Removes
         \/ m.type = "SendMapData" /\ m \in MapDatas
         \/ m.type = "TileChangeRequest" /\ m \in TileChanges
         \/ m.type = "ItemChangeObject" /\ m \in ObjectChanges
<1>1. m \in Spawns => m.type = "OnSpawn" BY DEF Spawns
<1>2. m \in Removes => m.type = "OnRemove" BY DEF Removes
<1>3. m \in MapDatas => m.type = "SendMapData" BY DEF MapDatas
<1>4. m \in TileChanges => m.type = "TileChangeRequest" BY DEF TileChanges
<1>5. m \in ObjectChanges => m.type = "ItemChangeObject" BY DEF ObjectChanges
<1> QED BY <1>1, <1>2, <1>3, <1>4, <1>5 DEF Message

\* What is put on the wire is a message.
LEMMA Sent ==
  ASSUME WireType, NEW m \in Message, Send(m)
  PROVE  down' \in Seq(Message) /\ Len(down') <= MaxWire /\ down' = Append(down, m)
<1>1. MaxWire \in Nat BY WorldAssumption DEF WorldAssumption
<1> QED BY <1>1 DEF Send, WireType

\* A tile that was struck is a tile.
LEMMA StruckTile ==
  ASSUME NEW tile \in Tile
  PROVE  Struck(tile) \in Tile /\ Broken(tile) \in Tile
BY DEF Struck, Broken, Tile, Block

\* A map with one tile changed is a map.
LEMMA ChangedMap ==
  ASSUME NEW m \in Maps \cup {<<>>}, NEW i \in DOMAIN m, NEW t \in Tile
  PROVE  /\ m[i] \in Tile /\ i \in Places
         /\ [m EXCEPT ![i] = t] \in Maps
<1>1. m \in Maps
  <2>1. m # <<>>
    <3>1. DOMAIN <<>> = {} OBVIOUS
    <3> QED BY <3>1
  <2> QED BY <2>1
<1> QED BY <1>1 DEF Maps

\* A punch keeps the map.
LEMMA ChangedTiles ==
  ASSUME tiles \in Maps \cup {<<>>}, NEW i, NEW item, TileChangeRequest(i, item)
  PROVE  tiles' \in Maps \cup {<<>>}
<1>1. CASE i \in DOMAIN tiles /\ item = Fist
  <2>1. NewTile \in Tile BY DEF NewTile, Tile
  <2>2. tiles[i] \in Tile BY <1>1, <2>1, ChangedMap
  <2>3. Struck(tiles[i]) \in Tile BY <2>2, StruckTile
  <2>4. [tiles EXCEPT ![i] = Struck(tiles[i])] \in Maps BY <1>1, <2>3, ChangedMap
  <2> QED BY <1>1, <2>4 DEF TileChangeRequest
<1>2. CASE ~(i \in DOMAIN tiles /\ item = Fist)
  BY <1>2 DEF TileChangeRequest
<1> QED BY <1>1, <1>2

\* What a map leaves in the copy is a map.
LEMMA ReadTiles ==
  ASSUME NEW m \in Maps, tiles \in Maps \cup {<<>>}
  PROVE  [i \in DOMAIN m |-> TileRead(m[i], IF i \in DOMAIN tiles THEN tiles[i] ELSE NewTile)]
            \in Maps
<1> SUFFICES ASSUME NEW i \in DOMAIN m
             PROVE  TileRead(m[i], IF i \in DOMAIN tiles THEN tiles[i] ELSE NewTile) \in Tile
  BY DEF Maps
<1>1. m[i] \in Tile BY DEF Maps
<1>2. (IF i \in DOMAIN tiles THEN tiles[i] ELSE NewTile) \in Tile
  <2>1. NewTile \in Tile BY DEF NewTile, Tile
  <2>2. i \in DOMAIN tiles => tiles[i] \in Tile BY ChangedMap, <2>1
  <2> QED BY <2>1, <2>2
<1> QED BY <1>1, <1>2 DEF TileRead, Tile

\* Nothing is on its way at the start.
LEMMA InitTypes == WarpInit => TypeInv
<1> SUFFICES ASSUME WarpInit PROVE TypeInv OBVIOUS
<1> USE WorldAssumption, WarpAssumption DEF WorldAssumption, WarpAssumption
<1>1. ServerType
  <2>1. visit \in 0..MaxVisits /\ last_drop \in Nat BY DEF WarpInit, Init
  <2> QED BY <2>1 DEF WarpInit, Init, ServerType
<1>2. WireType BY DEF WarpInit, Init, WireType
<1>3. MirrorType BY DEF WarpInit, Init, MirrorType, NoPlayers
<1>4. TasksType
  <2>1. issued \in 0..MaxWarps /\ running \subseteq 1..issued BY DEF WarpInit
  <2>2. asked \in [1..issued -> Names]
    <3>1. 1..issued = {} BY DEF WarpInit
    <3> QED BY <3>1 DEF WarpInit
  <2> QED BY <2>1, <2>2 DEF WarpInit, TasksType
<1> QED BY <1>1, <1>2, <1>3, <1>4 DEF TypeInv

\* The handlers keep the types of the copy.
LEMMA HandlerTypes ==
  ASSUME MirrorType, NEW m \in Message, Handle(m)
  PROVE  MirrorType'
<1> USE WorldAssumption DEF WorldAssumption
<1>1. CASE m.type = "OnSpawn"
  <2>1. OnSpawn(m) BY <1>1 DEF Handle
  <2>2. m.net_id \in NetIds /\ m.world \in 1..MaxVisits /\ m.local \in BOOLEAN
    BY <1>1, Kinds DEF Spawns
  <2>3. clean' \in BOOLEAN BY <2>1 DEF OnSpawn
  <2> QED BY <2>1, <2>2, <2>3 DEF OnSpawn, AddPlayer, object_map, MirrorType
<1>2. CASE m.type = "OnRemove"
  <2>1. OnRemove(m) BY <1>2 DEF Handle
  <2>2. m.net_id \in NetIds BY <1>2, Kinds DEF Removes
  <2> QED BY <2>1, <2>2 DEF OnRemove, RemovePlayer, object_map, history, MirrorType
<1>3. CASE m.type = "SendMapData"
  <2>1. SendMapData(m) BY <1>3 DEF Handle
  <2>2. /\ m.world \in 1..MaxVisits /\ m.tiles \in Maps
        /\ m.objects \subseteq ObjectIds /\ m.drop_id \in Nat
    BY <1>3, Kinds DEF MapDatas
  <2>3. tiles' \in Maps BY <2>1, <2>2, ReadTiles DEF SendMapData, ReadMap, MirrorType
  <2>4. clean' \in BOOLEAN BY <2>1 DEF SendMapData
  <2> QED BY <2>1, <2>2, <2>3, <2>4 DEF SendMapData, ReadMap, people, MirrorType
<1>4. CASE m.type = "TileChangeRequest"
  <2>1. TileChangeRequest(m.place, m.item) BY <1>4 DEF Handle
  <2>2. tiles' \in Maps \cup {<<>>} BY <2>1, ChangedTiles DEF MirrorType
  <2> QED BY <2>1, <2>2 DEF TileChangeRequest, people, object_map, history, MirrorType
<1>5. CASE m.type = "ItemChangeObject"
  <2>1. ItemChangeObject(m) BY <1>5 DEF Handle
  <2>2. m.change \in Nat BY <1>5, Kinds DEF ObjectChanges
  <2>3. objects' = objects \ {m.id} /\ drop_id' = drop_id
    BY <2>1, <2>2 DEF ItemChangeObject
  <2> QED BY <2>1, <2>3 DEF ItemChangeObject, people, history, MirrorType
<1> QED BY Kinds, <1>1, <1>2, <1>3, <1>4, <1>5

\* The first packet on its way is a message, and so are the others.
LEMMA Arrives ==
  ASSUME WireType, down # <<>>
  PROVE  /\ Head(down) \in Message
         /\ Tail(down) \in Seq(Message) /\ Len(Tail(down)) <= MaxWire
<1>1. MaxWire \in Nat BY WorldAssumption DEF WorldAssumption
<1> QED BY <1>1 DEF WireType

\* Outside, there is nothing to be of a wrong type.
LEMMA AnOutsider ==
  ASSUME ServerType, Outside, connected' \in BOOLEAN, visit' = visit
  PROVE  ServerType'
BY DEF Outside, ServerType

\* The steps of the world keep the types.
LEMMA WorldTypes ==
  ASSUME TypeInv, WorldStep
  PROVE  ServerType' /\ WireType' /\ MirrorType'
<1> USE WorldAssumption DEF WorldAssumption, TypeInv
<1>1. CASE GameJoins
  <2>1. MirrorType'
    <3>1. CASE OnJoinRequest
      BY <3>1 DEF OnJoinRequest, Clear, NoPlayers, MirrorType
    <3>2. CASE UNCHANGED <<mirror, history>>
      BY <3>2 DEF mirror, history, people, object_map, MirrorType
    <3> QED BY <1>1, <3>1, <3>2 DEF GameJoins
  <2>2. ServerType' BY <1>1 DEF GameJoins, server, ServerType
  <2>3. WireType' BY <1>1 DEF GameJoins, Request, Requests, WireType
  <2> QED BY <2>1, <2>2, <2>3
<1>2. CASE GameExits
  BY <1>2 DEF GameExits, Request, Requests, server, mirror, history, people, object_map,
              ServerType, WireType, MirrorType
<1>3. CASE FromServer
  <2>1. Head(down) \in Message BY <1>3, Arrives DEF FromServer
  <2>2. MirrorType' BY <1>3, <2>1, HandlerTypes DEF FromServer
  <2>3. ServerType' BY <1>3 DEF FromServer, server, ServerType
  <2>4. WireType' BY <1>3, Arrives DEF FromServer, WireType
  <2> QED BY <2>2, <2>3, <2>4
<1>4. CASE Enter
  <2> DEFINE m == MapData(visit', blocks', drops', last_drop')
  <2>1. visit' \in 1..MaxVisits BY <1>4 DEF Enter, ServerType
  <2>2. blocks' \in Maps BY <1>4 DEF Enter, Maps
  <2>3. drops' \subseteq ObjectIds /\ last_drop' \in Nat BY <1>4 DEF Enter
  <2>4. m \in Message BY <2>1, <2>2, <2>3 DEF MapData, MapDatas, Message
  <2>5. WireType'
    <3>1. Send(m) BY <1>4 DEF Enter
    <3>2. down' \in Seq(Message) /\ Len(down') <= MaxWire BY <2>4, <3>1, Sent
    <3> QED BY <1>4, <3>2 DEF Enter, Requests, WireType
  <2>6. ServerType' BY <1>4, <2>1, <2>2, <2>3 DEF Enter, ServerType
  <2>7. MirrorType' BY <1>4 DEF Enter, mirror, history, people, object_map, MirrorType
  <2> QED BY <2>5, <2>6, <2>7
<1>5. CASE Exit
  <2>1. ServerType' BY <1>5, AnOutsider DEF Exit, ServerType
  <2>2. WireType' BY <1>5 DEF Exit, Requests, WireType
  <2>3. MirrorType' BY <1>5 DEF Exit, mirror, history, people, object_map, MirrorType
  <2> QED BY <2>1, <2>2, <2>3
<1>6. CASE Lose
  <2>1. ServerType' BY <1>6, AnOutsider DEF Lose
  <2>2. WireType' BY <1>6 DEF Lose, Requests, WireType
  <2>3. MirrorType' BY <1>6 DEF Lose, mirror, history, people, object_map, MirrorType
  <2> QED BY <2>1, <2>2, <2>3
<1>7. CASE Reconnect
  BY <1>7 DEF Reconnect, server, mirror, history, people, object_map,
              ServerType, WireType, MirrorType
<1>8. ASSUME NEW n \in NetIds, Leave(n)
      PROVE  ServerType' /\ WireType' /\ MirrorType'
  <2>1. Removed(n) \in Message BY DEF Removed, Removes, Message
  <2>2. down' \in Seq(Message) /\ Len(down') <= MaxWire BY <1>8, <2>1, Sent DEF Leave
  <2>3. WireType' BY <1>8, <2>2 DEF Leave, WireType
  <2>4. ServerType' BY <1>8 DEF Leave, ServerType
  <2>5. MirrorType' BY <1>8 DEF Leave, mirror, history, people, object_map, MirrorType
  <2> QED BY <2>3, <2>4, <2>5
<1>9. ASSUME NEW n \in NetIds, NEW local \in BOOLEAN, Spawn(n, local)
      PROVE  ServerType' /\ WireType' /\ MirrorType'
  <2>1. Spawned(n, local) \in Message BY <1>9 DEF Spawn, ServerType, Spawned, Spawns, Message
  <2>2. down' \in Seq(Message) /\ Len(down') <= MaxWire BY <1>9, <2>1, Sent DEF Spawn
  <2>3. WireType' BY <1>9, <2>2 DEF Spawn, WireType
  <2>4. ServerType' BY <1>9 DEF Spawn, ServerType
  <2>5. MirrorType' BY <1>9 DEF Spawn, mirror, history, people, object_map, MirrorType
  <2> QED BY <2>3, <2>4, <2>5
<1>10. ASSUME NEW i \in Places, GamePunches(i)
       PROVE  ServerType' /\ WireType' /\ MirrorType'
  <2>1. tiles' \in Maps \cup {<<>>} BY <1>10, ChangedTiles DEF GamePunches, MirrorType
  <2> QED BY <1>10, <2>1 DEF GamePunches, TileChangeRequest, server, people, object_map, history,
                             ServerType, WireType, MirrorType
<1>11. ASSUME NEW i \in Places, NEW item \in {Fist, Block}, NEW tile \in Tile,
              i \in DOMAIN blocks, TileAnswer(i, item, tile)
       PROVE  ServerType' /\ WireType' /\ MirrorType'
  <2>1. TileChanged(i, item) \in Message BY DEF TileChanged, TileChanges, Message
  <2>2. down' \in Seq(Message) /\ Len(down') <= MaxWire BY <1>11, <2>1, Sent DEF TileAnswer
  <2>3. WireType' BY <1>11, <2>2 DEF TileAnswer, WireType
  <2>4. blocks' \in Maps BY <1>11, ChangedMap DEF TileAnswer, ServerType
  <2>5. ServerType' BY <1>11, <2>4 DEF TileAnswer, ServerType
  <2>6. MirrorType' BY <1>11 DEF TileAnswer, mirror, history, people, object_map, MirrorType
  <2> QED BY <2>3, <2>5, <2>6
<1>12. ASSUME NEW i \in Places, Break(i) \/ Place(i)
       PROVE  ServerType' /\ WireType' /\ MirrorType'
  <2>1. i \in DOMAIN blocks BY <1>12 DEF Break, Place
  <2>2. blocks[i] \in Tile
    <3>1. Block \in {0, Block} /\ [foreground |-> 0, background |-> 0, extra |-> TRUE] \in Tile
      BY DEF Tile
    <3> QED BY <2>1, <3>1, ChangedMap DEF ServerType
  <2>3. Broken(blocks[i]) \in Tile /\ [blocks[i] EXCEPT !.foreground = Block] \in Tile
    BY <2>2, StruckTile DEF Tile
  <2> QED BY <1>12, <2>1, <2>3, <1>11 DEF Break, Place
<1>13. ASSUME NEW change \in Int, NEW id \in Int, NEW now \in SUBSET ObjectIds,
              last_drop' \in Nat, ObjectChange(change, id, now)
       PROVE  ServerType' /\ WireType' /\ MirrorType'
  <2>1. ObjectChanged(change, id) \in Message
    <3>1. change % 256 \in Nat /\ id % 65536 \in Nat OBVIOUS
    <3> QED BY <3>1 DEF ObjectChanged, ToUint8, ToUint16, ObjectChanges, Message
  <2>2. down' \in Seq(Message) /\ Len(down') <= MaxWire BY <1>13, <2>1, Sent DEF ObjectChange
  <2>3. WireType' BY <1>13, <2>2 DEF ObjectChange, WireType
  <2>4. ServerType' BY <1>13 DEF ObjectChange, ServerType
  <2>5. MirrorType' BY <1>13 DEF ObjectChange, mirror, history, people, object_map, MirrorType
  <2> QED BY <2>3, <2>4, <2>5
<1>14. CASE Drop
  <2>1. drops \cup {last_drop'} \in SUBSET ObjectIds /\ last_drop' \in Nat
    BY <1>14 DEF Drop, ServerType
  <2> QED BY <1>14, <2>1, <1>13 DEF Drop
<1>15. ASSUME NEW o \in ObjectIds, Restock(o)
       PROVE  ServerType' /\ WireType' /\ MirrorType'
  BY <1>15, <1>13 DEF Restock, ServerType
<1>16. ASSUME NEW o \in ObjectIds, NEW n \in NetIds, Collect(o, n)
       PROVE  ServerType' /\ WireType' /\ MirrorType'
  <2>1. drops \ {o} \in SUBSET ObjectIds BY DEF ServerType
  <2> QED BY <1>16, <2>1, <1>13 DEF Collect, ServerType
<1> QED BY WorldSteps, <1>1, <1>2, <1>3, <1>4, <1>5, <1>6, <1>7, <1>8, <1>9, <1>10, <1>12,
           <1>14, <1>15, <1>16 DEF Step

\* And so do those of the warps.
LEMMA WarpTypes ==
  ASSUME TypeInv, [WarpNext]_allvars
  PROVE  TypeInv'
<1> USE WarpAssumption DEF WarpAssumption, TypeInv
<1>1. CASE WorldStep
  <2>1. ServerType' /\ WireType' /\ MirrorType' BY <1>1, WorldTypes
  <2>2. alone' \in BOOLEAN BY <1>1 DEF WorldStep, Meanwhile
  <2> QED BY <1>1, <2>1, <2>2 DEF WorldStep, Meanwhile, tasks, TasksType
<1>2. ASSUME NEW r \in Requests, Write(r) PROVE up' \in Seq(Requests)
  BY <1>2 DEF Write, WireType
<1>3. ASSUME UNCHANGED <<connected, server, mirror, history>>
      PROVE  ServerType' /\ MirrorType'
  BY <1>3 DEF server, mirror, people, object_map, history, ServerType, MirrorType
<1>4. CASE ExitCommand
  <2>1. WireType' BY <1>4, <1>2 DEF ExitCommand, Quit, Requests, WireType
  <2>2. TasksType' BY <1>4 DEF ExitCommand, warp, tasks, TasksType
  <2> QED BY <1>4, <1>3, <2>1, <2>2 DEF ExitCommand
<1>5. ASSUME NEW arg \in Args, Execute(arg) PROVE TypeInv'
  <2>1. WireType' BY <1>5, <1>2 DEF Execute, Quit, Requests, WireType
  <2>2. TasksType'
    <3>1. issued' \in 0..MaxWarps /\ issued' = issued + 1 BY <1>5 DEF Execute, TasksType
    <3>2. asked' \in [1..issued' -> Names]
      <4>1. asked \in Seq(Names) /\ Len(asked) = issued BY <3>1 DEF TasksType
      <4>2. asked' = Append(asked, arg) /\ arg \in Names BY <1>5 DEF Execute
      <4>3. asked' \in Seq(Names) /\ Len(asked') = issued' BY <3>1, <4>1, <4>2
      <4> QED BY <4>3
    <3>3. waiting' \subseteq 1..issued' /\ running' \subseteq 1..issued'
      BY <1>5, <3>1 DEF Execute, CancelByTag, TasksType
    <3>4. alone' \in BOOLEAN BY <1>5 DEF Execute
    <3> QED BY <1>5, <3>1, <3>2, <3>3, <3>4 DEF Execute, TasksType
  <2> QED BY <1>5, <1>3, <2>1, <2>2 DEF Execute
<1>6. ASSUME NEW t \in waiting, Start(t) PROVE TypeInv'
  <2>1. UNCHANGED <<connected, server, mirror, history, up, down>> BY <1>6 DEF Start, vars
  <2>2. TasksType' BY <1>6 DEF Start, TasksType
  <2>3. WireType' BY <2>1 DEF WireType
  <2> QED BY <1>3, <2>1, <2>2, <2>3
<1>7. ASSUME NEW t \in running, Join(t) PROVE TypeInv'
  <2>1. WireType' BY <1>7, <1>2 DEF Join, Requests, WireType
  <2>2. TasksType' BY <1>7 DEF Join, NameRead, TasksType
  <2> QED BY <1>7, <1>3, <2>1, <2>2 DEF Join
<1>8. CASE UNCHANGED allvars
  <2>1. UNCHANGED <<connected, server, mirror, history, up, down, warp>> BY <1>8 DEF allvars, vars
  <2>2. TasksType' BY <2>1 DEF warp, tasks, TasksType
  <2>3. WireType' BY <2>1 DEF WireType
  <2> QED BY <1>3, <2>1, <2>2, <2>3
<1> QED BY Steps, <1>1, <1>4, <1>5, <1>6, <1>7, <1>8

\* Every state has these types.
LEMMA TypesKept == WarpSpec => []TypeInv
<1>1. WarpInit => TypeInv BY InitTypes
<1>2. TypeInv /\ [WarpNext]_allvars => TypeInv' BY WarpTypes
<1> QED BY <1>1, <1>2, PTL DEF WarpSpec

\* Every variable of the world, of the copy and of the warps has a value of its
\* type, the packets on their way included: what Handle() takes apart is a
\* packet that the server sent.
THEOREM TypeCorrect == WarpSpec => [](WarpTypeOK /\ down \in Seq(Message))
<1>1. TypeInv => WarpTypeOK /\ down \in Seq(Message)
  BY DEF TypeInv, ServerType, WireType, MirrorType, TasksType, WarpTypeOK, TypeOK, Requests
<1> QED BY <1>1, TypesKept, PTL
-----------------------------------------------------------------------------
(* The warps *)

\* A task that was ousted is neither in the queue nor with a worker, and was
\* issued before.
OustedInv ==
    /\ ousted \subseteq 1..issued
    /\ ousted \cap waiting = {} /\ ousted \cap running = {}
    /\ waiting \cap running = {}

\* A /warp that still waits when the next one is given never joins, whatever
\* the workers and the game do meanwhile: cancel_by_tag() takes it out before
\* the new one gets its id.
THEOREM OustedStayOut == WarpSpec => []OustedNeverJoins
<1>1. WarpInit => OustedInv BY DEF WarpInit, OustedInv
<1>2. ASSUME TypeInv, OustedInv, [WarpNext]_allvars PROVE OustedInv'
  <2> USE DEF TypeInv, TasksType, OustedInv
  <2>1. CASE WorldStep BY <1>2, <2>1 DEF WorldStep, Meanwhile, tasks
  <2>2. CASE ExitCommand BY <1>2, <2>2 DEF ExitCommand, warp, tasks
  <2>3. ASSUME NEW arg \in Args, Execute(arg) PROVE OustedInv'
    <3>1. issued' = issued + 1 /\ waiting' = {issued + 1} /\ ousted' = ousted \cup waiting
      BY <2>3 DEF Execute, CancelByTag
    <3>2. running' = running BY <2>3 DEF Execute
    <3>3. issued + 1 \notin ousted \cup waiting \cup running BY <1>2
    <3> QED BY <1>2, <3>1, <3>2, <3>3
  <2>4. ASSUME NEW t \in waiting, Start(t) PROVE OustedInv' BY <1>2, <2>4 DEF Start
  <2>5. ASSUME NEW t \in running, Join(t) PROVE OustedInv' BY <1>2, <2>5 DEF Join
  <2>6. CASE UNCHANGED allvars BY <1>2, <2>6 DEF allvars, warp, tasks
  <2> QED BY <1>2, Steps, <2>1, <2>2, <2>3, <2>4, <2>5, <2>6
<1>3. TypeInv /\ OustedInv /\ [WarpNext]_allvars => OustedInv' BY <1>2
<1>4. OustedInv => OustedNeverJoins BY DEF OustedInv, OustedNeverJoins
<1> QED BY <1>1, <1>3, <1>4, TypesKept, PTL DEF WarpSpec

\* Since the latest warp was given nothing but it can join: it is the only one
\* there is, and as long as it is there the last request is the exit it began
\* with, or the server has granted it.
AloneInv ==
    alone =>
        /\ connected
        /\ waiting \subseteq {issued} /\ running \subseteq {issued} /\ (running # {} => waiting = {})
        /\ (waiting # {} \/ running # {}) => ~WillBeInside

\* The last of what is left is the last of what there was.
LEMMA LastStays ==
  ASSUME NEW S, NEW s \in Seq(S), s # <<>>, Tail(s) # <<>>
  PROVE  Tail(s)[Len(Tail(s))] = s[Len(s)]
OBVIOUS

\* The join of the latest warp finds the avatar outside of any world.
THEOREM JoinsFromOutside == WarpSpec => WarpsFromOutside
<1>1. WarpInit => AloneInv BY DEF WarpInit, AloneInv
<1>2. ASSUME TypeInv, AloneInv, [WarpNext]_allvars PROVE AloneInv'
  <2> USE DEF TypeInv, TasksType
  <2>a. ASSUME up' = Append(up, "exit") PROVE ~WillBeInside'
    <3>1. up' # <<>> /\ up'[Len(up')] = "exit" BY <2>a DEF WireType
    <3> QED BY <3>1 DEF WillBeInside
  <2>b. ASSUME UNCHANGED <<tasks, alone>>, alone => connected', ~WillBeInside => ~WillBeInside'
        PROVE  AloneInv'
    BY <1>2, <2>b DEF AloneInv, tasks
  <2>1. CASE WorldStep
    <3>1. UNCHANGED tasks /\ alone' = (alone /\ connected' /\ ~GameJoins)
      BY <2>1 DEF WorldStep, Meanwhile
    <3> SUFFICES ASSUME alone, connected', ~GameJoins PROVE AloneInv'
      BY <3>1 DEF AloneInv
    <3>2. SUFFICES ~WillBeInside => ~WillBeInside' BY <2>b, <3>1
    <3>3. connected BY <1>2 DEF AloneInv
    <3>4. CASE GameExits BY <2>a, <3>4 DEF GameExits, Request
    <3>5. CASE Enter
      <4>1. up # <<>> /\ Head(up) = "join" /\ up' = Tail(up) BY <3>5 DEF Enter
      <4>2. CASE Tail(up) = <<>>
        <5>1. WillBeInside BY <4>1, <4>2 DEF WillBeInside, WireType
        <5> QED BY <5>1
      <4>3. CASE Tail(up) # <<>>
        <5>1. up'[Len(up')] = up[Len(up)] BY <4>1, <4>3, LastStays DEF WireType
        <5> QED BY <4>1, <4>3, <5>1 DEF WillBeInside
      <4> QED BY <4>2, <4>3
    <3>6. CASE Exit
      <4>1. up # <<>> /\ up' = Tail(up) /\ ~inside' BY <3>6 DEF Exit, Outside
      <4>2. CASE Tail(up) = <<>> BY <4>1, <4>2 DEF WillBeInside
      <4>3. CASE Tail(up) # <<>>
        <5>1. up'[Len(up')] = up[Len(up)] BY <4>1, <4>3, LastStays DEF WireType
        <5> QED BY <4>1, <4>3, <5>1 DEF WillBeInside
      <4> QED BY <4>2, <4>3
    <3>7. CASE Step /\ ~GameExits /\ ~Enter /\ ~Exit
      <4>1. ~Lose /\ ~Reconnect BY <3>3 DEF Lose, Reconnect
      <4>2. UNCHANGED <<up, inside>>
        BY <3>7, <4>1 DEF Step, FromServer, Leave, Spawn, GamePunches, Break, Place,
           TileAnswer, Drop, Restock, Collect, ObjectChange, server
      <4> QED BY <4>2 DEF WillBeInside
    <3> QED BY <2>1, WorldSteps, <3>4, <3>5, <3>6, <3>7
  <2>2. CASE ExitCommand
    <3>1. alone => up' = Append(up, "exit") BY <1>2, <2>2 DEF ExitCommand, Quit, Write, AloneInv
    <3>2. CASE alone
      BY <1>2, <2>2, <2>a, <2>b, <3>1, <3>2 DEF ExitCommand, warp, AloneInv
    <3>3. CASE ~alone BY <2>2, <3>3 DEF ExitCommand, warp, AloneInv
    <3> QED BY <3>2, <3>3
  <2>3. ASSUME NEW arg \in Args, Execute(arg) PROVE AloneInv'
    <3>1. alone' = (connected /\ running = {}) /\ UNCHANGED <<connected, running>>
      BY <2>3 DEF Execute
    <3>2. waiting' = {issued'} BY <2>3 DEF Execute, CancelByTag
    <3>3. connected => up' = Append(up, "exit") BY <2>3 DEF Execute, Quit, Write
    <3> QED BY <3>1, <3>2, <3>3, <2>a DEF AloneInv
  <2>4. ASSUME NEW t \in waiting, Start(t) PROVE AloneInv'
    <3>1. UNCHANGED <<vars, issued, alone>> BY <2>4 DEF Start
    <3>2. waiting' = waiting \ {t} /\ running' \subseteq running \cup {t} BY <2>4 DEF Start
    <3>3. UNCHANGED <<connected, WillBeInside>> BY <3>1 DEF vars, server, WillBeInside
    <3>4. alone => t = issued /\ ~WillBeInside /\ waiting = {t} /\ running = {} BY <1>2, <2>4 DEF AloneInv
    <3> QED BY <1>2, <3>1, <3>2, <3>3, <3>4 DEF AloneInv
  <2>5. ASSUME NEW t \in running, Join(t) PROVE AloneInv'
    <3>1. running' = running \ {t} /\ UNCHANGED <<connected, issued, waiting, alone>>
      BY <2>5 DEF Join
    <3> QED BY <1>2, <3>1 DEF AloneInv
  <2>6. CASE UNCHANGED allvars
    BY <1>2, <2>6 DEF allvars, vars, server, warp, tasks, AloneInv, WillBeInside
  <2> QED BY <1>2, Steps, <2>1, <2>2, <2>3, <2>4, <2>5, <2>6
<1>3. TypeInv /\ AloneInv /\ [WarpNext]_allvars => AloneInv' BY <1>2
<1>4. AloneInv /\ [WarpNext]_allvars =>
        [alone /\ running \ running' # {} => ~WillBeInside]_allvars
  BY DEF AloneInv
<1> QED BY <1>1, <1>3, <1>4, TypesKept, PTL DEF WarpSpec, WarpsFromOutside
-----------------------------------------------------------------------------
(* The players *)

Mentions(m, n) == m.type \in {"OnSpawn", "OnRemove"} /\ m.net_id = n
Shows(m, n) == m.type = "OnSpawn" /\ m.net_id = n /\ m.world = visit
Local(m) == m.type = "OnSpawn" /\ m.local

\* What the copy will say of n once all that is on its way has arrived: the
\* last packet that names it decides.
WillKnow(n) ==
    \/ /\ players[n] = visit
       /\ \A i \in 1..Len(down) : ~Mentions(down[i], n)
    \/ \E i \in 1..Len(down) :
          /\ Shows(down[i], n)
          /\ \A j \in (i + 1)..Len(down) : ~Mentions(down[j], n)

\* And of the avatar: the last local player decides.
WillBeLocal(n) ==
    \/ /\ local_net_id = n
       /\ \A i \in 1..Len(down) : ~Local(down[i])
    \/ \E i \in 1..Len(down) :
          /\ Local(down[i]) /\ down[i].net_id = n
          /\ \A j \in (i + 1)..Len(down) : ~Local(down[j])

Joining == \E i \in 1..Len(up) : up[i] = "join"

\* The copy catches up with the server's world, except while a join is on its
\* way, for which it may have been cleared already.
PlayersInv ==
    /\ LocalKnown
    /\ inside /\ ~Joining =>
          /\ \A n \in residents : WillKnow(n)
          /\ own # Nobody => WillBeLocal(own)

\* A packet behind the others that does not name a player changes nothing for
\* it, and one that shows it is the last.
LEMMA OneMore ==
  ASSUME WireType, MirrorType, NEW m \in Message, down' = Append(down, m),
         UNCHANGED <<players, local_net_id, visit>>, NEW n \in NetIds
  PROVE  /\ WillKnow(n) /\ ~Mentions(m, n) => WillKnow(n)'
         /\ WillBeLocal(n) /\ ~Local(m) => WillBeLocal(n)'
         /\ Shows(m, n) => WillKnow(n)'
         /\ Local(m) /\ m.net_id = n => WillBeLocal(n)'
<1>1. /\ Len(down') = Len(down) + 1 /\ Len(down) \in Nat /\ down'[Len(down')] = m
      /\ \A i \in 1..Len(down) : down'[i] = down[i]
  BY DEF WireType
<1>2. ASSUME WillKnow(n), ~Mentions(m, n) PROVE WillKnow(n)'
  <2>1. CASE players[n] = visit /\ \A i \in 1..Len(down) : ~Mentions(down[i], n)
    BY <1>1, <1>2, <2>1 DEF WillKnow, Mentions
  <2>2. ASSUME NEW i \in 1..Len(down), Shows(down[i], n),
               \A j \in (i + 1)..Len(down) : ~Mentions(down[j], n)
        PROVE  WillKnow(n)'
    <3>1. i \in 1..Len(down') /\ Shows(down[i], n)' BY <1>1, <2>2 DEF Shows
    <3>2. \A j \in (i + 1)..Len(down') : ~Mentions(down[j], n)' BY <1>1, <1>2, <2>2 DEF Mentions
    <3> QED BY <3>1, <3>2 DEF WillKnow
  <2> QED BY <1>2, <2>1, <2>2 DEF WillKnow
<1>3. ASSUME WillBeLocal(n), ~Local(m) PROVE WillBeLocal(n)'
  <2>1. CASE local_net_id = n /\ \A i \in 1..Len(down) : ~Local(down[i])
    BY <1>1, <1>3, <2>1 DEF WillBeLocal, Local
  <2>2. ASSUME NEW i \in 1..Len(down), Local(down[i]), down[i].net_id = n,
               \A j \in (i + 1)..Len(down) : ~Local(down[j])
        PROVE  WillBeLocal(n)'
    <3>1. i \in 1..Len(down') /\ Local(down[i])' /\ (down[i].net_id)' = n BY <1>1, <2>2 DEF Local
    <3>2. \A j \in (i + 1)..Len(down') : ~Local(down[j])' BY <1>1, <1>3, <2>2 DEF Local
    <3> QED BY <3>1, <3>2 DEF WillBeLocal
  <2> QED BY <1>3, <2>1, <2>2 DEF WillBeLocal
<1>4. ASSUME Shows(m, n) PROVE WillKnow(n)'
  <2>1. Len(down') \in 1..Len(down') /\ Shows(down[Len(down)], n)' BY <1>1, <1>4 DEF Shows
  <2>2. \A j \in (Len(down') + 1)..Len(down') : ~Mentions(down[j], n)' BY <1>1
  <2> QED BY <2>1, <2>2 DEF WillKnow
<1>5. ASSUME Local(m), m.net_id = n PROVE WillBeLocal(n)'
  <2>1. /\ Len(down') \in 1..Len(down')
        /\ Local(down[Len(down)])' /\ (down[Len(down)].net_id)' = n
    BY <1>1, <1>5 DEF Local
  <2>2. \A j \in (Len(down') + 1)..Len(down') : ~Local(down[j])' BY <1>1
  <2> QED BY <2>1, <2>2 DEF WillBeLocal
<1> QED BY <1>2, <1>3, <1>4, <1>5

\* One packet less on its way: what was to be known is known, or still is to be.
LEMMA OneLess ==
  ASSUME WireType, down # <<>>, down' = Tail(down), UNCHANGED visit, NEW n \in NetIds
  PROVE  /\ /\ WillKnow(n)
            /\ Shows(down[1], n) => players'[n] = visit
            /\ ~Mentions(down[1], n) => players'[n] = players[n]
            => WillKnow(n)'
         /\ /\ WillBeLocal(n)
            /\ Local(down[1]) => local_net_id' = down[1].net_id
            /\ ~Local(down[1]) => local_net_id' = local_net_id
            => WillBeLocal(n)'
<1>1. /\ Len(down) \in Nat \ {0} /\ Len(down') = Len(down) - 1
      /\ \A i \in 1..Len(down') : down'[i] = down[i + 1]
  BY DEF WireType
<1>2. ASSUME WillKnow(n), Shows(down[1], n) => players'[n] = visit,
             ~Mentions(down[1], n) => players'[n] = players[n]
      PROVE  WillKnow(n)'
  <2>1. CASE players[n] = visit /\ \A i \in 1..Len(down) : ~Mentions(down[i], n)
    <3>1. \A i \in 1..Len(down') : ~Mentions(down[i], n)' BY <1>1, <2>1 DEF Mentions
    <3>2. players'[n] = visit' BY <1>1, <1>2, <2>1
    <3> QED BY <3>1, <3>2 DEF WillKnow
  <2>2. ASSUME NEW i \in 1..Len(down), Shows(down[i], n),
               \A j \in (i + 1)..Len(down) : ~Mentions(down[j], n)
        PROVE  WillKnow(n)'
    <3>1. CASE i = 1
      <4>1. \A j \in 1..Len(down') : ~Mentions(down[j], n)' BY <1>1, <2>2, <3>1 DEF Mentions
      <4>2. players'[n] = visit' BY <1>2, <2>2, <3>1
      <4> QED BY <4>1, <4>2 DEF WillKnow
    <3>2. CASE i > 1
      <4>1. i - 1 \in 1..Len(down') /\ Shows(down[i - 1], n)' BY <1>1, <2>2, <3>2 DEF Shows
      <4>2. \A j \in ((i - 1) + 1)..Len(down') : ~Mentions(down[j], n)'
        BY <1>1, <2>2, <3>2 DEF Mentions
      <4> QED BY <4>1, <4>2 DEF WillKnow
    <3> QED BY <3>1, <3>2
  <2> QED BY <1>2, <2>1, <2>2 DEF WillKnow
<1>3. ASSUME WillBeLocal(n), Local(down[1]) => local_net_id' = down[1].net_id,
             ~Local(down[1]) => local_net_id' = local_net_id
      PROVE  WillBeLocal(n)'
  <2>1. CASE local_net_id = n /\ \A i \in 1..Len(down) : ~Local(down[i])
    <3>1. \A i \in 1..Len(down') : ~Local(down[i])' BY <1>1, <2>1 DEF Local
    <3>2. local_net_id' = n BY <1>1, <1>3, <2>1
    <3> QED BY <3>1, <3>2 DEF WillBeLocal
  <2>2. ASSUME NEW i \in 1..Len(down), Local(down[i]), down[i].net_id = n,
               \A j \in (i + 1)..Len(down) : ~Local(down[j])
        PROVE  WillBeLocal(n)'
    <3>1. CASE i = 1
      <4>1. \A j \in 1..Len(down') : ~Local(down[j])' BY <1>1, <2>2, <3>1 DEF Local
      <4>2. local_net_id' = n BY <1>3, <2>2, <3>1
      <4> QED BY <4>1, <4>2 DEF WillBeLocal
    <3>2. CASE i > 1
      <4>1. i - 1 \in 1..Len(down') /\ Local(down[i - 1])' /\ (down[i - 1].net_id)' = n
        BY <1>1, <2>2, <3>2 DEF Local
      <4>2. \A j \in ((i - 1) + 1)..Len(down') : ~Local(down[j])'
        BY <1>1, <2>2, <3>2 DEF Local
      <4> QED BY <4>1, <4>2 DEF WillBeLocal
    <3> QED BY <3>1, <3>2
  <2> QED BY <1>3, <2>1, <2>2 DEF WillBeLocal
<1> QED BY <1>2, <1>3

\* A step that leaves the copy alone, and of the residents takes none in but the
\* one whose packet it sends.
LEMMA SentKnown ==
  ASSUME TypeInv, PlayersInv, NEW m \in Message, down' = Append(down, m),
         UNCHANGED <<players, local_net_id, visit, inside, up>>,
         \A n \in residents' : Shows(m, n) \/ (n \in residents /\ ~Mentions(m, n)),
         residents' \subseteq NetIds, own' \in residents' \cup {Nobody},
         own' # Nobody => \/ Local(m) /\ m.net_id = own'
                          \/ own' = own /\ ~Local(m)
  PROVE  PlayersInv'
<1> USE DEF TypeInv
<1>1. LocalKnown' BY DEF PlayersInv, LocalKnown
<1>2. ASSUME inside', ~Joining', NEW n \in residents' PROVE WillKnow(n)'
  <2>1. inside /\ ~Joining /\ n \in NetIds BY <1>2 DEF Joining
  <2>2. CASE Shows(m, n) BY <2>1, <2>2, OneMore
  <2>3. CASE n \in residents /\ ~Mentions(m, n)
    <3>1. WillKnow(n) BY <2>1, <2>3 DEF PlayersInv
    <3> QED BY <2>1, <2>3, <3>1, OneMore
  <2> QED BY <2>2, <2>3
<1>3. ASSUME inside', ~Joining', own' # Nobody PROVE WillBeLocal(own)'
  <2>1. inside /\ ~Joining BY <1>3 DEF Joining
  <2>4. PICK n \in NetIds : n = own' BY <1>3
  <2>2. CASE Local(m) /\ m.net_id = n
    <3>1. WillBeLocal(n)' BY <2>2, OneMore
    <3> QED BY <2>4, <3>1 DEF WillBeLocal
  <2>3. CASE own' = own /\ ~Local(m)
    <3>1. WillBeLocal(own) BY <1>3, <2>1, <2>3 DEF PlayersInv
    <3>2. WillBeLocal(n) BY <2>3, <2>4, <3>1
    <3>3. WillBeLocal(n)' BY <2>3, <3>2, OneMore
    <3> QED BY <2>4, <3>3 DEF WillBeLocal
  <2> QED BY <1>3, <2>2, <2>3, <2>4
<1> QED BY <1>1, <1>2, <1>3 DEF PlayersInv

\* Whom a packet is not about, it leaves alone.
LEMMA HandledPeople ==
  ASSUME TypeInv, FromServer
  PROVE  LET m == down[1] IN
         /\ \A n \in NetIds : ~Mentions(m, n) => players'[n] = players[n]
         /\ local_net_id' = IF Local(m) THEN m.net_id ELSE local_net_id
<1> USE DEF TypeInv
<1> DEFINE m == down[1]
<1>1. m = Head(down) /\ m \in Message /\ down # <<>> /\ down' = Tail(down)
  BY Arrives DEF FromServer, WireType
<1>2. Handle(m) BY <1>1 DEF FromServer
<1>3. \A n \in NetIds : ~Mentions(m, n) => players'[n] = players[n]
  <2> SUFFICES ASSUME NEW n \in NetIds, ~Mentions(m, n) PROVE players'[n] = players[n] OBVIOUS
  <2>1. CASE m.type = "OnSpawn"
    <3>1. OnSpawn(m) BY <1>2, <2>1 DEF Handle
    <3> QED BY <2>1, <3>1 DEF OnSpawn, AddPlayer, Mentions, MirrorType
  <2>2. CASE m.type = "OnRemove"
    <3>1. OnRemove(m) BY <1>2, <2>2 DEF Handle
    <3> QED BY <2>2, <3>1 DEF OnRemove, RemovePlayer, Mentions, MirrorType
  <2>3. CASE m.type = "SendMapData" BY <1>2, <2>3 DEF Handle, SendMapData, people
  <2>4. CASE m.type = "TileChangeRequest" BY <1>2, <2>4 DEF Handle, TileChangeRequest, people
  <2>5. CASE m.type = "ItemChangeObject" BY <1>2, <2>5 DEF Handle, ItemChangeObject, people
  <2> QED BY Kinds, <1>1, <2>1, <2>2, <2>3, <2>4, <2>5
<1>4. local_net_id' = IF Local(m) THEN m.net_id ELSE local_net_id
  <2>1. CASE m.type = "OnSpawn"
    <3>1. OnSpawn(m) BY <1>2, <2>1 DEF Handle
    <3> QED BY <2>1, <3>1 DEF OnSpawn, AddPlayer, Local
  <2>2. CASE m.type = "OnRemove"
    <3>1. OnRemove(m) BY <1>2, <2>2 DEF Handle
    <3> QED BY <2>2, <3>1 DEF OnRemove, RemovePlayer, Local
  <2>3. CASE m.type = "SendMapData" BY <1>2, <2>3 DEF Handle, SendMapData, people, Local
  <2>4. CASE m.type = "TileChangeRequest"
    BY <1>2, <2>4 DEF Handle, TileChangeRequest, people, Local
  <2>5. CASE m.type = "ItemChangeObject"
    BY <1>2, <2>5 DEF Handle, ItemChangeObject, people, Local
  <2> QED BY Kinds, <1>1, <2>1, <2>2, <2>3, <2>4, <2>5
<1> QED BY <1>3, <1>4

\* A packet of the server passes.
LEMMA HandledKnown ==
  ASSUME TypeInv, PlayersInv, FromServer
  PROVE  PlayersInv'
<1> USE DEF TypeInv
<1> DEFINE m == down[1]
<1>1. m = Head(down) /\ m \in Message /\ down # <<>> /\ down' = Tail(down)
  BY Arrives DEF FromServer, WireType
<1>2. Handle(m) /\ UNCHANGED <<connected, server, up>> BY <1>1 DEF FromServer
<1>3. \A n \in NetIds : Shows(m, n) => players'[n] = visit
  <2> SUFFICES ASSUME NEW n \in NetIds, Shows(m, n) PROVE players'[n] = visit OBVIOUS
  <2>1. OnSpawn(m) BY <1>2 DEF Handle, Shows
  <2> QED BY <2>1 DEF OnSpawn, AddPlayer, Shows, MirrorType
<1>4. \A n \in NetIds : ~Mentions(m, n) => players'[n] = players[n] BY HandledPeople
<1>5. local_net_id' = IF Local(m) THEN m.net_id ELSE local_net_id BY HandledPeople
<1>6. LocalKnown'
  <2>1. CASE m.type = "OnSpawn"
    <3>1. OnSpawn(m) BY <1>2, <2>1 DEF Handle
    <3>2. m.net_id \in NetIds /\ m.world # 0 BY <1>1, <2>1, Kinds DEF Spawns
    <3> QED BY <3>1, <3>2 DEF OnSpawn, AddPlayer, PlayersInv, LocalKnown, MirrorType
  <2>2. CASE m.type = "OnRemove"
    <3>1. OnRemove(m) BY <1>2, <2>2 DEF Handle
    <3> QED BY <3>1 DEF OnRemove, RemovePlayer, PlayersInv, LocalKnown, MirrorType
  <2>3. CASE m.type \notin {"OnSpawn", "OnRemove"}
    <3>1. ~Local(m) BY <2>3 DEF Local
    <3>2. \A n \in NetIds : players'[n] = players[n] BY <1>4, <2>3 DEF Mentions
    <3> QED BY <1>5, <3>1, <3>2 DEF PlayersInv, LocalKnown, MirrorType
  <2> QED BY <2>1, <2>2, <2>3
<1>7. ASSUME inside', ~Joining' PROVE inside /\ ~Joining
  BY <1>2, <1>7 DEF server, Joining
<1>8. ASSUME inside', ~Joining', NEW n \in residents' PROVE WillKnow(n)'
  <2>1. n \in residents /\ n \in NetIds /\ visit' = visit BY <1>2, <1>8 DEF server, ServerType
  <2>2. WillKnow(n) BY <1>7, <1>8, <2>1 DEF PlayersInv
  <2> QED BY <1>1, <1>3, <1>4, <2>1, <2>2, OneLess
<1>9. ASSUME inside', ~Joining', own' # Nobody PROVE WillBeLocal(own)'
  <2>1. own' = own /\ own \in NetIds /\ visit' = visit BY <1>2, <1>9 DEF server, ServerType
  <2>2. WillBeLocal(own) BY <1>7, <1>9, <2>1 DEF PlayersInv
  <2>3. PICK n \in NetIds : n = own BY <2>1
  <2>4. WillBeLocal(n) BY <2>2, <2>3
  <2>5. WillBeLocal(n)' BY <1>1, <1>5, <2>1, <2>4, OneLess
  <2> QED BY <2>1, <2>3, <2>5 DEF WillBeLocal
<1> QED BY <1>6, <1>8, <1>9 DEF PlayersInv

\* A step of the server that says nothing of players.
LEMMA OtherKnown ==
  ASSUME TypeInv, PlayersInv, NEW m \in Message, Send(m),
         m.type \notin {"OnSpawn", "OnRemove"},
         UNCHANGED <<mirror, up, inside, visit, residents, own>>
  PROVE  PlayersInv'
<1>1. down' = Append(down, m) BY Sent DEF TypeInv
<1>2. UNCHANGED <<players, local_net_id>> BY DEF mirror, people
<1>3. ~Local(m) /\ \A n \in residents : ~Mentions(m, n) BY DEF Local, Mentions
<1>4. residents \subseteq NetIds /\ own \in residents \cup {Nobody} BY DEF TypeInv, ServerType
<1> QED BY <1>1, <1>2, <1>3, <1>4, SentKnown

\* Nothing that concerns players changes, but for requests that are no joins.
LEMMA SameKnown ==
  ASSUME PlayersInv, UNCHANGED <<players, local_net_id, inside, visit, residents, own, down>>,
         Joining => Joining'
  PROVE  PlayersInv'
BY DEF PlayersInv, LocalKnown, WillKnow, WillBeLocal, Shows, Mentions, Local

\* A request more.
LEMMA MoreRequests ==
  ASSUME WireType, NEW r, up' = Append(up, r)
  PROVE  (Joining => Joining') /\ (r = "join" => Joining')
<1>1. /\ Len(up') = Len(up) + 1 /\ Len(up) \in Nat /\ up'[Len(up')] = r
      /\ \A i \in 1..Len(up) : up'[i] = up[i]
  BY DEF WireType
<1>2. Joining => Joining' BY <1>1 DEF Joining
<1>3. ASSUME r = "join" PROVE Joining'
  <2>1. Len(up') \in 1..Len(up') BY <1>1
  <2> QED BY <1>1, <1>3, <2>1 DEF Joining
<1> QED BY <1>2, <1>3

\* Every step keeps what the copy will know.
LEMMA PlayersKept ==
  ASSUME TypeInv, PlayersInv, [WarpNext]_allvars
  PROVE  PlayersInv'
<1> USE DEF TypeInv
<1>1. CASE GameJoins
  <2>1. Joining' BY <1>1, MoreRequests DEF GameJoins, Request
  <2>2. LocalKnown'
    <3>1. CASE OnJoinRequest BY <3>1 DEF OnJoinRequest, Clear, LocalKnown
    <3>2. CASE UNCHANGED mirror BY <3>2 DEF mirror, people, PlayersInv, LocalKnown
    <3> QED BY <1>1, <3>1, <3>2 DEF GameJoins
  <2> QED BY <2>1, <2>2 DEF PlayersInv
<1>2. CASE GameExits
  <2>1. Joining => Joining' BY <1>2, MoreRequests DEF GameExits, Request
  <2> QED BY <1>2, <2>1, SameKnown DEF GameExits, server, mirror, people
<1>3. CASE FromServer BY <1>3, HandledKnown
<1>4. CASE Enter \/ Exit \/ Lose
  <2>1. LocalKnown' BY <1>4 DEF Enter, Exit, Lose, mirror, people, PlayersInv, LocalKnown
  <2>2. residents' = {} /\ own' = Nobody BY <1>4 DEF Enter, Exit, Lose, Outside
  <2> QED BY <2>1, <2>2 DEF PlayersInv
<1>5. CASE Reconnect
  BY <1>5, SameKnown DEF Reconnect, server, mirror, people, Joining
<1>6. ASSUME NEW n \in NetIds, Leave(n) PROVE PlayersInv'
  <2> DEFINE m == Removed(n)
  <2>1. m \in Message /\ m.type = "OnRemove" /\ m.net_id = n BY DEF Removed, Removes, Message
  <2>2. down' = Append(down, m) BY <1>6, <2>1, Sent DEF Leave
  <2>3. UNCHANGED <<players, local_net_id, visit, inside, up, own>>
    BY <1>6 DEF Leave, mirror, people
  <2>4. ~Local(m) /\ \A k \in NetIds : k # n => ~Mentions(m, k)
    BY <2>1 DEF Local, Mentions
  <2>5. residents' = residents \ {n} /\ n # own BY <1>6 DEF Leave
  <2>6. residents \subseteq NetIds /\ own \in residents \cup {Nobody} BY DEF ServerType
  <2> HIDE DEF m
  <2> QED BY <2>1, <2>2, <2>3, <2>4, <2>5, <2>6, SentKnown
<1>7. ASSUME NEW n \in NetIds, NEW local \in BOOLEAN, Spawn(n, local) PROVE PlayersInv'
  <2> DEFINE m == Spawned(n, local)
  <2>1. /\ m \in Message /\ m.type = "OnSpawn" /\ m.net_id = n
        /\ m.world = visit /\ m.local = local
    BY <1>7 DEF Spawn, ServerType, Spawned, Spawns, Message
  <2>2. down' = Append(down, m) BY <1>7, <2>1, Sent DEF Spawn
  <2>3. UNCHANGED <<players, local_net_id, visit, inside, up>>
    BY <1>7 DEF Spawn, mirror, people
  <2>4. Shows(m, n) /\ (Local(m) <=> local) /\ \A k \in NetIds : k # n => ~Mentions(m, k)
    BY <2>1 DEF Shows, Local, Mentions
  <2>5. residents' = residents \cup {n} /\ own' = IF local THEN n ELSE own BY <1>7 DEF Spawn
  <2>6. residents \subseteq NetIds /\ own \in residents \cup {Nobody} BY DEF ServerType
  <2> HIDE DEF m
  <2> QED BY <2>1, <2>2, <2>3, <2>4, <2>5, <2>6, SentKnown
<1>8. ASSUME NEW i \in Places, GamePunches(i) PROVE PlayersInv'
  BY <1>8, SameKnown DEF GamePunches, TileChangeRequest, server, people, Joining
<1>9. ASSUME NEW i \in Places, NEW item \in {Fist, Block}, NEW tile, TileAnswer(i, item, tile)
      PROVE  PlayersInv'
  <2>1. TileChanged(i, item) \in Message /\ TileChanged(i, item).type = "TileChangeRequest"
    BY DEF TileChanged, TileChanges, Message
  <2> QED BY <1>9, <2>1, OtherKnown DEF TileAnswer
<1>10. ASSUME NEW i \in Places, Break(i) \/ Place(i) PROVE PlayersInv'
  BY <1>10, <1>9 DEF Break, Place
<1>11. ASSUME NEW change \in Int, NEW id \in Int, NEW now, ObjectChange(change, id, now)
       PROVE  PlayersInv'
  <2>1. change % 256 \in Nat /\ id % 65536 \in Nat OBVIOUS
  <2>2. /\ ObjectChanged(change, id) \in Message
        /\ ObjectChanged(change, id).type = "ItemChangeObject"
    BY <2>1 DEF ObjectChanged, ToUint8, ToUint16, ObjectChanges, Message
  <2> QED BY <1>11, <2>2, OtherKnown DEF ObjectChange
<1>12. CASE Drop BY <1>12, <1>11 DEF Drop
<1>13. ASSUME NEW o \in ObjectIds, Restock(o) \/ \E n \in NetIds : Collect(o, n)
       PROVE  PlayersInv'
  <2>1. o \in Int /\ NetIds \subseteq Int BY WorldAssumption DEF WorldAssumption
  <2> QED BY <1>13, <2>1, <1>11 DEF Restock, Collect
<1>14. CASE WorldStep
  BY <1>14, WorldSteps, <1>1, <1>2, <1>3, <1>4, <1>5, <1>6, <1>7, <1>8, <1>10, <1>12, <1>13
     DEF Step
<1>15. ASSUME NEW r, Write(r), UNCHANGED <<server, down, mirror>> PROVE PlayersInv'
  <2>1. Joining => Joining'
    <3>1. CASE connected BY <1>15, <3>1, MoreRequests DEF Write
    <3>2. CASE ~connected BY <1>15, <3>2 DEF Write, Joining
    <3> QED BY <3>1, <3>2
  <2> QED BY <1>15, <2>1, SameKnown DEF server, mirror, people
<1>16. CASE ExitCommand BY <1>16, <1>15 DEF ExitCommand, Quit
<1>17. ASSUME NEW arg \in Args, Execute(arg) PROVE PlayersInv'
  BY <1>17, <1>15 DEF Execute, Quit
<1>18. ASSUME NEW t \in running, Join(t) PROVE PlayersInv' BY <1>18, <1>15 DEF Join
<1>19. ASSUME UNCHANGED vars PROVE PlayersInv'
  BY <1>19, SameKnown DEF vars, server, mirror, people, Joining
<1>20. ASSUME NEW t \in waiting, Start(t) PROVE PlayersInv' BY <1>20, <1>19 DEF Start
<1>21. CASE UNCHANGED allvars BY <1>21, <1>19 DEF allvars
<1> QED BY Steps, <1>14, <1>16, <1>17, <1>18, <1>20, <1>21

\* Once nothing is on its way, the copy has every player that the server shows,
\* as one of this world, and the avatar as the local one; and the local player
\* is always there for those who ask for it.  That holds of any number of
\* visits, late packets and warps, joins that clear the copy and joins that the
\* proxy does not see.
THEOREM PlayersAlwaysKnown == WarpSpec => []PlayersKnown
<1>1. WarpInit => PlayersInv BY DEF WarpInit, Init, PlayersInv, LocalKnown
<1>2. TypeInv /\ PlayersInv /\ [WarpNext]_allvars => PlayersInv' BY PlayersKept
<1>3. ASSUME TypeInv, PlayersInv PROVE PlayersKnown
  <2>1. ASSUME Settled, NEW n \in residents PROVE players[n] = visit
    <3>1. ~Joining /\ Len(down) = 0 BY <2>1 DEF Settled, Joining
    <3> QED BY <1>3, <2>1, <3>1 DEF PlayersInv, WillKnow, Settled
  <2>2. ASSUME Settled, own # Nobody PROVE local_net_id = own
    <3>1. ~Joining /\ Len(down) = 0 BY <2>2 DEF Settled, Joining
    <3> QED BY <1>3, <2>2, <3>1 DEF PlayersInv, WillBeLocal, Settled
  <2> QED BY <1>3, <2>1, <2>2 DEF PlayersKnown, NobodyMissing, PlayersInv
<1>4. TypeInv /\ PlayersInv => PlayersKnown BY <1>3
<1> QED BY <1>1, <1>2, <1>4, TypesKept, PTL DEF WarpSpec
-----------------------------------------------------------------------------
(* Blocks and objects *)

Punch(m, i) == m.type = "TileChangeRequest" /\ m.place = i /\ m.item = Fist
IsMap(m) == m.type = "SendMapData"

\* The last map on its way, or 0: then the copy has it.
LastMap(b) ==
    /\ b \in 0..Len(down) /\ (b # 0 => IsMap(down[b]))
    /\ \A j \in (b + 1)..Len(down) : ~IsMap(down[j])
Base(b) == IF b = 0 THEN tiles ELSE down[b].tiles
Punches(b, i) == {j \in (b + 1)..Len(down) : Punch(down[j], i)}

\* Of a tile that the map has as t and the server as s, so much is still on its
\* way that no block is left that the server has not: one punch for the
\* foreground, and one more for a background behind it.
Owed(t, s, P) ==
    /\ t.foreground # 0 /\ s.foreground = 0 => P # {}
    /\ t.background # 0 /\ s.background = 0 =>
          \E j \in P : t.foreground # 0 => \E k \in P : k # j

TilesInv ==
    \A b \in 0..Len(down) : LastMap(b) =>
        \A i \in DOMAIN Base(b) : Owed(Base(b)[i], blocks[i], Punches(b, i))

\* An object that the server has not is not in the copy once all has arrived.
Holds(m, o) == IsMap(m) /\ o \in m.objects
Takes(m, o) == \/ IsMap(m) /\ o \notin m.objects
               \/ m.type = "ItemChangeObject" /\ m.id = o
WillLack(o) ==
    \/ o \notin objects /\ \A i \in 1..Len(down) : ~Holds(down[i], o)
    \/ \E i \in 1..Len(down) :
          Takes(down[i], o) /\ \A j \in (i + 1)..Len(down) : ~Holds(down[j], o)

ObjectsInv == \A o \in ObjectIds : o < 65536 /\ o \notin drops => WillLack(o)

MappedInv == ~Joining => tiles \in Maps \/ \E i \in 1..Len(down) : IsMap(down[i])

CopyInv == inside => blocks \in Maps /\ MappedInv /\ TilesInv /\ ObjectsInv

\* More punches than are owed do no harm.
LEMMA OwedMore ==
  ASSUME NEW t, NEW s, NEW P, NEW Q, P \subseteq Q, Owed(t, s, P)
  PROVE  Owed(t, s, Q)
BY DEF Owed

\* What the server breaks is paid by the punch it sends.
LEMMA OwedBroken ==
  ASSUME NEW t, NEW s \in Tile, NEW P, NEW x, x \notin P, Owed(t, s, P)
  PROVE  Owed(t, Broken(s), P \cup {x})
<1>1. CASE s.foreground # 0
  <2>1. Broken(s).background = s.background BY <1>1 DEF Broken, Tile
  <2> QED BY <2>1 DEF Owed
<1>2. CASE s.foreground = 0
  <2>1. t.foreground # 0 => \E k \in P : k # x BY <1>2 DEF Owed
  <2> QED BY <2>1 DEF Owed
<1> QED BY <1>1, <1>2

\* What it places is not missed.
LEMMA OwedPlaced ==
  ASSUME NEW t, NEW s \in Tile, NEW P, Owed(t, s, P)
  PROVE  Owed(t, [s EXCEPT !.foreground = Block], P)
BY DEF Owed, Tile, Block

\* A punch strikes a block, and one less is owed.
LEMMA OwedStruck ==
  ASSUME NEW t \in Tile, NEW s, NEW P, NEW x, Owed(t, s, P)
  PROVE  Owed(Struck(t), s, P \ {x})
<1>1. Struck(t).foreground = 0 BY DEF Struck, Tile
<1>2. Struck(t).background # 0 => t.foreground # 0 /\ t.background # 0 BY DEF Struck, Tile
<1>3. Struck(t).background # 0 /\ s.background = 0 => \E j \in P : \E k \in P : k # j
  BY <1>2 DEF Owed
<1> QED BY <1>1, <1>3 DEF Owed

\* Only the number of punches counts, not where they are.
LEMMA OwedShifted ==
  ASSUME NEW t, NEW s, NEW P \in SUBSET Int, Owed(t, s, P)
  PROVE  Owed(t, s, {j - 1 : j \in P})
<1> DEFINE Q == {j - 1 : j \in P}
<1>1. P # {} => Q # {} OBVIOUS
<1>2. ASSUME NEW j \in P, t.foreground # 0 => \E k \in P : k # j
      PROVE  \E q \in Q : t.foreground # 0 => \E r \in Q : r # q
  <2>1. \A k \in P : k - 1 \in Q OBVIOUS
  <2>2. \A k \in P : k # j => k - 1 # j - 1 OBVIOUS
  <2> HIDE DEF Q
  <2> QED BY <1>2, <2>1, <2>2
<1> QED BY <1>1, <1>2 DEF Owed

\* The other values of a tile do not matter.
LEMMA OwedRead ==
  ASSUME NEW t \in Tile, NEW old, NEW s, NEW P, Owed(t, s, P)
  PROVE  Owed(TileRead(t, old), s, P)
BY DEF Owed, TileRead, Tile

\* What the copy has or will have is a map, or nothing yet.
LEMMA BaseMap ==
  ASSUME TypeInv, NEW b \in 0..Len(down), LastMap(b)
  PROVE  /\ Base(b) \in Maps \cup {<<>>} /\ (b # 0 => Base(b) \in Maps)
         /\ \A i \in DOMAIN Base(b) : i \in Places /\ Base(b)[i] \in Tile
<1>1. Base(b) \in Maps \cup {<<>>} /\ (b # 0 => Base(b) \in Maps)
  <2>1. CASE b = 0 BY <2>1 DEF Base, TypeInv, MirrorType
  <2>2. CASE b # 0
    <3>1. down[b] \in Message /\ IsMap(down[b]) BY <2>2 DEF LastMap, TypeInv, WireType
    <3>2. down[b].tiles \in Maps BY <3>1, Kinds DEF IsMap, MapDatas
    <3> QED BY <2>2, <3>2 DEF Base
  <2> QED BY <2>1, <2>2
<1>2. NewTile \in Tile BY DEF NewTile, Tile
<1> QED BY <1>1, <1>2, ChangedMap

\* m is the answer to what the server does to its blocks.
BlocksServed(m) ==
    \A i \in Places : \/ blocks'[i] = blocks[i]
                      \/ Punch(m, i) /\ blocks'[i] = Broken(blocks[i])
                      \/ blocks'[i] = [blocks[i] EXCEPT !.foreground = Block]

\* The server sends something that is no map.
LEMMA SentBuilt ==
  ASSUME TypeInv, CopyInv, inside, NEW m \in Message, ~IsMap(m), down' = Append(down, m),
         UNCHANGED <<tiles, objects, up>>, blocks' \in Maps, BlocksServed(m),
         \A o \in ObjectIds : o < 65536 /\ o \notin drops' => o \notin drops \/ Takes(m, o)
  PROVE  CopyInv'
<1>1. /\ Len(down') = Len(down) + 1 /\ Len(down) \in Nat /\ down'[Len(down')] = m
      /\ \A i \in 1..Len(down) : down'[i] = down[i]
  BY DEF TypeInv, WireType
<1>2. blocks \in Maps /\ MappedInv /\ TilesInv /\ ObjectsInv BY DEF CopyInv
<1>3. MappedInv' BY <1>1, <1>2 DEF MappedInv, Joining, IsMap
<1>4. TilesInv'
  <2> SUFFICES ASSUME NEW b \in 0..Len(down'), LastMap(b)', NEW i \in DOMAIN Base(b)'
               PROVE  Owed(Base(b)[i], blocks[i], Punches(b, i))'
    BY DEF TilesInv
  <2>1. b \in 0..Len(down) /\ LastMap(b) /\ Base(b)' = Base(b)
    BY <1>1 DEF LastMap, IsMap, Base
  <2>2. i \in Places /\ blocks[i] \in Tile /\ i \in DOMAIN Base(b)
    BY <1>2, <2>1, BaseMap DEF Maps
  <2>3. Owed(Base(b)[i], blocks[i], Punches(b, i)) BY <1>2, <2>1, <2>2 DEF TilesInv
  <2>4. Punches(b, i)' = Punches(b, i) \cup (IF Punch(m, i) THEN {Len(down')} ELSE {})
    <3>1. \A j \in (b + 1)..Len(down) : Punch(down[j], i)' <=> Punch(down[j], i)
      BY <1>1, <2>1 DEF Punch
    <3>2. Punch(down[Len(down)], i)' <=> Punch(m, i) BY <1>1 DEF Punch
    <3>3. ((b + 1)..Len(down))' = ((b + 1)..Len(down)) \cup {Len(down')} BY <1>1, <2>1
    <3> QED BY <1>1, <3>1, <3>2, <3>3 DEF Punches
  <2>5. Len(down') \notin Punches(b, i) /\ Punches(b, i) \subseteq Punches(b, i)'
    BY <1>1, <2>4 DEF Punches
  <2>6. CASE blocks'[i] = blocks[i] BY <2>1, <2>3, <2>5, <2>6, OwedMore
  <2>7. CASE Punch(m, i) /\ blocks'[i] = Broken(blocks[i])
    BY <2>1, <2>2, <2>3, <2>4, <2>5, <2>7, OwedBroken
  <2>8. CASE blocks'[i] = [blocks[i] EXCEPT !.foreground = Block]
    <3>1. Owed(Base(b)[i], blocks'[i], Punches(b, i)) BY <2>2, <2>3, <2>8, OwedPlaced
    <3> QED BY <2>1, <2>5, <3>1, OwedMore
  <2> QED BY <2>2, <2>6, <2>7, <2>8 DEF BlocksServed
<1>5. ObjectsInv'
  <2> SUFFICES ASSUME NEW o \in ObjectIds, o < 65536, o \notin drops' PROVE WillLack(o)'
    BY DEF ObjectsInv
  <2>1. CASE o \notin drops
    <3>1. WillLack(o) BY <1>2, <2>1 DEF ObjectsInv
    <3>2. ~Holds(m, o) /\ \A i \in 1..Len(down) : Holds(down[i], o)' <=> Holds(down[i], o)
      BY <1>1 DEF Holds, IsMap
    <3>3. CASE o \notin objects /\ \A i \in 1..Len(down) : ~Holds(down[i], o)
      BY <1>1, <3>2, <3>3 DEF WillLack, Holds, IsMap
    <3>4. ASSUME NEW i \in 1..Len(down), Takes(down[i], o),
                 \A j \in (i + 1)..Len(down) : ~Holds(down[j], o)
          PROVE  WillLack(o)'
      <4>1. i \in 1..Len(down') /\ Takes(down[i], o)' BY <1>1, <3>4 DEF Takes, IsMap
      <4>2. \A j \in (i + 1)..Len(down') : ~Holds(down[j], o)'
        BY <1>1, <3>2, <3>4 DEF Holds, IsMap
      <4> QED BY <4>1, <4>2 DEF WillLack
    <3> QED BY <3>1, <3>3, <3>4 DEF WillLack
  <2>2. CASE Takes(m, o)
    <3>1. Len(down') \in 1..Len(down') /\ Takes(down[Len(down)], o)' BY <1>1, <2>2 DEF Takes, IsMap
    <3>2. \A j \in (Len(down') + 1)..Len(down') : ~Holds(down[j], o)' BY <1>1
    <3> QED BY <3>1, <3>2 DEF WillLack
  <2> QED BY <2>1, <2>2
<1> QED BY <1>3, <1>4, <1>5 DEF CopyInv

\* A packet of the server passes.
LEMMA HandledBuilt ==
  ASSUME TypeInv, CopyInv, FromServer
  PROVE  CopyInv'
<1> DEFINE m == down[1]
<1>1. m = Head(down) /\ m \in Message /\ down # <<>> /\ down' = Tail(down)
  BY Arrives DEF FromServer, TypeInv, WireType
<1>2. Handle(m) /\ UNCHANGED <<connected, server, up>> BY <1>1 DEF FromServer
<1>3. /\ Len(down) \in Nat \ {0} /\ Len(down') = Len(down) - 1
      /\ \A i \in 1..Len(down') : down'[i] = down[i + 1]
  BY <1>1 DEF TypeInv, WireType
<1> SUFFICES ASSUME inside' PROVE (blocks \in Maps /\ MappedInv /\ TilesInv /\ ObjectsInv)'
  BY DEF CopyInv
<1>4. inside /\ blocks' = blocks /\ drops' = drops BY <1>2 DEF server
<1>5. blocks \in Maps /\ MappedInv /\ TilesInv /\ ObjectsInv BY <1>4 DEF CopyInv
<1>6. IsMap(m) =>
        /\ m.tiles \in Maps /\ tiles' \in Maps /\ objects' = m.objects
        /\ \A i \in DOMAIN m.tiles : \E old : tiles'[i] = TileRead(m.tiles[i], old)
  <2> SUFFICES ASSUME IsMap(m)
               PROVE  /\ m.tiles \in Maps /\ tiles' \in Maps /\ objects' = m.objects
                      /\ \A i \in DOMAIN m.tiles : \E old : tiles'[i] = TileRead(m.tiles[i], old)
    OBVIOUS
  <2>1. SendMapData(m) /\ m.tiles \in Maps BY <1>1, <1>2, Kinds DEF Handle, IsMap, MapDatas
  <2>2. /\ tiles' = [i \in DOMAIN m.tiles |->
              TileRead(m.tiles[i], IF i \in DOMAIN tiles THEN tiles[i] ELSE NewTile)]
        /\ objects' = m.objects
    BY <2>1 DEF SendMapData, ReadMap
  <2>3. tiles' \in Maps BY <2>1, <2>2, ReadTiles DEF TypeInv, MirrorType
  <2> QED BY <2>1, <2>2, <2>3
<1>7. ~IsMap(m) => \A o : o \notin objects \/ Takes(m, o) => o \notin objects'
  <2>1. CASE m.type = "ItemChangeObject"
    <3>1. m.change \in Nat BY <1>1, <2>1, Kinds DEF ObjectChanges
    <3>2. ItemChangeObject(m) BY <1>2, <2>1 DEF Handle
    <3>3. objects' = objects \ {m.id} BY <3>1, <3>2 DEF ItemChangeObject
    <3> QED BY <2>1, <3>3 DEF Takes, IsMap
  <2>2. CASE m.type = "OnSpawn" BY <1>2, <2>2 DEF Handle, OnSpawn, object_map, Takes, IsMap
  <2>3. CASE m.type = "OnRemove" BY <1>2, <2>3 DEF Handle, OnRemove, object_map, Takes, IsMap
  <2>4. CASE m.type = "TileChangeRequest"
    BY <1>2, <2>4 DEF Handle, TileChangeRequest, object_map, Takes, IsMap
  <2> QED BY Kinds, <1>1, <2>1, <2>2, <2>3, <2>4 DEF IsMap
<1>8. ~IsMap(m) =>
        \/ tiles' = tiles /\ \A i \in DOMAIN tiles : ~Punch(m, i)
        \/ /\ m.place \in DOMAIN tiles /\ m.item = Fist /\ m.type = "TileChangeRequest"
           /\ tiles' = [tiles EXCEPT ![m.place] = Struck(tiles[m.place])]
  <2>1. CASE m.type = "TileChangeRequest"
    <3>1. TileChangeRequest(m.place, m.item) BY <1>2, <2>1 DEF Handle
    <3> QED BY <2>1, <3>1 DEF TileChangeRequest, Punch
  <2>2. CASE m.type = "OnSpawn" BY <1>2, <2>2 DEF Handle, OnSpawn, Punch
  <2>3. CASE m.type = "OnRemove" BY <1>2, <2>3 DEF Handle, OnRemove, Punch
  <2>4. CASE m.type = "ItemChangeObject" BY <1>2, <2>4 DEF Handle, ItemChangeObject, Punch
  <2> QED BY Kinds, <1>1, <2>1, <2>2, <2>3, <2>4 DEF IsMap
<1>9. ~IsMap(m) /\ tiles \in Maps => tiles' \in Maps
  <2> SUFFICES ASSUME ~IsMap(m), tiles \in Maps PROVE tiles' \in Maps OBVIOUS
  <2>1. CASE tiles' = tiles BY <2>1
  <2>2. CASE m.place \in DOMAIN tiles /\ tiles' = [tiles EXCEPT ![m.place] = Struck(tiles[m.place])]
    <3>1. tiles[m.place] \in Tile BY <2>2 DEF Maps
    <3> QED BY <2>2, <3>1, StruckTile, ChangedMap
  <2> QED BY <1>8, <2>1, <2>2
<1> HIDE DEF m
<1>10. MappedInv'
  <2> SUFFICES ASSUME ~Joining' PROVE (tiles \in Maps \/ \E i \in 1..Len(down) : IsMap(down[i]))'
    BY DEF MappedInv
  <2>1. ~Joining BY <1>2 DEF Joining
  <2>2. CASE tiles \in Maps BY <1>6, <1>9, <2>2
  <2>3. ASSUME NEW i \in 1..Len(down), IsMap(down[i])
        PROVE  (tiles \in Maps \/ \E k \in 1..Len(down) : IsMap(down[k]))'
    <3>1. CASE i = 1 BY <1>6, <2>3, <3>1 DEF m
    <3>2. CASE i > 1
      <4>1. i - 1 \in 1..Len(down') /\ IsMap(down[i - 1])' BY <1>3, <2>3, <3>2 DEF IsMap
      <4> QED BY <4>1
    <3> QED BY <3>1, <3>2
  <2> QED BY <1>5, <2>1, <2>2, <2>3 DEF MappedInv
<1>11. TilesInv'
  <2> SUFFICES ASSUME NEW b \in 0..Len(down'), LastMap(b)', NEW i \in DOMAIN Base(b)'
               PROVE  Owed(Base(b)[i], blocks[i], Punches(b, i))'
    BY DEF TilesInv
  <2> DEFINE Q == Punches(b, i)'
  <2>1. b + 1 \in 0..Len(down) /\ \A j \in (b + 2)..Len(down) : ~IsMap(down[j])
    <3>1. ASSUME NEW j \in (b + 2)..Len(down) PROVE ~IsMap(down[j])
      <4>1. j - 1 \in (b + 1)..Len(down') /\ down'[j - 1] = down[j] BY <1>3, <3>1
      <4> QED BY <4>1 DEF LastMap, IsMap
    <3> QED BY <1>3, <3>1
  <2>2. Q = {j - 1 : j \in Punches(b + 1, i)}
    <3>1. \A j \in (b + 2)..Len(down) : j - 1 \in (b + 1)..Len(down') /\ down'[j - 1] = down[j]
      BY <1>3
    <3>2. \A k \in (b + 1)..Len(down') :
            /\ k + 1 \in (b + 2)..Len(down) /\ k = (k + 1) - 1 /\ down'[k] = down[k + 1]
      BY <1>3
    <3>3. Q \subseteq {j - 1 : j \in Punches(b + 1, i)} BY <3>2 DEF Punches, Punch
    <3>4. {j - 1 : j \in Punches(b + 1, i)} \subseteq Q BY <3>1 DEF Punches, Punch
    <3> QED BY <3>3, <3>4
  <2>3. Punches(b + 1, i) \in SUBSET Int BY DEF Punches
  <2>4. SUFFICES Owed(Base(b)'[i], blocks[i], Punches(b + 1, i))
    BY <1>4, <2>2, <2>3, <2>4, OwedShifted
  <2>5. CASE b # 0
    <3>1. LastMap(b + 1) /\ Base(b)' = Base(b + 1)
      BY <1>3, <2>1, <2>5 DEF LastMap, IsMap, Base
    <3> QED BY <1>5, <2>1, <3>1 DEF TilesInv
  <2>6. CASE b = 0 /\ IsMap(m)
    <3>1. LastMap(1) /\ Base(1) = m.tiles /\ Base(b)' = tiles'
      BY <1>3, <2>1, <2>6 DEF LastMap, IsMap, Base, m
    <3>2. i \in DOMAIN m.tiles /\ m.tiles[i] \in Tile BY <1>6, <2>6, <3>1 DEF Maps
    <3>3. Owed(m.tiles[i], blocks[i], Punches(1, i)) BY <1>5, <2>1, <2>6, <3>1, <3>2 DEF TilesInv
    <3>4. PICK old : tiles'[i] = TileRead(m.tiles[i], old) BY <1>6, <2>6, <3>2
    <3>5. Owed(tiles'[i], blocks[i], Punches(1, i)) BY <3>2, <3>3, <3>4, OwedRead
    <3> QED BY <2>6, <3>1, <3>5
  <2>7. CASE b = 0 /\ ~IsMap(m)
    <3>1. 0 \in 0..Len(down) /\ LastMap(0) /\ Base(0) = tiles /\ Base(b)' = tiles'
      <4>1. \A j \in 1..Len(down) : ~IsMap(down[j]) BY <1>3, <2>1, <2>7 DEF m
      <4> QED BY <1>3, <2>7, <4>1 DEF LastMap, Base
    <3>2. i \in DOMAIN tiles BY <1>8, <2>7, <3>1
    <3>3. Owed(tiles[i], blocks[i], Punches(0, i)) /\ tiles[i] \in Tile
      BY <1>5, <3>1, <3>2, BaseMap DEF TilesInv
    <3>4. Punches(b + 1, i) = Punches(0, i) \ {1} /\ Base(b)'[i] = tiles'[i]
      BY <1>3, <2>7, <3>1 DEF Punches
    <3>5. CASE Punch(m, i)
      <4>1. tiles'[i] = Struck(tiles[i]) BY <1>8, <2>7, <3>2, <3>5 DEF Punch
      <4>2. Owed(Struck(tiles[i]), blocks[i], Punches(0, i) \ {1}) BY <3>3, OwedStruck
      <4> QED BY <3>4, <4>1, <4>2
    <3>6. CASE ~Punch(m, i)
      <4>1. tiles'[i] = tiles[i] BY <1>8, <2>7, <3>2, <3>6 DEF Punch
      <4>2. 1 \notin Punches(0, i) BY <3>6 DEF Punches, m
      <4>3. Punches(0, i) \ {1} = Punches(0, i) BY <4>2
      <4> QED BY <3>3, <3>4, <4>1, <4>3
    <3> QED BY <3>5, <3>6
  <2> QED BY <2>5, <2>6, <2>7
<1>12. ObjectsInv'
  <2> SUFFICES ASSUME NEW o \in ObjectIds, o < 65536, o \notin drops' PROVE WillLack(o)'
    BY DEF ObjectsInv
  <2>1. WillLack(o) BY <1>4, <1>5 DEF ObjectsInv
  <2>2. CASE o \notin objects /\ \A i \in 1..Len(down) : ~Holds(down[i], o)
    <3>1. o \notin objects'
      <4>1. ~Holds(m, o) BY <1>3, <2>2 DEF m
      <4> QED BY <1>6, <1>7, <2>2, <4>1 DEF Holds
    <3>2. \A i \in 1..Len(down') : ~Holds(down[i], o)' BY <1>3, <2>2 DEF Holds, IsMap
    <3> QED BY <3>1, <3>2 DEF WillLack
  <2>3. ASSUME NEW i \in 1..Len(down), Takes(down[i], o),
               \A j \in (i + 1)..Len(down) : ~Holds(down[j], o)
        PROVE  WillLack(o)'
    <3>1. CASE i = 1
      <4>1. Takes(m, o) BY <2>3, <3>1 DEF m
      <4>2. o \notin objects' BY <1>6, <1>7, <4>1 DEF Takes, IsMap
      <4>3. \A j \in 1..Len(down') : ~Holds(down[j], o)' BY <1>3, <2>3, <3>1 DEF Holds, IsMap
      <4> QED BY <4>2, <4>3 DEF WillLack
    <3>2. CASE i > 1
      <4>1. i - 1 \in 1..Len(down') /\ Takes(down[i - 1], o)'
        BY <1>3, <2>3, <3>2 DEF Takes, IsMap
      <4>2. \A j \in ((i - 1) + 1)..Len(down') : ~Holds(down[j], o)'
        BY <1>3, <2>3, <3>2 DEF Holds, IsMap
      <4> QED BY <4>1, <4>2 DEF WillLack
    <3> QED BY <3>1, <3>2
  <2> QED BY <2>1, <2>2, <2>3 DEF WillLack
<1> QED BY <1>4, <1>5, <1>10, <1>11, <1>12

\* The copy owes nothing the server does not pay for.
LEMMA BuiltKept ==
  ASSUME TypeInv, CopyInv, [WarpNext]_allvars
  PROVE  CopyInv'
<1>1. ASSUME UNCHANGED <<tiles, objects, blocks, drops, inside, down>>, Joining => Joining'
      PROVE  CopyInv'
  <2> SUFFICES ASSUME inside' PROVE (blocks \in Maps /\ MappedInv /\ TilesInv /\ ObjectsInv)'
    BY DEF CopyInv
  <2>1. blocks \in Maps /\ MappedInv /\ TilesInv /\ ObjectsInv BY <1>1 DEF CopyInv
  <2>2. MappedInv' BY <1>1, <2>1 DEF MappedInv, IsMap
  <2>3. TilesInv'
    <3> SUFFICES ASSUME NEW b \in 0..Len(down'), LastMap(b)', NEW i \in DOMAIN Base(b)'
                 PROVE  Owed(Base(b)[i], blocks[i], Punches(b, i))'
      BY DEF TilesInv
    <3>1. /\ b \in 0..Len(down) /\ LastMap(b) /\ Punches(b, i)' = Punches(b, i)
          /\ Base(b)' = Base(b)
      BY <1>1 DEF LastMap, Base, Punches, Punch, IsMap
    <3> QED BY <1>1, <2>1, <3>1 DEF TilesInv
  <2>4. ObjectsInv' BY <1>1, <2>1 DEF ObjectsInv, WillLack, Holds, Takes, IsMap
  <2> QED BY <1>1, <2>1, <2>2, <2>3, <2>4
<1>2. ASSUME NEW r \in Requests, Request(r), UNCHANGED <<server, down>>
      PROVE  Joining => Joining'
  BY <1>2 DEF Request, Joining, TypeInv, WireType
<1>3. CASE GameJoins
  <2>1. CASE UNCHANGED <<mirror, history>>
    BY <1>1, <1>2, <1>3, <2>1 DEF GameJoins, server, mirror, object_map, Requests
  <2>2. CASE OnJoinRequest
    <3> SUFFICES ASSUME inside' PROVE (blocks \in Maps /\ MappedInv /\ TilesInv /\ ObjectsInv)'
      BY DEF CopyInv
    <3>1. /\ tiles' = <<>> /\ objects' = {} /\ Request("join")
          /\ UNCHANGED <<inside, blocks, drops, down>>
      BY <1>3, <2>2 DEF GameJoins, OnJoinRequest, Clear, server
    <3>2. blocks \in Maps /\ TilesInv /\ ObjectsInv BY <3>1 DEF CopyInv
    <3>3. MappedInv' BY <3>1 DEF MappedInv, Joining, Request, TypeInv, WireType
    <3>4. TilesInv'
      <4> SUFFICES ASSUME NEW b \in 0..Len(down'), LastMap(b)', NEW i \in DOMAIN Base(b)'
                   PROVE  Owed(Base(b)[i], blocks[i], Punches(b, i))'
        BY DEF TilesInv
      <4>1. DOMAIN <<>> = {} OBVIOUS
      <4>2. b # 0 BY <3>1, <4>1 DEF Base
      <4>3. LastMap(b) /\ Base(b)' = Base(b) /\ Punches(b, i)' = Punches(b, i)
        BY <3>1, <4>2 DEF LastMap, Base, Punches, Punch, IsMap
      <4> QED BY <3>1, <3>2, <4>3 DEF TilesInv
    <3>5. ObjectsInv' BY <3>1, <3>2 DEF ObjectsInv, WillLack, Holds, Takes, IsMap
    <3> QED BY <3>1, <3>2, <3>3, <3>4, <3>5
  <2> QED BY <1>3, <2>1, <2>2 DEF GameJoins
<1>4. CASE GameExits
  BY <1>1, <1>2, <1>4 DEF GameExits, server, mirror, object_map, Requests
<1>5. CASE FromServer BY <1>5, HandledBuilt
<1>6. CASE Enter
  <2> DEFINE m == MapData(visit', blocks', drops', last_drop')
  <2>1. /\ m.type = "SendMapData" /\ m.tiles = blocks' /\ m.objects = drops'
        /\ down' = Append(down, m) /\ blocks' \in Maps
    <3>1. down' = Append(down, m) BY <1>6 DEF Enter, Send
    <3>2. blocks' \in Maps BY <1>6, WorldAssumption DEF Enter, Maps, WorldAssumption
    <3> QED BY <3>1, <3>2 DEF MapData
  <2> HIDE DEF m
  <2>2. /\ Len(down') = Len(down) + 1 /\ Len(down) \in Nat /\ down'[Len(down')] = m
    BY <2>1 DEF TypeInv, WireType
  <2>3. MappedInv' BY <2>1, <2>2 DEF MappedInv, IsMap
  <2>4. TilesInv'
    <3> SUFFICES ASSUME NEW b \in 0..Len(down'), LastMap(b)', NEW i \in DOMAIN Base(b)'
                 PROVE  Owed(Base(b)[i], blocks[i], Punches(b, i))'
      BY DEF TilesInv
    <3>1. b = Len(down')
      <4>1. IsMap(down[Len(down)])' BY <2>1, <2>2 DEF IsMap
      <4> QED BY <2>2, <4>1 DEF LastMap
    <3>2. Base(b)' = blocks' BY <2>1, <2>2, <3>1 DEF Base
    <3> QED BY <3>2 DEF Owed
  <2>5. ObjectsInv'
    <3> SUFFICES ASSUME NEW o \in ObjectIds, o \notin drops' PROVE WillLack(o)' BY DEF ObjectsInv
    <3>1. Len(down') \in 1..Len(down') /\ Takes(down[Len(down)], o)' BY <2>1, <2>2 DEF Takes, IsMap
    <3>2. \A j \in (Len(down') + 1)..Len(down') : ~Holds(down[j], o)' BY <2>2
    <3> QED BY <3>1, <3>2 DEF WillLack
  <2> QED BY <2>1, <2>3, <2>4, <2>5 DEF CopyInv
<1>7. CASE Exit \/ Lose BY <1>7 DEF Exit, Lose, Outside, CopyInv
<1>8. CASE Reconnect BY <1>1, <1>8 DEF Reconnect, server, mirror, object_map, Joining
<1>9. ASSUME NEW n \in NetIds, Leave(n) PROVE CopyInv'
  <2>1. Removed(n) \in Message /\ ~IsMap(Removed(n))
    BY DEF Removed, Removes, Message, IsMap
  <2> QED BY <1>9, <2>1, SentBuilt DEF Leave, Send, mirror, object_map, BlocksServed, CopyInv
<1>10. ASSUME NEW n \in NetIds, NEW local \in BOOLEAN, Spawn(n, local) PROVE CopyInv'
  <2>1. Spawned(n, local) \in Message /\ ~IsMap(Spawned(n, local))
    BY <1>10 DEF Spawn, TypeInv, ServerType, Spawned, Spawns, Message, IsMap
  <2> QED BY <1>10, <2>1, SentBuilt DEF Spawn, Send, mirror, object_map, BlocksServed, CopyInv
<1>11. ASSUME NEW i \in Places, GamePunches(i) PROVE CopyInv'
  <2> SUFFICES ASSUME inside' PROVE (blocks \in Maps /\ MappedInv /\ TilesInv /\ ObjectsInv)'
    BY DEF CopyInv
  <2>1. /\ UNCHANGED <<inside, blocks, drops, down, up, objects>>
        /\ tiles' = IF i \in DOMAIN tiles THEN [tiles EXCEPT ![i] = Struck(tiles[i])] ELSE tiles
    BY <1>11 DEF GamePunches, TileChangeRequest, server, object_map
  <2>2. blocks \in Maps /\ MappedInv /\ TilesInv /\ ObjectsInv BY <2>1 DEF CopyInv
  <2>3. MappedInv'
    <3>1. tiles \in Maps => tiles' \in Maps
      <4> SUFFICES ASSUME tiles \in Maps PROVE tiles' \in Maps OBVIOUS
      <4>1. CASE i \in DOMAIN tiles
        <5>1. tiles[i] \in Tile BY <4>1 DEF Maps
        <5> QED BY <2>1, <4>1, <5>1, StruckTile, ChangedMap
      <4> QED BY <2>1, <4>1
    <3> QED BY <2>1, <2>2, <3>1 DEF MappedInv, Joining, IsMap
  <2>4. TilesInv'
    <3> SUFFICES ASSUME NEW b \in 0..Len(down'), LastMap(b)', NEW k \in DOMAIN Base(b)'
                 PROVE  Owed(Base(b)[k], blocks[k], Punches(b, k))'
      BY DEF TilesInv
    <3>1. b \in 0..Len(down) /\ LastMap(b) /\ Punches(b, k)' = Punches(b, k)
      BY <2>1 DEF LastMap, Punches, Punch, IsMap
    <3>2. k \in DOMAIN Base(b) BY <2>1 DEF Base
    <3>3. Owed(Base(b)[k], blocks[k], Punches(b, k)) /\ Base(b)[k] \in Tile
      BY <2>2, <3>1, <3>2, BaseMap DEF TilesInv
    <3>4. CASE Base(b)'[k] = Base(b)[k] BY <2>1, <3>1, <3>3, <3>4
    <3>5. CASE Base(b)'[k] = Struck(Base(b)[k])
      <4>1. Owed(Struck(Base(b)[k]), blocks[k], Punches(b, k) \ {0}) BY <3>3, OwedStruck
      <4>2. Owed(Struck(Base(b)[k]), blocks[k], Punches(b, k)) BY <4>1, OwedMore
      <4> QED BY <2>1, <3>1, <3>5, <4>2
    <3>6. Base(b)'[k] = Base(b)[k] \/ Base(b)'[k] = Struck(Base(b)[k])
      BY <2>1, <3>2 DEF Base
    <3> QED BY <3>4, <3>5, <3>6
  <2>5. ObjectsInv' BY <2>1, <2>2 DEF ObjectsInv, WillLack, Holds, Takes, IsMap
  <2> QED BY <2>1, <2>2, <2>3, <2>4, <2>5
<1>12. ASSUME NEW i \in Places, Break(i) \/ Place(i) PROVE CopyInv'
  <2>1. /\ inside /\ i \in DOMAIN blocks /\ UNCHANGED <<tiles, objects, up, drops>>
    BY <1>12 DEF Break, Place, TileAnswer, mirror, object_map
  <2>2. blocks \in Maps /\ blocks[i] \in Tile BY <2>1 DEF CopyInv, Maps
  <2>3. ASSUME NEW item \in {Fist, Block}, NEW tile \in Tile, TileAnswer(i, item, tile),
               \/ item = Fist /\ tile = Broken(blocks[i])
               \/ tile = [blocks[i] EXCEPT !.foreground = Block]
        PROVE  CopyInv'
    <3> DEFINE m == TileChanged(i, item)
    <3>1. /\ m \in Message /\ ~IsMap(m)
          /\ item = Fist => Punch(m, i)
      BY DEF TileChanged, TileChanges, Message, IsMap, Punch
    <3>2. down' = Append(down, m) /\ blocks' = [blocks EXCEPT ![i] = tile]
      BY <2>3 DEF TileAnswer, Send
    <3>3. blocks' \in Maps BY <2>2, <3>2 DEF Maps
    <3> HIDE DEF m
    <3>4. BlocksServed(m) BY <2>2, <2>3, <3>1, <3>2 DEF BlocksServed, Maps
    <3>5. \A o \in ObjectIds : o < 65536 /\ o \notin drops' => o \notin drops \/ Takes(m, o)
      BY <2>1
    <3>6. inside /\ UNCHANGED <<tiles, objects, up>> BY <2>1
    <3>7. m \in Message /\ ~IsMap(m) /\ down' = Append(down, m) BY <3>1, <3>2
    <3> QED BY <3>3, <3>4, <3>5, <3>6, <3>7, SentBuilt
  <2>4. Broken(blocks[i]) \in Tile /\ [blocks[i] EXCEPT !.foreground = Block] \in Tile
    BY <2>2, StruckTile DEF Tile
  <2> QED BY <1>12, <2>3, <2>4 DEF Break, Place
<1>13. ASSUME NEW change \in Int, NEW id \in Int, NEW now \in SUBSET ObjectIds,
              ObjectChange(change, id, now),
              \A o \in ObjectIds : o < 65536 /\ o \notin now => o \notin drops \/ o = id
       PROVE  CopyInv'
  <2> DEFINE m == ObjectChanged(change, id)
  <2>1. m \in Message /\ ~IsMap(m) /\ m.type = "ItemChangeObject" /\ m.id = id % 65536
    <3>1. change % 256 \in Nat /\ id % 65536 \in Nat OBVIOUS
    <3> QED BY <3>1 DEF ObjectChanged, ToUint8, ToUint16, ObjectChanges, Message, IsMap
  <2>2. inside /\ down' = Append(down, m) /\ drops' = now /\ UNCHANGED <<tiles, objects, up, blocks>>
    BY <1>13 DEF ObjectChange, Send, mirror, object_map
  <2> HIDE DEF m
  <2>3. blocks' \in Maps BY <2>2 DEF CopyInv
  <2>4. BlocksServed(m) BY <2>2 DEF BlocksServed
  <2>5. \A o \in ObjectIds : o < 65536 /\ o \notin drops' => o \notin drops \/ Takes(m, o)
    <3> SUFFICES ASSUME NEW o \in ObjectIds, o < 65536, o \notin drops', o \in drops
                 PROVE  Takes(m, o)
      OBVIOUS
    <3>1. o = id BY <1>13, <2>2
    <3>2. o \in Nat BY WorldAssumption DEF WorldAssumption
    <3>3. o % 65536 = o BY <3>2
    <3> QED BY <2>1, <3>1, <3>3 DEF Takes
  <2> QED BY <2>1, <2>2, <2>3, <2>4, <2>5, SentBuilt
<1>14. CASE Drop
  <2>1. drops \cup {last_drop'} \in SUBSET ObjectIds BY <1>14 DEF Drop, TypeInv, ServerType
  <2> QED BY <1>14, <2>1, <1>13 DEF Drop
<1>15. ASSUME NEW o \in ObjectIds, Restock(o) PROVE CopyInv'
  <2>1. drops \in SUBSET ObjectIds /\ o \in Int /\ -3 \in Int
    BY WorldAssumption DEF WorldAssumption, TypeInv, ServerType
  <2> QED BY <1>15, <2>1, <1>13 DEF Restock
<1>16. ASSUME NEW o \in ObjectIds, NEW n \in NetIds, Collect(o, n) PROVE CopyInv'
  <2>1. drops \ {o} \in SUBSET ObjectIds /\ o \in Int /\ n \in Int
    BY WorldAssumption DEF WorldAssumption, TypeInv, ServerType
  <2> QED BY <1>16, <2>1, <1>13 DEF Collect
<1>17. CASE WorldStep
  BY <1>17, WorldSteps, <1>3, <1>4, <1>5, <1>6, <1>7, <1>8, <1>9, <1>10, <1>11, <1>12,
     <1>14, <1>15, <1>16 DEF Step
<1>18. ASSUME NEW r \in Requests, Write(r) PROVE Joining => Joining'
  BY <1>18 DEF Write, Joining, TypeInv, WireType
<1>19. CASE ExitCommand
  BY <1>1, <1>18, <1>19 DEF ExitCommand, Quit, Requests, server, mirror, object_map
<1>20. ASSUME NEW arg \in Args, Execute(arg) PROVE CopyInv'
  BY <1>1, <1>18, <1>20 DEF Execute, Quit, Requests, server, mirror, object_map
<1>21. ASSUME NEW t \in waiting, Start(t) PROVE CopyInv'
  BY <1>1, <1>21 DEF Start, vars, server, mirror, object_map, Joining
<1>22. ASSUME NEW t \in running, Join(t) PROVE CopyInv'
  BY <1>1, <1>18, <1>22 DEF Join, Requests, server, mirror, object_map
<1>23. CASE UNCHANGED allvars
  BY <1>1, <1>23 DEF allvars, vars, server, mirror, object_map, Joining
<1> QED BY Steps, <1>17, <1>19, <1>20, <1>21, <1>22, <1>23

\* Whatever the server breaks, places, drops and has collected while the game
\* punches and warps, and however late its answers: once they have come, the
\* copy has no block and no object that the server has not.
THEOREM CopyInventsNothing == WarpSpec => []NothingInvented
<1>1. WarpInit => CopyInv BY DEF WarpInit, Init, CopyInv
<1>2. TypeInv /\ CopyInv /\ [WarpNext]_allvars => CopyInv' BY BuiltKept
<1>3. ASSUME TypeInv, CopyInv PROVE NothingInvented
  <2> SUFFICES ASSUME Settled
               PROVE  /\ DOMAIN tiles = DOMAIN blocks
                      /\ \A i \in DOMAIN tiles :
                            /\ tiles[i].foreground \in {0, blocks[i].foreground}
                            /\ tiles[i].background \in {0, blocks[i].background}
                      /\ \A o \in objects : o < 65536 => o \in drops
    BY DEF NothingInvented
  <2>1. inside /\ Len(down) = 0 /\ ~Joining BY DEF Settled, Joining
  <2>2. blocks \in Maps /\ MappedInv /\ TilesInv /\ ObjectsInv BY <1>3, <2>1 DEF CopyInv
  <2>3. tiles \in Maps BY <2>1, <2>2 DEF MappedInv
  <2>4. ASSUME NEW i \in DOMAIN tiles
        PROVE  /\ tiles[i].foreground \in {0, blocks[i].foreground}
               /\ tiles[i].background \in {0, blocks[i].background}
    <3>1. 0 \in 0..Len(down) /\ LastMap(0) /\ Base(0) = tiles /\ Punches(0, i) = {}
      BY <2>1 DEF LastMap, Base, Punches
    <3>2. Owed(tiles[i], blocks[i], {}) BY <2>2, <3>1 DEF TilesInv
    <3>3. tiles[i] \in Tile /\ blocks[i] \in Tile BY <2>2, <2>3 DEF Maps
    <3> QED BY <3>2, <3>3 DEF Owed, Tile
  <2>5. ASSUME NEW o \in objects, o < 65536 PROVE o \in drops
    <3>1. o \in ObjectIds BY <1>3 DEF TypeInv, MirrorType
    <3>2. ~WillLack(o) BY <2>1 DEF WillLack
    <3> QED BY <2>2, <2>5, <3>1, <3>2 DEF ObjectsInv
  <2> QED BY <2>2, <2>3, <2>4, <2>5 DEF Maps
<1>4. TypeInv /\ CopyInv => NothingInvented BY <1>3
<1> QED BY <1>1, <1>2, <1>4, TypesKept, PTL DEF WarpSpec
-----------------------------------------------------------------------------
(* A clean copy *)

Spawning(m, n) == m.type = "OnSpawn" /\ m.net_id = n
Removing(m, n) == m.type = "OnRemove" /\ m.net_id = n

\* Nothing on its way spoils the copy: if there is a map among it, the copy was
\* cleared and nobody is spawned before that map.
StaysClean ==
    /\ clean
    /\ \A j \in 1..Len(down) : IsMap(down[j]) =>
          /\ mapped = 0
          /\ \A i \in 1..(j - 1) : ~IsMap(down[i]) /\ down[i].type # "OnSpawn"

\* Whether anybody of that net id will be known, of whatever world.
WillBeThere(n) ==
    \/ /\ players[n] # 0
       /\ \A i \in 1..Len(down) : ~Mentions(down[i], n)
    \/ \E i \in 1..Len(down) :
          /\ Spawning(down[i], n)
          /\ \A j \in (i + 1)..Len(down) : ~Mentions(down[j], n)

\* Between the clearing and the map the copy is empty.
ClearedInv ==
    clean /\ mapped = 0 => players = NoPlayers /\ local_net_id = Nobody /\ tiles = <<>>

NoStrangers == \A n \in NetIds : WillBeThere(n) => n \in residents

\* Only the avatar is or becomes the local player, which is the one that
\* removals do not remove.
LocalIsOwn ==
    /\ local_net_id \in {Nobody, own}
    /\ \A j \in 1..Len(down), n \in NetIds :
          /\ Local(down[j]) /\ down[j].net_id = n => n = own
          /\ Removing(down[j], n) =>
                /\ local_net_id # n
                /\ \A i \in 1..(j - 1) : ~(Local(down[i]) /\ down[i].net_id = n)

ExtraOf(m) == \A i \in DOMAIN m : m[i].extra = blocks[i].extra
ExtrasInv ==
    /\ \A j \in 1..Len(down) : IsMap(down[j]) => ExtraOf(down[j].tiles)
    /\ (\A j \in 1..Len(down) : ~IsMap(down[j])) => ExtraOf(tiles)

CleanInv ==
    /\ ClearedInv
    /\ inside /\ ~Joining /\ StaysClean => NoStrangers /\ LocalIsOwn /\ ExtrasInv

\* One packet more, which is no map.
LEMMA OneMoreClean ==
  ASSUME WireType, NEW m \in Message, down' = Append(down, m),
         UNCHANGED <<players, mapped, clean>>
  PROVE  /\ ~IsMap(m) /\ StaysClean' => StaysClean
         /\ IsMap(m) /\ StaysClean' =>
               /\ clean /\ mapped = 0
               /\ \A j \in 1..Len(down) : ~IsMap(down[j]) /\ down[j].type # "OnSpawn"
         /\ \A n \in NetIds :
               /\ WillBeThere(n)' => WillBeThere(n) \/ Spawning(m, n)
               /\ Removing(m, n) => ~WillBeThere(n)'
<1>1. /\ Len(down') = Len(down) + 1 /\ Len(down) \in Nat /\ down'[Len(down')] = m
      /\ \A i \in 1..Len(down) : down'[i] = down[i] /\ i \in 1..Len(down')
      /\ Len(down') \in 1..Len(down')
  BY DEF WireType
<1>2. ASSUME StaysClean' PROVE StaysClean
  <2> SUFFICES ASSUME NEW j \in 1..Len(down), IsMap(down[j])
               PROVE  /\ mapped = 0
                      /\ \A i \in 1..(j - 1) : ~IsMap(down[i]) /\ down[i].type # "OnSpawn"
    BY <1>2 DEF StaysClean
  <2>1. j \in 1..Len(down') /\ IsMap(down'[j]) BY <1>1
  <2>2. /\ mapped' = 0
        /\ \A i \in 1..(j - 1) : ~IsMap(down'[i]) /\ down'[i].type # "OnSpawn"
    BY <1>2, <2>1 DEF StaysClean, IsMap
  <2>3. \A i \in 1..(j - 1) : i \in 1..Len(down) BY <1>1
  <2> QED BY <1>1, <2>2, <2>3
<1>3. ASSUME IsMap(m), StaysClean'
      PROVE  /\ clean /\ mapped = 0
             /\ \A j \in 1..Len(down) : ~IsMap(down[j]) /\ down[j].type # "OnSpawn"
  <2>1. IsMap(down'[Len(down')]) BY <1>1, <1>3
  <2>2. /\ clean' /\ mapped' = 0
        /\ \A i \in 1..(Len(down') - 1) : ~IsMap(down'[i]) /\ down'[i].type # "OnSpawn"
    BY <1>1, <1>3, <2>1 DEF StaysClean, IsMap
  <2> QED BY <1>1, <2>2
<1>4. ASSUME NEW n \in NetIds, WillBeThere(n)' PROVE WillBeThere(n) \/ Spawning(m, n)
  <2>1. CASE players'[n] # 0 /\ \A i \in 1..Len(down') : ~Mentions(down'[i], n)
    BY <1>1, <2>1 DEF WillBeThere
  <2>2. ASSUME NEW i \in 1..Len(down'), Spawning(down'[i], n),
               \A j \in (i + 1)..Len(down') : ~Mentions(down'[j], n)
        PROVE  WillBeThere(n) \/ Spawning(m, n)
    <3>1. CASE i = Len(down') BY <1>1, <2>2, <3>1
    <3>2. CASE i # Len(down')
      <4>1. i \in 1..Len(down) /\ Spawning(down[i], n) BY <1>1, <2>2, <3>2
      <4>2. \A j \in (i + 1)..Len(down) : ~Mentions(down[j], n) BY <1>1, <2>2, <4>1
      <4> QED BY <4>1, <4>2 DEF WillBeThere
    <3> QED BY <3>1, <3>2
  <2> QED BY <1>4, <2>1, <2>2 DEF WillBeThere, Spawning, Mentions
<1>5. ASSUME NEW n \in NetIds, Removing(m, n) PROVE ~WillBeThere(n)'
  <2>1. Mentions(down'[Len(down')], n) /\ ~Spawning(down'[Len(down')], n)
    BY <1>1, <1>5 DEF Mentions, Removing, Spawning
  <2>2. ASSUME NEW i \in 1..Len(down'), Spawning(down'[i], n)
        PROVE  \E j \in (i + 1)..Len(down') : Mentions(down'[j], n)
    <3>1. i # Len(down') BY <2>1, <2>2
    <3>2. Len(down') \in (i + 1)..Len(down') BY <1>1, <3>1
    <3> QED BY <2>1, <3>2
  <2> QED BY <1>1, <2>1, <2>2 DEF WillBeThere, Spawning, Mentions
<1> QED BY <1>2, <1>3, <1>4, <1>5

\* One packet less.
LEMMA OneLessClean ==
  ASSUME TypeInv, FromServer
  PROVE  LET m == down[1] IN
         /\ StaysClean' =>
               /\ StaysClean
               /\ IsMap(m) => mapped = 0 /\ \A j \in 1..Len(down') : ~IsMap(down'[j])
         /\ \A n \in NetIds :
               WillBeThere(n)' /\ (Removing(m, n) => local_net_id # n) => WillBeThere(n)
<1> DEFINE m == down[1]
<1>1. m = Head(down) /\ m \in Message /\ down # <<>> /\ down' = Tail(down)
  BY Arrives DEF FromServer, TypeInv, WireType
<1>2. Handle(m) BY <1>1 DEF FromServer
<1>3. /\ Len(down) \in Nat \ {0} /\ Len(down') = Len(down) - 1
      /\ \A i \in 1..Len(down') : down'[i] = down[i + 1]
      /\ \A i \in 2..Len(down) : i - 1 \in 1..Len(down') /\ down[i] = down'[i - 1]
  BY <1>1 DEF TypeInv, WireType
<1>4. /\ m.type = "OnSpawn" => clean' = (clean /\ m.world = mapped) /\ mapped' = mapped /\ m.world # 0
      /\ IsMap(m) => clean' = (clean /\ mapped = 0) /\ mapped' = m.world /\ m.world # 0
      /\ m.type # "OnSpawn" /\ ~IsMap(m) => UNCHANGED <<clean, mapped>>
  <2>1. CASE m.type = "OnSpawn"
    <3>1. OnSpawn(m) BY <1>2, <2>1 DEF Handle
    <3>2. m.world # 0 BY <1>1, <2>1, Kinds DEF Spawns
    <3> QED BY <2>1, <3>1, <3>2 DEF OnSpawn, IsMap
  <2>2. CASE m.type = "SendMapData"
    <3>1. SendMapData(m) BY <1>2, <2>2 DEF Handle
    <3>2. m.world # 0 BY <1>1, <2>2, Kinds DEF MapDatas
    <3> QED BY <2>2, <3>1, <3>2 DEF SendMapData, IsMap
  <2>3. CASE m.type = "OnRemove" BY <1>2, <2>3 DEF Handle, OnRemove, history, IsMap
  <2>4. CASE m.type = "TileChangeRequest"
    BY <1>2, <2>4 DEF Handle, TileChangeRequest, history, IsMap
  <2>5. CASE m.type = "ItemChangeObject"
    BY <1>2, <2>5 DEF Handle, ItemChangeObject, history, IsMap
  <2> QED BY Kinds, <1>1, <2>1, <2>2, <2>3, <2>4, <2>5
<1>5. ASSUME StaysClean'
      PROVE  /\ StaysClean
             /\ IsMap(m) => mapped = 0 /\ \A j \in 1..Len(down') : ~IsMap(down'[j])
  <2>1. /\ clean'
        /\ \A j \in 1..Len(down') : IsMap(down'[j]) =>
              /\ mapped' = 0
              /\ \A i \in 1..(j - 1) : ~IsMap(down'[i]) /\ down'[i].type # "OnSpawn"
    BY <1>5 DEF StaysClean, IsMap
  <2>2. /\ clean /\ (IsMap(m) => mapped = 0)
        /\ IsMap(m) \/ m.type = "OnSpawn" => \A j \in 1..Len(down') : ~IsMap(down'[j])
    BY <1>4, <2>1 DEF TypeInv, MirrorType, IsMap
  <2>3. ASSUME NEW j \in 1..Len(down), IsMap(down[j])
        PROVE  /\ mapped = 0
               /\ \A i \in 1..(j - 1) : ~IsMap(down[i]) /\ down[i].type # "OnSpawn"
    <3>1. CASE j = 1 BY <2>2, <2>3, <3>1
    <3>2. CASE j # 1
      <4>1. j - 1 \in 1..Len(down') /\ IsMap(down'[j - 1]) BY <1>3, <2>3, <3>2
      <4>2. ~IsMap(m) /\ m.type # "OnSpawn" /\ mapped' = mapped BY <1>4, <2>2, <4>1
      <4>3. /\ mapped = 0
            /\ \A i \in 1..((j - 1) - 1) : ~IsMap(down'[i]) /\ down'[i].type # "OnSpawn"
        BY <2>1, <4>1, <4>2
      <4>4. ASSUME NEW i \in 1..(j - 1) PROVE ~IsMap(down[i]) /\ down[i].type # "OnSpawn"
        <5>1. CASE i = 1 BY <4>2, <5>1
        <5>2. CASE i # 1
          <6>1. i \in 2..Len(down) /\ i - 1 \in 1..((j - 1) - 1) BY <1>3, <2>3, <5>2
          <6> QED BY <1>3, <4>3, <6>1
        <5> QED BY <5>1, <5>2
      <4> QED BY <4>3, <4>4
    <3> QED BY <3>1, <3>2
  <2> QED BY <2>2, <2>3 DEF StaysClean
<1>6. ASSUME NEW n \in NetIds, WillBeThere(n)', Removing(m, n) => local_net_id # n
      PROVE  WillBeThere(n)
  <2>1. CASE players'[n] # 0 /\ \A i \in 1..Len(down') : ~Mentions(down'[i], n)
    <3>1. \A i \in 2..Len(down) : ~Mentions(down[i], n) BY <1>3, <2>1
    <3>2. CASE Spawning(m, n)
      <4>1. 1 \in 1..Len(down) /\ \A j \in (1 + 1)..Len(down) : ~Mentions(down[j], n)
        BY <1>3, <3>1
      <4> QED BY <3>2, <4>1 DEF WillBeThere
    <3>3. CASE Removing(m, n)
      <4>1. OnRemove(m) /\ m.net_id = n BY <1>2, <3>3 DEF Handle, Removing
      <4>2. players'[n] = 0 BY <1>6, <3>3, <4>1 DEF OnRemove, RemovePlayer, TypeInv, MirrorType
      <4> QED BY <2>1, <4>2
    <3>4. CASE ~Spawning(m, n) /\ ~Removing(m, n)
      <4>1. ~Mentions(m, n) BY <3>4 DEF Mentions, Spawning, Removing
      <4>2. players'[n] = players[n] BY <4>1, HandledPeople
      <4>3. \A i \in 1..Len(down) : ~Mentions(down[i], n)
        <5>1. \A i \in 1..Len(down) : i = 1 \/ i \in 2..Len(down) BY <1>3
        <5> QED BY <3>1, <4>1, <5>1
      <4> QED BY <2>1, <4>2, <4>3 DEF WillBeThere
    <3> QED BY <3>2, <3>3, <3>4
  <2>2. ASSUME NEW i \in 1..Len(down'), Spawning(down'[i], n),
               \A j \in (i + 1)..Len(down') : ~Mentions(down'[j], n)
        PROVE  WillBeThere(n)
    <3>1. i + 1 \in 1..Len(down) /\ Spawning(down[i + 1], n) BY <1>3, <2>2
    <3>2. ASSUME NEW j \in ((i + 1) + 1)..Len(down) PROVE ~Mentions(down[j], n)
      <4>1. j \in 2..Len(down) /\ j - 1 \in (i + 1)..Len(down') BY <1>3, <3>2
      <4> QED BY <1>3, <2>2, <4>1
    <3> QED BY <3>1, <3>2 DEF WillBeThere
  <2> QED BY <1>6, <2>1, <2>2 DEF WillBeThere, Spawning, Mentions
<1> QED BY <1>5, <1>6

\* The server tells of somebody, or of a tile, or of an object, in the world the
\* avatar is in.
LEMMA SentClean ==
  ASSUME TypeInv, CleanInv, inside, NEW m \in Message, ~IsMap(m), down' = Append(down, m),
         UNCHANGED <<mirror, history, inside, up>>,
         \A i \in Places : blocks'[i].extra = blocks[i].extra,
         \A n \in NetIds : /\ Spawning(m, n) => n \in residents'
                           /\ n \in residents /\ ~Removing(m, n) => n \in residents'
                           /\ Removing(m, n) => n # own,
         IF Local(m) THEN own = Nobody /\ own' = m.net_id ELSE own' = own
  PROVE  CleanInv'
<1> USE DEF TypeInv
<1>1. /\ Len(down') = Len(down) + 1 /\ Len(down) \in Nat /\ down'[Len(down')] = m
      /\ \A i \in 1..Len(down) : down'[i] = down[i]
      /\ \A j \in 1..Len(down') : j \in 1..Len(down) \/ j = Len(down')
  BY DEF WireType
<1>2. UNCHANGED <<players, local_net_id, tiles, mapped, clean>> BY DEF mirror, people, history
<1>3. ClearedInv' BY <1>2 DEF CleanInv, ClearedInv
<1>4. Nobody \notin NetIds BY WorldAssumption DEF WorldAssumption, Nobody
<1> SUFFICES ASSUME ~Joining', StaysClean' PROVE (NoStrangers /\ LocalIsOwn /\ ExtrasInv)'
  BY <1>3 DEF CleanInv
<1>5. NoStrangers /\ LocalIsOwn /\ ExtrasInv
  <2>1. ~Joining BY DEF Joining
  <2>2. StaysClean BY <1>2, OneMoreClean
  <2> QED BY <2>1, <2>2 DEF CleanInv
<1>6. NoStrangers'
  <2> SUFFICES ASSUME NEW n \in NetIds, WillBeThere(n)' PROVE n \in residents' BY DEF NoStrangers
  <2>1. WillBeThere(n) \/ Spawning(m, n) BY <1>2, OneMoreClean
  <2>2. ~Removing(m, n) BY <1>2, OneMoreClean
  <2> QED BY <1>5, <2>1, <2>2 DEF NoStrangers
<1>7. /\ local_net_id \in {Nobody, own}
      /\ \A j \in 1..Len(down), n \in NetIds :
            /\ Local(down[j]) /\ down[j].net_id = n => n = own
            /\ Removing(down[j], n) =>
                  /\ local_net_id # n
                  /\ \A i \in 1..(j - 1) : ~(Local(down[i]) /\ down[i].net_id = n)
  BY <1>5 DEF LocalIsOwn
<1>8. LocalIsOwn'
  <2>1. local_net_id' \in {Nobody, own'} BY <1>2, <1>7
  <2>2. ASSUME NEW j \in 1..Len(down'), NEW n \in NetIds
        PROVE  /\ Local(down'[j]) /\ down'[j].net_id = n => n = own'
               /\ Removing(down'[j], n) =>
                     /\ local_net_id' # n
                     /\ \A i \in 1..(j - 1) : ~(Local(down'[i]) /\ down'[i].net_id = n)
    <3>1. CASE j \in 1..Len(down)
      <4>1. down'[j] = down[j] /\ \A i \in 1..(j - 1) : i \in 1..Len(down) /\ down'[i] = down[i]
        BY <1>1, <3>1
      <4>2. Local(down'[j]) /\ down'[j].net_id = n => n = own' BY <1>4, <1>7, <3>1, <4>1
      <4> QED BY <1>2, <1>7, <3>1, <4>1, <4>2
    <3>2. CASE j = Len(down')
      <4>1. down'[j] = m BY <1>1, <3>2
      <4>2. \A i \in 1..(j - 1) : i \in 1..Len(down) /\ down'[i] = down[i] BY <1>1, <3>2
      <4>3. Removing(m, n) => n # own /\ ~Local(m) BY DEF Removing, Local
      <4> QED BY <1>2, <1>4, <1>7, <4>1, <4>2, <4>3
    <3> QED BY <1>1, <3>1, <3>2
  <2> QED BY <2>1, <2>2 DEF LocalIsOwn, Local, Removing
<1>9. ExtrasInv'
  <2>1. \A t \in Maps \cup {<<>>} : ExtraOf(t) => ExtraOf(t)'
    <3> SUFFICES ASSUME NEW t \in Maps \cup {<<>>}, ExtraOf(t) PROVE ExtraOf(t)' OBVIOUS
    <3>1. DOMAIN t \subseteq Places
      <4>1. DOMAIN <<>> = {} OBVIOUS
      <4> QED BY <4>1 DEF Maps
    <3> QED BY <3>1 DEF ExtraOf
  <2>2. ASSUME NEW j \in 1..Len(down'), IsMap(down'[j]) PROVE ExtraOf(down[j].tiles)'
    <3>1. j \in 1..Len(down) /\ down'[j] = down[j] BY <1>1, <2>2
    <3>2. down[j] \in Message BY <3>1 DEF WireType
    <3>3. down[j].tiles \in Maps BY <2>2, <3>1, <3>2, Kinds DEF IsMap, MapDatas
    <3>4. ExtraOf(down[j].tiles) BY <1>5, <2>2, <3>1 DEF ExtrasInv
    <3>5. PICK t \in Maps : t = down[j].tiles BY <3>3
    <3>6. ExtraOf(t)' BY <2>1, <3>4, <3>5
    <3> QED BY <3>1, <3>5, <3>6 DEF ExtraOf
  <2>3. ASSUME \A j \in 1..Len(down') : ~IsMap(down'[j]) PROVE ExtraOf(tiles)'
    <3>1. \A j \in 1..Len(down) : ~IsMap(down[j]) BY <1>1, <2>3
    <3>2. ExtraOf(tiles) /\ tiles \in Maps \cup {<<>>} BY <1>5, <3>1 DEF ExtrasInv, MirrorType
    <3>3. PICK t \in Maps \cup {<<>>} : t = tiles BY <3>2
    <3>4. ExtraOf(t)' BY <2>1, <3>2, <3>3
    <3> QED BY <1>2, <3>3, <3>4 DEF ExtraOf
  <2> QED BY <2>2, <2>3 DEF ExtrasInv, IsMap
<1> QED BY <1>6, <1>8, <1>9

\* A punch leaves the extra data as they are.
LEMMA PunchedExtra ==
  ASSUME NEW i, NEW item, TileChangeRequest(i, item)
  PROVE  /\ DOMAIN tiles' = DOMAIN tiles
         /\ tiles \in Maps \cup {<<>>} =>
               \A k \in DOMAIN tiles : tiles'[k].extra = tiles[k].extra
<1> SUFFICES ASSUME tiles \in Maps \cup {<<>>}
             PROVE  \A k \in DOMAIN tiles : tiles'[k].extra = tiles[k].extra
  BY DEF TileChangeRequest
<1>1. CASE i \in DOMAIN tiles /\ item = Fist
  <2>1. NewTile \in Tile BY DEF NewTile, Tile
  <2>2. tiles[i] \in Tile BY <1>1, <2>1, ChangedMap
  <2>3. Struck(tiles[i]).extra = tiles[i].extra BY <2>2 DEF Struck, Tile
  <2> QED BY <1>1, <2>3 DEF TileChangeRequest
<1>2. CASE ~(i \in DOMAIN tiles /\ item = Fist) BY <1>2 DEF TileChangeRequest
<1> QED BY <1>1, <1>2

\* A packet of the server passes.
LEMMA HandledClean ==
  ASSUME TypeInv, CleanInv, FromServer
  PROVE  CleanInv'
<1> USE DEF TypeInv
<1> DEFINE m == down[1]
<1>1. m = Head(down) /\ m \in Message /\ down # <<>> /\ down' = Tail(down)
  BY Arrives DEF FromServer, WireType
<1>2. Handle(m) /\ UNCHANGED <<connected, server, up>> BY <1>1 DEF FromServer
<1>3. /\ Len(down) \in Nat \ {0} /\ Len(down') = Len(down) - 1 /\ 1 \in 1..Len(down)
      /\ \A i \in 1..Len(down') : down'[i] = down[i + 1] /\ i + 1 \in 1..Len(down)
      /\ \A i \in 1..Len(down) : i = 1 \/ (i - 1 \in 1..Len(down') /\ down[i] = down'[i - 1])
  BY <1>1 DEF WireType
<1>4. ClearedInv'
  <2> SUFFICES ASSUME clean', mapped' = 0
               PROVE  players' = NoPlayers /\ local_net_id' = Nobody /\ tiles' = <<>>
    BY DEF ClearedInv
  <2>1. CASE m.type = "OnSpawn"
    <3>1. OnSpawn(m) BY <1>2, <2>1 DEF Handle
    <3>2. m.world # 0 BY <1>1, <2>1, Kinds DEF Spawns
    <3> QED BY <3>1, <3>2 DEF OnSpawn
  <2>2. CASE m.type = "SendMapData"
    <3>1. SendMapData(m) BY <1>2, <2>2 DEF Handle
    <3>2. m.world # 0 BY <1>1, <2>2, Kinds DEF MapDatas
    <3> QED BY <3>1, <3>2 DEF SendMapData
  <2>3. ASSUME UNCHANGED history
        PROVE  players = NoPlayers /\ local_net_id = Nobody /\ tiles = <<>>
    BY <2>3 DEF history, CleanInv, ClearedInv
  <2>4. CASE m.type = "OnRemove"
    <3>1. OnRemove(m) BY <1>2, <2>4 DEF Handle
    <3>2. UNCHANGED <<history, tiles, local_net_id>> BY <3>1 DEF OnRemove, RemovePlayer
    <3>3. [NoPlayers EXCEPT ![m.net_id] = 0] = NoPlayers BY DEF NoPlayers
    <3> QED BY <2>3, <3>1, <3>2, <3>3 DEF OnRemove, RemovePlayer
  <2>5. CASE m.type = "TileChangeRequest"
    <3>1. TileChangeRequest(m.place, m.item) BY <1>2, <2>5 DEF Handle
    <3>2. DOMAIN <<>> = {} OBVIOUS
    <3> QED BY <2>3, <3>1, <3>2 DEF TileChangeRequest, people
  <2>6. CASE m.type = "ItemChangeObject"
    BY <1>2, <2>3, <2>6 DEF Handle, ItemChangeObject, people
  <2> QED BY Kinds, <1>1, <2>1, <2>2, <2>4, <2>5, <2>6
<1> SUFFICES ASSUME inside', ~Joining', StaysClean' PROVE (NoStrangers /\ LocalIsOwn /\ ExtrasInv)'
  BY <1>4 DEF CleanInv
<1>5. UNCHANGED <<residents, own, blocks, inside, up>> BY <1>2 DEF server
<1>6. StaysClean /\ NoStrangers /\ LocalIsOwn /\ ExtrasInv
  <2>1. inside /\ ~Joining BY <1>5 DEF Joining
  <2>2. StaysClean BY OneLessClean
  <2> QED BY <2>1, <2>2 DEF CleanInv
<1>7. /\ local_net_id \in {Nobody, own}
      /\ \A j \in 1..Len(down), n \in NetIds :
            /\ Local(down[j]) /\ down[j].net_id = n => n = own
            /\ Removing(down[j], n) =>
                  /\ local_net_id # n
                  /\ \A i \in 1..(j - 1) : ~(Local(down[i]) /\ down[i].net_id = n)
  BY <1>6 DEF LocalIsOwn
<1>8. NoStrangers'
  <2> SUFFICES ASSUME NEW n \in NetIds, WillBeThere(n)' PROVE n \in residents' BY DEF NoStrangers
  <2>1. Removing(m, n) => local_net_id # n BY <1>3, <1>7
  <2>2. WillBeThere(n) BY <2>1, OneLessClean
  <2> QED BY <1>5, <1>6, <2>2 DEF NoStrangers
<1>9. LocalIsOwn'
  <2>1. local_net_id' = IF Local(m) THEN m.net_id ELSE local_net_id BY HandledPeople
  <2>2. Local(m) => m.net_id \in NetIds BY <1>1, Kinds DEF Local, Spawns
  <2>3. local_net_id' \in {Nobody, own'} BY <1>3, <1>5, <1>7, <2>1, <2>2
  <2>4. ASSUME NEW j \in 1..Len(down'), NEW n \in NetIds
        PROVE  /\ Local(down'[j]) /\ down'[j].net_id = n => n = own'
               /\ Removing(down'[j], n) =>
                     /\ local_net_id' # n
                     /\ \A i \in 1..(j - 1) : ~(Local(down'[i]) /\ down'[i].net_id = n)
    <3>1. down'[j] = down[j + 1] /\ j + 1 \in 1..Len(down) BY <1>3
    <3>2. Local(down'[j]) /\ down'[j].net_id = n => n = own' BY <1>5, <1>7, <3>1
    <3>3. ASSUME Removing(down'[j], n)
          PROVE  /\ local_net_id' # n
                 /\ \A i \in 1..(j - 1) : ~(Local(down'[i]) /\ down'[i].net_id = n)
      <4>1. /\ local_net_id # n
            /\ \A i \in 1..j : ~(Local(down[i]) /\ down[i].net_id = n)
        <5>1. (j + 1) - 1 = j OBVIOUS
        <5> QED BY <1>7, <3>1, <3>3, <5>1
      <4>2. 1 \in 1..j OBVIOUS
      <4>3. \A i \in 1..(j - 1) : i + 1 \in 1..j /\ down'[i] = down[i + 1] BY <1>3
      <4> QED BY <2>1, <4>1, <4>2, <4>3
    <3> QED BY <3>2, <3>3
  <2> QED BY <2>3, <2>4 DEF LocalIsOwn, Local, Removing
<1>10. ExtrasInv'
  <2>1. ASSUME NEW j \in 1..Len(down'), IsMap(down'[j]) PROVE ExtraOf(down[j].tiles)'
    <3>1. ExtraOf(down[j + 1].tiles) BY <1>3, <1>6, <2>1 DEF ExtrasInv
    <3> QED BY <1>3, <1>5, <2>1, <3>1 DEF ExtraOf
  <2>2. ASSUME \A j \in 1..Len(down') : ~IsMap(down'[j]) PROVE ExtraOf(tiles)'
    <3>1. CASE IsMap(m)
      <4>1. mapped = 0 /\ clean BY <1>6, <3>1, OneLessClean DEF StaysClean
      <4>2. tiles = <<>> BY <4>1 DEF CleanInv, ClearedInv
      <4>3. SendMapData(m) BY <1>2, <3>1 DEF Handle, IsMap
      <4>4. DOMAIN <<>> = {} OBVIOUS
      <4>5. tiles' = [i \in DOMAIN m.tiles |-> TileRead(m.tiles[i], NewTile)]
        BY <4>2, <4>3, <4>4 DEF SendMapData, ReadMap
      <4>6. ExtraOf(m.tiles) BY <1>3, <1>6, <3>1 DEF ExtrasInv
      <4>7. m.tiles \in Maps BY <1>1, <3>1, Kinds DEF IsMap, MapDatas
      <4>8. ASSUME NEW t \in Tile PROVE TileRead(t, NewTile).extra = t.extra
        BY <4>8 DEF TileRead, NewTile, Tile
      <4>9. \A i \in DOMAIN m.tiles : m.tiles[i] \in Tile BY <4>7 DEF Maps
      <4> QED BY <1>5, <4>5, <4>6, <4>8, <4>9 DEF ExtraOf
    <3>2. CASE ~IsMap(m)
      <4>1. \A j \in 1..Len(down) : ~IsMap(down[j]) BY <1>3, <2>2, <3>2
      <4>2. ExtraOf(tiles) BY <1>6, <4>1 DEF ExtrasInv
      <4>3. CASE m.type = "TileChangeRequest"
        <5>1. TileChangeRequest(m.place, m.item) BY <1>2, <4>3 DEF Handle
        <5>2. DOMAIN tiles' = DOMAIN tiles /\ \A k \in DOMAIN tiles : tiles'[k].extra = tiles[k].extra
          BY <5>1, PunchedExtra DEF MirrorType
        <5> QED BY <1>5, <4>2, <5>2 DEF ExtraOf
      <4>4. CASE m.type # "TileChangeRequest"
        <5>1. tiles' = tiles
          BY Kinds, <1>1, <1>2, <3>2, <4>4 DEF Handle, IsMap, OnSpawn, OnRemove, ItemChangeObject
        <5> QED BY <1>5, <4>2, <5>1 DEF ExtraOf
      <4> QED BY <4>3, <4>4
    <3> QED BY <3>1, <3>2
  <2> QED BY <2>1, <2>2 DEF ExtrasInv, IsMap
<1> QED BY <1>8, <1>9, <1>10

\* Nothing that the copy's cleanness hangs on changes, but for requests.
LEMMA SameClean ==
  ASSUME CleanInv, Joining => Joining',
         UNCHANGED <<players, local_net_id, tiles, mapped, clean,
                     residents, own, blocks, inside, down>>
  PROVE  CleanInv'
<1>1. ClearedInv' BY DEF CleanInv, ClearedInv
<1> SUFFICES ASSUME inside', ~Joining', StaysClean' PROVE (NoStrangers /\ LocalIsOwn /\ ExtrasInv)'
  BY <1>1 DEF CleanInv
<1>2. StaysClean BY DEF StaysClean, IsMap
<1>3. NoStrangers /\ LocalIsOwn /\ ExtrasInv BY <1>2 DEF CleanInv
<1>4. NoStrangers' BY <1>3 DEF NoStrangers, WillBeThere, Mentions, Spawning
<1>5. LocalIsOwn' BY <1>3 DEF LocalIsOwn, Local, Removing
<1>6. ExtrasInv' BY <1>3 DEF ExtrasInv, ExtraOf, IsMap
<1> QED BY <1>4, <1>5, <1>6

\* The avatar enters a world: if the copy stays clean it is empty, and only the
\* map and removals are on their way.
LEMMA EnteredClean ==
  ASSUME TypeInv, CleanInv, Enter
  PROVE  CleanInv'
<1> USE DEF TypeInv
<1> DEFINE m == MapData(visit', blocks', drops', last_drop')
<1>1. /\ down' = Append(down, m) /\ residents' = {} /\ own' = Nobody
      /\ UNCHANGED <<players, local_net_id, tiles, mapped, clean>>
  BY DEF Enter, Send, mirror, people, history
<1>2. m \in Message /\ IsMap(m) /\ m.tiles = blocks'
  <2>1. blocks' \in Maps BY WorldAssumption DEF Enter, Maps, WorldAssumption
  <2>2. visit' \in 1..MaxVisits BY WorldAssumption DEF Enter, ServerType, WorldAssumption
  <2>3. last_drop' \in Nat /\ drops' \in SUBSET ObjectIds
    BY WorldAssumption DEF Enter, WorldAssumption
  <2> QED BY <2>1, <2>2, <2>3 DEF MapData, MapDatas, Message, IsMap
<1> HIDE DEF m
<1>3. /\ Len(down') = Len(down) + 1 /\ Len(down) \in Nat /\ down'[Len(down')] = m
      /\ \A i \in 1..Len(down) : down'[i] = down[i]
      /\ \A j \in 1..Len(down') : j \in 1..Len(down) \/ j = Len(down')
      /\ Len(down') \in 1..Len(down')
  BY <1>1, <1>2 DEF WireType
<1>4. ClearedInv' BY <1>1 DEF CleanInv, ClearedInv
<1> SUFFICES ASSUME StaysClean' PROVE (NoStrangers /\ LocalIsOwn /\ ExtrasInv)'
  BY <1>4 DEF CleanInv
<1>5. /\ clean /\ mapped = 0
      /\ \A j \in 1..Len(down) : ~IsMap(down[j]) /\ down[j].type # "OnSpawn"
  BY <1>1, <1>2, OneMoreClean
<1>6. players = NoPlayers /\ local_net_id = Nobody BY <1>5 DEF CleanInv, ClearedInv
<1>7. \A j \in 1..Len(down') : down'[j].type # "OnSpawn" BY <1>2, <1>3, <1>5 DEF IsMap
<1>8. NoStrangers' BY <1>1, <1>6, <1>7 DEF NoStrangers, WillBeThere, Spawning, NoPlayers
<1>9. LocalIsOwn'
  <2>1. Nobody \notin NetIds BY WorldAssumption DEF WorldAssumption, Nobody
  <2>2. \A j \in 1..Len(down') : ~Local(down'[j]) BY <1>7 DEF Local
  <2>3. \A j \in 1..Len(down') : \A i \in 1..(j - 1) : i \in 1..Len(down') BY <1>3
  <2>4. local_net_id' = Nobody /\ own' = Nobody BY <1>1, <1>6
  <2> QED BY <2>1, <2>2, <2>3, <2>4 DEF LocalIsOwn, Local, Removing
<1>10. ExtrasInv'
  <2>1. ASSUME NEW j \in 1..Len(down'), IsMap(down'[j]) PROVE down'[j].tiles = blocks'
    BY <1>2, <1>3, <1>5, <2>1
  <2>2. IsMap(down'[Len(down')]) BY <1>2, <1>3
  <2> QED BY <1>3, <2>1, <2>2 DEF ExtrasInv, ExtraOf, IsMap
<1> QED BY <1>8, <1>9, <1>10

\* Every step keeps what is said of a clean copy.
LEMMA CleanKept ==
  ASSUME TypeInv, CleanInv, [WarpNext]_allvars
  PROVE  CleanInv'
<1> USE DEF TypeInv
<1>1. CASE GameJoins
  <2>1. Joining' BY <1>1, MoreRequests DEF GameJoins, Request
  <2>2. ClearedInv'
    <3>1. CASE OnJoinRequest BY <3>1 DEF OnJoinRequest, Clear, ClearedInv
    <3>2. CASE UNCHANGED <<mirror, history>>
      BY <3>2 DEF mirror, people, history, CleanInv, ClearedInv
    <3> QED BY <1>1, <3>1, <3>2 DEF GameJoins
  <2> QED BY <2>1, <2>2 DEF CleanInv
<1>2. CASE GameExits
  <2>1. Joining => Joining' BY <1>2, MoreRequests DEF GameExits, Request
  <2> QED BY <1>2, <2>1, SameClean DEF GameExits, server, mirror, people, history
<1>3. CASE FromServer BY <1>3, HandledClean
<1>4. CASE Enter BY <1>4, EnteredClean
<1>5. CASE Exit \/ Lose
  <2>1. ~inside' /\ UNCHANGED <<mirror, history>> BY <1>5 DEF Exit, Lose, Outside
  <2> QED BY <2>1 DEF CleanInv, ClearedInv, mirror, people, history
<1>6. CASE Reconnect
  BY <1>6, SameClean DEF Reconnect, server, mirror, people, history, Joining
<1>7. ASSUME NEW n \in NetIds, Leave(n) PROVE CleanInv'
  <2> DEFINE m == Removed(n)
  <2>1. /\ m \in Message /\ ~IsMap(m) /\ ~Local(m)
        /\ \A k \in NetIds : ~Spawning(m, k) /\ (Removing(m, k) <=> k = n)
    BY DEF Removed, Removes, Message, IsMap, Local, Spawning, Removing
  <2>2. down' = Append(down, m) BY <1>7 DEF Leave, Send
  <2>3. inside /\ UNCHANGED <<mirror, history, inside, up, own, blocks>> BY <1>7 DEF Leave
  <2>4. residents' = residents \ {n} /\ n # own BY <1>7 DEF Leave
  <2> HIDE DEF m
  <2> QED BY <2>1, <2>2, <2>3, <2>4, SentClean
<1>8. ASSUME NEW n \in NetIds, NEW local \in BOOLEAN, Spawn(n, local) PROVE CleanInv'
  <2> DEFINE m == Spawned(n, local)
  <2>1. /\ m \in Message /\ ~IsMap(m) /\ m.net_id = n
        /\ (Local(m) <=> local)
        /\ \A k \in NetIds : (Spawning(m, k) => k = n) /\ ~Removing(m, k)
    BY <1>8 DEF Spawn, ServerType, Spawned, Spawns, Message, IsMap, Local, Spawning, Removing
  <2>2. down' = Append(down, m) BY <1>8 DEF Spawn, Send
  <2>3. inside /\ UNCHANGED <<mirror, history, inside, up, blocks>> BY <1>8 DEF Spawn
  <2>4. /\ residents' = residents \cup {n} /\ own' = IF local THEN n ELSE own
        /\ local => own = Nobody
    BY <1>8 DEF Spawn
  <2> HIDE DEF m
  <2> QED BY <2>1, <2>2, <2>3, <2>4, SentClean
<1>9. ASSUME NEW i \in Places, GamePunches(i) PROVE CleanInv'
  <2>1. UNCHANGED <<players, local_net_id, mapped, clean, residents, own, blocks, inside, down, up>>
    BY <1>9 DEF GamePunches, TileChangeRequest, server, people, history
  <2>2. /\ DOMAIN tiles' = DOMAIN tiles
        /\ \A k \in DOMAIN tiles : tiles'[k].extra = tiles[k].extra
    BY <1>9, PunchedExtra DEF GamePunches, MirrorType
  <2>3. tiles = <<>> => tiles' = <<>>
    <3>1. DOMAIN <<>> = {} OBVIOUS
    <3> QED BY <1>9, <3>1 DEF GamePunches, TileChangeRequest
  <2>4. ClearedInv' BY <2>1, <2>3 DEF CleanInv, ClearedInv
  <2> SUFFICES ASSUME inside', ~Joining', StaysClean'
               PROVE  (NoStrangers /\ LocalIsOwn /\ ExtrasInv)'
    BY <2>4 DEF CleanInv
  <2>5. NoStrangers /\ LocalIsOwn /\ ExtrasInv
    <3>1. StaysClean BY <2>1 DEF StaysClean, IsMap
    <3> QED BY <2>1, <3>1 DEF CleanInv, Joining
  <2>6. NoStrangers' BY <2>1, <2>5 DEF NoStrangers, WillBeThere, Mentions, Spawning
  <2>7. LocalIsOwn' BY <2>1, <2>5 DEF LocalIsOwn, Local, Removing
  <2>8. ExtrasInv' BY <2>1, <2>2, <2>5 DEF ExtrasInv, ExtraOf, IsMap
  <2> QED BY <2>6, <2>7, <2>8
<1>10. ASSUME NEW i \in Places, Break(i) \/ Place(i) PROVE CleanInv'
  <2>1. i \in DOMAIN blocks /\ blocks \in Maps \cup {<<>>} BY <1>10 DEF Break, Place, ServerType
  <2>2. blocks[i] \in Tile
    <3>1. [foreground |-> 0, background |-> 0, extra |-> FALSE] \in Tile BY DEF Tile
    <3> QED BY <2>1, <3>1, ChangedMap
  <2>3. ASSUME NEW item \in {Fist, Block}, NEW tile, TileAnswer(i, item, tile),
               tile.extra = blocks[i].extra
        PROVE  CleanInv'
    <3> DEFINE m == TileChanged(i, item)
    <3>1. /\ m \in Message /\ ~IsMap(m) /\ ~Local(m)
          /\ \A k \in NetIds : ~Spawning(m, k) /\ ~Removing(m, k)
      BY DEF TileChanged, TileChanges, Message, IsMap, Local, Spawning, Removing
    <3>2. /\ inside /\ down' = Append(down, m)
          /\ UNCHANGED <<mirror, history, inside, up, own, residents>>
      BY <2>3 DEF TileAnswer, Send
    <3>3. \A k \in Places : blocks'[k].extra = blocks[k].extra
      BY <2>1, <2>3 DEF TileAnswer
    <3> HIDE DEF m
    <3> QED BY <3>1, <3>2, <3>3, SentClean
  <2>4. /\ Broken(blocks[i]).extra = blocks[i].extra
        /\ [blocks[i] EXCEPT !.foreground = Block].extra = blocks[i].extra
    BY <2>2 DEF Broken, Tile
  <2> QED BY <1>10, <2>3, <2>4 DEF Break, Place
<1>11. ASSUME NEW change \in Int, NEW id \in Int, NEW now, ObjectChange(change, id, now)
       PROVE  CleanInv'
  <2> DEFINE m == ObjectChanged(change, id)
  <2>1. /\ m \in Message /\ ~IsMap(m) /\ ~Local(m)
        /\ \A k \in NetIds : ~Spawning(m, k) /\ ~Removing(m, k)
    <3>1. change % 256 \in Nat /\ id % 65536 \in Nat OBVIOUS
    <3> QED BY <3>1 DEF ObjectChanged, ToUint8, ToUint16, ObjectChanges, Message, IsMap,
                        Local, Spawning, Removing
  <2>2. /\ inside /\ down' = Append(down, m)
        /\ UNCHANGED <<mirror, history, inside, up, own, residents, blocks>>
    BY <1>11 DEF ObjectChange, Send
  <2> HIDE DEF m
  <2> QED BY <2>1, <2>2, SentClean
<1>12. CASE Drop BY <1>12, <1>11 DEF Drop
<1>13. ASSUME NEW o \in ObjectIds, Restock(o) \/ \E n \in NetIds : Collect(o, n)
       PROVE  CleanInv'
  <2>1. o \in Int /\ NetIds \subseteq Int BY WorldAssumption DEF WorldAssumption
  <2> QED BY <1>13, <2>1, <1>11 DEF Restock, Collect
<1>14. CASE WorldStep
  BY <1>14, WorldSteps, <1>1, <1>2, <1>3, <1>4, <1>5, <1>6, <1>7, <1>8, <1>9, <1>10, <1>12,
     <1>13 DEF Step
<1>15. ASSUME NEW r, Write(r), UNCHANGED <<server, down, mirror, history>> PROVE CleanInv'
  <2>1. Joining => Joining'
    <3>1. CASE connected BY <1>15, <3>1, MoreRequests DEF Write
    <3>2. CASE ~connected BY <1>15, <3>2 DEF Write, Joining
    <3> QED BY <3>1, <3>2
  <2> QED BY <1>15, <2>1, SameClean DEF server, mirror, people, history
<1>16. CASE ExitCommand BY <1>16, <1>15 DEF ExitCommand, Quit
<1>17. ASSUME NEW arg \in Args, Execute(arg) PROVE CleanInv'
  BY <1>17, <1>15 DEF Execute, Quit
<1>18. ASSUME NEW t \in running, Join(t) PROVE CleanInv' BY <1>18, <1>15 DEF Join
<1>19. ASSUME UNCHANGED vars PROVE CleanInv'
  BY <1>19, SameClean DEF vars, server, mirror, people, history, Joining
<1>20. ASSUME NEW t \in waiting, Start(t) PROVE CleanInv' BY <1>20, <1>19 DEF Start
<1>21. CASE UNCHANGED allvars BY <1>21, <1>19 DEF allvars
<1> QED BY Steps, <1>14, <1>16, <1>17, <1>18, <1>20, <1>21

\* After a join of the game that no late spawn and no second map spoiled, the
\* copy is the world of the server and nothing of the one before: it has the
\* players the server shows and no others, the avatar as the local player, or
\* none as long as there is no avatar, and the extra data of this map's tiles.
THEOREM CleanCopy == WarpSpec => []CleanMirror
<1>1. WarpInit => PlayersInv /\ CleanInv
  <2> SUFFICES ASSUME WarpInit PROVE PlayersInv /\ CleanInv OBVIOUS
  <2>1. PlayersInv BY DEF WarpInit, Init, PlayersInv, LocalKnown
  <2>2. CleanInv BY DEF WarpInit, Init, CleanInv, ClearedInv
  <2> QED BY <2>1, <2>2
<1>2. TypeInv /\ PlayersInv /\ CleanInv /\ [WarpNext]_allvars => PlayersInv' /\ CleanInv'
  BY PlayersKept, CleanKept
<1>3. ASSUME TypeInv, PlayersInv, CleanInv PROVE CleanMirror
  <2> SUFFICES ASSUME Settled, clean
               PROVE  /\ {n \in NetIds : players[n] # 0} = residents
                      /\ local_net_id = own
                      /\ \A i \in DOMAIN tiles : tiles[i].extra = blocks[i].extra
    BY DEF CleanMirror
  <2>1. inside /\ Len(down) = 0 /\ ~Joining BY DEF Settled, Joining
  <2>2. NoStrangers /\ LocalIsOwn /\ ExtrasInv BY <1>3, <2>1 DEF CleanInv, StaysClean
  <2>3. \A n \in NetIds : players[n] # 0 => n \in residents
    BY <2>1, <2>2 DEF NoStrangers, WillBeThere
  <2>4. ASSUME NEW n \in residents PROVE n \in NetIds /\ players[n] # 0
    <3>1. players[n] = visit BY <1>3, <2>1 DEF PlayersInv, WillKnow
    <3>2. visit # 0 /\ n \in NetIds BY <1>3, <2>1 DEF TypeInv, ServerType
    <3> QED BY <3>1, <3>2
  <2>5. own # Nobody => local_net_id = own BY <1>3, <2>1 DEF PlayersInv, WillBeLocal
  <2>6. local_net_id = own BY <2>2, <2>5 DEF LocalIsOwn
  <2>7. \A i \in DOMAIN tiles : tiles[i].extra = blocks[i].extra
    BY <2>1, <2>2 DEF ExtrasInv, ExtraOf
  <2> QED BY <2>3, <2>4, <2>6, <2>7
<1>4. TypeInv /\ PlayersInv /\ CleanInv => CleanMirror BY <1>3
<1> QED BY <1>1, <1>2, <1>4, TypesKept, PTL DEF WarpSpec
=============================================================================
