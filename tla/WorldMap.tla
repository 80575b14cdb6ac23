------------------------------ MODULE WorldMap ------------------------------
(***************************************************************************)
(* World::serialize(): the map of SendMapData, read field by field, and    *)
(* the tiles' extra data, with the items that tell which tiles have some.  *)
(* Nobody looks at the results of the reads, except of a tile's extra type;*)
(* a map may arrive cut off.                                               *)
(***************************************************************************)
EXTENDS ItemCache, ByteStream, Sequences, SequencesExt

CONSTANTS
    Tiles,     \* the tiles of a map, one at a time
    Cuts,      \* how many bytes of a map may be missing
    Length,    \* of every text in a map
    Count,     \* of every list
    Garbage    \* what an uninitialised count may hold

\* extra: the flag; special: the foreground is one that Lock and Provider look at.
Tile == [foreground : Nat, locked : BOOLEAN, extra : BOOLEAN, type : 0..255, special : BOOLEAN]

\* The items of type Lock, Door, Vending or DisplayBlock have extra data, flag or not.
LockLike == {1}

ASSUME MapAssumption ==
    /\ Tiles \subseteq Tile /\ Cuts \subseteq Nat /\ Garbage \subseteq Nat
    /\ Length \in Nat /\ Count \in Nat

VARIABLES
    stream,     \* the ByteStream
    todo,       \* the fields that are still to be read
    whole,      \* history: nothing is missing
    foreground  \* Tile::foreground, which a later map finds in the tile

parse == <<stream, todo, whole, foreground>>
vars == <<cache, parse>>

Init ==
    /\ CacheInit
    /\ stream = Stream(0) /\ todo = <<>> /\ whole = TRUE
    /\ foreground = 0
-----------------------------------------------------------------------------
(* Fields *)

Read(n) == [op |-> "read", n |-> n]
Text == [op |-> "text"]
Over(n) == [op |-> "skip", n |-> n]
List(n) == [op |-> "list", n |-> n]         \* a count, and so many elements
\* The count is not initialised.
RawList(n) == [op |-> "rawlist", n |-> n]
SkipList(n) == [op |-> "skiplist", n |-> n]
Flags(tile) == [op |-> "flags", tile |-> tile]
Type(tile) == [op |-> "type", tile |-> tile]
\* A count, other fields, and elements of which one is modelled; a count that
\* is not read is 0.
Repeat(between, fields) == [op |-> "repeat", between |-> between, fields |-> fields]
Foreground(tile) == [op |-> "foreground", tile |-> tile]

\* The types TileExtra::serialize() keeps data of.
Known == {1, 2, 3, 4, 8, 9, 10, 11, 15, 17, 18, 20, 21, 23, 24, 25, 28, 32, 33, 36, 40, 44, 57}

KnownFields(tile) ==
    LET t == tile.type IN
    CASE t = 1 -> <<Text, Read(1)>>                       \* Door
      [] t = 2 -> <<Text, Read(4)>>                       \* Sign
      [] t = 3 -> <<Read(1), Read(4), List(4), Over(8)>>  \* Lock
                  \o (IF tile.special THEN <<Over(16)>> ELSE <<>>)
      [] t = 9 -> IF tile.special THEN <<Read(4), Read(4)>> ELSE <<Read(4)>>
      [] t = 11 -> <<Read(4), Text>>                      \* HeartMonitor
      [] t = 20 -> <<Text>>                               \* Crystal
      [] t = 21 -> <<Text, Read(4), Read(1)>>             \* Burglar
      [] t = 25 -> <<Read(1), RawList(4)>>                \* Solar
      [] t = 28 -> <<Read(1), Read(4), Read(1)>>          \* Deco
      [] t = 33 -> <<Text>>                               \* CountryFlag
      [] t = 36 -> <<Text, Read(4), Read(4), Read(4)>>    \* BattleCage
      [] t = 44 -> <<Read(1), Read(4), List(4)>>          \* VipEntrance
      [] t \in {4, 10} -> <<Read(4), Read(1)>>            \* Seed, Achievement
      [] t \in {8, 17} -> <<Read(1)>>                     \* Dice, GameGen
      [] t = 18 -> <<Read(1), Read(4)>>                   \* Xenonite
      [] t = 24 -> <<Read(4), Read(4)>>                   \* Vending
      [] t \in {15, 23, 32, 40, 57} -> <<Read(4)>>

\* What handle_unknown_type() skips.
UnknownFields(t) ==
    CASE t = 14 -> <<Text, Over(23)>>
      [] t = 35 -> <<Over(4), Text>>
      [] t = 48 -> <<Text, Over(26)>>
      [] t = 55 -> <<SkipList(4), Over(16)>>
      [] t = 56 -> <<Text, Over(4)>>
      [] t = 63 -> <<SkipList(15), Over(8)>>
      [] t = 77 -> <<Over(4), SkipList(4)>>
      [] t = 66 -> <<Over(1)>>
      [] t \in {27, 39, 73} -> <<Over(4)>>
      [] t = 30 -> <<Over(5)>>
      [] t = 81 -> <<Over(8)>>
      [] t = 49 -> <<Over(9)>>
      [] t = 72 -> <<Over(12)>>
      [] t = 62 -> <<Over(14)>>
      [] t \in {43, 69} -> <<Over(16)>>
      [] t = 65 -> <<Over(17)>>
      [] t = 19 -> <<Over(18)>>
      [] t = 42 -> <<Over(21)>>
      [] t = 61 -> <<Over(35)>>
      [] t = 71 -> <<Over(44)>>
      [] t = 75 -> <<Over(312)>>
      [] OTHER -> <<>>

ExtraFields(tile) == IF tile.type \in Known THEN KnownFields(tile) ELSE UnknownFields(tile.type)

\* Object::serialize(), pos being integers.
Object == <<Read(2), Read(4), Read(4), Read(1), Read(1), Read(4)>>

\* Tile::serialize(), up to the flags.
TileFields(tile) == <<Foreground(tile), Read(2), Read(2), Flags(tile)>>

\* World, WorldTileMap and WorldObjectMap::serialize()
MapFields(tile) ==
    <<Read(2), Over(4), Text, Read(4), Read(4), Repeat(<<Over(5)>>, TileFields(tile)),
      Over(12), Repeat(<<Read(4)>>, Object)>>
-----------------------------------------------------------------------------
(* How long a map is *)

FieldSize(f) ==
    CASE f.op \in {"read", "skip"} -> f.n
      [] f.op = "text" -> 2 + Length
      [] f.op \in {"list", "rawlist", "skiplist"} -> 4 + Count * f.n

SizeOf(fields) == FoldLeft(LAMBDA n, f : n + FieldSize(f), 0, fields)

TileSize(tile) ==
    8 + (IF tile.locked THEN 2 ELSE 0)
      + (IF tile.extra \/ tile.foreground \in LockLike THEN 1 + SizeOf(ExtraFields(tile)) ELSE 0)

MapSize(tile) == 4 + 2 + (2 + Length) + 8 + 4 + 5 + TileSize(tile) + 12 + 4 + 4 + SizeOf(Object)
\* A map fits into memory.
ASSUME SizeAssumption == SizeMax \in Nat /\ \A tile \in Tiles : MapSize(tile) < SizeMax
-----------------------------------------------------------------------------
(* The parse *)

Cache(p) == phase' = p /\ UNCHANGED <<file, db, announced, game_has, matched>>

\* SendMapData: the server's maps are of items that its build has.
SendMapData(tile, cut) ==
    /\ phase = "on" /\ tile.foreground < announced /\ Cache("parsing")
    /\ cut <= MapSize(tile)
    /\ stream' = Stream(MapSize(tile) - cut) /\ whole' = (cut = 0)
    /\ todo' = MapFields(tile)
    /\ UNCHANGED foreground

\* JoinRequest: the next map starts with new tiles.
Clear ==
    /\ phase = "on" /\ foreground' = 0
    /\ UNCHANGED <<cache, stream, todo, whole>>

Field(op) == phase = "parsing" /\ ~stream.overread /\ todo # <<>> /\ Head(todo).op = op

Plain ==
    /\ \/ Field("read") /\ stream' = ReadData(stream, Head(todo).n)
       \/ Field("text") /\ stream' = ReadText(stream, Length)
       \/ Field("skip") /\ stream' = Skip(stream, Head(todo).n)
    /\ todo' = Tail(todo)
    /\ UNCHANGED <<cache, whole, foreground>>

Succeeds(n) == Fits(stream, n)

\* What the count is afterwards, if it was one of unread.
CountRead(unread) == IF Succeeds(4) THEN {Count} ELSE unread

\* The elements of a list are read one by one; those of a count that was not
\* read fail like the count.  What does not fit into memory is left out.
ReadList ==
    /\ Field("list") \/ Field("rawlist")
    /\ stream' = ReadData(stream, 4)
    /\ \E count \in CountRead(IF Field("list") THEN {0} ELSE Garbage) :
          todo' = [i \in 1..count |-> Read(Head(todo).n)] \o Tail(todo)
    /\ UNCHANGED <<cache, whole, foreground>>

ReadSkipList ==
    /\ Field("skiplist")
    /\ \E count \in CountRead(Garbage) :
          stream' = Skip(ReadData(stream, 4), count * Head(todo).n)
    /\ todo' = Tail(todo)
    /\ UNCHANGED <<cache, whole, foreground>>

ReadRepeat ==
    /\ Field("repeat")
    /\ stream' = ReadData(stream, 4)
    /\ todo' = Head(todo).between \o (IF Succeeds(4) THEN Head(todo).fields ELSE <<>>) \o Tail(todo)
    /\ UNCHANGED <<cache, whole, foreground>>

ReadForeground ==
    /\ Field("foreground")
    /\ stream' = ReadData(stream, 2) /\ todo' = Tail(todo)
    /\ foreground' = IF Succeeds(2) THEN Head(todo).tile.foreground ELSE foreground
    /\ UNCHANGED <<cache, whole>>

\* Without the flag get_item() decides, and its result is not checked.  Flags
\* that are not read are 0.
ReadFlags ==
    LET tile == Head(todo).tile
        flagged == Succeeds(2) /\ tile.extra
    IN  /\ Field("flags")
        /\ stream' = ReadData(stream, 2)
        /\ Cache(IF ~flagged /\ Null(foreground) THEN "crashed" ELSE phase)
        /\ todo' = (IF Succeeds(2) /\ tile.locked THEN <<Read(2)>> ELSE <<>>)
                   \o (IF flagged \/ foreground \in LockLike THEN <<Type(tile)>> ELSE <<>>)
                   \o Tail(todo)
        /\ UNCHANGED <<whole, foreground>>

\* TileExtra::serialize(); what the values say is left out.
ReadExtra ==
    /\ Field("type")
    /\ stream' = ReadData(stream, 1)
    /\ todo' = (IF Succeeds(1) THEN ExtraFields(Head(todo).tile) ELSE <<>>) \o Tail(todo)
    /\ UNCHANGED <<cache, whole, foreground>>

\* serialize() returns.
Parsed ==
    /\ phase = "parsing" /\ todo = <<>> /\ ~stream.overread
    /\ Cache("on") /\ stream' = Stream(0) /\ whole' = TRUE
    /\ UNCHANGED <<todo, foreground>>

\* A new process has a new World.
Start ==
    /\ Launch /\ stream' = Stream(0) /\ todo' = <<>> /\ whole' = TRUE
    /\ foreground' = 0

Next ==
    \/ Start
    \/ Clear
    \/ CacheNext /\ UNCHANGED parse
    \/ \E tile \in Tiles, cut \in Cuts : SendMapData(tile, cut)
    \/ Plain \/ ReadList \/ ReadSkipList \/ ReadRepeat
    \/ ReadForeground \/ ReadFlags \/ ReadExtra \/ Parsed

Spec == Init /\ [][Next]_vars
-----------------------------------------------------------------------------

\* The checks of the reads hold bytes behind the end back until skip(), which
\* does not look, has passed it: then size minus offset wraps, and everything
\* fits.  That takes a map that was cut (byte_stream.hpp 74-131).
OverreadExplained == stream.overread => stream.overshot /\ ~whole

\* Once the file had the server's hash, every item of the maps is there to be
\* looked at: a map crashes the proxy only in a session without a match, or
\* when it is cut off before the foreground of a tile in which the map of
\* another session left an item that this server has not (tile.hpp 66-94,
\* connection_handler.cpp 214-226).
NullExplained ==
    [][phase' = "crashed" => ~matched \/ (~whole /\ foreground >= announced)]_vars
=============================================================================
