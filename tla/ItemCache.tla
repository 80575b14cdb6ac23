------------------------------ MODULE ItemCache ------------------------------
(***************************************************************************)
(* item::ItemDatabase and resources/items.dat, over the sessions and the   *)
(* runs of the proxy: at logon the server announces the hash of its items, *)
(* the ConnectionHandler loads the file if it has this hash, and a game    *)
(* whose own copy differs is sent the items, compressed.                   *)
(* Items are numbered; build b of items.dat knows those below b.           *)
(***************************************************************************)
EXTENDS Integers

CONSTANT Builds    \* the builds of items.dat there are

ASSUME BuildAssumption == Builds \subseteq Nat \ {0}

Missing == [build |-> 0, whole |-> FALSE]
\* An interrupted copy has the header, and so the number of items.
Contents == [build : Builds, whole : BOOLEAN]
Whole(b) == [build |-> b, whole |-> TRUE]

VARIABLES
    phase,      \* of the process, and of the session
    file,       \* resources/items.dat
    db,         \* ItemDatabase::items_, which outlives a session
    announced,  \* server: the build it announced at logon
    game_has,   \* game: the build it has itself, 0 for none
    matched     \* history: the file had the announced hash at logon

cache == <<phase, file, db, announced, game_has, matched>>

CacheInit ==
    /\ phase = "down"
    /\ file \in Contents \cup {Missing} /\ db = Missing
    /\ announced = 0 /\ game_has \in Builds \cup {0} /\ matched = FALSE

\* proton_file(): other contents have other hashes.
Hash(content) == content

\* ItemDatabase::parse(): clear(), and as many items as the header says; the
\* reads of an item are not checked, and what is cut off reads as zeros.
Parse(content) == content

\* Items count from one.
MutNull(item) == item + 1 >= db.build

\* get_item() of a number beyond the items is null.
Null(item) == item >= db.build

Running == phase \notin {"down", "crashed"}

\* Somebody puts a file in place, or removes it, while the proxy is down.
Install(content) ==
    /\ ~Running
    /\ file' = content
    /\ UNCHANGED <<phase, db, announced, game_has, matched>>

Launch ==
    /\ ~Running
    /\ phase' = "up" /\ db' = Missing /\ matched' = FALSE /\ announced' = 0
    /\ UNCHANGED <<file, game_has>>

\* The handler does not compare.
MutLoads(b) == file # Missing

Loads(b) == Hash(file) = Hash(Whole(b))

\* OnSuperMainStart: without a match the items of an earlier session stay.
Logon(b) ==
    /\ phase = "up"
    /\ phase' = "on" /\ announced' = b /\ matched' = (file = Whole(b))
    /\ db' = IF Loads(b) THEN Parse(file) ELSE db
    /\ UNCHANGED <<file, game_has>>

\* decompress_zlib(): resize() to the expected size, then insert() at the end.
DecompressedSize(expected, actual) == IF expected > 0 THEN expected + actual ELSE actual

\* SendItemDatabaseData::read(), of a build as large as its number.
Reads(b) == b > 0 /\ DecompressedSize(b, b) = b

\* SendItemDatabaseData: a packet that does not read passes to the game
\* unseen.  A save may fail, or be cut off by a full disk; nobody looks.
SendItemDatabaseData ==
    /\ phase = "on" /\ game_has # announced
    /\ game_has' = announced
    /\ IF Reads(announced)
       THEN /\ db' = Parse(Whole(announced))
            /\ file' \in {file, Whole(announced), [build |-> announced, whole |-> FALSE]}
       ELSE UNCHANGED <<db, file>>
    /\ UNCHANGED <<phase, announced, matched>>

\* The session ends.
Logoff ==
    /\ phase = "on" /\ phase' = "up" /\ matched' = FALSE
    /\ UNCHANGED <<file, db, announced, game_has>>

\* The process ends.
Quit ==
    /\ phase = "up" /\ phase' = "down"
    /\ UNCHANGED <<file, db, announced, game_has, matched>>

\* The server brings out another build between the sessions.
CacheNext ==
    \/ \E c \in Contents \cup {Missing} : Install(c)
    \/ \E b \in Builds : Logon(b)
    \/ SendItemDatabaseData \/ Logoff \/ Quit
-----------------------------------------------------------------------------

\* The items in memory are a whole build that was announced in this run of the
\* proxy, and after a match they are the server's: a file that is cut or of
\* another build is never parsed (connection_handler.cpp 214-226).
ItemsAreAnnounced ==
    /\ db # Missing => db.whole
    /\ phase = "on" /\ matched => db = Whole(announced)

\* "Successfully parsed items.dat" (connection_handler.cpp 172): the items the
\* server sends end up in the database.
SentItemsParsed == [][game_has' # game_has => db' = Whole(announced)]_cache
=============================================================================
