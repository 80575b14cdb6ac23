----------------------------- MODULE PacketCodec -----------------------------
(***************************************************************************)
(* What the proxy makes of the bytes that pass: a text message, decoded,   *)
(* edited by a script and sent on; and OnSendToServer, the redirection to  *)
(* a subserver, rewritten to lead to the proxy.  The bytes of a text are   *)
(* symbols: the two separators and the words between them.                 *)
(***************************************************************************)
EXTENDS Integers, Sequences, SequencesExt

CONSTANTS
    Symbols,       \* what texts are made of
    Texts,         \* the messages the game sends
    Keys, Values,  \* what scripts pass to add(), set() and remove()
    LengthValues,  \* how many lengths a uint16_t has
    MaxEdits,      \* bound on a script's edits
    Redirects      \* what the server says in OnSendToServer

Bar == "|"
Line == "\n"

VARIABLES
    line_anchors, \* do ^ and $ of std::regex match at every line?  Libraries differ
    stage,        \* idle, a text held by a script, sent on, or redirected
    wrote,        \* game: the text it sent
    kind,         \* the PacketId of the text
    data,         \* TextParse::data_
    edits,        \* how many edits a script has made
    touched,      \* history: the keys and values of them
    got,          \* server: the data it reads from what the proxy sent
    told,         \* server: what it said in OnSendToServer
    pending,      \* pending_address_, pending_port_
    redirect      \* game: what it reads in the OnSendToServer of the proxy

message == <<stage, wrote, kind, data, edits, touched, got>>
redirection == <<told, pending, redirect>>
vars == <<line_anchors, message, redirection>>

Unseen == [port |-> -1]

Init ==
    /\ line_anchors \in BOOLEAN
    /\ stage = "idle" /\ wrote = <<>> /\ kind = "Unknown" /\ data = <<>>
    /\ edits = 0 /\ touched = {} /\ got = <<>>
    /\ told = Unseen /\ pending = Unseen /\ redirect = Unseen
-----------------------------------------------------------------------------
(* TextParse *)

Split(s, delimiter) ==
    FoldLeft(LAMBDA parts, c : IF c = delimiter THEN Append(parts, <<>>)
                               ELSE ReplaceAt(parts, Len(parts), Append(Last(parts), c)),
             <<<<>>>>, s)

\* tokenize(): empty tokens are dropped in front.
Tokenize(s, delimiter) ==
    LET parts == Split(s, delimiter)
        first == SelectInSeq(parts, LAMBDA p : p # <<>>)
    IN  IF first = 0 THEN <<>> ELSE SubSeq(parts, first, Len(parts))

Entry(key, values) == [key |-> key, values |-> values]

\* A line without a value is dropped.
ParseLine(d, line) ==
    LET tokens == Tokenize(line, Bar) IN
    IF Len(tokens) < 2 THEN d ELSE Append(d, Entry(Head(tokens), Tail(tokens)))

Parse(s) == FoldLeft(ParseLine, <<>>, Tokenize(s, Line))

Find(d, key) == SelectInSeq(d, LAMBDA e : e.key = key)

Get(d, key, index) ==
    IF Find(d, key) # 0 /\ index < Len(d[Find(d, key)].values)
    THEN d[Find(d, key)].values[index + 1] ELSE <<>>

\* The bindings pass one value.
Add(d, key, value) == Append(d, Entry(key, <<value>>))

\* The first entry goes, whatever its key.
MutRemoveKey(d, key) == IF Find(d, key) = 0 THEN d ELSE Tail(d)

Set(d, key, value) ==
    IF Find(d, key) = 0 THEN Add(d, key, value)
    ELSE [d EXCEPT ![Find(d, key)].values = <<value>>]

RemoveKey(d, key) == IF Find(d, key) = 0 THEN d ELSE RemoveAt(d, Find(d, key))

RawEntry(e) == e.key \o FlattenSeq([j \in DOMAIN e.values |-> <<Bar>> \o e.values[j]])

\* Every entry begins a line.
MutGetRaw(d) ==
    FlattenSeq([i \in DOMAIN d |-> RawEntry(d[i]) \o (IF i < Len(d) THEN <<Line>> ELSE <<>>)])

\* get_raw(): an entry whose key is empty continues the line before it.
GetRaw(d) ==
    FlattenSeq([i \in DOMAIN d |->
        RawEntry(d[i]) \o (IF i < Len(d) /\ d[i + 1].key # <<>> THEN <<Line>> ELSE <<>>)])

ASSUME CodecAssumption ==
    /\ LengthValues \in Nat \ {0} /\ MaxEdits \in Nat
    /\ {Bar, Line} \subseteq Symbols
    /\ Texts \cup Keys \cup Values \subseteq Seq(Symbols)
-----------------------------------------------------------------------------
(* Text messages *)

\* PacketDecoder::decode(): a uint16_t of the size without the type and the
\* zero behind the text; a length of 0 has read() take it from the text itself,
\* where it may be anything.
Received(s) ==
    LET length == Len(s) % LengthValues IN
    IF s # <<>> /\ length = 0
    THEN {SubSeq(s, 3, 2 + k) : k \in 0..(Len(s) - 2)}
    ELSE {SubSeq(s, 1, length)}

\* The patterns of Quit, JoinRequest and Input; the other ones are like the
\* first two.
Patterns == <<[id |-> "Quit", action |-> "quit", whole |-> TRUE],
              [id |-> "JoinRequest", action |-> "join_request", whole |-> TRUE],
              [id |-> "Input", action |-> "input", whole |-> FALSE]>>

\* A match may start anywhere.
MutMatches(p, s) == IsSuffix(<<"action", Bar, p.action>>, s)

Matches(p, s) ==
    LET start == <<"action", Bar, p.action>> IN
    IF p.whole THEN s = start ELSE IsPrefix(start, s)

\* derive_packet_id()
DerivePacketId(d) ==
    LET raw == GetRaw(d)
        searched == IF line_anchors THEN ToSet(Split(raw, Line)) ELSE {raw}
        i == SelectInSeq(Patterns, LAMBDA p : \E s \in searched : Matches(p, s))
    IN  IF i = 0 THEN "Unknown" ELSE Patterns[i].id

Message(s) ==
    /\ stage = "idle" /\ stage' = "held" /\ wrote' = s
    /\ \E received \in Received(s) : data' = Parse(received)
    /\ kind' = DerivePacketId(data')
    /\ UNCHANGED <<line_anchors, edits, touched, got, redirection>>

Edit(key, value, d) ==
    /\ stage = "held" /\ data' = d
    /\ edits < MaxEdits /\ edits' = edits + 1 /\ touched' = touched \cup {<<key, value>>}
    /\ UNCHANGED <<line_anchors, stage, wrote, kind, got, redirection>>

ScriptEdits ==
    \E key \in Keys :
        \/ \E value \in Values : \/ Edit(key, value, Add(data, key, value))
                                \/ Edit(key, value, Set(data, key, value))
        \/ Edit(key, <<>>, RemoveKey(data, key))

\* send_text_parse() to the server, which reads as the proxy does.
SendTextParse ==
    /\ stage = "held" /\ stage' = "sent"
    /\ \E received \in Received(GetRaw(data)) : got' = Parse(received)
    /\ UNCHANGED <<line_anchors, wrote, kind, data, edits, touched, redirection>>

\* The next packet comes: bound, no two are compared.
Forget ==
    /\ stage \in {"sent", "redirected"} /\ stage' = "idle"
    /\ wrote' = <<>> /\ kind' = "Unknown" /\ data' = <<>> /\ got' = <<>>
    /\ edits' = 0 /\ touched' = {}
    /\ told' = Unseen /\ pending' = Unseen /\ redirect' = Unseen
    /\ UNCHANGED line_anchors
-----------------------------------------------------------------------------
(* OnSendToServer *)

\* The proxy's address and the port of its server.
Localhost == [address |-> <<"127.0.0.1">>, port |-> 0]

\* What stands between the separators of the fourth value.
Names == Seq(Symbols \ {Bar, Line})
ASSUME RedirectAssumption ==
    /\ Localhost.address \in Names
    /\ Redirects \subseteq
           [port : Int, token : Int, user : Int, address : Names,
            door_id : Names, uuid_token : Names, login_mode : Int, username : Seq(Symbols)]

Var(type, value) == [type |-> type, value |-> value]

\* PacketVariant::get(): beyond the end and for another type, a default.
GetVariant(variants, index, type) ==
    IF index < Len(variants) /\ variants[index + 1].type = type
    THEN variants[index + 1].value
    ELSE IF type = "STRING" THEN <<>> ELSE 0

\* serialize() and deserialize(): the number of values is a byte.
Transmitted(variants) == SubSeq(variants, 1, Len(variants) % 2^8)

ToUint8(n) == n % 2^8
ToUint16(n) == n % 2^16

\* The whole text is the key.
MutKey(raw) == raw

Key(raw) == IF Contains(raw, Bar) THEN Head(Split(raw, Bar)) ELSE raw

\* OnSendToServer::read(); the function's name is value 0.
ReadOnSendToServer(v) ==
    LET raw == GetVariant(v, 4, "STRING")
    IN  [port |-> ToUint16(GetVariant(v, 1, "SIGNED")),
         token |-> GetVariant(v, 2, "SIGNED"),
         user |-> GetVariant(v, 3, "SIGNED"),
         address |-> Key(raw),
         door_id |-> Get(Parse(raw), Key(raw), 0),
         uuid_token |-> Get(Parse(raw), Key(raw), 1),
         login_mode |-> ToUint8(GetVariant(v, 5, "UNSIGNED")),
         username |-> GetVariant(v, 6, "STRING")]

\* OnSendToServer::write()
WriteOnSendToServer(p) ==
    <<Var("STRING", <<"OnSendToServer">>), Var("SIGNED", p.port),
      Var("SIGNED", p.token), Var("SIGNED", p.user),
      Var("STRING", GetRaw(<<Entry(p.address, <<p.door_id, p.uuid_token>>)>>)),
      Var("UNSIGNED", p.login_mode), Var("STRING", p.username)>>

\* The first 5 to 7 of these values come from the server.
Said(p, n) == SubSeq(WriteOnSendToServer(p), 1, n)

\* The handler of the ConnectionHandler, and the game's reading of the result.
OnSendToServer(p, n) ==
    LET pkt == ReadOnSendToServer(Transmitted(Said(p, n)))
        modified_pkt == [pkt EXCEPT !.address = Localhost.address, !.port = Localhost.port]
    IN  /\ stage = "idle" /\ stage' = "redirected"
        /\ told' = [p EXCEPT !.login_mode = IF n > 5 THEN @ ELSE 0,
                            !.username = IF n > 6 THEN @ ELSE <<>>]
        /\ pending' = [address |-> pkt.address, port |-> pkt.port]
        /\ redirect' = ReadOnSendToServer(Transmitted(WriteOnSendToServer(modified_pkt)))
        /\ UNCHANGED <<line_anchors, wrote, kind, data, edits, touched, got>>
-----------------------------------------------------------------------------

Next ==
    \/ \E s \in Texts : Message(s)
    \/ ScriptEdits
    \/ SendTextParse
    \/ Forget
    \/ \E p \in Redirects, n \in 5..7 : OnSendToServer(p, n)

Spec == Init /\ [][Next]_vars
-----------------------------------------------------------------------------

Short(s) == Len(s) < LengthValues
KeysOf(d) == {d[i].key : i \in DOMAIN d}

\* The script used no separators where the format has them.
Separable == \A t \in touched :
    ~Contains(t[1], Bar) /\ ~Contains(t[1], Line) /\ ~Contains(t[2], Line)

\* The keys that are not empty, in their order.
NamesIn(d) == FoldLeft(LAMBDA ks, e : IF e.key = <<>> THEN ks ELSE Append(ks, e.key), <<>>, d)

\* The server reads the entries that the script had in its TextParse, in their
\* order, unless it put a separator in the wrong place or the text is too long
\* for a uint16_t.  A value with a "|" in it is read as two, and what was added
\* under an empty key as further values of the entry before it: only in front
\* of all others it is none (text_parse.hpp 23-69 and 208-236,
\* packet_decoder.cpp 35-40).
ReceivedAsEdited ==
    stage = "sent" /\ Short(GetRaw(data)) /\ Separable /\ (data # <<>> => Head(data).key # <<>>)
        => GetRaw(got) = GetRaw(data) /\ NamesIn(got) = NamesIn(data) /\ Len(got) = Len(NamesIn(data))

EntriesOf(d, key) == FoldLeft(LAMBDA es, e : IF e.key = key THEN Append(es, e) ELSE es, <<>>, d)

\* Entries with a key that the script did not touch pass as the game wrote
\* them, duplicates too, unless it used the empty key, which adds to others
\* (text_parse.hpp 135-206).
OthersKept ==
    stage = "sent" /\ Short(wrote) /\ Short(GetRaw(data)) /\ Separable
            /\ (\A t \in touched : t[1] # <<>>)
        => \A key \in KeysOf(Parse(wrote)) \ {t[1] : t \in touched} :
              EntriesOf(got, key) = EntriesOf(Parse(wrote), key)

\* With either meaning of the anchors, a message is taken for a Quit, a
\* JoinRequest or an Input only if one of its lines is this action: a Quit cuts
\* both connections (packet_id.hpp 52-100, connection_handler.cpp 103-122).
\* Only the name of an Input may go on.
KindIsAction ==
    kind # "Unknown" /\ edits = 0 =>
        \E i \in DOMAIN data, j \in DOMAIN Patterns :
            /\ Patterns[j].id = kind /\ data[i].key = <<"action">>
            /\ IF Patterns[j].whole THEN data[i].values = <<<<Patterns[j].action>>>>
               ELSE Head(Head(data[i].values)) = Patterns[j].action

\* The game is sent to the proxy with everything else as the server said it,
\* its login mode cut to a byte, and the proxy remembers where the server wanted
\* it, with the port as a uint16_t (packet/game/server.hpp 20-81,
\* connection_handler.cpp 71-99).  Behind an empty address the door is taken for
\* the key.
RedirectKept ==
    told # Unseen /\ told.address # <<>> =>
        /\ pending = [address |-> told.address, port |-> ToUint16(told.port)]
        /\ redirect = [told EXCEPT !.address = Localhost.address, !.port = Localhost.port,
                                   !.login_mode = ToUint8(@)]
=============================================================================
