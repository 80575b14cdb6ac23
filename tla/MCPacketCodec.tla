---------------------------- MODULE MCPacketCodec ----------------------------
(***************************************************************************)
(* Messages of up to three lines, with what is odd about a line: nothing   *)
(* in it, no value, no key, an empty value; lines that look like an action.*)
(***************************************************************************)
EXTENDS PacketCodec

MCSymbols == {Bar, Line, "x", "y", "action", "quit", "input",
              "127.0.0.1", "host", "door", "uuid", "name"}

Lines == {<<>>, <<"x">>, <<Bar, "x", Bar, "y">>, <<"x", Bar>>, <<"x", Bar, "y">>,
          <<"action", Bar, "quit">>, <<"action", Bar, "input", "x">>,
          <<"y", Bar, "action", Bar, "quit">>}

MCTexts == Lines
    \cup {a \o <<Line>> \o b : a, b \in Lines}
    \cup {a \o <<Line>> \o b \o <<Line>> \o c : a, b, c \in Lines}

MCKeys == {<<>>, <<"x">>, <<"y", Bar>>}
MCValues == {<<>>, <<"x", Line>>, <<"x", Bar, "y">>}

MCRedirects ==
    [port : {0, 17000}, token : {1}, user : {2}, address : {<<>>, <<"host">>},
     door_id : {<<>>, <<"door">>}, uuid_token : {<<>>, <<"uuid">>},
     login_mode : {1, 257}, username : {<<"name">>}]
=============================================================================
