---------------------------- MODULE MCPacketPath ----------------------------
(* Small instances of PacketPath for TLC. *)
EXTENDS PacketPath

From(side, id) == [from |-> side, size |-> "normal", decodes |-> TRUE, id |-> id,
                   reads |-> TRUE, text |-> NoText]

Chat(first, name) == [From("Client", "Input") EXCEPT !.text = [first |-> first, name |-> name]]

Chats == {Chat("/", "say"), Chat("!", "warp"), Chat("", "")}

\* The game client chats.
ChatPackets == Chats

\* Every way through on_receive().
OtherPackets ==
    {From("Client", "Quit"), From("Server", "OnSendToServer"), From("Server", "OnNameChanged"),
     [From("Server", "OnSendToServer") EXCEPT !.reads = FALSE],
     [From("Client", "Unknown") EXCEPT !.decodes = FALSE],
     [From("Client", "Log") EXCEPT !.size = "long"],
     [From("Server", "Log") EXCEPT !.size = "long"],
     [From("Server", "Unknown") EXCEPT !.size = "short"]}

\* Both.
AllPackets == ChatPackets \cup OtherPackets
=============================================================================
