---------------------------- MODULE ProxySession ----------------------------
(***************************************************************************)
(* One game, the proxy and the upstream server: the two ENet peers of      *)
(* network/server.cpp and network/client.cpp, the login endpoint pending   *)
(* in core/web_server.cpp and the redirect pending in                      *)
(* core/handlers/connection_handler.cpp.                                   *)
(*                                                                         *)
(* ENet callbacks run one at a time on the main thread; the HTTPS handlers *)
(* run on threads of their own and interleave with them.  Each ENet host   *)
(* has a single peer slot.                                                 *)
(***************************************************************************)
EXTENDS Naturals

CONSTANTS
    Endpoints,   \* address and port pairs of upstream servers
    None,        \* no endpoint: port 65535, or a cleared address
    Junk,        \* what an uninitialised port may hold
    Posters,     \* threads of the HTTPS server
    Vetoable     \* connection events that a script cancels at will

ASSUME SessionAssumption ==
    /\ None \notin Endpoints /\ Junk \notin Endpoints /\ None # Junk
    /\ Vetoable \subseteq {"ClientConnect", "ClientDisconnect", "ServerDisconnect"}

Ends == Endpoints \cup {None, Junk}
\* The address and the port of a web login are written apart.
Target == [addr : Ends, port : Ends]
At(e) == [addr |-> e, port |-> e]

VARIABLES
    game,         \* Server's peer slot, the game's connection
    speer,        \* Server::peer_ is set
    up, up_to,    \* Client's peer slot, the upstream connection
    cpeer,        \* Client::peer_ is set
    web_addr, web_port,   \* WebServer::pending_address_, pending_port_
    http, http_to,        \* each POST handler's progress and answer
    ch,           \* ConnectionHandler::pending_address_ and pending_port_
    main,         \* the main thread's place in the ClientConnect listeners
    told,         \* history: where the game was told to connect, not yet used
    target,       \* history: where the game now connected was told to go
    left_early    \* history: a game left while its upstream was not closing

gameside == <<game, speer>>
upside == <<up, up_to, cpeer>>
web == <<web_addr, web_port>>
posts == <<http, http_to>>
history == <<told, target, left_early>>
vars == <<gameside, upside, web, posts, ch, main, history>>

\* WebServer starts at 65535; ConnectionHandler does not initialise its port.
Init ==
    /\ game = "free" /\ speer = FALSE
    /\ up = "free" /\ up_to = At(None) /\ cpeer = FALSE
    /\ web_addr = None /\ web_port = None
    /\ http = [h \in Posters |-> "idle"] /\ http_to = [h \in Posters |-> None]
    /\ ch \in {None, Junk}
    /\ main = "idle"
    /\ told = None /\ target = None /\ left_early = FALSE

-----------------------------------------------------------------------------
(* Client and Server *)

\* Server::is_connected and Client::is_connected.
GameConnected == speer /\ game = "connected"
UpConnected == cpeer /\ up = "connected"
Bridged == GameConnected /\ UpConnected

\* A dispatched event whose listeners run, or one that a script cancels.
Dispatched(event) == {TRUE} \cup (IF event \in Vetoable THEN {FALSE} ELSE {})

\* Client::connect: enet_host_connect has no slot to give while one is in use,
\* and peer_ is overwritten all the same.
Connect(to) ==
    IF up = "free"
      THEN up' = "connecting" /\ up_to' = to /\ cpeer' = TRUE
      ELSE cpeer' = FALSE /\ UNCHANGED <<up, up_to>>

\* Mutants, the operators named Mut...: the definition that follows each with
\* one mistake in it.  Every property is checked to notice one.

\* Mutants: the upstream is not closed; peer_ is not reset.
MutUpDisconnect == UNCHANGED upside
MutUpDisconnectNow ==
    /\ cpeer' = cpeer
    /\ IF cpeer THEN up' = "free" /\ up_to' = At(None)
                ELSE UNCHANGED <<up, up_to>>

\* Client::disconnect and Client::disconnect_now.
UpDisconnect ==
    /\ up' = IF UpConnected THEN "disconnecting" ELSE up
    /\ UNCHANGED <<up_to, cpeer>>
UpDisconnectNow ==
    /\ cpeer' = FALSE
    /\ IF cpeer THEN up' = "free" /\ up_to' = At(None)
                ELSE UNCHANGED <<up, up_to>>

\* What a departure of the game leaves behind, for the history.
LeftEarly(event_ran) ==
    left_early' = (/\ up' # "free"
                   /\ \/ left_early
                      \/ up' = "connecting"
                      \/ up' = "connected" /\ ~event_ran)

-----------------------------------------------------------------------------
(* The game's side *)

\* Server::on_connect and the ClientConnect listeners up to the WebServer's.
ClientConnect ==
    /\ main = "idle" /\ game = "free"
    /\ game' = "connected" /\ speer' = TRUE
    /\ target' = told /\ told' = None
    /\ \E runs \in Dispatched("ClientConnect") :
          IF runs /\ web_port # None
            THEN Connect([addr |-> web_addr, port |-> web_port]) /\ main' = "clear"
            ELSE main' = (IF runs THEN "handler" ELSE "idle") /\ UNCHANGED upside
    /\ UNCHANGED <<web, posts, ch, left_early>>

\* The rest of WebServer::on_client_connect.
WebClear ==
    /\ main = "clear"
    /\ main' = "handler"
    /\ web_addr' = None /\ web_port' = None
    /\ UNCHANGED <<gameside, upside, posts, ch, history>>

\* ConnectionHandler's ClientConnect listener.
FinishConnect ==
    /\ main = "handler"
    /\ main' = "idle"
    /\ ch' = None
    /\ IF ch = None THEN UNCHANGED upside
       ELSE Connect(IF ch = Junk THEN [addr |-> None, port |-> Junk] ELSE At(ch))
    /\ UNCHANGED <<gameside, web, posts, history>>

\* Server::on_disconnect, and both ClientDisconnect listeners.
ClientDisconnect ==
    /\ main = "idle" /\ game # "free"
    /\ game' = "free" /\ speer' = FALSE
    /\ \E runs \in Dispatched("ClientDisconnect") :
          /\ IF runs THEN web_addr' = None /\ web_port' = None /\ UpDisconnect
                     ELSE UNCHANGED <<web, upside>>
          /\ LeftEarly(runs)
    /\ UNCHANGED <<posts, ch, main, told, target>>

\* Mutant: the game is not disconnected.
MutGameDisconnect == UNCHANGED gameside

\* Server::disconnect.
GameDisconnect ==
    /\ game' = IF GameConnected THEN "disconnecting" ELSE game
    /\ speer' = speer

\* The game's quit packet.
Quit ==
    /\ main = "idle" /\ GameConnected
    /\ GameDisconnect
    /\ UpDisconnectNow
    /\ LeftEarly(TRUE)
    /\ UNCHANGED <<web, posts, ch, main, told, target>>

\* The game's disconnect packet; disconnect_now raises no event.
Disconnect ==
    /\ main = "idle" /\ GameConnected
    /\ game' = "free" /\ speer' = FALSE
    /\ UpDisconnectNow
    /\ LeftEarly(TRUE)
    /\ UNCHANGED <<web, posts, ch, main, told, target>>

\* Server::on_receive of a malformed packet.
GameMalformed ==
    /\ main = "idle" /\ GameConnected
    /\ GameDisconnect
    /\ UNCHANGED <<upside, web, posts, ch, main, history>>

-----------------------------------------------------------------------------
(* The upstream side *)

\* Client::on_connect takes the peer whatever peer_ was.
ServerConnect ==
    /\ main = "idle" /\ up = "connecting" /\ up_to.port \in Endpoints
    /\ up' = "connected" /\ cpeer' = TRUE
    /\ UNCHANGED <<gameside, up_to, web, posts, ch, main, history>>

\* The upstream closed, refused or timed out: Client::on_disconnect and
\* ConnectionHandler's ServerDisconnect listener.
ServerDisconnect ==
    /\ main = "idle" /\ up # "free"
    /\ up' = "free" /\ up_to' = At(None) /\ cpeer' = FALSE
    /\ \E runs \in Dispatched("ServerDisconnect") :
          IF cpeer /\ runs THEN GameDisconnect ELSE UNCHANGED gameside
    /\ left_early' = FALSE
    /\ UNCHANGED <<web, posts, ch, main, told, target>>

\* Client::on_receive of a malformed packet.
UpMalformed ==
    /\ main = "idle" /\ UpConnected
    /\ UpDisconnect
    /\ UNCHANGED <<gameside, web, posts, ch, main, history>>

\* OnSendToServer: the game is sent to the proxy itself, if it is still there.
Redirect(e) ==
    /\ main = "idle" /\ UpConnected
    /\ ch' = e
    /\ told' = IF GameConnected THEN e ELSE told
    /\ UNCHANGED <<gameside, upside, web, posts, main, target, left_early>>

-----------------------------------------------------------------------------
(* WebServer: POST /growtopia/server_data.php, on a thread of the server *)

HttpPost(h) ==
    /\ http[h] = "idle"
    /\ http' = [http EXCEPT ![h] = "ask"]
    /\ told' = None
    /\ UNCHANGED <<gameside, upside, web, http_to, ch, main, target, left_early>>

\* Not resolved, no answer, not 200, empty or unparsable.
HttpFail(h) ==
    /\ http[h] = "ask"
    /\ http' = [http EXCEPT ![h] = "idle"]
    /\ UNCHANGED <<gameside, upside, web, http_to, ch, main, history>>

HttpAddress(h, e) ==
    /\ http[h] = "ask"
    /\ http' = [http EXCEPT ![h] = "port"]
    /\ http_to' = [http_to EXCEPT ![h] = e]
    /\ web_addr' = e
    /\ UNCHANGED <<gameside, upside, web_port, ch, main, history>>

HttpDone(h) ==
    /\ http[h] = "port"
    /\ http' = [http EXCEPT ![h] = "idle"]
    /\ http_to' = [http_to EXCEPT ![h] = None]
    /\ UNCHANGED <<gameside, upside, web_addr, ch, main, target, left_early>>

\* The port is stored and the game is told to connect to the proxy.
HttpPort(h) == HttpDone(h) /\ web_port' = http_to[h] /\ told' = http_to[h]

\* The port does not parse: pending_port_ keeps its value beside a new address.
HttpBadPort(h) == HttpDone(h) /\ UNCHANGED <<web_port, told>>

-----------------------------------------------------------------------------
Listeners == WebClear \/ FinishConnect
GameStep == ClientConnect \/ ClientDisconnect \/ Quit \/ Disconnect \/ GameMalformed
UpStep == ServerConnect \/ ServerDisconnect \/ UpMalformed
             \/ \E e \in Endpoints : Redirect(e)
HttpStep(h) ==
    \/ HttpPost(h) \/ HttpFail(h) \/ HttpPort(h) \/ HttpBadPort(h)
    \/ \E e \in Endpoints : HttpAddress(h, e)

Next == Listeners \/ GameStep \/ UpStep \/ \E h \in Posters : HttpStep(h)

Spec == Init /\ [][Next]_vars

\* A game that asks for one login at a time, and not while it is connected,
\* and an upstream that redirects no game that is already leaving.
HttpIdle == \A h \in Posters : http[h] = "idle"
Orderly ==
    /\ ~HttpIdle' => game' = "free"
    /\ \A h, k \in Posters : http'[h] # "idle" /\ http'[k] # "idle" => h = k
    /\ ch' \notin {None, ch} => GameConnected
OrderlySpec == Init /\ [][Next /\ Orderly]_vars

\* The main thread leaves its listeners, and ENet brings every handshake and
\* every disconnection to an end, by an answer or by its timeout.
UpSettle == up \in {"connecting", "disconnecting"} /\ (ServerConnect \/ ServerDisconnect)
GameSettle == game = "disconnecting" /\ ClientDisconnect
Fairness == WF_vars(Listeners) /\ WF_vars(UpSettle) /\ WF_vars(GameSettle)
FairSpec == Spec /\ Fairness

-----------------------------------------------------------------------------
(* Properties *)

\* Every variable of the session keeps its type.
TypeOK ==
    /\ game \in {"free", "connected", "disconnecting"} /\ speer \in BOOLEAN
    /\ up \in {"free", "connecting", "connected", "disconnecting"}
    /\ up_to \in Target /\ cpeer \in BOOLEAN
    /\ web_addr \in Endpoints \cup {None} /\ web_port \in Endpoints \cup {None}
    /\ http \in [Posters -> {"idle", "ask", "port"}]
    /\ http_to \in [Posters -> Endpoints \cup {None}]
    /\ ch \in Ends
    /\ main \in {"idle", "clear", "handler"}
    /\ told \in Endpoints \cup {None} /\ target \in Endpoints \cup {None}
    /\ left_early \in BOOLEAN

\* The saved peer pointers never dangle: Server's is set exactly while its slot
\* is in use, Client's only while its own is.
PeerPointers == (speer <=> game # "free") /\ (cpeer => up # "free")

\* An upstream connection without a game, or one that Client does not listen
\* to, comes only of a game that left before its upstream was established.
OrphanExplained ==
    up = "connected" /\ (game = "free" \/ ~cpeer) => left_early

\* When either peer pointer of a bridged pair is lost, by whatever packet or
\* event, the other connection is closed, or closing, in the same step.
PairTeardown ==
    [][Bridged /\ main = "idle" =>
          /\ ~speer' /\ "ClientDisconnect" \notin Vetoable
                => up' \in {"disconnecting", "free"}
          /\ ~cpeer' /\ "ServerDisconnect" \notin Vetoable
                => game' \in {"disconnecting", "free"}]_vars

\* A game of an orderly login or redirect never talks to another server than
\* the one it was told, unless an earlier game left its connection behind.
RightServer ==
    Bridged /\ target # None /\ ~left_early => up_to = At(target)

\* A game whose upstream was attempted ends up bridged, or is sent away.
BridgeSettles ==
    GameConnected /\ main = "idle" /\ cpeer ~> Bridged \/ game # "connected"

\* Once the game has gone its upstream slot becomes free for the next one.
UpstreamReleased ==
    game = "free" /\ up # "free" ~> up = "free" \/ game # "free" \/ left_early

\* Every redirect a game follows leads to the server it names.
RedirectFollowed ==
    [][main = "handler" /\ main' = "idle" /\ ch \in Endpoints /\ target = ch
          => up' = "connecting" /\ up_to' = At(ch)]_vars

=============================================================================
