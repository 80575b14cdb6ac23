------------------------- MODULE ProxySessionProofs -------------------------
(***************************************************************************)
(* Theorems about ProxySession, for every set of endpoints, of HTTPS       *)
(* threads and of events that scripts cancel.                              *)
(***************************************************************************)
EXTENDS ProxySession, TLAPS

-----------------------------------------------------------------------------
(* Type correctness *)

LEMMA AtType == ASSUME NEW e \in Ends PROVE At(e) \in Target
  BY DEF At, Target

\* The initial state has the right types.
LEMMA InitType == Init => TypeOK
<1> SUFFICES ASSUME Init PROVE TypeOK
  OBVIOUS
<1>1. None \in Ends /\ Junk \in Ends
  BY DEF Ends
<1>2. up_to \in Target
  BY <1>1, AtType DEF Init
<1>3. /\ http \in [Posters -> {"idle", "ask", "port"}]
      /\ http_to \in [Posters -> Endpoints \cup {None}]
  BY DEF Init
<1>4. ch \in Ends
  BY <1>1 DEF Init
<1>. QED  BY <1>2, <1>3, <1>4 DEF Init, TypeOK

\* Client::connect keeps the types of the upstream side.
LEMMA ConnectType ==
    ASSUME TypeOK, NEW to \in Target, Connect(to)
    PROVE  /\ up' \in {"free", "connecting", "connected", "disconnecting"}
           /\ up_to' \in Target /\ cpeer' \in BOOLEAN
  BY DEF Connect, TypeOK

\* Both ways to disconnect the upstream do too, and so does Server::disconnect.
LEMMA DisconnectType ==
    ASSUME TypeOK
    PROVE  /\ UpDisconnect \/ UpDisconnectNow =>
                /\ up' \in {"free", "connecting", "connected", "disconnecting"}
                /\ up_to' \in Target /\ cpeer' \in BOOLEAN
           /\ GameDisconnect =>
                game' \in {"free", "connected", "disconnecting"} /\ speer' \in BOOLEAN
<1>1. At(None) \in Target
  BY AtType DEF Ends
<1>2. ASSUME UpDisconnect
      PROVE  /\ up' \in {"free", "connecting", "connected", "disconnecting"}
             /\ up_to' \in Target /\ cpeer' \in BOOLEAN
  BY <1>2 DEF TypeOK, UpDisconnect
<1>3. ASSUME UpDisconnectNow
      PROVE  /\ up' \in {"free", "connecting", "connected", "disconnecting"}
             /\ up_to' \in Target /\ cpeer' \in BOOLEAN
  BY <1>1, <1>3 DEF TypeOK, UpDisconnectNow
<1>4. ASSUME GameDisconnect
      PROVE  game' \in {"free", "connected", "disconnecting"} /\ speer' \in BOOLEAN
  BY <1>4 DEF TypeOK, GameDisconnect
<1>. QED  BY <1>2, <1>3, <1>4

\* Every step of the session keeps the types.
LEMMA NextType == TypeOK /\ [Next]_vars => TypeOK'
<1> SUFFICES ASSUME TypeOK, [Next]_vars PROVE TypeOK'
  OBVIOUS
<1>1. CASE ClientConnect
  <2>1. [addr |-> web_addr, port |-> web_port] \in Target
    BY DEF TypeOK, Target, Ends
  <2>2. /\ up' \in {"free", "connecting", "connected", "disconnecting"}
        /\ up_to' \in Target /\ cpeer' \in BOOLEAN
    BY <1>1, <2>1, ConnectType DEF ClientConnect, TypeOK, upside
  <2>3. main' \in {"idle", "clear", "handler"}
    BY <1>1 DEF ClientConnect
  <2>. QED  BY <1>1, <2>2, <2>3 DEF ClientConnect, TypeOK, web, posts
<1>2. CASE WebClear
  BY <1>2 DEF WebClear, TypeOK, gameside, upside, posts, history
<1>3. CASE FinishConnect
  <2>1. /\ [addr |-> None, port |-> Junk] \in Target
        /\ At(ch) \in Target
    BY DEF TypeOK, Target, At, Ends
  <2>2. /\ up' \in {"free", "connecting", "connected", "disconnecting"}
        /\ up_to' \in Target /\ cpeer' \in BOOLEAN
    BY <1>3, <2>1, ConnectType DEF FinishConnect, TypeOK, upside
  <2>. QED
    BY <1>3, <2>2 DEF FinishConnect, TypeOK, Ends, gameside, web, posts, history
<1>4. CASE ClientDisconnect
  <2>1. /\ up' \in {"free", "connecting", "connected", "disconnecting"}
        /\ up_to' \in Target /\ cpeer' \in BOOLEAN
        /\ web_addr' \in Endpoints \cup {None} /\ web_port' \in Endpoints \cup {None}
        /\ left_early' \in BOOLEAN
    BY <1>4, DisconnectType DEF ClientDisconnect, LeftEarly, TypeOK, web, upside
  <2>. QED  BY <1>4, <2>1 DEF ClientDisconnect, TypeOK, posts
<1>5. CASE Quit
  BY <1>5, DisconnectType DEF Quit, LeftEarly, TypeOK, web, posts
<1>6. CASE Disconnect
  BY <1>6, DisconnectType DEF Disconnect, LeftEarly, TypeOK, web, posts
<1>7. CASE GameMalformed
  BY <1>7, DisconnectType DEF GameMalformed, TypeOK, upside, web, posts, history
<1>8. CASE ServerConnect
  BY <1>8 DEF ServerConnect, TypeOK, gameside, web, posts, history
<1>9. CASE ServerDisconnect
  <2>1. game' \in {"free", "connected", "disconnecting"} /\ speer' \in BOOLEAN
    BY <1>9, DisconnectType DEF ServerDisconnect, TypeOK, gameside
  <2>. QED
    BY <1>9, <2>1 DEF ServerDisconnect, TypeOK, At, Target, Ends, web, posts
<1>10. CASE UpMalformed
  BY <1>10, DisconnectType DEF UpMalformed, TypeOK, gameside, web, posts, history
<1>11. ASSUME NEW e \in Endpoints, Redirect(e) PROVE TypeOK'
  BY <1>11 DEF Redirect, TypeOK, Ends, gameside, upside, web, posts
<1>12. ASSUME NEW h \in Posters, HttpStep(h) PROVE TypeOK'
  <2>1. CASE HttpPost(h)
    BY <2>1 DEF HttpPost, TypeOK, gameside, upside, web
  <2>2. CASE HttpFail(h)
    BY <2>2 DEF HttpFail, TypeOK, gameside, upside, web, history
  <2>3. CASE HttpPort(h)
    BY <2>3 DEF HttpPort, HttpDone, TypeOK, gameside, upside
  <2>4. CASE HttpBadPort(h)
    BY <2>4 DEF HttpBadPort, HttpDone, TypeOK, gameside, upside
  <2>5. ASSUME NEW e \in Endpoints, HttpAddress(h, e) PROVE TypeOK'
    BY <2>5 DEF HttpAddress, TypeOK, gameside, upside, history
  <2>. QED  BY <1>12, <2>1, <2>2, <2>3, <2>4, <2>5 DEF HttpStep
<1>13. CASE UNCHANGED vars
  BY <1>13 DEF vars, gameside, upside, web, posts, history, TypeOK
<1>. QED
  BY <1>1, <1>2, <1>3, <1>4, <1>5, <1>6, <1>7, <1>8, <1>9, <1>10, <1>11,
     <1>12, <1>13 DEF Next, Listeners, GameStep, UpStep

\* Every variable keeps its type in every reachable state.
THEOREM TypeCorrect == Spec => []TypeOK
  BY InitType, NextType, PTL DEF Spec

-----------------------------------------------------------------------------
(* The peers and what is left of a session *)

\* PeerPointers, and OrphanExplained made inductive: it also has to speak of the
\* connection still being established, and of the time in the listeners.
PeerInv ==
    /\ PeerPointers
    /\ main # "idle" => game # "free"
    /\ game = "free" /\ up \in {"connecting", "connected"} => left_early
    /\ up = "connected" /\ (~cpeer \/ main # "idle") => left_early

\* What the invariant needs of a closing upstream side.
LEMMA UpClosed ==
    ASSUME TypeOK, PeerInv
    PROVE  /\ UpDisconnect =>
                /\ cpeer' => up' # "free"
                /\ up' = "connected" => ~cpeer /\ up = "connected"
           /\ UpDisconnectNow =>
                /\ cpeer' => up' # "free"
                /\ up' = "connected" => left_early
  BY DEF TypeOK, PeerInv, PeerPointers, UpDisconnect, UpDisconnectNow, UpConnected

\* Every step of the session keeps the invariant.
LEMMA NextPeer == TypeOK /\ PeerInv /\ [Next]_vars => PeerInv'
<1> SUFFICES ASSUME TypeOK, PeerInv, [Next]_vars PROVE PeerInv'
  OBVIOUS
<1> USE DEF PeerInv, PeerPointers
<1>1. CASE ClientConnect
  BY <1>1 DEF ClientConnect, Connect, TypeOK, upside
<1>2. CASE WebClear
  BY <1>2 DEF WebClear, gameside, upside, history
<1>3. CASE FinishConnect
  BY <1>3 DEF FinishConnect, Connect, TypeOK, gameside, upside, history
<1>4. CASE ClientDisconnect
  BY <1>4, UpClosed DEF ClientDisconnect, LeftEarly, TypeOK, upside
<1>5. CASE Quit
  BY <1>5, UpClosed DEF Quit, GameDisconnect, GameConnected, LeftEarly, TypeOK
<1>6. CASE Disconnect
  BY <1>6, UpClosed DEF Disconnect, LeftEarly, TypeOK
<1>7. CASE GameMalformed
  BY <1>7 DEF GameMalformed, GameDisconnect, GameConnected, upside, history
<1>8. CASE ServerConnect
  BY <1>8 DEF ServerConnect, gameside, history
<1>9. CASE ServerDisconnect
  BY <1>9 DEF ServerDisconnect, GameDisconnect, GameConnected, gameside
<1>10. CASE UpMalformed
  BY <1>10 DEF UpMalformed, UpDisconnect, UpConnected, gameside, history
<1>11. ASSUME NEW e \in Endpoints, Redirect(e) PROVE PeerInv'
  BY <1>11 DEF Redirect, gameside, upside
<1>12. ASSUME NEW h \in Posters, HttpStep(h) PROVE PeerInv'
  BY <1>12 DEF HttpStep, HttpPost, HttpFail, HttpPort, HttpBadPort, HttpDone,
               HttpAddress, gameside, upside, history
<1>13. CASE UNCHANGED vars
  BY <1>13 DEF vars, gameside, upside, history
<1>. QED
  BY <1>1, <1>2, <1>3, <1>4, <1>5, <1>6, <1>7, <1>8, <1>9, <1>10, <1>11,
     <1>12, <1>13 DEF Next, Listeners, GameStep, UpStep

LEMMA PeerInvariant == Spec => [](TypeOK /\ PeerInv)
<1>1. Init => PeerInv
  BY DEF Init, PeerInv, PeerPointers
<1>. QED  BY <1>1, InitType, NextType, NextPeer, PTL DEF Spec

\* The saved peer pointers never dangle.
THEOREM PointersValid == Spec => []PeerPointers
<1>1. PeerInv => PeerPointers
  BY DEF PeerInv
<1>. QED  BY <1>1, PeerInvariant, PTL

\* An upstream connection outlives its game only if the game left early.
THEOREM OrphansExplained == Spec => []OrphanExplained
<1>1. PeerInv => OrphanExplained
  BY DEF PeerInv, OrphanExplained
<1>. QED  BY <1>1, PeerInvariant, PTL

-----------------------------------------------------------------------------
(* The two connections go down together *)

\* A step that takes one peer pointer of a bridged pair closes the other side.
LEMMA StepTeardown ==
    ASSUME TypeOK, PeerInv, [Next]_vars, Bridged, main = "idle"
    PROVE  /\ ~speer' /\ "ClientDisconnect" \notin Vetoable
                => up' \in {"disconnecting", "free"}
           /\ ~cpeer' /\ "ServerDisconnect" \notin Vetoable
                => game' \in {"disconnecting", "free"}
<1> USE DEF Bridged, GameConnected, UpConnected
<1>1. CASE Listeners
  BY <1>1 DEF Listeners, WebClear, FinishConnect
<1>2. CASE ClientConnect
  BY <1>2 DEF ClientConnect
<1>3. CASE ClientDisconnect
  BY <1>3 DEF ClientDisconnect, Dispatched, UpDisconnect
<1>4. CASE Quit
  BY <1>4 DEF Quit, GameDisconnect, UpDisconnectNow
<1>5. CASE Disconnect
  BY <1>5 DEF Disconnect, UpDisconnectNow
<1>6. CASE GameMalformed
  BY <1>6 DEF GameMalformed, GameDisconnect, upside
<1>7. CASE UpStep
  BY <1>7 DEF UpStep, ServerConnect, ServerDisconnect, UpMalformed, Redirect,
              Dispatched, GameDisconnect, UpDisconnect, gameside, upside
<1>8. ASSUME NEW h \in Posters, HttpStep(h) PROVE speer' = speer /\ cpeer' = cpeer
  BY <1>8 DEF HttpStep, HttpPost, HttpFail, HttpPort, HttpBadPort, HttpDone,
              HttpAddress, gameside, upside
<1>9. CASE UNCHANGED vars
  BY <1>9 DEF vars, gameside, upside
<1>. QED
  BY <1>1, <1>2, <1>3, <1>4, <1>5, <1>6, <1>7, <1>8, <1>9 DEF Next, GameStep

\* When one connection of a bridged pair goes, the other is closed with it.
THEOREM TornDownTogether == Spec => PairTeardown
<1>1. TypeOK /\ PeerInv /\ [Next]_vars =>
        [Bridged /\ main = "idle" =>
            /\ ~speer' /\ "ClientDisconnect" \notin Vetoable
                  => up' \in {"disconnecting", "free"}
            /\ ~cpeer' /\ "ServerDisconnect" \notin Vetoable
                  => game' \in {"disconnecting", "free"}]_vars
  BY StepTeardown
<1>. QED  BY <1>1, PeerInvariant, PTL DEF Spec, PairTeardown

-----------------------------------------------------------------------------
(* An orderly game reaches the server it was told *)

\* Where the endpoint the game was told is kept until it comes back for it: in
\* the WebServer after a login, in ConnectionHandler after a redirect.
PendingInv ==
    /\ told # None => HttpIdle
    /\ main # "idle" => told = None
    /\ game # "free" /\ told # None => ch = told
    /\ game # "free" /\ main # "clear" => web_port = None
    /\ game = "free" /\ told # None =>
         \/ web_addr = told /\ web_port = told
         \/ web_port = None /\ ch = told

\* What each POST handler has done so far, of which at most one is busy and
\* none while a game is connected.
PostInv ==
    /\ ~HttpIdle => game = "free"
    /\ \A h, k \in Posters : http[h] # "idle" /\ http[k] # "idle" => h = k
    /\ \A h \in Posters : http[h] = "port" => web_addr = http_to[h]

\* Where the connection leads, made or about to be made by ConnectionHandler.
TargetInv ==
    /\ main # "idle" /\ up = "free" => main = "handler"
    /\ main = "handler" /\ up = "free" /\ target # None => ch = target
    /\ game = "connected" /\ up \in {"connecting", "connected"}
         /\ target # None /\ ~left_early => up_to = At(target)

OrderlyInv == PendingInv /\ PostInv /\ TargetInv

\* A poster at work keeps every other one idle, and the game away.
LEMMA PosterAlone ==
    ASSUME TypeOK, PeerInv, OrderlyInv, NEW h \in Posters, http[h] # "idle"
    PROVE  /\ ~HttpIdle /\ game = "free" /\ main = "idle" /\ told = None
           /\ \A k \in Posters \ {h} : http[k] = "idle"
  BY DEF OrderlyInv, PendingInv, PostInv, HttpIdle, PeerInv

\* Every step of an orderly session keeps what is known of the POST handlers.
LEMMA PostStep ==
    ASSUME TypeOK, PeerInv, OrderlyInv, Next /\ Orderly
    PROVE  PostInv'
<1>1. /\ ~HttpIdle' => game' = "free"
      /\ \A h, k \in Posters : http'[h] # "idle" /\ http'[k] # "idle" => h = k
  BY DEF Orderly
<1>2. ASSUME UNCHANGED posts, UNCHANGED web_addr
      PROVE  \A k \in Posters : http'[k] = "port" => web_addr' = http_to'[k]
  BY <1>2 DEF posts, OrderlyInv, PostInv
<1>3. ASSUME UNCHANGED posts, game # "free"
      PROVE  \A k \in Posters : http'[k] = "port" => web_addr' = http_to'[k]
  BY <1>3, PosterAlone DEF posts
<1>4. ASSUME NEW h \in Posters, HttpStep(h)
      PROVE  \A k \in Posters : http'[k] = "port" => web_addr' = http_to'[k]
  <2>1. ASSUME NEW e \in Endpoints, HttpAddress(h, e)
        PROVE  \A k \in Posters : http'[k] = "port" => web_addr' = http_to'[k]
    BY <1>1, <2>1 DEF HttpAddress, TypeOK
  <2>2. CASE HttpPost(h) \/ HttpFail(h)
    BY <2>2 DEF HttpPost, HttpFail, OrderlyInv, PostInv, TypeOK, web
  <2>3. CASE HttpPort(h) \/ HttpBadPort(h)
    BY <2>3 DEF HttpPort, HttpBadPort, HttpDone, OrderlyInv, PostInv, TypeOK
  <2>. QED  BY <1>4, <2>1, <2>2, <2>3 DEF HttpStep
<1>5. CASE Listeners \/ ClientDisconnect
  <2>1. UNCHANGED posts /\ game # "free"
    BY <1>5 DEF Listeners, WebClear, FinishConnect, ClientDisconnect, PeerInv
  <2>. QED  BY <1>1, <1>3, <2>1 DEF PostInv, HttpIdle
<1>6. CASE ClientConnect \/ Quit \/ Disconnect \/ GameMalformed \/ UpStep
  <2>1. UNCHANGED posts /\ UNCHANGED web_addr
    BY <1>6 DEF ClientConnect, Quit, Disconnect, GameMalformed, UpStep,
         ServerConnect, ServerDisconnect, UpMalformed, Redirect, web
  <2>. QED  BY <1>1, <1>2, <2>1 DEF PostInv, HttpIdle
<1>. QED  BY <1>1, <1>4, <1>5, <1>6 DEF Next, GameStep, PostInv, HttpIdle

\* And what is known of the endpoint still to be used.
LEMMA PendingStep ==
    ASSUME TypeOK, PeerInv, OrderlyInv, Next /\ Orderly, Vetoable = {}
    PROVE  PendingInv'
<1> USE DEF OrderlyInv, PendingInv
<1>1. CASE ClientConnect
  BY <1>1 DEF ClientConnect, Dispatched, HttpIdle, web, posts
<1>2. CASE WebClear
  BY <1>2 DEF WebClear, HttpIdle, gameside, posts, history
<1>3. CASE FinishConnect
  BY <1>3 DEF FinishConnect, HttpIdle, gameside, web, posts, history
<1>4. CASE ClientDisconnect
  BY <1>4 DEF ClientDisconnect, Dispatched, HttpIdle, posts
<1>5. CASE Quit
  BY <1>5 DEF Quit, GameDisconnect, GameConnected, HttpIdle, web, posts
<1>6. CASE Disconnect
  BY <1>6 DEF Disconnect, GameConnected, HttpIdle, web, posts
<1>7. CASE GameMalformed
  BY <1>7 DEF GameMalformed, GameDisconnect, GameConnected, HttpIdle, web, posts,
              history
<1>8. CASE ServerConnect \/ UpMalformed
  BY <1>8 DEF ServerConnect, UpMalformed, HttpIdle, gameside, web, posts, history
<1>9. CASE ServerDisconnect
  BY <1>9 DEF ServerDisconnect, GameDisconnect, GameConnected, HttpIdle, gameside,
              web, posts
<1>10. ASSUME NEW e \in Endpoints, Redirect(e) PROVE PendingInv'
  <2>1. /\ UNCHANGED <<game, main, web_addr, web_port, http>>
        /\ main = "idle" /\ ch' = e /\ e # None
    BY <1>10, SessionAssumption DEF Redirect, gameside, web, posts
  <2>2. CASE GameConnected
    <3>1. game = "connected" /\ HttpIdle /\ told' = e
      BY <1>10, <2>2 DEF Redirect, GameConnected, PostInv
    <3>. QED  BY <2>1, <3>1 DEF HttpIdle
  <2>3. CASE ~GameConnected
    <3>1. told' = told /\ ch' = ch
      BY <1>10, <2>1, <2>3 DEF Redirect, Orderly
    <3>. QED  BY <2>1, <3>1 DEF HttpIdle
  <2>. QED  BY <2>2, <2>3
<1>11. ASSUME NEW h \in Posters, HttpStep(h) PROVE PendingInv'
  <2>1. CASE HttpPost(h)
    BY <2>1 DEF HttpPost, TypeOK, gameside, upside, web
  <2>2. CASE http[h] # "idle"
    <3>1. /\ game = "free" /\ main = "idle" /\ told = None
          /\ \A k \in Posters \ {h} : http[k] = "idle"
      BY <2>2, PosterAlone
    <3>2. CASE HttpPort(h)
      <4>1. /\ web_addr' = http_to[h] /\ web_port' = http_to[h] /\ told' = http_to[h]
            /\ main' = "idle" /\ game' = "free"
        BY <3>1, <3>2 DEF HttpPort, HttpDone, PostInv, gameside
      <4>2. HttpIdle'
        BY <3>1, <3>2 DEF HttpPort, HttpDone, HttpIdle, TypeOK
      <4>. QED  BY <4>1, <4>2
    <3>3. CASE HttpFail(h) \/ HttpBadPort(h) \/ \E e \in Endpoints : HttpAddress(h, e)
      <4>1. told' = None /\ main' = "idle" /\ game' = "free"
        BY <3>1, <3>3 DEF HttpFail, HttpBadPort, HttpDone, HttpAddress, gameside,
                          history
      <4>. QED  BY <4>1
    <3>. QED  BY <1>11, <2>2, <3>2, <3>3 DEF HttpStep, HttpPost
  <2>. QED  BY <1>11, <2>1, <2>2 DEF HttpStep, HttpFail, HttpPort, HttpBadPort,
                                     HttpDone, HttpAddress
<1>. QED
  BY <1>1, <1>2, <1>3, <1>4, <1>5, <1>6, <1>7, <1>8, <1>9, <1>10, <1>11
     DEF Next, Listeners, GameStep, UpStep

\* And what is known of where the connection leads.
LEMMA TargetStep ==
    ASSUME TypeOK, PeerInv, OrderlyInv, Next /\ Orderly, Vetoable = {}
    PROVE  TargetInv'
<1> USE DEF OrderlyInv, TargetInv
<1>1. CASE ClientConnect
  <2>1. told # None =>
          \/ web_addr = told /\ web_port = told
          \/ web_port = None /\ ch = told
    BY <1>1 DEF ClientConnect, PendingInv
  <2>2. CASE web_port # None
    BY <1>1, <2>1, <2>2 DEF ClientConnect, Dispatched, Connect, PeerInv, At
  <2>3. CASE web_port = None
    BY <1>1, <2>1, <2>3 DEF ClientConnect, Dispatched, PeerInv, upside
  <2>. QED  BY <2>2, <2>3
<1>2. CASE WebClear
  BY <1>2 DEF WebClear, gameside, upside, history
<1>3. CASE FinishConnect
  <2>1. CASE up = "free" /\ target # None
    BY <1>3, <2>1, SessionAssumption DEF FinishConnect, Connect, TypeOK, gameside, history
  <2>2. CASE up # "free" \/ target = None
    BY <1>3, <2>2 DEF FinishConnect, Connect, gameside, upside, history
  <2>. QED  BY <2>1, <2>2
<1>4. CASE ClientDisconnect
  BY <1>4 DEF ClientDisconnect
<1>5. CASE Quit
  BY <1>5 DEF Quit, GameDisconnect, GameConnected
<1>6. CASE Disconnect
  BY <1>6 DEF Disconnect
<1>7. CASE GameMalformed
  BY <1>7 DEF GameMalformed, GameDisconnect, GameConnected, upside, history
<1>8. CASE ServerConnect
  BY <1>8 DEF ServerConnect, gameside, history
<1>9. CASE ServerDisconnect
  BY <1>9 DEF ServerDisconnect
<1>10. CASE UpMalformed
  BY <1>10 DEF UpMalformed, UpDisconnect, UpConnected, gameside, history
<1>11. ASSUME NEW e \in Endpoints, Redirect(e) PROVE TargetInv'
  BY <1>11 DEF Redirect, gameside, upside
<1>12. ASSUME NEW h \in Posters, HttpStep(h) PROVE TargetInv'
  <2>1. UNCHANGED <<game, up, up_to, main, ch, target, left_early>>
    BY <1>12 DEF HttpStep, HttpPost, HttpFail, HttpPort, HttpBadPort, HttpDone,
                 HttpAddress, gameside, upside, history
  <2>. QED  BY <2>1
<1>. QED
  BY <1>1, <1>2, <1>3, <1>4, <1>5, <1>6, <1>7, <1>8, <1>9, <1>10, <1>11, <1>12
     DEF Next, Listeners, GameStep, UpStep

LEMMA OrderlyInvariant ==
    ASSUME Vetoable = {}
    PROVE  OrderlySpec => [](TypeOK /\ PeerInv /\ OrderlyInv)
<1>1. Init => PeerInv /\ OrderlyInv
  BY DEF Init, PeerInv, PeerPointers, OrderlyInv, PendingInv, PostInv, TargetInv,
         HttpIdle
<1>2. TypeOK /\ PeerInv /\ OrderlyInv /\ [Next /\ Orderly]_vars
        => (TypeOK /\ PeerInv /\ OrderlyInv)'
  <2> SUFFICES ASSUME TypeOK, PeerInv, OrderlyInv, [Next /\ Orderly]_vars
               PROVE  (TypeOK /\ PeerInv /\ OrderlyInv)'
    OBVIOUS
  <2>1. TypeOK' /\ PeerInv'
    BY NextType, NextPeer
  <2>2. CASE Next /\ Orderly
    BY <2>1, <2>2, PostStep, PendingStep, TargetStep DEF OrderlyInv
  <2>3. CASE UNCHANGED vars
    BY <2>1, <2>3 DEF OrderlyInv, PendingInv, PostInv, TargetInv, HttpIdle, At,
                      vars, gameside, upside, web, posts, history
  <2>. QED  BY <2>2, <2>3
<1>. QED  BY <1>1, <1>2, InitType, PTL DEF OrderlySpec

\* When no script cancels a connection event, an orderly game is bridged to no
\* other server than the one it was told, unless an earlier game left early.
THEOREM ReachesRightServer ==
    ASSUME Vetoable = {}
    PROVE  OrderlySpec => []RightServer
<1>1. PeerInv /\ OrderlyInv => RightServer
  BY DEF PeerInv, OrderlyInv, TargetInv, RightServer, Bridged, GameConnected,
         UpConnected
<1>. QED  BY <1>1, OrderlyInvariant, PTL

=============================================================================
