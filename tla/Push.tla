-------------------------------- MODULE Push --------------------------------
(***************************************************************************)
(* The live event stream: api/websocket.py and its endpoint in             *)
(* api/routes.py on the server, services/websocket.ts in the renderer.     *)
(*                                                                         *)
(* A socket breaks whenever it likes, and each end learns of that on its   *)
(* own, so that the server may hold several of the one renderer. broadcast *)
(* walks over the live list of connections by index and suspends at each   *)
(* send, so clients come and go under it and several broadcasts overlap.   *)
(* In the renderer every callback and call is one step.                    *)
(*                                                                         *)
(* Left out: payloads; ping and pong, which no state depends on, and with  *)
(* them the ping timer; close_all, whose only call comes at shutdown, when *)
(* the web server has already closed the sockets and ended their handlers. *)
(***************************************************************************)
EXTENDS Integers, Sequences, FiniteSets, SequencesExt, Lists

CONSTANTS
  MaxSockets,  \* bound: sockets created in all
  Casts        \* bound: broadcasts at a time

ASSUME PushAssumption == MaxSockets \in Nat \ {0}

VARIABLES
  used,         \* sockets created so far
  link,         \* per socket: none, up, down
  endpoint,     \* per socket, the handler on the server: none, accepting, serving, done
  connections,  \* _connections
  casts,        \* per broadcast: see Idle
  client,       \* per socket, readyState: none, connecting, open, closing, closed
  ws,           \* this.ws, 0 for null
  connected,    \* _connected
  wanted,       \* _shouldReconnect
  timer,        \* reconnectTimer is set
  overlapped,   \* history variable: since all sockets were closed, connect was called
                \* while one was not yet closed or a reconnect was due
  threw         \* history variable: a handler threw in the last onclose since connect

Sockets == 1..MaxSockets

serverVars == <<endpoint, connections, casts>>
renderVars == <<client, ws, connected, wanted, timer, overlapped, threw>>
vars == <<used, link, serverVars, renderVars>>

\* A broadcast: the socket it sends to (0: none under way), its index, those whose
\* send raised; and as history, those it sent to, the number of removals since its
\* start, and that the last one was cut short.
Idle == [to |-> 0, index |-> 0, dead |-> {}, tried |-> {}, gone |-> 0, cut |-> FALSE]

Init ==
  /\ used = 0
  /\ link = [s \in Sockets |-> "none"]
  /\ endpoint = [s \in Sockets |-> "none"]
  /\ connections = <<>>
  /\ casts = [c \in Casts |-> Idle]
  /\ client = [s \in Sockets |-> "none"]
  /\ ws = 0
  /\ connected = FALSE
  /\ wanted = TRUE
  /\ timer = FALSE
  /\ overlapped = FALSE
  /\ threw = FALSE

-----------------------------------------------------------------------------
(* Server *)

\* Take the sockets, each listed at most once, out of the list; every broadcast
\* under way counts them.
Keep(out) == connections' = Without(connections, out)
Count(running, out) ==
  [c \in Casts |-> IF running[c].to = 0 THEN running[c]
                   ELSE [running[c] EXCEPT !.gone =
                           @ + Cardinality(out \cap ToSet(connections))]]

Accept(s) ==
  /\ link[s] = "up" /\ endpoint[s] = "none"
  /\ endpoint' = [endpoint EXCEPT ![s] = "accepting"]
  /\ UNCHANGED <<used, link, connections, casts, renderVars>>

\* accept returns and the socket is listed, or it raises because the client has gone.
Register(s) ==
  /\ endpoint[s] = "accepting"
  /\ \/ /\ endpoint' = [endpoint EXCEPT ![s] = "serving"]
        /\ connections' = Append(connections, s)
     \/ /\ link[s] = "down"
        /\ endpoint' = [endpoint EXCEPT ![s] = "done"]
        /\ UNCHANGED connections
  /\ UNCHANGED <<used, link, casts, renderVars>>

\* Seeded fault: the endpoint ends without disconnect.
HangupOnly(s) ==
  /\ endpoint[s] = "serving"
  /\ endpoint' = [endpoint EXCEPT ![s] = "done"]
  /\ link' = [link EXCEPT ![s] = "down"]
  /\ UNCHANGED <<used, connections, casts, renderVars>>

\* The socket broke, or the endpoint failed at a message; the web server closes the
\* socket of an endpoint that ends.
Hangup(s) ==
  /\ endpoint[s] = "serving"
  /\ endpoint' = [endpoint EXCEPT ![s] = "done"]
  /\ link' = [link EXCEPT ![s] = "down"]
  /\ Keep({s})
  /\ casts' = Count(casts, {s})
  /\ UNCHANGED <<used, renderVars>>

Broadcast(c) ==
  /\ casts[c].to = 0 /\ connections # <<>>
  /\ casts' = [casts EXCEPT ![c] =
       [Idle EXCEPT !.to = Head(connections), !.index = 1, !.tried = {Head(connections)}]]
  /\ UNCHANGED <<used, link, endpoint, connections, renderVars>>

\* Where the walk over the live list goes on.
NextIndexTwo(c) == casts[c].index + 2   \* seeded fault
NextIndex(c) == casts[c].index + 1

\* A send returns, or raises, which needs a broken socket; a broken socket may
\* also swallow it.  After the last one the dead are taken out.
SendEnds(c, raises) ==
  LET b == casts[c]
      i == NextIndex(c)
      dead == IF raises THEN b.dead \cup {b.to} ELSE b.dead
  IN  /\ b.to # 0
      /\ raises => link[b.to] = "down"
      /\ IF i <= Len(connections)
         THEN /\ casts' = [casts EXCEPT ![c] =
                   [b EXCEPT !.to = connections[i], !.index = i, !.dead = dead,
                             !.tried = @ \cup {connections[i]}]]
              /\ UNCHANGED connections
         ELSE /\ casts' = Count([casts EXCEPT ![c] = Idle], dead)
              /\ Keep(dead)
      /\ UNCHANGED <<used, link, endpoint, renderVars>>

\* The publisher that awaits the broadcast is cancelled: it ends where it is, and
\* those it found dead stay in the list.
SendCancelled(c) ==
  /\ casts[c].to # 0
  /\ casts' = [casts EXCEPT ![c] = [Idle EXCEPT !.cut = TRUE]]
  /\ UNCHANGED <<used, link, endpoint, connections, renderVars>>

-----------------------------------------------------------------------------
(* Network *)

Break(s) ==
  /\ link[s] = "up"
  /\ link' = [link EXCEPT ![s] = "down"]
  /\ UNCHANGED <<used, serverVars, renderVars>>

\* A new socket, as seen by its client.
Create ==
  /\ used < MaxSockets
  /\ used' = used + 1
  /\ link' = [link EXCEPT ![used + 1] = "up"]
  /\ client' = [client EXCEPT ![used + 1] = "connecting"]

-----------------------------------------------------------------------------
(* Renderer *)

Unclosed == {s \in Sockets : client[s] \in {"connecting", "open", "closing"}}

DoConnect == Create /\ ws' = used + 1

Connect ==
  /\ wanted' = TRUE
  /\ DoConnect
  /\ overlapped' = (overlapped \/ Unclosed # {} \/ timer)
  /\ threw' = FALSE
  /\ UNCHANGED <<serverVars, connected, timer>>

DisconnectTimed ==   \* seeded fault: the reconnect timer is not cleared
  /\ wanted' = FALSE
  /\ ws' = 0
  /\ connected' = FALSE
  /\ IF ws \in Unclosed
     THEN /\ client' = [client EXCEPT ![ws] = "closing"]
          /\ link' = [link EXCEPT ![ws] = "down"]
     ELSE UNCHANGED <<client, link>>
  /\ UNCHANGED <<used, serverVars, timer, overlapped, threw>>

Disconnect ==
  /\ wanted' = FALSE
  /\ timer' = FALSE
  /\ ws' = 0
  /\ connected' = FALSE
  /\ IF ws \in Unclosed
     THEN /\ client' = [client EXCEPT ![ws] = "closing"]
          /\ link' = [link EXCEPT ![ws] = "down"]
     ELSE UNCHANGED <<client, link>>
  /\ UNCHANGED <<used, serverVars, overlapped, threw>>

OnOpen(s) ==
  /\ client[s] = "connecting" /\ endpoint[s] # "none" /\ link[s] = "up"
  /\ client' = [client EXCEPT ![s] = "open"]
  /\ connected' = TRUE
  /\ UNCHANGED <<used, link, serverVars, ws, wanted, timer, overlapped, threw>>

OnCloseSwapped(s, throws) ==   \* seeded fault: cleanup after scheduleReconnect
  /\ s \in Unclosed /\ link[s] = "down"
  /\ client' = [client EXCEPT ![s] = "closed"]
  /\ overlapped' = (overlapped /\ Unclosed # {s})
  /\ connected' = FALSE
  /\ timer' = FALSE
  /\ threw' = throws
  /\ UNCHANGED <<used, link, serverVars, ws, wanted>>

\* cleanup clears the timer, scheduleReconnect sets it again, unless a handler that
\* is told of the close in between throws.
OnClose(s, throws) ==
  /\ s \in Unclosed /\ link[s] = "down"
  /\ client' = [client EXCEPT ![s] = "closed"]
  /\ overlapped' = (overlapped /\ Unclosed # {s})
  /\ connected' = FALSE
  /\ timer' = (wanted /\ ~throws)
  /\ threw' = throws
  /\ UNCHANGED <<used, link, serverVars, ws, wanted>>

Reconnect ==
  /\ timer
  /\ timer' = FALSE
  /\ DoConnect
  /\ UNCHANGED <<serverVars, connected, wanted, overlapped, threw>>

Next ==
  \/ \E s \in Sockets : Accept(s) \/ Register(s) \/ Hangup(s) \/ Break(s)
  \/ \E c \in Casts : \/ Broadcast(c) \/ SendCancelled(c)
                      \/ \E raises \in BOOLEAN : SendEnds(c, raises)
  \/ Connect \/ Disconnect \/ Reconnect
  \/ \E s \in Sockets : OnOpen(s) \/ \E throws \in BOOLEAN : OnClose(s, throws)

Spec == Init /\ [][Next]_vars

\* The server accepts, the browser calls back and timers fire.
Fairness ==
  /\ \A s \in Sockets : /\ WF_vars(Accept(s)) /\ WF_vars(OnOpen(s))
                         /\ WF_vars(\E throws \in BOOLEAN : OnClose(s, throws))
  /\ WF_vars(Reconnect)
FairSpec == Spec /\ Fairness

-----------------------------------------------------------------------------
(* Properties *)

\* The type invariant; the list holds each socket at most once, and only sockets
\* whose endpoint still serves them.
TypeOK ==
  /\ used \in 0..MaxSockets
  /\ link \in [Sockets -> {"none", "up", "down"}]
  /\ \A s \in Sockets : link[s] = "none" <=> s > used
  /\ endpoint \in [Sockets -> {"none", "accepting", "serving", "done"}]
  /\ connections \in Seq(Sockets) /\ IsInjective(connections)
  /\ \A s \in ToSet(connections) : endpoint[s] = "serving"
  /\ \A c \in Casts :
       /\ casts[c].to \in 0..used
       /\ casts[c].dead \subseteq casts[c].tried
  /\ client \in [Sockets -> {"none", "connecting", "open", "closing", "closed"}]
  /\ ws \in 0..used
  /\ {connected, wanted, timer, overlapped, threw} \subseteq BOOLEAN

\* A broadcast sends to no client twice, and unless its publisher is cancelled: of
\* the clients listed when it ends it has missed at most one for each client taken
\* out of the list meanwhile (a removal shifts the list under the walk), and none
\* whose send raised is listed any more.
CastReachesAll ==
  [][\A c \in Casts : LET b == casts[c] IN
       /\ b.to # 0 /\ casts'[c].index > b.index => casts'[c].to \notin b.tried
       /\ b.to # 0 /\ casts'[c].to = 0 /\ ~casts'[c].cut =>
            /\ Cardinality(ToSet(connections) \ b.tried) <= b.gone
            /\ b.dead \cap ToSet(connections') = {}]_vars

\* The renderer's view: after disconnect no reconnect is due.  Unless connect was
\* called while an earlier socket was not yet closed or a reconnect was due, and as
\* soon as all sockets are closed again, it has at most one socket, says it is
\* connected when that is open, keeps none open after disconnect, and does not
\* plan to reconnect while it has one.
RendererFollows ==
  /\ timer => wanted
  /\ ~overlapped =>
       /\ Cardinality(Unclosed) <= 1
       /\ connected <=> ws # 0 /\ client[ws] = "open"
       /\ ~wanted => \A s \in Unclosed : client[s] = "closing"
       /\ timer => Unclosed = {}

\* A renderer that wants to be connected gets there however often the socket breaks,
\* unless it is told to disconnect or one of its handlers throws when told of a close,
\* which skips scheduleReconnect (or the bound on sockets is reached).
Reconnects ==
  wanted /\ ws # 0 ~> \/ ~wanted \/ threw \/ used = MaxSockets
                      \/ ws # 0 /\ client[ws] = "open"
=============================================================================
