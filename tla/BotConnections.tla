--------------------------- MODULE BotConnections ---------------------------
(***************************************************************************)
(* botgateway.WebSocketHandler and the connection registry of one bot: a   *)
(* row in the database, by bot, and in memory the nonces of the sockets    *)
(* being served and the one that came last. Registration and clean-up are  *)
(* each a database statement and a section under connectionMu, in an order *)
(* of their own; Shutdown closes admission and waits.                      *)
(***************************************************************************)
EXTENDS Naturals, FiniteSets

CONSTANTS Sockets, NoSocket

VARIABLES row,          \* workspace_agent_bot_connections: nonce and status
          connections,  \* memory: nonces being served
          latest,       \* memory: connectionLatest
          socket,       \* where each handler is
          disconnect,   \* per socket: the nonce its clean-up will disconnect
          admission, cancelled, \* WebSocketHandler: ~admissionClosed; the root context was cancelled
          cleanupFailed, shutdown

connectionVars == <<row, connections, latest, socket, disconnect, admission, cancelled, cleanupFailed, shutdown>>
Phases == {"new", "admitted", "stored", "serving", "leaving", "done", "refused"}
Active == {s \in Sockets : socket[s] \in {"admitted", "stored", "serving", "leaving"}}

(* The shape of every variable.                                            *)
ConnectionsTypeOK ==
  /\ row \in [nonce : Sockets \union {NoSocket}, connected : BOOLEAN] /\ connections \subseteq Sockets
  /\ latest \in Sockets \union {NoSocket} /\ socket \in [Sockets -> Phases]
  /\ disconnect \in [Sockets -> Sockets \union {NoSocket}]
  /\ admission \in BOOLEAN /\ cancelled \in BOOLEAN /\ cleanupFailed \in BOOLEAN
  /\ shutdown \in {"no", "waiting", "clean", "failed", "timeout"}

ConnectionsInit ==
  /\ row = [nonce |-> NoSocket, connected |-> FALSE] /\ connections = {} /\ latest = NoSocket
  /\ socket = [s \in Sockets |-> "new"] /\ disconnect = [s \in Sockets |-> NoSocket]
  /\ admission = TRUE /\ cancelled = FALSE /\ cleanupFailed = FALSE /\ shutdown = "no"
-----------------------------------------------------------------------------
stopping == <<admission, cancelled, cleanupFailed, shutdown>>
admit(s) ==
  /\ socket[s] = "new"
  /\ socket' = [socket EXCEPT ![s] = IF admission THEN "admitted" ELSE "refused"]
  /\ UNCHANGED <<row, connections, latest, disconnect>> /\ UNCHANGED stopping
(* Authentication or the statement fails, or the service is stopping.      *)
ServeHTTP(s) ==
  /\ socket[s] = "admitted" /\ socket' = [socket EXCEPT ![s] = "done"]
  /\ UNCHANGED <<row, connections, latest, disconnect>> /\ UNCHANGED stopping

RegisterRow(s) == row' = [nonce |-> s, connected |-> TRUE]
RegisterConnection(s) ==
  /\ socket[s] = "admitted"
  /\ RegisterRow(s) /\ socket' = [socket EXCEPT ![s] = "stored"]
  /\ UNCHANGED <<connections, latest, disconnect>> /\ UNCHANGED stopping
RegisterInMemory(s) ==
  /\ socket[s] = "stored"
  /\ connections' = connections \union {s} /\ latest' = s /\ socket' = [socket EXCEPT ![s] = "serving"]
  /\ UNCHANGED <<row, disconnect>> /\ UNCHANGED stopping

(* The clean-up: the last socket to leave disconnects the row under the    *)
(* nonce that came last.                                                   *)
CleanUpMemory(s) ==
  LET rest == connections \ {s} IN
  /\ socket[s] = "serving"
  /\ connections' = rest /\ latest' = IF rest = {} THEN NoSocket ELSE latest
  /\ disconnect' = [disconnect EXCEPT ![s] = IF rest = {} THEN latest ELSE NoSocket]
  /\ socket' = [socket EXCEPT ![s] = "leaving"]
  /\ UNCHANGED <<row>> /\ UNCHANGED stopping
DisconnectConnection(n) == IF n # NoSocket /\ row.nonce = n THEN [row EXCEPT !.connected = FALSE] ELSE row
(* The statement has a context of its own; when it fails nobody retries.   *)
CleanUpRow(s) ==
  /\ socket[s] = "leaving"
  /\ \/ row' = DisconnectConnection(disconnect[s]) /\ UNCHANGED cleanupFailed
     \/ disconnect[s] # NoSocket /\ cleanupFailed' = TRUE /\ UNCHANGED row
  /\ socket' = [socket EXCEPT ![s] = "done"] /\ disconnect' = [disconnect EXCEPT ![s] = NoSocket]
  /\ UNCHANGED <<connections, latest, admission, cancelled, shutdown>>

ShutdownKeepsRoot ==
  /\ shutdown = "no" /\ admission' = FALSE /\ shutdown' = "waiting"
  /\ UNCHANGED <<row, connections, latest, socket, disconnect, cancelled, cleanupFailed>>
Shutdown ==
  /\ shutdown = "no" /\ admission' = FALSE /\ cancelled' = TRUE /\ shutdown' = "waiting"
  /\ UNCHANGED <<row, connections, latest, socket, disconnect, cleanupFailed>>
release == Active = {}
(* Shutdown returns, by its caller's deadline at the latest.               *)
ShutdownEnds ==
  /\ shutdown = "waiting"
  /\ shutdown' \in {"timeout"} \union (IF release THEN {IF cleanupFailed THEN "failed" ELSE "clean"} ELSE {})
  /\ UNCHANGED <<row, connections, latest, socket, disconnect, admission, cancelled, cleanupFailed>>

SocketSteps(s) == ServeHTTP(s) \/ RegisterConnection(s) \/ RegisterInMemory(s) \/ CleanUpRow(s)
ConnectionsNext ==
  \/ \E s \in Sockets : admit(s) \/ SocketSteps(s) \/ CleanUpMemory(s)
  \/ Shutdown \/ ShutdownEnds
(* A handler's statements end; a socket leaves once the root is cancelled. *)
ConnectionsFairness ==
  \A s \in Sockets : /\ WF_connectionVars(SocketSteps(s))
                     /\ WF_connectionVars(cancelled /\ CleanUpMemory(s))
-----------------------------------------------------------------------------
(* The socket that registered last keeps its row connected for as long as  *)
(* it is served, whatever older sockets clean up ("an old socket cannot    *)
(* overwrite a newer socket's state", botgateway/service.go:121).          *)
NewestStaysConnected == row.nonce # NoSocket /\ socket[row.nonce] \in {"stored", "serving"} => row.connected

(* After a clean shutdown no handler is left and none comes.               *)
ShutdownComplete == shutdown = "clean" => Active = {} /\ connections = {}

=============================================================================
