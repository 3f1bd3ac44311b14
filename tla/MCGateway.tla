------------------------------ MODULE MCGateway ------------------------------
(***************************************************************************)
(* The way in and the sockets: signing in from browsers and from the mobile *)
(* client, the event stream of a member, presence leases, and the          *)
(* connections of a bot.  part says which of them a behaviour is about; the *)
(* others stand still.                                                     *)
(***************************************************************************)
EXTENDS SignIn

CONSTANTS Writers, ReplayLimit, BatchSize, Appended, MaxSeq, MaxHellos,
          Sockets, Leases, NoLease,
          BotSockets, NoSocket

ASSUME GatewayAssumption ==
  /\ ReplayLimit \in Nat \ {0} /\ BatchSize \in Nat \ {0} /\ MaxSeq \in Nat /\ MaxHellos \in Nat
  /\ Appended \subseteq {"space", "conversation", "topic"}

VARIABLES part,
          events, nextSeq, writer, member, scopes, listening, wakeup, conn, hellos, base, sent, passed,
          present, leaseRow, open, active, previous, drawn, lapsed,
          row, connections, latest, socket, disconnect, admission, cancelled, cleanupFailed, shutdown

(* The seeded owner, somebody under the owner's address, somebody without  *)
(* a GitHub id, and somebody who goes by the robot's name.                 *)
Profile(id, name, email) == [id |-> id, login |-> name, email |-> email]
GitHubProfiles == {Profile("g1", OwnerLogin, None), Profile("g2", "b", OwnerEmail),
                   Profile(None, "b", "be"), Profile("g3", Robot, None)}

R == INSTANCE Realtime
B == INSTANCE BotConnections WITH Sockets <- BotSockets

realtimeVars == <<events, nextSeq, writer, member, scopes, listening, wakeup, conn,
                  hellos, base, sent, passed>>
presenceVars == <<present, leaseRow, open, active, previous, drawn, lapsed>>
connectionVars == <<row, connections, latest, socket, disconnect, admission, cancelled,
                    cleanupFailed, shutdown>>
vars == <<part, realtimeVars, presenceVars, connectionVars, identityVars, webVars,
          mobileVars>>

Init == /\ part \in {"realtime", "presence", "bot", "identity", "web", "mobile"}
        /\ R!RealtimeInit /\ R!PresenceInit /\ B!ConnectionsInit
        /\ IdentityInit /\ WebInit /\ MobileInit

(* A step of part p: the other parts stand still.                          *)
Only(p) ==
  /\ part = p /\ UNCHANGED part
  /\ IF p = "realtime" THEN TRUE ELSE UNCHANGED realtimeVars
  /\ IF p = "presence" THEN TRUE ELSE UNCHANGED presenceVars
  /\ IF p = "bot" THEN TRUE ELSE UNCHANGED connectionVars
  /\ IF p = "identity" THEN TRUE ELSE UNCHANGED identityVars
  /\ IF p = "web" THEN TRUE ELSE UNCHANGED webVars
  /\ IF p = "mobile" THEN TRUE ELSE UNCHANGED mobileVars

RealtimeStep == Only("realtime") /\ R!RealtimeNext
PresenceStep == Only("presence") /\ R!PresenceNext
BotStep == Only("bot") /\ B!ConnectionsNext
IdentityStep == Only("identity") /\ IdentityNext
WebStep == Only("web") /\ WebNext
MobileStep == Only("mobile") /\ MobileNext

Next == RealtimeStep \/ PresenceStep \/ BotStep
     \/ IdentityStep \/ WebStep \/ MobileStep
(* A part that is not the behaviour's own never leaves its initial state,  *)
(* where nothing its fairness asks for is enabled.                         *)
GatewaySpec == /\ Init /\ [][Next]_vars
               /\ R!RealtimeFairness /\ R!PresenceFairness /\ B!ConnectionsFairness
               /\ WebFairness

TypeOK == /\ part = "realtime" => R!RealtimeTypeOK
          /\ part = "presence" => R!PresenceTypeOK
          /\ part = "bot" => B!ConnectionsTypeOK
          /\ part = "identity" => IdentityTypeOK
          /\ part = "web" => WebTypeOK
          /\ part = "mobile" => MobileTypeOK

(* A connection is told every event it may see, once and in order; a lease *)
(* or a row that a live socket stands on is not taken away; nobody signs   *)
(* in as someone else, in another tab's place or twice with one            *)
(* authorisation.                                                          *)
GatewaySound ==
  /\ TypeOK
  /\ part = "realtime" => R!NothingMissed /\ R!InOrder
  /\ part = "presence" => R!LeaseKept
  /\ part = "bot" => B!NewestStaysConnected /\ B!ShutdownComplete
  /\ part = "identity" => RobotNeverAdmitted /\ RefusalAudited
  /\ part = "web" => StartsDoNotMix /\ ReturnsToOwnPage
  /\ part = "mobile" => FlowExchangedOnce /\ OneLiveToken /\ ReuseEndsFamily
(* Every connected member is told of every event in the end.               *)
CatchesUp == R!CatchesUp

(* What somebody is waiting for in each part, and what ends the wait. The  *)
(* sockets and starts are numbered, so that one formula speaks of all of   *)
(* them; part never changes.                                               *)
Waits(i) ==
  \/ part = "realtime" /\ i = 1 /\ ~member /\ conn.phase # "closed"
  \/ part = "presence" /\ (IF i = 3 THEN open = {} ELSE ~present /\ i \in open)
  \/ part = "bot" /\ i = 1 /\ ~admission
  \/ part = "web" /\ i \in Starts /\ call[i].at \in InFlight
Answered(i) ==
  CASE part = "realtime" -> member \/ conn.phase \in {"closed", "open"}
    [] part = "presence" -> IF i = 3 THEN open # {} \/ ~R!IsOnline ELSE present \/ i \notin open
    [] part = "bot" -> B!Active = {}
    [] part = "web" -> i \in Starts => call[i].at \in {"answered", "over"}
    [] OTHER -> TRUE
(* A removed member loses stream and sockets and, like one whose sockets   *)
(* are gone, is seen offline; the handlers of a bot leave after a          *)
(* shutdown; a callback is answered, though the provider may hang.         *)
NobodyWaitsForEver == \A i \in 1..3 : Waits(i) ~> Answered(i)
=============================================================================
