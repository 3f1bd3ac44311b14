------------------------------ MODULE SMTPMailer ------------------------------
(***************************************************************************)
(* email/publisher.go: one Send with its watcher goroutine, the tracker    *)
(* both share, the connection and a server that may refuse, fall silent or *)
(* accept. The deadline of the operation also ends its context. The mail   *)
(* library is external: after the dial it says EHLO, raises TLS and        *)
(* authenticates as the options ask, and Close says QUIT.                  *)
(***************************************************************************)
EXTENDS Naturals

CONSTANTS Configs             \* [encryption, username]

ASSUME SMTPAssumption ==
  Configs \subseteq [encryption : {"tls", "starttls", "none"}, username : BOOLEAN]

VARIABLES config, pc,
          ended,              \* the context: "no", "cancelled", "deadline"
          watcher,            \* "none", "watching", "done"
          stop,               \* watchStop is closed
          tracker,            \* [conn, closed]
          socket,             \* "none", "open", "closed"
          server,             \* [starttls, silent, accepted]
          clear,              \* ghost: the password went out in clear text
          sendErr, result

smtpVars == <<config, pc, ended, watcher, stop, tracker, socket, server, clear, sendErr, result>>

Steps == {"begin", "dial", "track", "handshake", "hello", "auth", "data", "quit", "leave", "wait", "close", "done"}
(* The shape of every variable.                                            *)
SMTPTypeOK ==
  /\ config \in Configs /\ pc \in Steps /\ ended \in {"no", "cancelled", "deadline"} /\ watcher \in {"none", "watching", "done"}
  /\ tracker \in [conn : BOOLEAN, closed : BOOLEAN] /\ socket \in {"none", "open", "closed"}
  /\ server \in [starttls : BOOLEAN, silent : BOOLEAN, accepted : BOOLEAN]
  /\ {stop, clear, sendErr} \subseteq BOOLEAN /\ result \in {"none", "sent", "timeout", "failed"}

SMTPInit ==
  /\ config \in Configs /\ pc = "begin" /\ ended = "no" /\ watcher = "none" /\ stop = FALSE
  /\ tracker = [conn |-> FALSE, closed |-> FALSE] /\ socket = "none"
  /\ server \in [starttls : BOOLEAN, silent : {FALSE}, accepted : {FALSE}]
  /\ clear = FALSE /\ sendErr = FALSE /\ result = "none"
-----------------------------------------------------------------------------
(* operationExpired is asked after every step that may have waited.        *)
operationExpired == ended # "no"
Answer(failure) == IF operationExpired THEN "timeout" ELSE failure
Leave(r) == pc' = "leave" /\ result' = r

Send ==
  /\ pc = "begin"
  /\ IF config.encryption = "none" /\ config.username THEN pc' = "done" /\ result' = "failed" /\ UNCHANGED watcher
     ELSE IF operationExpired THEN pc' = "done" /\ result' = "timeout" /\ UNCHANGED watcher
     ELSE pc' = "dial" /\ watcher' = "watching" /\ UNCHANGED result
  /\ UNCHANGED <<config, ended, stop, tracker, socket, server, clear, sendErr>>

(* DialContext: a connection, or an error; the end of the context is one.  *)
dialContext ==
  /\ pc = "dial"
  /\ \/ ~operationExpired /\ socket' = "open" /\ pc' = "track" /\ UNCHANGED result
     \/ Leave(Answer("failed")) /\ UNCHANGED socket
  /\ UNCHANGED <<config, ended, watcher, stop, tracker, server, clear, sendErr>>
set == IF tracker.closed THEN socket' = "closed" /\ UNCHANGED tracker ELSE tracker' = [tracker EXCEPT !.conn = TRUE] /\ UNCHANGED socket
Track ==
  /\ pc = "track" /\ set /\ pc' = IF config.encryption = "tls" THEN "handshake" ELSE "hello"
  /\ UNCHANGED <<config, ended, watcher, stop, server, clear, sendErr, result>>

(* Reads and writes: an answer while the connection is open and the server *)
(* speaks; an error once the connection is closed or the deadline, which   *)
(* deadlineConn puts on every read and write, is over.                     *)
Speaks == socket = "open" /\ ~server.silent
IOFails == socket = "closed" \/ ended = "deadline"
HandshakeContext ==
  /\ pc = "handshake"
  /\ \/ Speaks /\ pc' = "hello" /\ UNCHANGED <<socket, result>>
     \/ (IOFails \/ operationExpired \/ Speaks) /\ socket' = "closed" /\ Leave(Answer("failed"))
  /\ UNCHANGED <<config, ended, watcher, stop, tracker, server, clear, sendErr>>
(* TLSMandatory: without STARTTLS the dial fails.                          *)
TLSMandatory == config.encryption = "starttls" => server.starttls
Hello ==
  /\ pc = "hello"
  /\ \/ Speaks /\ TLSMandatory /\ pc' = (IF config.username THEN "auth" ELSE "data") /\ UNCHANGED result
     \/ (IOFails \/ Speaks) /\ Leave(Answer("failed"))
  /\ UNCHANGED <<config, ended, watcher, stop, tracker, socket, server, clear, sendErr>>
Encrypted == config.encryption = "tls" \/ (config.encryption = "starttls" /\ server.starttls)
Authenticate ==
  /\ pc = "auth" /\ clear' = (clear \/ (socket = "open" /\ ~Encrypted))
  /\ \/ Speaks /\ pc' = "data" /\ UNCHANGED result
     \/ (IOFails \/ Speaks) /\ Leave(Answer("failed"))
  /\ UNCHANGED <<config, ended, watcher, stop, tracker, socket, server, sendErr>>

(* DATA: the server may accept the mail and its answer be lost.            *)
SendMessage ==
  /\ pc = "data"
  /\ \/ Speaks /\ server' = [server EXCEPT !.accepted = TRUE] /\ sendErr' = FALSE /\ pc' = "quit"
     \/ Speaks /\ server' = [server EXCEPT !.accepted = TRUE, !.silent = TRUE] /\ UNCHANGED <<sendErr, pc>>
     \/ (IOFails \/ Speaks) /\ sendErr' = TRUE /\ pc' = "quit" /\ UNCHANGED server
  /\ UNCHANGED <<config, ended, watcher, stop, tracker, socket, clear, result>>
SendFailed == sendErr
ClientClose ==
  /\ pc = "quit"
  /\ IF operationExpired THEN Leave("timeout") /\ UNCHANGED socket
     ELSE IF SendFailed THEN Leave("failed") /\ UNCHANGED socket
     ELSE \/ Speaks /\ socket' = "closed" /\ Leave("sent")
          \/ (IOFails \/ Speaks) /\ Leave(Answer("failed")) /\ UNCHANGED socket
  /\ UNCHANGED <<config, ended, watcher, stop, tracker, server, clear, sendErr>>

(* The deferred calls: stop the watcher, wait for it, close what is open.  *)
StopWatcher ==
  /\ pc = "leave" /\ stop' = TRUE /\ pc' = "wait"
  /\ UNCHANGED <<config, ended, watcher, tracker, socket, server, clear, sendErr, result>>
WaitWatcher ==
  /\ pc = "wait" /\ watcher = "done" /\ pc' = "close"
  /\ UNCHANGED <<config, ended, watcher, stop, tracker, socket, server, clear, sendErr, result>>
CloseTracker ==
  /\ tracker' = [tracker EXCEPT !.closed = TRUE]
  /\ socket' = IF ~tracker.closed /\ tracker.conn /\ socket = "open" THEN "closed" ELSE socket
Return ==
  /\ pc = "close" /\ CloseTracker /\ pc' = "done"
  /\ UNCHANGED <<config, ended, watcher, stop, server, clear, sendErr, result>>
-----------------------------------------------------------------------------
OnEitherSignal == \/ operationExpired /\ CloseTracker
                  \/ stop /\ UNCHANGED <<tracker, socket>>
Watch ==
  /\ watcher = "watching" /\ OnEitherSignal /\ watcher' = "done"
  /\ UNCHANGED <<config, pc, ended, stop, server, clear, sendErr, result>>

ContextEnds ==
  /\ pc # "done" /\ \/ ended = "no" /\ ended' \in {"cancelled", "deadline"}
                    \/ ended = "cancelled" /\ ended' = "deadline"
  /\ UNCHANGED <<config, pc, watcher, stop, tracker, socket, server, clear, sendErr, result>>
FallSilent ==
  /\ pc \in {"handshake", "hello", "auth", "data", "quit"} /\ ~server.silent /\ server' = [server EXCEPT !.silent = TRUE]
  /\ UNCHANGED <<config, pc, ended, watcher, stop, tracker, socket, clear, sendErr, result>>
-----------------------------------------------------------------------------
MailerStep == \/ Send \/ dialContext \/ Track \/ HandshakeContext \/ Hello \/ Authenticate \/ SendMessage \/ ClientClose
              \/ StopWatcher \/ WaitWatcher \/ Return
SMTPNext == MailerStep \/ Watch \/ ContextEnds \/ FallSilent
-----------------------------------------------------------------------------
(* When Send has returned no connection is left open and no goroutine      *)
(* runs, even when the context ended while the connection was being made.  *)
NothingLeftOpen == pc = "done" => socket # "open" /\ watcher # "watching"

(* A password never goes over a connection that is not encrypted,          *)
(* whatever the server offers.                                             *)
PasswordProtected == ~clear

(* A send reported as made was accepted by the server. (The converse does  *)
(* not hold: the answer to an accepted mail may be lost.)                  *)
SentWasAccepted == result = "sent" => server.accepted

(* A cancelled send ends although the server is silent and the deadline    *)
(* far away: the watcher breaks the connection under it.                   *)
CancelEndsSend == ended = "cancelled" ~> pc = "done"
=============================================================================
