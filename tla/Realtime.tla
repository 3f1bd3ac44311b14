------------------------------ MODULE Realtime ------------------------------
(***************************************************************************)
(* workspace/events and workspace/realtime: the event log of a space, the  *)
(* transactions that append to it, the listener that turns notifications   *)
(* into wake-ups, and one connection that replays the log to its viewer.   *)
(* A replay is many statements (currentSeq, pages of rows, a visibility    *)
(* query per row), with commits, removals and reconnects between them.     *)
(***************************************************************************)
EXTENDS Naturals, Sequences, FiniteSets, SequencesExt

CONSTANTS Writers,          \* transactions that append an event
          ReplayLimit, BatchSize,
          Appended,         \* the scopes of events appended: a bound
          MaxSeq, MaxHellos \* bounds: events ever appended, hellos of clients

VARIABLES events,           \* workspace_events: the scope of the event at each seq, or "none"
          nextSeq,          \* workspace_event_cursors, as the open transactions see it
          writer,           \* per writer: the seq it took (0: none) and the scope
          member, scopes,   \* the viewer: in the space, and what it takes part in
          listening,        \* the LISTEN connection is up
          wakeup,           \* the hub's channel of the connection
          conn, hellos,     \* the connection; hellos so far
          base, sent, passed   \* ghosts: where delivery began, what was sent, what was skipped as invisible

realtimeVars == <<events, nextSeq, writer, member, scopes, listening, wakeup, conn, hellos, base, sent, passed>>
connVars == <<conn, hellos, base, sent, passed>>

Scopes == {"space", "conversation", "topic"}
Committed == {s \in 1..MaxSeq : events[s] # "none"}
Idle == [seq |-> 0, scope |-> "space"]
Closed == [phase |-> "closed", hello |-> FALSE, cursor |-> 0, current |-> 0, scan |-> 0,
           rows |-> <<>>, full |-> FALSE, found |-> <<>>, more |-> FALSE]
CurrentSeq == IF Committed = {} THEN 0 ELSE CHOOSE s \in Committed : \A t \in Committed : t <= s

(* The shape of every variable.                                            *)
RealtimeTypeOK ==
  /\ events \in [1..MaxSeq -> Scopes \union {"none"}] /\ nextSeq \in 1..(MaxSeq + 1)
  /\ writer \in [Writers -> [seq : 0..MaxSeq, scope : Scopes]]
  /\ member \in BOOLEAN /\ scopes \subseteq Scopes
  /\ listening \in BOOLEAN /\ wakeup \in BOOLEAN
  /\ conn.phase \in {"closed", "open", "listing", "scanning", "ready"}
  /\ conn.cursor \in 0..MaxSeq /\ conn.scan \in 0..MaxSeq /\ Len(conn.found) <= ReplayLimit
  /\ hellos \in 0..MaxHellos /\ base \in 0..MaxSeq /\ passed \subseteq 1..MaxSeq /\ ToSet(sent) \subseteq 1..MaxSeq

RealtimeInit ==
  /\ events = [s \in 1..MaxSeq |-> "none"] /\ nextSeq = 1 /\ writer = [w \in Writers |-> Idle]
  /\ member = TRUE /\ scopes = {"conversation", "topic"} /\ listening = FALSE /\ wakeup = FALSE
  /\ conn = Closed /\ hellos = 0 /\ base = 0 /\ sent = <<>> /\ passed = {}
-----------------------------------------------------------------------------
(* The hub: a channel of size one, so wake-ups coalesce.                   *)
Notify == wakeup' = (conn.phase # "closed")

(* Writers. The upsert of the cursor's row holds its lock until the end of *)
(* the transaction.                                                        *)
Unserialized == nextSeq <= MaxSeq
CursorRowFree == nextSeq <= MaxSeq /\ \A v \in Writers : writer[v] = Idle

WriteEvent(w, scope) ==
  /\ writer[w] = Idle /\ CursorRowFree
  /\ writer' = [writer EXCEPT ![w] = [seq |-> nextSeq, scope |-> scope]]
  /\ nextSeq' = nextSeq + 1
  /\ UNCHANGED <<events, member, scopes, listening, wakeup, connVars>>
Commit(w) ==
  /\ writer[w] # Idle
  /\ events' = [events EXCEPT ![writer[w].seq] = writer[w].scope]
  /\ writer' = [writer EXCEPT ![w] = Idle]
  /\ IF listening THEN Notify ELSE UNCHANGED wakeup
  /\ UNCHANGED <<nextSeq, member, scopes, listening, connVars>>
Rollback(w) ==
  /\ writer[w] # Idle
  /\ writer' = [writer EXCEPT ![w] = Idle]
  /\ nextSeq' = IF writer[w].seq = nextSeq - 1 THEN nextSeq - 1 ELSE nextSeq
  /\ UNCHANGED <<events, member, scopes, listening, wakeup, connVars>>

(* The viewer leaves or enters the space, the conversation or the topic.   *)
ChangeMembership ==
  /\ \/ member' = ~member /\ scopes' = {}
     \/ /\ member /\ \E x \in {"conversation", "topic"} : scopes' \in {scopes \union {x}, scopes \ {x}} \ {scopes}
        /\ UNCHANGED member
  /\ UNCHANGED <<events, nextSeq, writer, listening, wakeup, connVars>>
-----------------------------------------------------------------------------
(* The listener: it wakes everybody once it listens again.                 *)
listen == /\ ~listening /\ listening' = TRUE /\ Notify
          /\ UNCHANGED <<events, nextSeq, writer, member, scopes, connVars>>
ListenFails == /\ listening /\ listening' = FALSE
               /\ UNCHANGED <<events, nextSeq, writer, member, scopes, wakeup, connVars>>
-----------------------------------------------------------------------------
(* Visible now? A topic's messages are for those in the topic and in its   *)
(* conversation.                                                           *)
conversationMemberActive == "conversation" \in scopes
EventVisible(scope) ==
  \/ scope = "space"
  \/ scope = "conversation" /\ conversationMemberActive
  \/ scope = "topic" /\ conversationMemberActive /\ "topic" \in scopes

LookupActor == member

Subscribe ==
  /\ conn.phase = "closed"
  /\ conn' = [Closed EXCEPT !.phase = "open"]
  /\ wakeup' = FALSE /\ base' = 0 /\ sent' = <<>> /\ passed' = {}
  /\ UNCHANGED <<hellos, events, nextSeq, writer, member, scopes, listening>>
Close ==
  /\ conn.phase # "closed"
  /\ conn' = Closed /\ wakeup' = FALSE /\ base' = 0 /\ sent' = <<>> /\ passed' = {}
  /\ UNCHANGED <<hellos, events, nextSeq, writer, member, scopes, listening>>

(* Replay begins: the actor, then the newest seq. hello says whether the   *)
(* client asked for it with a cursor of its own.                           *)
StartReplay(hello, lastSeq) ==
  /\ LookupActor
  /\ conn' = [Closed EXCEPT !.phase = "listing", !.hello = hello, !.cursor = lastSeq,
                            !.current = CurrentSeq, !.scan = lastSeq]
ServeHTTP(lastSeq) ==
  /\ conn.phase \in {"open", "ready"} /\ hellos < MaxHellos /\ hellos' = hellos + 1
  /\ \/ /\ lastSeq <= CurrentSeq /\ StartReplay(TRUE, lastSeq)
        /\ base' = lastSeq /\ sent' = <<>> /\ passed' = {}
     \/ /\ LookupActor /\ lastSeq > CurrentSeq
        /\ conn' = [Closed EXCEPT !.phase = "open"] /\ base' = 0 /\ sent' = <<>> /\ passed' = {}
  /\ UNCHANGED <<events, nextSeq, writer, member, scopes, listening, wakeup>>
deliverOnWakeup ==
  /\ conn.phase = "ready" /\ wakeup
  /\ StartReplay(FALSE, conn.cursor)
  /\ wakeup' = FALSE
  /\ UNCHANGED <<events, nextSeq, writer, member, scopes, listening, hellos, base, sent, passed>>
deliverCatchUp ==
  /\ conn.phase = "ready"
  /\ StartReplay(FALSE, conn.cursor)
  /\ wakeup' \in {FALSE, wakeup}      \* the ticker or the channel
  /\ UNCHANGED <<events, nextSeq, writer, member, scopes, listening, hellos, base, sent, passed>>
AccessChanged ==
  /\ conn.phase = "ready" /\ ~LookupActor /\ Close

(* ORDER BY seq.                                                           *)
Ordered(S) == CHOOSE p \in [1..Cardinality(S) -> S] : \A i, j \in DOMAIN p : i < j => p[i] < p[j]
ListEventsAfter ==
  LET after == Ordered({s \in Committed : s > conn.scan})
      page == SubSeq(after, 1, IF Len(after) < BatchSize THEN Len(after) ELSE BatchSize) IN
  /\ conn.phase = "listing"
  /\ conn' = [conn EXCEPT !.phase = "scanning", !.rows = page, !.full = (Len(page) = BatchSize)]
  /\ UNCHANGED <<events, nextSeq, writer, member, scopes, listening, wakeup, hellos, base, sent, passed>>

Replay ==
  LET row == Head(conn.rows)
      visible == EventVisible(events[row])
      next == [conn EXCEPT !.rows = Tail(conn.rows), !.scan = row,
                           !.phase = IF Len(conn.rows) = 1 /\ conn.full THEN "listing" ELSE @] IN
  /\ conn.phase = "scanning" /\ conn.rows # <<>>
  /\ conn' = IF ~visible THEN next
             ELSE IF Len(conn.found) < ReplayLimit THEN [next EXCEPT !.found = Append(@, row)]
             ELSE [next EXCEPT !.phase = "scanning", !.rows = <<>>, !.full = FALSE, !.more = TRUE]
  /\ passed' = IF visible THEN passed ELSE passed \union {row}
  /\ UNCHANGED <<events, nextSeq, writer, member, scopes, listening, wakeup, hellos, base, sent>>

(* The cursor after a replay: the last event sent, or the newest seq seen. *)
NewestSeen == IF conn.scan > conn.current THEN conn.scan ELSE conn.current
deliveredCursor ==
  IF conn.found = <<>> THEN (IF NewestSeen > conn.cursor THEN NewestSeen ELSE conn.cursor)
  ELSE IF Last(conn.found) > conn.cursor THEN Last(conn.found) ELSE conn.cursor
writeEvents ==
  /\ conn.phase = "scanning" /\ conn.rows = <<>>
  /\ sent' = sent \o conn.found
  /\ conn' = [Closed EXCEPT !.phase = "ready", !.cursor = deliveredCursor]
  /\ UNCHANGED <<events, nextSeq, writer, member, scopes, listening, wakeup, hellos, base, passed>>

ReplaySteps == ListEventsAfter \/ Replay \/ writeEvents
RealtimeNext ==
  \/ \E w \in Writers : (\E s \in Appended : WriteEvent(w, s)) \/ Commit(w) \/ Rollback(w)
  \/ ChangeMembership \/ listen \/ ListenFails
  \/ Subscribe \/ Close \/ AccessChanged \/ deliverCatchUp
  \/ \E s \in 0..MaxSeq : ServeHTTP(s)
  \/ ReplaySteps
(* The poll ticker fires for as long as a connection is ready, and the     *)
(* statements of a replay that began end.                                  *)
RealtimeFairness == /\ WF_realtimeVars(deliverCatchUp \/ AccessChanged) /\ WF_realtimeVars(ReplaySteps)
-----------------------------------------------------------------------------
(* A cursor never moves past an event that was neither sent nor found      *)
(* invisible: not past a transaction that took an earlier seq and commits  *)
(* later, nor past what a full page or the replay limit left out           *)
(* (deliveredCursor, WriteEvent).                                          *)
NothingMissed ==
  conn.phase \in {"listing", "scanning", "ready"} =>
    \A s \in Committed : base < s /\ s <= conn.cursor => s \in ToSet(sent) \union passed

(* Since a hello, events reach the client in order and once each.          *)
InOrder == \A i, j \in DOMAIN sent : i < j => sent[i] < sent[j]

(* What is committed reaches a connection that stays open, or is found     *)
(* invisible to its viewer, though every notification may be lost          *)
(* (poll in ServeHTTP).                                                    *)
CatchesUp ==
  \A s \in 1..MaxSeq : (conn.phase # "closed" /\ conn.phase # "open" /\ s \in Committed /\ s > base)
     ~> (conn.phase = "closed" \/ conn.phase = "open" \/ s <= base \/ s \in ToSet(sent) \union passed)

-----------------------------------------------------------------------------
(***************************************************************************)
(* workspace/presence as realtime.ServeHTTP uses it: the leases of one     *)
(* user's connections. Every hello takes a lease with a random id, a       *)
(* second one of the same socket before the first is deleted; heartbeats   *)
(* renew, a process may die without deleting, the worker sweeps.           *)
(***************************************************************************)

CONSTANTS Sockets, Leases,    \* connection ids ever drawn: a bound
          NoLease

VARIABLES present,             \* the user is an active member
          leaseRow,                \* workspace_presence_leases: "none", "live" or "expired"
          open,               \* sockets being served
          active, previous,   \* per socket: its lease, and the one a repeated hello replaces
          drawn, lapsed       \* ghosts: ids used, leases that were not renewed in time

presenceVars == <<present, leaseRow, open, active, previous, drawn, lapsed>>

(* The shape of every variable.                                            *)
PresenceTypeOK ==
  /\ present \in BOOLEAN /\ leaseRow \in [Leases -> {"none", "live", "expired"}] /\ open \subseteq Sockets
  /\ active \in [Sockets -> Leases \union {NoLease}] /\ previous \in [Sockets -> Leases \union {NoLease}]
  /\ drawn \subseteq Leases /\ lapsed \subseteq drawn

PresenceInit ==
  /\ present = TRUE /\ leaseRow = [l \in Leases |-> "none"] /\ open = {}
  /\ active = [s \in Sockets |-> NoLease] /\ previous = [s \in Sockets |-> NoLease]
  /\ drawn = {} /\ lapsed = {}
-----------------------------------------------------------------------------
Register(l) == /\ present /\ l \notin drawn
               /\ leaseRow' = [leaseRow EXCEPT ![l] = "live"] /\ drawn' = drawn \union {l}
CanRenew(l) == present /\ leaseRow[l] = "live"
Delete(l) == IF l = NoLease THEN leaseRow ELSE [leaseRow EXCEPT ![l] = "none"]
IsOnline == present /\ \E l \in Leases : leaseRow[l] = "live"

(* hello: a lease for this socket; its former lease waits to be deleted.   *)
registerPresence(s, l) ==
  /\ previous[s] = NoLease
  /\ Register(l)
  /\ open' = open \union {s}
  /\ active' = [active EXCEPT ![s] = l] /\ previous' = [previous EXCEPT ![s] = active[s]]
  /\ UNCHANGED <<present, lapsed>>
(* The deletion of the former lease; it may time out, and nobody looks.    *)
deletePresence(s) ==
  /\ s \in open /\ previous[s] # NoLease
  /\ leaseRow' \in {Delete(previous[s]), leaseRow}
  /\ previous' = [previous EXCEPT ![s] = NoLease]
  /\ UNCHANGED <<present, open, active, drawn, lapsed>>
Heartbeat(s) ==                    \* a renewal that finds nothing closes the socket
  /\ s \in open /\ previous[s] = NoLease /\ active[s] # NoLease /\ ~CanRenew(active[s])
  /\ leaseRow' = Delete(active[s]) /\ open' = open \ {s} /\ active' = [active EXCEPT ![s] = NoLease]
  /\ UNCHANGED <<present, previous, drawn, lapsed>>
Disconnect(s) ==                   \* the deferred deletion, which may fail too
  /\ s \in open /\ previous[s] = NoLease
  /\ leaseRow' \in {Delete(active[s]), leaseRow}
  /\ open' = open \ {s} /\ active' = [active EXCEPT ![s] = NoLease]
  /\ UNCHANGED <<present, previous, drawn, lapsed>>
ProcessDies ==
  /\ open # {} /\ open' = {} /\ active' = [s \in Sockets |-> NoLease] /\ previous' = active'
  /\ UNCHANGED <<present, leaseRow, drawn, lapsed>>

(* Time: a lease nobody renewed runs out.                                  *)
Lapse(l) ==
  /\ leaseRow[l] = "live" /\ leaseRow' = [leaseRow EXCEPT ![l] = "expired"] /\ lapsed' = lapsed \union {l}
  /\ UNCHANGED <<present, open, active, previous, drawn>>
Expired == {l \in Leases : leaseRow[l] = "expired"}
SweepExpired ==
  /\ Expired # {}
  /\ leaseRow' = [l \in Leases |-> IF l \in Expired THEN "none" ELSE leaseRow[l]]
  /\ UNCHANGED <<present, open, active, previous, drawn, lapsed>>
ChangeMember == /\ present' = ~present /\ UNCHANGED <<leaseRow, open, active, previous, drawn, lapsed>>

Abandoned(l) == leaseRow[l] = "live" /\ \A s \in open : active[s] # l
PresenceNext ==
  \/ \E s \in Sockets : Heartbeat(s) \/ Disconnect(s) \/ deletePresence(s) \/ \E l \in Leases : registerPresence(s, l)
  \/ \E l \in Leases : Lapse(l)
  \/ ProcessDies \/ SweepExpired \/ ChangeMember
(* Time passes for leases nobody renews; nothing is owed by the sweep.     *)
(* The heartbeat ticker fires while a socket is served.                    *)
PresenceFairness ==
  /\ \A l \in Leases : WF_presenceVars(Abandoned(l) /\ Lapse(l))
  /\ \A s \in Sockets : WF_presenceVars(Heartbeat(s)) /\ WF_presenceVars(deletePresence(s))
-----------------------------------------------------------------------------
(* A served socket's lease is in the table until it lapses: neither the    *)
(* other sockets of the user, their clean-up, a repeated hello nor the     *)
(* sweep take it away ("so a concurrent connection cannot be taken         *)
(* offline", realtime/handler.go:252).                                     *)
LeaseKept == \A s \in open : active[s] # NoLease /\ active[s] \notin lapsed => leaseRow[active[s]] = "live"

=============================================================================
