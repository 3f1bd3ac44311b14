------------------------------ MODULE P2PRooms ------------------------------
(***************************************************************************)
(* The private lane: the in-memory room manager (internal/p2p/rooms.go)    *)
(* and the WebSocket handler goroutine that drives it                      *)
(* (internal/p2p/transport.go).                                            *)
(*                                                                         *)
(* Every section the code runs under Manager.mu is one action.  What the   *)
(* code does after it releases the mutex (frames sent to peers, peers      *)
(* closed, nested calls of Leave) is a stack of tasks of the goroutine     *)
(* that made the call, run one step at a time and interleaved with every   *)
(* other goroutine.  A peer id is fresh for each Join, so a peer is named  *)
(* by its connection.                                                      *)
(***************************************************************************)
EXTENDS Integers, FiniteSets, Sequences

CONSTANTS
  Conns,          \* WebSocket connections a client may open
  RoomIds,        \* values makeRoomID may return
  Requests,       \* HTTP request goroutines (create room, room status)
  Closers,        \* goroutines that call Manager.Close
  MaxPeers,       \* MaxRoomPeers
  MaxRooms,       \* ManagerOptions.MaxRooms
  RoomTTL,        \* ManagerOptions.RoomTTL, in ticks
  EmptyRoomGrace, \* ManagerOptions.EmptyRoomGrace, in ticks
  LockDelay,      \* bound: ticks between m.now() and m.mu.Lock()
  MaxCreates,     \* bound: rooms ever created
  MaxTime         \* bound: ticks of the clock

ASSUME P2PAssumption ==
  /\ {MaxPeers, MaxRooms, RoomTTL} \subseteq Nat \ {0}
  /\ {EmptyRoomGrace, LockDelay, MaxCreates, MaxTime} \subseteq Nat
  /\ Conns \cap Requests = {} /\ Conns \cap Closers = {}
  /\ Requests \cap Closers = {}

VARIABLES
  rooms,      \* Manager.rooms: a partial function from RoomIds
  closed,     \* Manager.closed
  closeDone,  \* Manager.closeDone has been closed
  callbacks,  \* timer callbacks that fired and wait for Manager.mu
  detached,   \* peers a finished expiry callback is still closing
  conn,       \* state of each WebSocket
  phase,      \* where each goroutine is between two calls of the manager
  roomOf,     \* the room id each connection asked for
  tasks,      \* what each goroutine has left to do outside the mutex
  now,        \* the clock
  created,    \* rooms created so far, which numbers roomState objects
  failedSend, \* history: peers some Send to which failed
  shutdown    \* history: the peers that were members when Close ran

manager == <<rooms, closed, closeDone, created>>
history == <<failedSend, shutdown>>
vars == <<rooms, closed, closeDone, callbacks, detached, conn, phase, roomOf,
          tasks, now, created, failedSend, shutdown>>

Goroutines == Conns \cup Requests \cup Closers
Never == -1
NoRoom == "none"
Time == 0 .. MaxTime
Events == {"joined", "peer-joined", "peer-left", "peer-list", "secure"}

(***************************************************************************)
(* Pieces of the manager.                                                  *)
(***************************************************************************)
\* m.now() is read before m.mu.Lock(), so a section may use an older time.
SampledNow == {t \in Time : t <= now /\ now - t <= LockDelay}

Expired(t) == {id \in DOMAIN rooms : rooms[id].expiresAt <= t}
pruneExpiredLocked(t) == [id \in DOMAIN rooms \ Expired(t) |-> rooms[id]]
ExpiredPeersForgotten(t) == {}
ExpiredPeers(t) == UNION {rooms[id].peers : id \in Expired(t)}

Without(rs, id) == [r \in DOMAIN rs \ {id} |-> rs[r]]
IsMember(rs, id, p) == id \in DOMAIN rs /\ p \in rs[id].peers
HasSlotOffByOne(rs, id) == id \in DOMAIN rs /\ Cardinality(rs[id].peers) <= MaxPeers
HasSlot(rs, id) == id \in DOMAIN rs /\ Cardinality(rs[id].peers) < MaxPeers
Members == UNION {rooms[id].peers : id \in DOMAIN rooms}

\* The tasks.  A task with nothing to do is no task.
closePeers(ps) == IF ps = {} THEN <<>> ELSE <<[op |-> "close", peers |-> ps]>>
sendPeers(id, ps, event) ==
  IF ps = {} THEN <<>>
  ELSE <<[op |-> "send", id |-> id, peers |-> ps, event |-> event, failed |-> {}]>>
leaveAll(id, ps, immediate) ==
  IF ps = {} THEN <<>>
  ELSE <<[op |-> "leave", id |-> id, peers |-> ps, immediate |-> immediate]>>
broadcast(id, event) == <<[op |-> "broadcast", id |-> id, event |-> event]>>
roomCount == <<[op |-> "count"]>>

Current(g, op) == tasks[g] # <<>> /\ Head(tasks[g]).op = op
Idle(g) == tasks[g] = <<>>
Start(g, ts) == tasks' = [tasks EXCEPT ![g] = ts]
Replace(g, ts) == tasks' = [tasks EXCEPT ![g] = ts \o Tail(tasks[g])]

(***************************************************************************)
(* HTTP handlers: POST /api/p2p/rooms, and the calls that only prune.      *)
(***************************************************************************)
\* A created room; its timer is set when the lock is held, its ExpiresAt is
\* computed from the time read before.
NewRoomWithoutTimer(t) ==
  [inc |-> created + 1, expiresAt |-> t + RoomTTL, expiryAt |-> Never,
   peers |-> {}, cleanupAt |-> Never, emptySince |-> now]
NewRoom(t) ==
  [inc |-> created + 1, expiresAt |-> t + RoomTTL, expiryAt |-> now + RoomTTL,
   peers |-> {}, cleanupAt |-> Never, emptySince |-> now]

Create(g) ==
  /\ Idle(g) /\ ~closed
  /\ created < MaxCreates /\ now + RoomTTL <= MaxTime
  /\ \E t \in SampledNow, id \in RoomIds :
       /\ Cardinality(DOMAIN pruneExpiredLocked(t)) < MaxRooms
       /\ id \notin DOMAIN pruneExpiredLocked(t)
       /\ rooms' = [r \in DOMAIN pruneExpiredLocked(t) \cup {id} |->
                      IF r = id THEN NewRoom(t) ELSE rooms[r]]
       /\ Start(g, closePeers(ExpiredPeers(t)) \o roomCount)
  /\ created' = created + 1
  /\ UNCHANGED <<closed, closeDone, callbacks, detached, conn, phase, roomOf, now, history>>

\* Status, and a Create refused for the room limit or for want of an id.
Status(g) ==
  /\ Idle(g) /\ ~closed
  /\ \E t \in SampledNow :
       /\ Expired(t) # {}
       /\ rooms' = pruneExpiredLocked(t)
       /\ Start(g, closePeers(ExpiredPeers(t)))
  /\ UNCHANGED <<closed, closeDone, callbacks, detached, conn, phase, roomOf, now, created, history>>

\* RoomCount, which every handler calls to set the room gauge; it prunes
\* whether or not the manager is closed.
RoomCount(g) ==
  /\ Current(g, "count")
  /\ \E t \in SampledNow :
       /\ rooms' = pruneExpiredLocked(t)
       /\ Replace(g, closePeers(ExpiredPeers(t)))
  /\ UNCHANGED <<closed, closeDone, callbacks, detached, conn, phase, roomOf, now, created, history>>

(***************************************************************************)
(* Join, and the handler around it.                                        *)
(***************************************************************************)
Accepted(c, id) ==
  /\ phase[c] = "idle" /\ Idle(c)
  /\ conn' = [conn EXCEPT ![c] = "open"]
  /\ roomOf' = [roomOf EXCEPT ![c] = id]
  /\ UNCHANGED <<closed, closeDone, callbacks, detached, now, created, history>>

\* ErrManagerClosed, ErrRoomNotFound, ErrRoomFull: the handler closes the
\* connection.
JoinRefused(c, id) ==
  /\ Accepted(c, id)
  /\ phase' = [phase EXCEPT ![c] = "leaving"]
  /\ \/ /\ closed
        /\ rooms' = rooms
        /\ Start(c, closePeers({c}))
     \/ /\ ~closed
        /\ \E t \in SampledNow :
             /\ ~HasSlot(pruneExpiredLocked(t), id)
             /\ rooms' = pruneExpiredLocked(t)
             /\ Start(c, closePeers(ExpiredPeers(t)) \o closePeers({c}))

\* newPeerID failed: the cleanup timer was already stopped and stays stopped.
JoinWithoutPeerId(c, id) ==
  /\ Accepted(c, id)
  /\ ~closed
  /\ phase' = [phase EXCEPT ![c] = "leaving"]
  /\ \E t \in SampledNow :
       /\ HasSlot(pruneExpiredLocked(t), id)
       /\ rooms' = [pruneExpiredLocked(t) EXCEPT ![id].cleanupAt = Never]
       /\ Start(c, closePeers(ExpiredPeers(t)) \o closePeers({c}))

Join(c, id) ==
  /\ Accepted(c, id)
  /\ ~closed
  /\ phase' = [phase EXCEPT ![c] = "joining"]
  /\ \E t \in SampledNow :
       /\ HasSlot(pruneExpiredLocked(t), id)
       /\ rooms' = [pruneExpiredLocked(t) EXCEPT
                      ![id].cleanupAt = Never, ![id].peers = @ \cup {c}]
       /\ Start(c, closePeers(ExpiredPeers(t))
                     \o <<[op |-> "joined", existing |-> rooms[id].peers]>>)

\* A Join whose first frame failed undoes itself; the handler closes.
JoinFailedWithoutLeave(c) == closePeers({c})
JoinFailed(c) == leaveAll(roomOf[c], {c}, TRUE) \o closePeers({c})

\* The first frame Join sends, to the peer that joined.
JoinSendsJoined(c) ==
  /\ Current(c, "joined")
  /\ \/ /\ conn[c] = "open"
        /\ phase' = [phase EXCEPT ![c] = "reading"]
        /\ Replace(c, sendPeers(roomOf[c], Head(tasks[c]).existing, "peer-joined")
                        \o broadcast(roomOf[c], "peer-list") \o roomCount)
        /\ failedSend' = failedSend
     \/ /\ phase' = [phase EXCEPT ![c] = "leaving"]
        /\ Replace(c, JoinFailed(c))
        /\ failedSend' = failedSend \cup {c}
  /\ UNCHANGED <<manager, callbacks, detached, conn, roomOf, now, shutdown>>

(***************************************************************************)
(* Leave and broadcast, wherever they are called from.                     *)
(***************************************************************************)
\* The room after peer p left: removed, or its cleanup timer set.
AfterLeave(rs, id, p, immediate) ==
  LET left == rs[id].peers \ {p} IN
  IF left # {} THEN [rs EXCEPT ![id].peers = left]
  ELSE IF immediate \/ EmptyRoomGrace = 0 THEN Without(rs, id)
  ELSE [rs EXCEPT ![id].peers = {}, ![id].emptySince = now,
                  ![id].cleanupAt = now + EmptyRoomGrace]

Leave(g) ==
  /\ Current(g, "leave")
  /\ LET task == Head(tasks[g]) IN
     \E p \in task.peers, t \in SampledNow :
       LET rest == leaveAll(task.id, task.peers \ {p}, task.immediate)
           rs == pruneExpiredLocked(t)
       IN \/ /\ closed
             /\ rooms' = rooms
             /\ Replace(g, rest)
          \/ /\ ~closed /\ ~IsMember(rs, task.id, p)
             /\ rooms' = rs
             /\ Replace(g, closePeers(ExpiredPeers(t)) \o rest)
          \/ /\ ~closed /\ IsMember(rs, task.id, p)
             /\ rooms' = AfterLeave(rs, task.id, p, task.immediate)
             /\ Replace(g, closePeers(ExpiredPeers(t))
                             \o broadcast(task.id, "peer-left")
                             \o (IF rs[task.id].peers = {p} THEN <<>>
                                 ELSE broadcast(task.id, "peer-list"))
                             \o rest)
  /\ UNCHANGED <<closed, closeDone, callbacks, detached, conn, phase, roomOf, now, created, history>>

Broadcast(g) ==
  /\ Current(g, "broadcast")
  /\ LET task == Head(tasks[g]) IN
     Replace(g, IF task.id \in DOMAIN rooms /\ ~closed
                THEN sendPeers(task.id, rooms[task.id].peers, task.event) ELSE <<>>)
  /\ UNCHANGED <<manager, callbacks, detached, conn, phase, roomOf, now, history>>

(***************************************************************************)
(* Relay, and the frames a client sends.                                   *)
(***************************************************************************)
Relay(c) ==
  /\ phase[c] = "reading" /\ Idle(c) /\ conn[c] = "open" /\ ~closed
  /\ \E t \in SampledNow :
       /\ rooms' = pruneExpiredLocked(t)
       /\ Start(c, closePeers(ExpiredPeers(t)) \o
                   (IF IsMember(pruneExpiredLocked(t), roomOf[c], c)
                    THEN sendPeers(roomOf[c], rooms[roomOf[c]].peers \ {c}, "secure")
                    ELSE <<>>))
  /\ UNCHANGED <<closed, closeDone, callbacks, detached, conn, phase, roomOf, now, created, history>>

\* What the handler's deferred function runs when the read loop ends.
Deferred(c) == leaveAll(roomOf[c], {c}, FALSE) \o roomCount \o closePeers({c})

\* A read error: the connection is closed.
ReadFails(c) ==
  /\ phase[c] = "reading" /\ Idle(c) /\ conn[c] = "closed"
  /\ phase' = [phase EXCEPT ![c] = "leaving"]
  /\ Start(c, Deferred(c))
  /\ UNCHANGED <<manager, callbacks, detached, conn, roomOf, now, history>>

\* The client's leave frame.
ClientLeaves(c) ==
  /\ phase[c] = "reading" /\ Idle(c) /\ conn[c] = "open"
  /\ phase' = [phase EXCEPT ![c] = "leaving"]
  /\ Start(c, leaveAll(roomOf[c], {c}, TRUE) \o closePeers({c}) \o Deferred(c))
  /\ UNCHANGED <<manager, callbacks, detached, conn, roomOf, now, history>>

\* The network or the client closes the socket; so does an oversized frame.
ClientDrops(c) ==
  /\ conn[c] = "open"
  /\ conn' = [conn EXCEPT ![c] = "closed"]
  /\ UNCHANGED <<manager, callbacks, detached, phase, roomOf, tasks, now, history>>

(***************************************************************************)
(* Frames and closes outside the mutex.                                    *)
(***************************************************************************)
\* sendPeer to one of the recipients left.  A Send may fail on an open
\* connection (its two second deadline); it cannot succeed on a closed one.
\* When the last recipient was tried, the failed ones leave.
Send(g) ==
  /\ Current(g, "send")
  /\ LET task == Head(tasks[g]) IN
     \E p \in task.peers, ok \in BOOLEAN :
       LET failed == IF ok THEN task.failed ELSE task.failed \cup {p}
           left == task.peers \ {p}
       IN /\ ok => conn[p] = "open"
          /\ Replace(g, IF left = {} THEN leaveAll(task.id, failed, FALSE)
                        ELSE <<[task EXCEPT !.peers = left, !.failed = failed]>>)
          /\ failedSend' = IF ok THEN failedSend ELSE failedSend \cup {p}
  /\ UNCHANGED <<manager, callbacks, detached, conn, phase, roomOf, now, shutdown>>

\* One peer of a closePeersWithReason batch; the batch ends when all are
\* closed, gracefully or, after the budget, by force.
ClosePeer(g) ==
  /\ Current(g, "close")
  /\ \E p \in Head(tasks[g]).peers :
       /\ conn' = [conn EXCEPT ![p] = "closed"]
       /\ Replace(g, closePeers(Head(tasks[g]).peers \ {p}))
  /\ UNCHANGED <<manager, callbacks, detached, phase, roomOf, now, history>>

(***************************************************************************)
(* Timers.                                                                 *)
(***************************************************************************)
ExpiryFires(id) ==
  /\ id \in DOMAIN rooms
  /\ rooms[id].expiryAt # Never /\ rooms[id].expiryAt <= now
  /\ callbacks' = callbacks \cup
       {[kind |-> "expire", id |-> id, inc |-> rooms[id].inc, at |-> rooms[id].expiryAt]}
  /\ rooms' = [rooms EXCEPT ![id].expiryAt = Never]
  /\ UNCHANGED <<closed, closeDone, detached, conn, phase, roomOf, tasks, now, created, history>>

CleanupFires(id) ==
  /\ id \in DOMAIN rooms
  /\ rooms[id].cleanupAt # Never /\ rooms[id].cleanupAt <= now
  /\ callbacks' = callbacks \cup
       {[kind |-> "cleanup", id |-> id, inc |-> rooms[id].inc, at |-> rooms[id].cleanupAt]}
  /\ rooms' = [rooms EXCEPT ![id].cleanupAt = Never]
  /\ UNCHANGED <<closed, closeDone, detached, conn, phase, roomOf, tasks, now, created, history>>

\* The callback removes the room only if the id still names the roomState it
\* was set for; the cleanup callback also only if that room is empty.
RemovesById(cb) ==
  /\ ~closed /\ cb.id \in DOMAIN rooms
  /\ cb.kind = "cleanup" => rooms[cb.id].peers = {}
Removes(cb) ==
  /\ ~closed
  /\ cb.id \in DOMAIN rooms /\ rooms[cb.id].inc = cb.inc
  /\ cb.kind = "cleanup" => rooms[cb.id].peers = {}

RunCallback(cb) ==
  /\ cb \in callbacks
  /\ callbacks' = callbacks \ {cb}
  /\ IF Removes(cb)
     THEN /\ rooms' = Without(rooms, cb.id)
          /\ detached' = detached \cup rooms[cb.id].peers
     ELSE UNCHANGED <<rooms, detached>>
  /\ UNCHANGED <<closed, closeDone, conn, phase, roomOf, tasks, now, created, history>>

CloseDetached(p) ==
  /\ p \in detached
  /\ detached' = detached \ {p}
  /\ conn' = [conn EXCEPT ![p] = "closed"]
  /\ UNCHANGED <<manager, callbacks, phase, roomOf, tasks, now, history>>

Tick ==
  /\ now < MaxTime
  /\ now' = now + 1
  /\ UNCHANGED <<manager, callbacks, detached, conn, phase, roomOf, tasks, history>>

(***************************************************************************)
(* Shutdown.                                                               *)
(***************************************************************************)
ShutdownBatchMissing == <<>>
ShutdownBatch == closePeers(Members)

CloseFirst(s) ==
  /\ phase[s] = "idle" /\ ~closed
  /\ closed' = TRUE
  /\ rooms' = [id \in {} |-> 0]
  /\ shutdown' = Members
  /\ phase' = [phase EXCEPT ![s] = "closing"]
  /\ Start(s, ShutdownBatch)
  /\ UNCHANGED <<closeDone, callbacks, detached, conn, roomOf, now, created, failedSend>>

CloseReturns(s) ==
  /\ phase[s] = "closing" /\ Idle(s)
  /\ closeDone' = TRUE
  /\ phase' = [phase EXCEPT ![s] = "returned"]
  /\ UNCHANGED <<rooms, closed, callbacks, detached, conn, roomOf, tasks, now, created, history>>

\* A second caller waits for the first one's batch.
CloseAgainWithoutWait(s) ==
  /\ phase[s] = "idle" /\ closed
  /\ phase' = [phase EXCEPT ![s] = "returned"]
  /\ UNCHANGED <<manager, callbacks, detached, conn, roomOf, tasks, now, history>>
CloseAgain(s) ==
  /\ phase[s] = "idle" /\ closed /\ closeDone
  /\ phase' = [phase EXCEPT ![s] = "returned"]
  /\ UNCHANGED <<manager, callbacks, detached, conn, roomOf, tasks, now, history>>

-----------------------------------------------------------------------------
Init ==
  /\ rooms = [id \in {} |-> 0]
  /\ closed = FALSE /\ closeDone = FALSE
  /\ callbacks = {} /\ detached = {}
  /\ conn = [c \in Conns |-> "none"]
  /\ phase = [g \in Goroutines |-> "idle"]
  /\ roomOf = [c \in Conns |-> NoRoom]
  /\ tasks = [g \in Goroutines |-> <<>>]
  /\ now = 0 /\ created = 0
  /\ failedSend = {} /\ shutdown = {}

Internal(g) ==
  RoomCount(g) \/ Leave(g) \/ Broadcast(g) \/ Send(g) \/ ClosePeer(g)

Next ==
  \/ \E g \in Requests : Create(g) \/ Status(g)
  \/ \E c \in Conns, id \in RoomIds :
       JoinRefused(c, id) \/ JoinWithoutPeerId(c, id) \/ Join(c, id)
  \/ \E c \in Conns :
       JoinSendsJoined(c) \/ Relay(c) \/ ReadFails(c) \/ ClientLeaves(c) \/ ClientDrops(c)
  \/ \E g \in Goroutines : Internal(g)
  \/ \E id \in RoomIds : ExpiryFires(id) \/ CleanupFires(id)
  \/ \E cb \in callbacks : RunCallback(cb)
  \/ \E p \in detached : CloseDetached(p)
  \/ \E s \in Closers : CloseFirst(s) \/ CloseReturns(s) \/ CloseAgain(s)
  \/ Tick

\* Goroutines that hold work run on; timers fire and their callbacks run; the
\* clock moves.  Nothing obliges a client or an operator to act.
Fairness ==
  /\ \A g \in Goroutines : WF_vars(Internal(g))
  /\ \A c \in Conns : WF_vars(JoinSendsJoined(c)) /\ WF_vars(ReadFails(c))
  /\ \A id \in RoomIds : WF_vars(ExpiryFires(id)) /\ WF_vars(CleanupFires(id))
  /\ WF_vars(\E cb \in callbacks : RunCallback(cb))
  /\ WF_vars(\E p \in detached : CloseDetached(p))
  /\ \A s \in Closers : WF_vars(CloseReturns(s))
  /\ WF_vars(Tick)

Spec == Init /\ [][Next]_vars
FairSpec == Spec /\ Fairness

(***************************************************************************)
(* Properties.                                                             *)
(***************************************************************************)
RoomState ==
  [inc : 1 .. MaxCreates, expiresAt : Nat, expiryAt : Nat \cup {Never},
   peers : {ps \in SUBSET Conns : Cardinality(ps) <= MaxPeers},
   cleanupAt : Nat \cup {Never}, emptySince : Time]

Task ==
  [op : {"close"}, peers : SUBSET Conns]
    \cup [op : {"send"}, id : RoomIds, peers : SUBSET Conns, event : Events,
          failed : SUBSET Conns]
    \cup [op : {"leave"}, id : RoomIds, peers : SUBSET Conns, immediate : BOOLEAN]
    \cup [op : {"broadcast"}, id : RoomIds, event : Events]
    \cup [op : {"count"}]
    \cup [op : {"joined"}, existing : SUBSET Conns]

\* The manager's state and the work of every goroutine are well formed, and no
\* room ever holds more than MaxRoomPeers peers.
TypeOK ==
  /\ DOMAIN rooms \subseteq RoomIds
  /\ \A id \in DOMAIN rooms : rooms[id] \in RoomState
  /\ Cardinality(DOMAIN rooms) <= MaxRooms
  /\ closed \in BOOLEAN /\ closeDone \in BOOLEAN
  /\ \A cb \in callbacks : cb.id \in RoomIds /\ cb.inc \in 1 .. MaxCreates
  /\ detached \subseteq Conns
  /\ conn \in [Conns -> {"none", "open", "closed"}]
  /\ phase \in [Goroutines ->
       {"idle", "joining", "reading", "leaving", "closing", "returned"}]
  /\ roomOf \in [Conns -> RoomIds \cup {NoRoom}]
  /\ \A g \in Goroutines : \A i \in 1 .. Len(tasks[g]) : tasks[g][i] \in Task
  /\ now \in Time /\ created \in 0 .. MaxCreates
  /\ failedSend \subseteq Conns /\ shutdown \subseteq Conns

\* A connection whose handler goroutine has returned holds no slot of any
\* room: every way out of the handler, the failed Join included, goes through
\* a Leave that finds the peer (transport.go websocket, rooms.go Join).
NoGhostPeer ==
  \A c \in Conns : phase[c] = "leaving" /\ Idle(c) => c \notin Members

BeingClosed(c) ==
  \/ c \in detached
  \/ \E g \in Goroutines : \E i \in 1 .. Len(tasks[g]) :
       tasks[g][i].op = "close" /\ c \in tasks[g][i].peers

\* A handler that waits for frames on an open connection is a member of a live
\* room, or some goroutine is about to close it, unless a Send to it failed:
\* pruning, expiry and shutdown never forget a peer they removed.
NoOrphanConnection ==
  \A c \in Conns :
    phase[c] = "reading" /\ conn[c] = "open" /\ c \notin failedSend
      => c \in Members \/ BeingClosed(c)

\* A call of Close that returned, the first or a concurrent one, leaves no room
\* and no open connection among the peers that were members: every caller
\* waits for the close batch.
ShutdownBarrier ==
  \A s \in Closers : phase[s] = "returned" =>
    closed /\ DOMAIN rooms = {} /\ \A p \in shutdown : conn[p] = "closed"

Removed(id) == id \notin DOMAIN rooms' \/ rooms'[id].inc # rooms[id].inc

\* While the manager is open, a room that has not expired is never removed
\* under a peer that is neither leaving nor unreachable: no timer of an earlier
\* room with the same id, and no cleanup timer a Join came too late to stop,
\* can do it.
RoomKeptForMembers ==
  [][\A id \in DOMAIN rooms :
       Removed(id) /\ ~closed' /\ now < rooms[id].expiresAt
         => \A p \in rooms[id].peers : phase[p] = "leaving" \/ p \in failedSend]_vars

Live(n) == \E id \in DOMAIN rooms : rooms[id].inc = n

\* Every room is removed in the end, whatever its peers do.
RoomsEnd == \A n \in 1 .. MaxCreates : Live(n) ~> ~Live(n)

\* After a shutdown started, every open connection is closed in the end,
\* those that join during it included, unless a Send to it failed.
ShutdownDrains ==
  \A c \in Conns :
    closed /\ conn[c] = "open" ~> conn[c] = "closed" \/ c \in failedSend
=============================================================================
