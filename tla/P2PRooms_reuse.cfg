\* Two connections, one room id created twice: timers of the first room
\* against the second, no grace, so a room may end and come back at once.
SPECIFICATION Spec
CONSTANTS
  Conns = {c1, c2}
  RoomIds = {r1}
  Requests = {h1}
  Closers = {}
  MaxPeers = 2
  MaxRooms = 1
  RoomTTL = 1
  EmptyRoomGrace = 0
  LockDelay = 1
  MaxCreates = 2
  MaxTime = 2
CHECK_DEADLOCK FALSE
INVARIANTS NoGhostPeer NoOrphanConnection
PROPERTIES RoomKeptForMembers
