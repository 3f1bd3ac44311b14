\* Liveness: rooms end, and a shutdown closes every connection.
SPECIFICATION FairSpec
CONSTANTS
  Conns = {c1, c2}
  RoomIds = {r1}
  Requests = {h1}
  Closers = {s1, s2}
  MaxPeers = 1
  MaxRooms = 1
  RoomTTL = 1
  EmptyRoomGrace = 1
  LockDelay = 0
  MaxCreates = 1
  MaxTime = 1
CHECK_DEADLOCK FALSE
INVARIANTS TypeOK ShutdownBarrier
PROPERTIES RoomsEnd ShutdownDrains
