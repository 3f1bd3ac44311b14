CONSTANTS
  Users = {a, b}
  Owner = a
  Roles = {"owner", "member"}
  Invites = {i1}
  MaxUses = 1
  Changes = {x1, x2}
  Logins = {l1, l2}
  Sessions = {s1}
  MaxRemovals = 1
  NoUser = NoUser
  NoInvite = NoInvite
  Discoverable = {a}
  Convs = {c1, c2}
  Requests = {q1, q2}
  NoConv = NoConv
  Admins = {a}
  Keys = {k1}
  Contents = {x}
  Creates = {r1, r2}
  RetentionCount = 1
  MaxPinnedMessages = 1
  MaxMessages = 3
  Nobody = Nobody
  Visitors = {b}
  MaxPosts = 2
  MaxCopies = 2
  MaxRevision = 2
  People = {"v", "w"}
  Viewer = "v"
  Settings = {q1, q2}
  Levels = {"all", "muted"}
  NotGiven = "-"
  NoName = "no"
  KeptNotices = 2
  MaxOps = 2
  MaxChanges = 1
  Rows = {1, 2, 3, 4}
  Limit = 2
  KeptRows = 2
  MaxPins = 1
SPECIFICATION ChatSpec
INVARIANTS  ContentConsistent
PROPERTIES LastOwnerKept 
SYMMETRY Interchangeable
\* The bounds on requests and changes end a behaviour.
CHECK_DEADLOCK FALSE
