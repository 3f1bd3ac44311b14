CONSTANTS
  Pics = {p, q}
  MaxRows = 3
  MaxRevision = 3
  MaxSent = 1
  MaxEdits = 4
  Limit = 2
  People = {u, v}
  Requests = {r1, r2}
  NoPic = NoPic
  NoUser = NoUser
  MaxMishaps = 1
  BlobCalls = {c1, c2}
  MaxBlobMishaps = 2
  MaxOps = 5
  Readers = {t1, t2}
  Closers = {t3, t4}
  ExpectedLength = 3
  Tabs = {r1, r2}
  Builtins = {k1}
  MaxLibraryRows = 3
  MaxEntries = 4
  Packs = {"a", "b"}
  DefaultPacks = {"a"}
  Absent = "-"
  Digests = {1, 2}
  AuditResources = {1, 2}
  Size = 2
  MaxTotal = 5
  MaxAuditChanges = 2
  Operators = {"o1", "o2"}
  MaxPolicyEdits = 1
  MaxAnswersLost = 1
  Transfers = {t1, t2}
  Downloads = {r1, r2}
  FileSizes = {1}
  Quota = 1
  DayLength = 2
  GrantTTL = 0
  StaleAge = 0
  MaxTime = 2
SPECIFICATION Spec
INVARIANTS  BytesKept 
PROPERTIES SettledStays
\* The bounds on rows, edits, calls and time end a behaviour.
CHECK_DEADLOCK FALSE
