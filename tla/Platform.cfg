CONSTANTS
  Resources = {1, 2, 3, 4}
  Late = {1}
  Avatars = {2}
  Clones = {4}
  SourceOf <- LastFromThird
  Workers = {w1, w2}
  NoWorker = NoWorker
  PageSize = 2
  MaxMishaps = 1
  MaxChanges = 1
  MaxStarts = 4
  LeftoverKeys = {1, 2, 3}
  MaxWrites = 3
  MaxFaults = 1
  Processes = {p1, p2}
  NoProcess = NoProcess
  Baseline = 1
  Latest = 3
  MaxFailures = 2
  HttpRequests = {r1, r2}
  Sockets = {s1}
  Processors = {p1, p2}
  PictureRequests = {"r1", "r2"}
  Slots = 1
  MaxInputEdge = 3
  MaxInputPixels = 9
  MaxFrames = 2
  MaxDurationMS = 4
  TargetSize = 2
  FallbackSize = 1
  MaxOutputBytes = 5
  FileUploads = {u1}
  Objects = {o1}
  Parts = {p1}
  FileWorkers = {w1, w2}
  None = None
SPECIFICATION Spec
  
PROPERTIES FencedOff 
\* A completed backfill stops, and so does a process.
CHECK_DEADLOCK FALSE
