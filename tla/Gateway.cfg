SPECIFICATION GatewaySpec
CONSTANTS Writers = {w1, w2} ReplayLimit = 1 BatchSize = 2 Appended = {"topic"} MaxSeq = 3 MaxHellos = 2
          Sockets = {1, 2} Leases = {l1, l2, l3} NoLease = NoLease
          BotSockets = {b1, b2, b3} NoSocket = NoSocket
          Rows = {"own", "bot", "x"} Profiles <- GitHubProfiles SeededOwner = "own" Robot = "bot" OwnerLogin = "o" OwnerEmail = "oe"
          Logins = {l1, l2} None = None MaxLeaves = 1
          Starts = {1, 2} MobileStarts = {2} Targets = {t1}
          Flows = {f} Calls = {c1, c2, c3} Pairs = {p1, p2, p3} NoFlow = NoFlow NoToken = NoToken
INVARIANTS GatewaySound 
PROPERTIES BoundOnce CatchesUp NobodyWaitsForEver
\* The bounds on events, hellos and sign-ins end a behaviour.
CHECK_DEADLOCK FALSE
