SPECIFICATION BotsSpec
CONSTANTS BotIds = {b1, b2} Setups = {s1} Tokens = {t1, t2} Scopes = {x, y}
          Requests = {q1, q2, q3} Keys = {k} Contents = {c, d} NoAnswer = NoAnswer
          MaxSeq = 3 ReplayLimit = 1 ScanFactor = 2 BacklogLimit = 2 Cursors = {0} MaxReplays = 2 MaxChanges = 1
          CardCalls = {a1, a2, a3, a4} NoAction = NoAction MaxCardRevision = 4
          Invocations = {i} Hashes = {h1, h2} Callers = {r1, r2, r3} NoCaller = NoCaller
          Workflows = {w1, w2} Steps = {u1, u2, u3, u4} NoWorkflow = NoWorkflow MaxRevision = 2
          Conversations = {"direct", "group"} Limits = {0} MaxMessages = 2 MaxEdits = 3 MaxContext = 2
          Editors = {e1, e2} ContextReads = {r1}
          MaxLine = 6 MaxTokens = 2 MaxBytes = 2
          Registered = {"confirm", "cancel"} MaxNodes = 30 MaxDepth = 5 MaxText = 4 MaxClicks = 1 MaxUpdates = 2
          Readers = {"u1", "u2"} Author = "u1" Kind = "direct" PoolSize = 3 MaxEventChanges = 1
INVARIANTS  BotsWithinConsent 
 
\* Requests and steps are used up.
CHECK_DEADLOCK FALSE
