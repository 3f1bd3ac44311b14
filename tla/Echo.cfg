SPECIFICATION Spec
CONSTANTS Users = {u1} Couriers = {c1, c2} NoUser = NoUser MaxAttempts = 2 MaxSourceRevision = 3 MaxMishaps = 1
          Requests = {r1, r2, r3} Voters = {v1} NoVoter = NoVoter Keys = {k1} AllowVoteChange = TRUE MaxSolRevision = 5
          People = {p1, p2} Submitter = p1 NoPerson = NoPerson ReqCouriers = {c1} ReqKeys = {k1} SubmitKey = k1
          Targets = {"planned", "rejected"} MaxReqRevision = 3 MaxTroubles = 1
          Members = {u1, u2} NoMember = NoMember Guides = {g1, g2} NoGuide = NoGuide RelCouriers = {c1, c2}
          MaxRelAttempts = 2 MaxRelTroubles = 1
          AutomationCalls = {"c1", "c2"} AutomationKeys = {"k"}
 
PROPERTIES EchoStepsAllowed  EventuallyShown
\* The bounds on revisions, attempts and calls end a behaviour.
CHECK_DEADLOCK FALSE
