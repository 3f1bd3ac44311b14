--------------------------- MODULE FileStoreProofs ---------------------------
(***************************************************************************)
(* What FileStore guarantees for every set of uploads, contents, parts and *)
(* workers.  The invariants below are inductive together; each theorem     *)
(* names the ones it needs.                                                *)
(***************************************************************************)
EXTENDS FileStore, TLAPS

PartSteps == {"part_lock", "part_put", "part_commit", "part_cleanup"}
Putting == {"complete_put", "complete_commit"}
Deleting == {"cleanup_delete", "cleanup_commit"}
ObjectSteps == {"complete_lock", "cleanup_lock"} \cup Putting \cup Deleting
UploadSteps == {"part_put", "part_commit", "maint_commit"} \cup Putting

\* A job carries the arguments its step uses.
Carries(step, u, o, p) ==
  /\ step # "idle" => u \in Uploads
  /\ step \in PartSteps => p \in Parts
  /\ step \in ObjectSteps => o \in Objects
JobArguments == \A w \in Workers : Carries(pc(w), up(w), ob(w), part(w))

TypeInv == TypeOK /\ JobArguments

\* Two transactions never hold the same key, and one whose session is alive
\* holds the keys of the step it is at.
LocksHeld ==
  /\ \A v, w \in Workers : v # w => holds[v] \cap holds[w] = {}
  /\ \A w \in Workers \ lost :
       /\ pc(w) \in UploadSteps => uploadLockKey(up(w)) \in holds[w]
       /\ pc(w) \in Putting \cup Deleting => storageObjectLockKey(ob(w)) \in holds[w]

\* What maintenance confirmed is still so when it commits.
ConfirmedStands ==
  \A w \in Workers \ lost : pc(w) = "maint_commit" => transfer[up(w)] = "reserved"
StaleStands ==
  \A w \in Workers \ lost : pc(w) = "maint_commit" => stale[up(w)]

\* While a cleanup deletes an object nothing refers to it; what a completion is
\* about to bind is in the blob store; what is bound is live and present.
ObjectsSafe ==
  /\ \A w \in Workers : pc(w) \in Deleting => \A u \in Uploads : object[u] # ob(w)
  /\ \A w \in Workers : pc(w) = "complete_commit" => ob(w) \in blob
  /\ \A u \in Uploads : object[u] # None => object[u] \in blob /\ row[object[u]] = "live"

LedgerInv == TypeInv /\ LocksHeld /\ ConfirmedStands /\ StaleStands /\ LedgerAgrees
ObjectInv == LedgerInv /\ lost = {} /\ ObjectsSafe

-----------------------------------------------------------------------------
LEMMA JobTyped ==
  ASSUME TypeInv, NEW w \in Workers
  PROVE  /\ pc(w) \in Steps /\ why(w) \in Reasons
         /\ up(w) \in Uploads \cup {None} /\ ob(w) \in Objects \cup {None}
         /\ part(w) \in Parts \cup {None}
         /\ Carries(pc(w), up(w), ob(w), part(w))
<1>1. job[w] \in Job BY DEF TypeInv, TypeOK
<1> QED BY <1>1 DEF TypeInv, JobArguments, pc, up, ob, part, why, Job

\* What the two ways of moving a job do.
LEMMA StartJob ==
  ASSUME TypeInv, NEW w \in Workers, NEW step \in Steps, NEW u \in Uploads,
         NEW o \in Objects \cup {None}, NEW p \in Parts \cup {None},
         NEW r \in Reasons, Carries(step, u, o, p), Start(w, step, u, o, p, r)
  PROVE  /\ job' \in [Workers -> Job] /\ JobArguments'
         /\ pc(w)' = step /\ up(w)' = u /\ ob(w)' = o /\ part(w)' = p /\ why(w)' = r
         /\ \A v \in Workers \ {w} : job'[v] = job[v]
<1> DEFINE next == [step |-> step, up |-> u, ob |-> o, part |-> p, why |-> r]
<1>1. job \in [Workers -> Job] BY DEF TypeInv, TypeOK
<1>2. /\ next \in Job /\ next.step = step /\ next.up = u /\ next.ob = o
      /\ next.part = p /\ next.why = r
  BY DEF Job
<1>3. job' = [job EXCEPT ![w] = next] BY DEF Start
<1> HIDE DEF next
<1>4. job' \in [Workers -> Job] BY <1>1, <1>2, <1>3
<1>5. \A v \in Workers \ {w} : job'[v] = job[v] BY <1>1, <1>3
<1>6. pc(w)' = step /\ up(w)' = u /\ ob(w)' = o /\ part(w)' = p /\ why(w)' = r
  BY <1>1, <1>2, <1>3 DEF pc, up, ob, part, why
<1>7. JobArguments'
  <2> SUFFICES ASSUME NEW v \in Workers PROVE Carries(pc(v), up(v), ob(v), part(v))'
    BY DEF JobArguments
  <2>1. CASE v = w BY <1>6, <2>1 DEF Carries
  <2>2. CASE v # w BY <1>5, <2>2 DEF TypeInv, JobArguments, Carries, pc, up, ob, part
  <2> QED BY <2>1, <2>2
<1> QED BY <1>4, <1>5, <1>6, <1>7

LEMMA GotoJob ==
  ASSUME TypeInv, NEW w \in Workers, NEW step \in Steps, NEW r \in Reasons,
         Carries(step, up(w), ob(w), part(w)), GotoFor(w, step, r)
  PROVE  /\ job' \in [Workers -> Job] /\ JobArguments'
         /\ pc(w)' = step
         /\ step # "idle" => /\ up(w)' = up(w) /\ ob(w)' = ob(w)
                             /\ part(w)' = part(w) /\ why(w)' = r
         /\ \A v \in Workers \ {w} : job'[v] = job[v]
<1> DEFINE next == IF step = "idle" THEN NoJob ELSE [job[w] EXCEPT !.step = step, !.why = r]
<1>1. job \in [Workers -> Job] /\ job[w] \in Job BY DEF TypeInv, TypeOK
<1>2. next \in Job BY <1>1 DEF Job, NoJob, Steps, Reasons
<1>3. /\ next.step = step
      /\ step # "idle" => /\ next.up = up(w) /\ next.ob = ob(w)
                          /\ next.part = part(w) /\ next.why = r
  BY <1>1 DEF NoJob, Job, up, ob, part
<1>4. job' = [job EXCEPT ![w] = next] BY DEF GotoFor
<1> HIDE DEF next
<1>5. job' \in [Workers -> Job] BY <1>1, <1>2, <1>4
<1>6. \A v \in Workers \ {w} : job'[v] = job[v] BY <1>1, <1>4
<1>7. /\ pc(w)' = step
      /\ step # "idle" => /\ up(w)' = up(w) /\ ob(w)' = ob(w)
                          /\ part(w)' = part(w) /\ why(w)' = r
  BY <1>1, <1>3, <1>4 DEF pc, up, ob, part, why
<1>8. JobArguments'
  <2> SUFFICES ASSUME NEW v \in Workers PROVE Carries(pc(v), up(v), ob(v), part(v))'
    BY DEF JobArguments
  <2>1. CASE v = w BY <1>7, <2>1 DEF Carries, PartSteps, ObjectSteps, Putting, Deleting
  <2>2. CASE v # w BY <1>6, <2>2 DEF TypeInv, JobArguments, Carries, pc, up, ob, part
  <2> QED BY <2>1, <2>2
<1> QED BY <1>5, <1>6, <1>7, <1>8

\* Each step keeps types and job arguments.
LEMMA TypeStep == TypeInv /\ [SessionNext]_vars => TypeInv'
<1> SUFFICES ASSUME TypeInv, [SessionNext]_vars PROVE TypeInv'
  OBVIOUS
<1>1. ASSUME NEW u \in Uploads, ReserveUpload(u) PROVE TypeInv'
  BY <1>1 DEF ReserveUpload, store, TypeInv, TypeOK, TransferStatus, AttachmentStatus, JobArguments, pc,
    up, ob, part
<1>2. ASSUME NEW u \in Uploads, BecomeStale(u) PROVE TypeInv'
  BY <1>2 DEF BecomeStale, store, TypeInv, TypeOK, TransferStatus, AttachmentStatus, JobArguments, pc,
    up, ob, part
<1>3. ASSUME NEW w \in Workers, NEW u \in Uploads, NEW p \in Parts, UploadPart(w, u, p) PROVE TypeInv'
  <2>1. job' \in [Workers -> Job] /\ JobArguments'
    BY <1>3, JobTyped, StartJob
    DEF UploadPart, Carries, PartSteps, ObjectSteps, Putting, Deleting, Steps, Reasons
  <2> QED BY <1>3, <2>1, JobTyped DEF UploadPart, db, store, TypeInv, TypeOK, TransferStatus, AttachmentStatus
<1>4. ASSUME NEW w \in Workers, NEW u \in Uploads, NEW o \in Objects, CompleteUpload(w, u, o) PROVE TypeInv'
  <2>1. job' \in [Workers -> Job] /\ JobArguments'
    BY <1>4, JobTyped, StartJob
    DEF CompleteUpload, Carries, PartSteps, ObjectSteps, Putting, Deleting, Steps, Reasons
  <2> QED BY <1>4, <2>1, JobTyped DEF CompleteUpload, db, store, TypeInv, TypeOK, TransferStatus,
    AttachmentStatus
<1>5. ASSUME NEW w \in Workers, NEW u \in Uploads, AttemptFails(w, u) PROVE TypeInv'
  <2>1. job' \in [Workers -> Job] /\ JobArguments'
    BY <1>5, JobTyped, StartJob
    DEF AttemptFails, Carries, PartSteps, ObjectSteps, Putting, Deleting, Steps, Reasons
  <2> QED BY <1>5, <2>1, JobTyped DEF AttemptFails, db, store, TypeInv, TypeOK, TransferStatus,
    AttachmentStatus
<1>6. ASSUME NEW w \in Workers, NEW u \in Uploads, FailUpload(w, u) PROVE TypeInv'
  <2>1. job' \in [Workers -> Job] /\ JobArguments'
    BY <1>6, JobTyped, StartJob
    DEF FailUpload, Carries, PartSteps, ObjectSteps, Putting, Deleting, Steps, Reasons
  <2> QED BY <1>6, <2>1, JobTyped DEF FailUpload, db, store, TypeInv, TypeOK, TransferStatus, AttachmentStatus
<1>7. ASSUME NEW w \in Workers, NEW u \in Uploads, RemoveAttachment(w, u) PROVE TypeInv'
  <2>1. job' \in [Workers -> Job] /\ JobArguments'
    BY <1>7, JobTyped, StartJob
    DEF RemoveAttachment, TypeInv, TypeOK, Carries, PartSteps, ObjectSteps, Putting, Deleting, Steps, Reasons
  <2> QED BY <1>7, <2>1, JobTyped DEF RemoveAttachment, db, store, TypeInv, TypeOK, TransferStatus,
    AttachmentStatus
<1>8. ASSUME NEW w \in Workers, NEW u \in Uploads, Maintain(w, u) PROVE TypeInv'
  <2>1. job' \in [Workers -> Job] /\ JobArguments'
    BY <1>8, JobTyped, StartJob
    DEF Maintain, Carries, PartSteps, ObjectSteps, Putting, Deleting, Steps, Reasons
  <2> QED BY <1>8, <2>1, JobTyped DEF Maintain, db, store, TypeInv, TypeOK, TransferStatus, AttachmentStatus
<1>9. ASSUME NEW w \in Workers, PartLock(w) PROVE TypeInv'
  <2>1. job' \in [Workers -> Job] /\ JobArguments'
    BY <1>9, JobTyped, GotoJob
    DEF PartLock, Goto, Carries, PartSteps, ObjectSteps, Putting, Deleting, Steps, Reasons
  <2> QED BY <1>9, <2>1, JobTyped DEF PartLock, lockKeys, Release, Keys, db, store, Carries, TypeInv,
    TypeOK, TransferStatus, AttachmentStatus
<1>10. ASSUME NEW w \in Workers, PartPut(w) PROVE TypeInv'
  <2>1. job' \in [Workers -> Job] /\ JobArguments'
    BY <1>10, JobTyped, GotoJob
    DEF PartPut, Goto, Carries, PartSteps, ObjectSteps, Putting, Deleting, Steps, Reasons
  <2> QED BY <1>10, <2>1, JobTyped DEF PartPut, Release, db, store, Carries, PartSteps, TypeInv, TypeOK,
    TransferStatus, AttachmentStatus
<1>11. ASSUME NEW w \in Workers, PartCommit(w) PROVE TypeInv'
  <2>1. job' \in [Workers -> Job] /\ JobArguments'
    BY <1>11, JobTyped, GotoJob
    DEF PartCommit, Goto, Carries, PartSteps, ObjectSteps, Putting, Deleting, Steps, Reasons
  <2>2. up(w) \in Uploads /\ part(w) \in Parts
    BY <1>11, JobTyped DEF PartCommit, Carries, PartSteps
  <2>3. /\ parts' \in {parts, [parts EXCEPT ![up(w)] = @ \cup {part(w)}]}
        /\ stale' \in {stale, [stale EXCEPT ![up(w)] = FALSE]}
    BY <1>11, <2>2 DEF PartCommit
  <2>4. parts' \in [Uploads -> SUBSET Parts]
    BY <2>2, <2>3 DEF TypeInv, TypeOK
  <2>5. stale' \in [Uploads -> BOOLEAN]
    BY <2>2, <2>3 DEF TypeInv, TypeOK
  <2> QED BY <1>11, <2>1, <2>4, <2>5 DEF PartCommit, Release, store, TypeInv, TypeOK
<1>12. ASSUME NEW w \in Workers, PartCleanup(w) PROVE TypeInv'
  <2>1. job' \in [Workers -> Job] /\ JobArguments'
    BY <1>12, JobTyped, GotoJob
    DEF PartCleanup, Goto, Carries, PartSteps, ObjectSteps, Putting, Deleting, Steps, Reasons
  <2> QED BY <1>12, <2>1, JobTyped DEF PartCleanup, db, Carries, PartSteps, TypeInv, TypeOK,
    TransferStatus, AttachmentStatus
<1>13. ASSUME NEW w \in Workers, CompleteLock(w) PROVE TypeInv'
  <2>1. job' \in [Workers -> Job] /\ JobArguments'
    BY <1>13, JobTyped, GotoJob
    DEF CompleteLock, Goto, Carries, PartSteps, ObjectSteps, Putting, Deleting, Steps, Reasons
  <2> QED BY <1>13, <2>1, JobTyped DEF CompleteLock, lockKeys, completeKeys, Release, Keys, db, store,
    Carries, ObjectSteps, TypeInv, TypeOK, TransferStatus, AttachmentStatus
<1>14. ASSUME NEW w \in Workers, CompletePut(w) PROVE TypeInv'
  <2>1. job' \in [Workers -> Job] /\ JobArguments'
    BY <1>14, JobTyped, GotoJob
    DEF CompletePut, Goto, Carries, PartSteps, ObjectSteps, Putting, Deleting, Steps, Reasons
  <2> QED BY <1>14, <2>1, JobTyped DEF CompletePut, Release, db, Carries, ObjectSteps, Putting, TypeInv,
    TypeOK, TransferStatus, AttachmentStatus
<1>15. ASSUME NEW w \in Workers, CompleteCommit(w) PROVE TypeInv'
  <2>1. job' \in [Workers -> Job] /\ JobArguments'
    BY <1>15, JobTyped, GotoJob
    DEF CompleteCommit, Carries, PartSteps, ObjectSteps, Putting, Deleting, Steps, Reasons
  <2>2. up(w) \in Uploads /\ ob(w) \in Objects
    BY <1>15, JobTyped DEF CompleteCommit, Carries, ObjectSteps, Putting
  <2>3. \/ UNCHANGED db
        \/ /\ transfer' = [transfer EXCEPT ![up(w)] = "completed"]
           /\ attach' = [attach EXCEPT ![up(w)] = "available"]
           /\ object' = [object EXCEPT ![up(w)] = ob(w)]
           /\ row' = [row EXCEPT ![ob(w)] = "live"]
           /\ parts' = [parts EXCEPT ![up(w)] = {}]
           /\ stale' = [stale EXCEPT ![up(w)] = FALSE]
    BY <1>15, <2>2 DEF CompleteCommit
  <2>4. /\ transfer' \in [Uploads -> TransferStatus]
        /\ attach' \in [Uploads -> AttachmentStatus]
        /\ object' \in [Uploads -> Objects \cup {None}]
        /\ row' \in [Objects -> {"absent", "live", "deleted"}]
        /\ parts' \in [Uploads -> SUBSET Parts]
    BY <2>2, <2>3 DEF db, TypeInv, TypeOK, TransferStatus, AttachmentStatus
  <2>5. stale' \in [Uploads -> BOOLEAN]
    BY <2>2, <2>3 DEF db, TypeInv, TypeOK
  <2> QED BY <1>15, <2>1, <2>4, <2>5 DEF CompleteCommit, Release, store, TypeInv, TypeOK
<1>16. ASSUME NEW w \in Workers, Staging(w) PROVE TypeInv'
  <2>1. job' \in [Workers -> Job] /\ JobArguments'
    BY <1>16, JobTyped, GotoJob
    DEF Staging, Goto, Carries, PartSteps, ObjectSteps, Putting, Deleting, Steps, Reasons
  <2> QED BY <1>16, <2>1, JobTyped DEF Staging, db, Carries, TypeInv, TypeOK, TransferStatus, AttachmentStatus
<1>17. ASSUME NEW w \in Workers, CleanupLock(w) PROVE TypeInv'
  <2>1. job' \in [Workers -> Job] /\ JobArguments'
    BY <1>17, JobTyped, GotoJob
    DEF CleanupLock, Goto, AfterCleanup, Carries, PartSteps, ObjectSteps, Putting, Deleting, Steps, Reasons
  <2>2. ob(w) \in Objects
    BY <1>17, JobTyped DEF CleanupLock, Carries, ObjectSteps
  <2>3. holds' \in {holds, [holds EXCEPT ![w] = {storageObjectLockKey(ob(w))}]} /\ lost' = lost
    BY <1>17 DEF CleanupLock, lockKeys
  <2>4. holds' \in [Workers -> SUBSET Keys]
    BY <2>2, <2>3 DEF Keys, TypeInv, TypeOK
  <2> QED BY <1>17, <2>1, <2>3, <2>4 DEF CleanupLock, db, store, TypeInv, TypeOK
<1>18. ASSUME NEW w \in Workers, CleanupDelete(w) PROVE TypeInv'
  <2>1. job' \in [Workers -> Job] /\ JobArguments'
    BY <1>18, JobTyped, GotoJob
    DEF CleanupDelete, Goto, AfterCleanup, Carries, PartSteps, ObjectSteps, Putting, Deleting, Steps, Reasons
  <2> QED BY <1>18, <2>1, JobTyped DEF CleanupDelete, Release, db, TypeInv, TypeOK, TransferStatus,
    AttachmentStatus
<1>19. ASSUME NEW w \in Workers, CleanupCommit(w) PROVE TypeInv'
  <2>1. job' \in [Workers -> Job] /\ JobArguments'
    BY <1>19, JobTyped, GotoJob
    DEF CleanupCommit, Goto, AfterCleanup, Carries, PartSteps, ObjectSteps, Putting, Deleting, Steps, Reasons
  <2> QED BY <1>19, <2>1, JobTyped DEF CleanupCommit, Release, store, TypeInv, TypeOK, TransferStatus,
    AttachmentStatus
<1>20. ASSUME NEW w \in Workers, FailCommit(w) PROVE TypeInv'
  <2>1. job' \in [Workers -> Job] /\ JobArguments'
    BY <1>20, JobTyped, GotoJob
    DEF FailCommit, Goto, AfterFail, Carries, PartSteps, ObjectSteps, Putting, Deleting, Steps, Reasons
  <2> QED BY <1>20, <2>1, JobTyped DEF FailCommit, failRows, store, TypeInv, TypeOK, TransferStatus,
    AttachmentStatus
<1>21. ASSUME NEW w \in Workers, FailClean(w) PROVE TypeInv'
  <2>1. job' \in [Workers -> Job] /\ JobArguments'
    BY <1>21, JobTyped, GotoJob
    DEF FailClean, Goto, AfterFail, Carries, PartSteps, ObjectSteps, Putting, Deleting, Steps, Reasons
  <2> QED BY <1>21, <2>1, JobTyped DEF FailClean, db, TypeInv, TypeOK, TransferStatus, AttachmentStatus
<1>22. ASSUME NEW w \in Workers, RemoveLock(w) PROVE TypeInv'
  <2>1. job' \in [Workers -> Job] /\ JobArguments'
    BY <1>22, JobTyped, StartJob
    DEF RemoveLock, TypeInv, TypeOK, Carries, PartSteps, ObjectSteps, Putting, Deleting, Steps, Reasons
  <2>2. removeKeys(w) \in SUBSET Keys
    BY <1>22, JobTyped DEF RemoveLock, removeKeys, Keys, pc, up, ob, Carries, ObjectSteps, Putting, Deleting
  <2>3. holds' \in [Workers -> SUBSET Keys] /\ lost' = lost
    BY <1>22, <2>2 DEF RemoveLock, lockKeys, TypeInv, TypeOK
  <2> QED BY <1>22, <2>1, <2>3 DEF RemoveLock, db, store, TypeInv, TypeOK, TransferStatus, AttachmentStatus
<1>23. ASSUME NEW w \in Workers, RemoveCommit(w) PROVE TypeInv'
  <2>1. job' \in [Workers -> Job] /\ JobArguments'
    BY <1>23, JobTyped, GotoJob
    DEF RemoveCommit, Goto, Carries, PartSteps, ObjectSteps, Putting, Deleting, Steps, Reasons
  <2> QED BY <1>23, <2>1, JobTyped DEF RemoveCommit, Release, store, TypeInv, TypeOK, TransferStatus,
    AttachmentStatus
<1>24. ASSUME NEW w \in Workers, RemoveClean(w) PROVE TypeInv'
  <2>1. job' \in [Workers -> Job] /\ JobArguments'
    BY <1>24, JobTyped, GotoJob
    DEF RemoveClean, Goto, Carries, PartSteps, ObjectSteps, Putting, Deleting, Steps, Reasons
  <2> QED BY <1>24, <2>1, JobTyped DEF RemoveClean, db, TypeInv, TypeOK, TransferStatus, AttachmentStatus
<1>25. ASSUME NEW w \in Workers, MaintLock(w) PROVE TypeInv'
  <2>1. job' \in [Workers -> Job] /\ JobArguments'
    BY <1>25, JobTyped, GotoJob
    DEF MaintLock, Goto, Carries, PartSteps, ObjectSteps, Putting, Deleting, Steps, Reasons
  <2> QED BY <1>25, <2>1, JobTyped DEF MaintLock, lockKeys, Keys, db, store, Carries, TypeInv, TypeOK,
    TransferStatus, AttachmentStatus
<1>26. ASSUME NEW w \in Workers, MaintCommit(w) PROVE TypeInv'
  <2>1. job' \in [Workers -> Job] /\ JobArguments'
    BY <1>26, JobTyped, GotoJob
    DEF MaintCommit, Carries, PartSteps, ObjectSteps, Putting, Deleting, Steps, Reasons
  <2> QED BY <1>26, <2>1, JobTyped DEF MaintCommit, failRows, Release, store, TypeInv, TypeOK,
    TransferStatus, AttachmentStatus
<1>27. ASSUME NEW w \in Workers, MaintClean(w) PROVE TypeInv'
  <2>1. job' \in [Workers -> Job] /\ JobArguments'
    BY <1>27, JobTyped, GotoJob
    DEF MaintClean, Goto, Carries, PartSteps, ObjectSteps, Putting, Deleting, Steps, Reasons
  <2> QED BY <1>27, <2>1, JobTyped DEF MaintClean, db, TypeInv, TypeOK, TransferStatus, AttachmentStatus
<1>28. ASSUME NEW w \in Workers, MaintFinish(w) PROVE TypeInv'
  <2>1. job' \in [Workers -> Job] /\ JobArguments'
    BY <1>28, JobTyped, GotoJob
    DEF MaintFinish, Goto, Carries, PartSteps, ObjectSteps, Putting, Deleting, Steps, Reasons
  <2> QED BY <1>28, <2>1, JobTyped DEF MaintFinish, store, TypeInv, TypeOK, TransferStatus, AttachmentStatus
<1>29. ASSUME NEW w \in Workers, Crash(w) PROVE TypeInv'
  <2>1. job' \in [Workers -> Job] /\ JobArguments'
    BY <1>29, JobTyped, GotoJob
    DEF Crash, Goto, Carries, PartSteps, ObjectSteps, Putting, Deleting, Steps, Reasons
  <2> QED BY <1>29, <2>1, JobTyped DEF Crash, Release, db, store, TypeInv, TypeOK, TransferStatus,
    AttachmentStatus
<1>30. ASSUME NEW w \in Workers, SessionLost(w) PROVE TypeInv'
  BY <1>30 DEF SessionLost, db, store, TypeInv, TypeOK, TransferStatus, AttachmentStatus, JobArguments,
    pc, up, ob, part
<1>31. CASE UNCHANGED vars
  BY <1>31 DEF vars, TypeInv, TypeOK, TransferStatus, AttachmentStatus, JobArguments, pc, up, ob, part
<1> QED
  BY <1>1, <1>2, <1>3, <1>4, <1>5, <1>6, <1>7, <1>8, <1>9, <1>10, <1>11, <1>12, <1>13, <1>14, <1>15,
    <1>16, <1>17, <1>18, <1>19, <1>20, <1>21, <1>22, <1>23, <1>24, <1>25, <1>26, <1>27, <1>28, <1>29,
    <1>30, <1>31 DEF SessionNext, Next, Advance

LEMMA TypeInit == Init => TypeInv
BY FileStoreAssumption DEF Init, TypeInv, TypeOK, JobArguments, Carries, PartSteps, ObjectSteps,
  Putting, Deleting, pc, up, ob, part, NoJob, Job, Steps, Reasons, TransferStatus, AttachmentStatus

\* Every column, key and job keeps a value the code can give it, whatever the
\* faults.
THEOREM TypeCorrect == Spec \/ SessionSpec => []TypeOK
<1>1. TypeInv => TypeOK BY DEF TypeInv
<1>2. [Next]_vars => [SessionNext]_vars BY DEF SessionNext
<1> QED BY <1>1, <1>2, TypeInit, TypeStep, PTL DEF Spec, SessionSpec

-----------------------------------------------------------------------------
\* A step taken by worker w.
StepOf(w) ==
  \/ \E u \in Uploads, p \in Parts : UploadPart(w, u, p)
  \/ \E u \in Uploads, o \in Objects : CompleteUpload(w, u, o)
  \/ \E u \in Uploads :
       AttemptFails(w, u) \/ FailUpload(w, u) \/ RemoveAttachment(w, u) \/ Maintain(w, u)
  \/ Advance(w) \/ Crash(w) \/ SessionLost(w)

\* A step of worker w leaves the other workers' jobs and locks alone, takes no
\* lock that is taken, and leaves w with the keys of its next step.
Keeps(w) ==
  /\ \A v \in Workers \ {w} :
       /\ job'[v] = job[v] /\ holds'[v] = holds[v] /\ (v \in lost' <=> v \in lost)
       /\ holds'[w] \cap holds[v] = {}
  /\ w \notin lost' =>
       /\ pc(w)' \in UploadSteps => uploadLockKey(up(w)') \in holds'[w]
       /\ pc(w)' \in Putting \cup Deleting => storageObjectLockKey(ob(w)') \in holds'[w]

LEMMA LocksKept ==
  ASSUME LocksHeld, NEW w \in Workers, Keeps(w) PROVE LocksHeld'
<1>1. \A u, v \in Workers : u # v => holds'[u] \cap holds'[v] = {}
  BY DEF Keeps, LocksHeld
<1>2. ASSUME NEW v \in Workers \ lost'
      PROVE /\ pc(v)' \in UploadSteps => uploadLockKey(up(v)') \in holds'[v]
            /\ pc(v)' \in Putting \cup Deleting => storageObjectLockKey(ob(v)') \in holds'[v]
  <2>1. CASE v = w BY <2>1, <1>2 DEF Keeps
  <2>2. CASE v # w BY <2>2, <1>2 DEF Keeps, LocksHeld, pc, up, ob
  <2> QED BY <2>1, <2>2
<1> QED BY <1>1, <1>2 DEF LocksHeld

LEMMA WorkerKeeps ==
  ASSUME TypeInv, LocksHeld, NEW w \in Workers,
         StepOf(w)
  PROVE  Keeps(w)
<1>0. /\ holds \in [Workers -> SUBSET Keys] /\ lost \subseteq Workers
      /\ \A v \in Workers \ {w} : holds[v] \cap holds[w] = {} /\ holds[w] \cap holds[v] = {}
      /\ \A u \in Uploads : object[u] \in Objects \cup {None}
  BY DEF TypeInv, TypeOK, LocksHeld
<1>1. ASSUME NEW u \in Uploads, NEW p \in Parts, UploadPart(w, u, p) PROVE Keeps(w)
  BY <1>0, <1>1, JobTyped, StartJob
  DEF UploadPart, Keeps, Carries, PartSteps, ObjectSteps, UploadSteps, Putting, Deleting, Steps, Reasons
<1>2. ASSUME NEW u \in Uploads, NEW o \in Objects, CompleteUpload(w, u, o) PROVE Keeps(w)
  BY <1>0, <1>2, JobTyped, StartJob
  DEF CompleteUpload, Keeps, Carries, PartSteps, ObjectSteps, UploadSteps, Putting, Deleting, Steps, Reasons
<1>3. ASSUME NEW u \in Uploads, AttemptFails(w, u) PROVE Keeps(w)
  BY <1>0, <1>3, JobTyped, StartJob
  DEF AttemptFails, Keeps, Carries, PartSteps, ObjectSteps, UploadSteps, Putting, Deleting, Steps, Reasons
<1>4. ASSUME NEW u \in Uploads, FailUpload(w, u) PROVE Keeps(w)
  BY <1>0, <1>4, JobTyped, StartJob
  DEF FailUpload, Keeps, Carries, PartSteps, ObjectSteps, UploadSteps, Putting, Deleting, Steps, Reasons
<1>5. ASSUME NEW u \in Uploads, RemoveAttachment(w, u) PROVE Keeps(w)
  BY <1>0, <1>5, JobTyped, StartJob
  DEF RemoveAttachment, Keeps, Carries, PartSteps, ObjectSteps, UploadSteps, Putting, Deleting, Steps, Reasons
<1>6. ASSUME NEW u \in Uploads, Maintain(w, u) PROVE Keeps(w)
  BY <1>0, <1>6, JobTyped, StartJob
  DEF Maintain, Keeps, Carries, PartSteps, ObjectSteps, UploadSteps, Putting, Deleting, Steps, Reasons
<1>7. ASSUME PartLock(w) PROVE Keeps(w)
  BY <1>0, <1>7, JobTyped, GotoJob
  DEF PartLock, Goto, lockKeys, Release, Keeps, Carries, PartSteps, ObjectSteps, UploadSteps, Putting,
    Deleting, Steps, Reasons
<1>8. ASSUME PartPut(w) PROVE Keeps(w)
  BY <1>0, <1>8, JobTyped, GotoJob
  DEF PartPut, Goto, Release, Keeps, Carries, PartSteps, ObjectSteps, UploadSteps, Putting, Deleting,
    Steps, Reasons, LocksHeld
<1>9. ASSUME PartCommit(w) PROVE Keeps(w)
  BY <1>0, <1>9, JobTyped, GotoJob
  DEF PartCommit, Goto, Release, Keeps, Carries, PartSteps, ObjectSteps, UploadSteps, Putting, Deleting,
    Steps, Reasons
<1>10. ASSUME PartCleanup(w) PROVE Keeps(w)
  BY <1>0, <1>10, JobTyped, GotoJob
  DEF PartCleanup, Goto, Keeps, Carries, PartSteps, ObjectSteps, UploadSteps, Putting, Deleting, Steps,
    Reasons
<1>11. ASSUME CompleteLock(w) PROVE Keeps(w)
  BY <1>0, <1>11, JobTyped, GotoJob
  DEF CompleteLock, Goto, lockKeys, completeKeys, Release, Keeps, Carries, PartSteps, ObjectSteps,
    UploadSteps, Putting, Deleting, Steps, Reasons
<1>12. ASSUME CompletePut(w) PROVE Keeps(w)
  BY <1>0, <1>12, JobTyped, GotoJob
  DEF CompletePut, Goto, Release, Keeps, Carries, PartSteps, ObjectSteps, UploadSteps, Putting, Deleting,
    Steps, Reasons, LocksHeld
<1>13. ASSUME CompleteCommit(w) PROVE Keeps(w)
  BY <1>0, <1>13, JobTyped, GotoJob
  DEF CompleteCommit, Release, Keeps, Carries, PartSteps, ObjectSteps, UploadSteps, Putting, Deleting,
    Steps, Reasons, LocksHeld
<1>14. ASSUME Staging(w) PROVE Keeps(w)
  BY <1>0, <1>14, JobTyped, GotoJob
  DEF Staging, Goto, Keeps, Carries, PartSteps, ObjectSteps, UploadSteps, Putting, Deleting, Steps, Reasons
<1>15. ASSUME CleanupLock(w) PROVE Keeps(w)
  BY <1>0, <1>15, JobTyped, GotoJob
  DEF CleanupLock, Goto, AfterCleanup, lockKeys, Keeps, Carries, PartSteps, ObjectSteps, UploadSteps,
    Putting, Deleting, Steps, Reasons, LocksHeld
<1>16. ASSUME CleanupDelete(w) PROVE Keeps(w)
  BY <1>0, <1>16, JobTyped, GotoJob
  DEF CleanupDelete, Goto, AfterCleanup, Release, Keeps, Carries, PartSteps, ObjectSteps, UploadSteps,
    Putting, Deleting, Steps, Reasons, LocksHeld
<1>17. ASSUME CleanupCommit(w) PROVE Keeps(w)
  BY <1>0, <1>17, JobTyped, GotoJob
  DEF CleanupCommit, Goto, AfterCleanup, Release, Keeps, Carries, PartSteps, ObjectSteps, UploadSteps,
    Putting, Deleting, Steps, Reasons
<1>18. ASSUME FailCommit(w) PROVE Keeps(w)
  BY <1>0, <1>18, JobTyped, GotoJob
  DEF FailCommit, Goto, AfterFail, Keeps, Carries, PartSteps, ObjectSteps, UploadSteps, Putting,
    Deleting, Steps, Reasons
<1>19. ASSUME FailClean(w) PROVE Keeps(w)
  BY <1>0, <1>19, JobTyped, GotoJob
  DEF FailClean, Goto, AfterFail, Keeps, Carries, PartSteps, ObjectSteps, UploadSteps, Putting, Deleting,
    Steps, Reasons
<1>20. ASSUME RemoveLock(w) PROVE Keeps(w)
  BY <1>0, <1>20, JobTyped, StartJob
  DEF RemoveLock, lockKeys, removeKeys, Keeps, Carries, PartSteps, ObjectSteps, UploadSteps, Putting,
    Deleting, Steps, Reasons
<1>21. ASSUME RemoveCommit(w) PROVE Keeps(w)
  BY <1>0, <1>21, JobTyped, GotoJob
  DEF RemoveCommit, Goto, Release, Keeps, Carries, PartSteps, ObjectSteps, UploadSteps, Putting,
    Deleting, Steps, Reasons
<1>22. ASSUME RemoveClean(w) PROVE Keeps(w)
  BY <1>0, <1>22, JobTyped, GotoJob
  DEF RemoveClean, Goto, Keeps, Carries, PartSteps, ObjectSteps, UploadSteps, Putting, Deleting, Steps,
    Reasons
<1>23. ASSUME MaintLock(w) PROVE Keeps(w)
  BY <1>0, <1>23, JobTyped, GotoJob
  DEF MaintLock, Goto, lockKeys, Keeps, Carries, PartSteps, ObjectSteps, UploadSteps, Putting, Deleting,
    Steps, Reasons
<1>24. ASSUME MaintCommit(w) PROVE Keeps(w)
  BY <1>0, <1>24, JobTyped, GotoJob
  DEF MaintCommit, Release, Keeps, Carries, PartSteps, ObjectSteps, UploadSteps, Putting, Deleting,
    Steps, Reasons
<1>25. ASSUME MaintClean(w) PROVE Keeps(w)
  BY <1>0, <1>25, JobTyped, GotoJob
  DEF MaintClean, Goto, Keeps, Carries, PartSteps, ObjectSteps, UploadSteps, Putting, Deleting, Steps, Reasons
<1>26. ASSUME MaintFinish(w) PROVE Keeps(w)
  BY <1>0, <1>26, JobTyped, GotoJob
  DEF MaintFinish, Goto, Keeps, Carries, PartSteps, ObjectSteps, UploadSteps, Putting, Deleting, Steps,
    Reasons
<1>27. ASSUME Crash(w) PROVE Keeps(w)
  BY <1>0, <1>27, JobTyped, GotoJob
  DEF Crash, Goto, Release, Keeps, Carries, PartSteps, ObjectSteps, UploadSteps, Putting, Deleting,
    Steps, Reasons
<1>28. ASSUME SessionLost(w) PROVE Keeps(w)
  BY <1>0, <1>28 DEF SessionLost, Keeps
<1> QED
  BY <1>1, <1>2, <1>3, <1>4, <1>5, <1>6, <1>7, <1>8, <1>9, <1>10, <1>11, <1>12, <1>13, <1>14, <1>15,
    <1>16, <1>17, <1>18, <1>19, <1>20, <1>21, <1>22, <1>23, <1>24, <1>25, <1>26, <1>27, <1>28 DEF StepOf,
    Advance

LEMMA LocksStep == TypeInv /\ LocksHeld /\ [SessionNext]_vars => LocksHeld'
<1> SUFFICES ASSUME TypeInv, LocksHeld, [SessionNext]_vars PROVE LocksHeld'
  OBVIOUS
<1>1. CASE UNCHANGED <<job, holds, lost>>
  BY <1>1 DEF LocksHeld, pc, up, ob
<1>2. ASSUME NEW u \in Uploads, ReserveUpload(u) \/ BecomeStale(u)
      PROVE UNCHANGED <<job, holds, lost>>
  BY <1>2 DEF ReserveUpload, BecomeStale
<1>3. UNCHANGED vars => UNCHANGED <<job, holds, lost>>
  BY DEF vars
<1> QED BY <1>1, <1>2, <1>3, WorkerKeeps, LocksKept DEF SessionNext, Next, StepOf

-----------------------------------------------------------------------------
(***************************************************************************)
(* The ledger.  Five actions write transfer status, attachment status or   *)
(* binding; only the maintenance commit relies on a lock for it.           *)
(***************************************************************************)
ledger == <<transfer, attach, object>>

LEMMA LedgerWriters ==
  ASSUME [SessionNext]_vars
  PROVE  \/ UNCHANGED ledger
         \/ \E u \in Uploads : ReserveUpload(u)
         \/ \E w \in Workers :
              CompleteCommit(w) \/ FailCommit(w) \/ RemoveCommit(w) \/ MaintCommit(w)
<1>1. ASSUME NEW w \in Workers, Advance(w),
             ~(CompleteCommit(w) \/ FailCommit(w) \/ RemoveCommit(w) \/ MaintCommit(w))
      PROVE UNCHANGED ledger
  BY <1>1 DEF Advance, ledger, db, PartLock, PartPut, PartCommit, PartCleanup, CompleteLock,
    CompletePut, Staging, CleanupLock, CleanupDelete, CleanupCommit, FailClean, RemoveLock,
    RemoveClean, MaintLock, MaintClean, MaintFinish
<1>2. ASSUME NEW w \in Workers, Crash(w) \/ SessionLost(w) PROVE UNCHANGED ledger
  BY <1>2 DEF Crash, SessionLost, ledger, db
<1>3. ASSUME NEW u \in Uploads, BecomeStale(u) PROVE UNCHANGED ledger
  BY <1>3 DEF BecomeStale, ledger
<1>4. ASSUME NEW w \in Workers, NEW u \in Uploads,
             \/ \E p \in Parts : UploadPart(w, u, p)
             \/ \E o \in Objects : CompleteUpload(w, u, o)
             \/ AttemptFails(w, u) \/ FailUpload(w, u) \/ RemoveAttachment(w, u) \/ Maintain(w, u)
      PROVE UNCHANGED ledger
  BY <1>4 DEF ledger, db, UploadPart, CompleteUpload, AttemptFails, FailUpload,
    RemoveAttachment, Maintain
<1>5. UNCHANGED vars => UNCHANGED ledger BY DEF vars, ledger
<1> QED BY <1>1, <1>2, <1>3, <1>4, <1>5 DEF SessionNext, Next

LEMMA LedgerStep == LedgerInv /\ [SessionNext]_vars => LedgerAgrees'
<1> SUFFICES ASSUME LedgerInv, [SessionNext]_vars PROVE LedgerAgrees'
  OBVIOUS
<1> USE DEF LedgerInv, LedgerAgrees
<1>0. /\ transfer \in [Uploads -> TransferStatus] /\ attach \in [Uploads -> AttachmentStatus]
      /\ object \in [Uploads -> Objects \cup {None}]
  BY DEF TypeInv, TypeOK
<1>1. CASE UNCHANGED ledger
  BY <1>1 DEF ledger
<1>2. ASSUME NEW u \in Uploads, ReserveUpload(u) PROVE LedgerAgrees'
  BY <1>0, <1>2 DEF ReserveUpload, TransferStatus, AttachmentStatus
<1>3. ASSUME NEW w \in Workers, CompleteCommit(w) PROVE LedgerAgrees'
  <2>1. up(w) \in Uploads /\ ob(w) \in Objects
    BY <1>3, JobTyped DEF CompleteCommit, Carries, ObjectSteps, Putting
  <2>2. \/ UNCHANGED ledger
        \/ /\ Owned(up(w))
           /\ transfer' = [transfer EXCEPT ![up(w)] = "completed"]
           /\ attach' = [attach EXCEPT ![up(w)] = "available"]
           /\ object' = [object EXCEPT ![up(w)] = ob(w)]
    BY <1>3 DEF CompleteCommit, ledger, db
  <2> QED BY <1>0, <1>1, <2>1, <2>2, FileStoreAssumption
<1>4. ASSUME NEW w \in Workers, FailCommit(w) PROVE LedgerAgrees'
  <2>1. up(w) \in Uploads
    BY <1>4, JobTyped DEF FailCommit, Carries
  <2>2. \/ UNCHANGED ledger
        \/ /\ Owned(up(w)) /\ failRows(up(w)) /\ object' = object
    BY <1>4 DEF FailCommit, ledger
  <2> QED BY <1>0, <1>1, <2>1, <2>2 DEF failRows, Owned
<1>5. ASSUME NEW w \in Workers, RemoveCommit(w) PROVE LedgerAgrees'
  <2>1. up(w) \in Uploads
    BY <1>5, JobTyped DEF RemoveCommit, Carries
  <2>2. \/ UNCHANGED ledger
        \/ /\ transfer' = transfer /\ attach[up(w)] # "none"
           /\ attach' = [attach EXCEPT ![up(w)] = "removed"]
           /\ object' = [object EXCEPT ![up(w)] = None]
    BY <1>5 DEF RemoveCommit, ledger
  <2> QED BY <1>0, <1>1, <2>1, <2>2
<1>6. ASSUME NEW w \in Workers, MaintCommit(w) PROVE LedgerAgrees'
  <2>1. up(w) \in Uploads
    BY <1>6, JobTyped DEF MaintCommit, Carries
  <2>2. \/ UNCHANGED ledger
        \/ /\ w \notin lost /\ failRows(up(w)) /\ object' = object
    BY <1>6 DEF MaintCommit, ledger, Outcomes, Applied
  <2>3. w \notin lost => transfer[up(w)] = "reserved"
    BY <1>6 DEF MaintCommit, ConfirmedStands
  <2> QED BY <1>0, <1>1, <2>1, <2>2, <2>3 DEF failRows
<1> QED BY <1>1, <1>2, <1>3, <1>4, <1>5, <1>6, LedgerWriters

\* The step after which a worker is at one of the five steps the invariants
\* speak of.
Arrivals == {"part_commit", "maint_commit", "complete_commit", "cleanup_delete", "cleanup_commit"}

LEMMA Arrives ==
  ASSUME TypeInv, NEW w \in Workers, pc(w)' \in Arrivals,
         StepOf(w)
  PROVE  \/ pc(w)' = "part_commit" /\ PartPut(w)
         \/ pc(w)' = "maint_commit" /\ MaintLock(w)
         \/ pc(w)' = "complete_commit" /\ CompletePut(w)
         \/ pc(w)' = "cleanup_delete" /\ CleanupLock(w)
         \/ pc(w)' = "cleanup_commit" /\ CleanupDelete(w)
         \/ SessionLost(w)
<1> USE DEF Arrivals, Goto, AfterCleanup, AfterFail, Carries, PartSteps, ObjectSteps, Putting,
      Deleting, Steps, Reasons
<1>1. ASSUME NEW u \in Uploads,
             \/ \E p \in Parts : UploadPart(w, u, p)
             \/ \E o \in Objects : CompleteUpload(w, u, o)
             \/ AttemptFails(w, u) \/ FailUpload(w, u) \/ Maintain(w, u)
      PROVE FALSE
  BY <1>1, StartJob DEF UploadPart, CompleteUpload, AttemptFails, FailUpload, Maintain
<1>2. ASSUME NEW u \in Uploads, RemoveAttachment(w, u) PROVE FALSE
  BY <1>2, StartJob DEF RemoveAttachment, TypeInv, TypeOK
<1>3. CASE PartLock(w) \/ PartPut(w) \/ PartCommit(w) \/ PartCleanup(w)
  BY <1>3, JobTyped, GotoJob DEF PartLock, PartPut, PartCommit, PartCleanup
<1>4. CASE CompleteLock(w) \/ CompleteCommit(w) \/ Staging(w) \/ CleanupCommit(w)
  BY <1>4, JobTyped, GotoJob DEF CompleteLock, CompleteCommit, Staging, CleanupCommit
<1>5. CASE FailCommit(w) \/ FailClean(w) \/ RemoveCommit(w) \/ RemoveClean(w)
  BY <1>5, JobTyped, GotoJob DEF FailCommit, FailClean, RemoveCommit, RemoveClean
<1>6. CASE RemoveLock(w)
  BY <1>6, JobTyped, StartJob DEF RemoveLock, TypeInv, TypeOK
<1>7. CASE MaintCommit(w) \/ MaintClean(w) \/ MaintFinish(w) \/ Crash(w)
  BY <1>7, JobTyped, GotoJob DEF MaintCommit, MaintClean, MaintFinish, Crash
<1>8. CASE MaintLock(w) \/ CompletePut(w) \/ CleanupLock(w) \/ CleanupDelete(w)
  BY <1>8, JobTyped, GotoJob DEF MaintLock, CompletePut, CleanupLock, CleanupDelete
<1> QED BY <1>1, <1>2, <1>3, <1>4, <1>5, <1>6, <1>7, <1>8 DEF StepOf, Advance

\* The upload lock: no other transaction ends the upload that maintenance has
\* confirmed and is about to fail.
LEMMA ConfirmedStep == LedgerInv /\ [SessionNext]_vars => ConfirmedStands'
<1> SUFFICES ASSUME LedgerInv, [SessionNext]_vars,
                    NEW v \in Workers, v \notin lost', pc(v)' = "maint_commit"
             PROVE  transfer'[up(v)'] = "reserved"
  BY DEF ConfirmedStands
<1>0. TypeInv /\ LocksHeld /\ ConfirmedStands
  BY DEF LedgerInv
<1>1. /\ transfer \in [Uploads -> TransferStatus]
      /\ pc(v) \in Steps /\ (pc(v) # "idle" => up(v) \in Uploads)
  BY <1>0, JobTyped DEF TypeInv, TypeOK, Carries
<1>2. CASE job'[v] = job[v] /\ (v \in lost' <=> v \in lost)
  <2>1. pc(v) = "maint_commit" /\ up(v)' = up(v) /\ v \notin lost
    BY <1>2 DEF pc, up
  <2>2. up(v) \in Uploads /\ transfer[up(v)] = "reserved" /\ uploadLockKey(up(v)) \in holds[v]
    BY <1>0, <1>1, <2>1 DEF ConfirmedStands, LocksHeld, UploadSteps
  <2>3. CASE transfer' = transfer
    BY <2>1, <2>2, <2>3
  <2>4. ASSUME NEW u \in Uploads, ReserveUpload(u) PROVE transfer'[up(v)] = "reserved"
    BY <1>1, <2>2, <2>4 DEF ReserveUpload
  <2>5. ASSUME NEW w \in Workers, CompleteCommit(w) PROVE transfer'[up(v)] = "reserved"
    <3>1. CASE w = v BY <2>1, <2>5, <3>1 DEF CompleteCommit
    <3>2. CASE w # v /\ w \in lost
      BY <2>2, <2>5, <3>2 DEF CompleteCommit, Outcomes, Applied, db
    <3>3. CASE w # v /\ w \notin lost
      <4>1. uploadLockKey(up(w)) \in holds[w]
        BY <1>0, <2>5, <3>3 DEF CompleteCommit, LocksHeld, UploadSteps, Putting
      <4>2. up(w) # up(v) BY <1>0, <2>2, <3>3, <4>1 DEF LocksHeld
      <4>3. up(w) \in Uploads BY <1>0, <2>5, JobTyped DEF CompleteCommit, Carries
      <4>4. transfer' \in {transfer, [transfer EXCEPT ![up(w)] = "completed"]}
        BY <2>5 DEF CompleteCommit, db
      <4> QED BY <1>1, <2>2, <4>2, <4>3, <4>4
    <3> QED BY <3>1, <3>2, <3>3
  <2>6. ASSUME NEW w \in Workers, FailCommit(w) PROVE transfer'[up(v)] = "reserved"
    <3>1. w # v BY <2>1, <2>6 DEF FailCommit
    <3>2. up(w) # up(v) BY <2>2, <2>6, <3>1 DEF FailCommit, Unlocked
    <3>3. up(w) \in Uploads BY <1>0, <2>6, JobTyped DEF FailCommit, Carries
    <3>4. transfer' \in {transfer, [transfer EXCEPT ![up(w)] = "failed"]}
      BY <2>6 DEF FailCommit, failRows
    <3> QED BY <1>1, <2>2, <3>2, <3>3, <3>4
  <2>7. ASSUME NEW w \in Workers, MaintCommit(w) PROVE transfer'[up(v)] = "reserved"
    <3>1. CASE w = v
      <4>1. pc(v)' \in {"maint_clean", "idle"}
        BY <1>0, <2>7, <3>1, JobTyped, GotoJob
        DEF MaintCommit, Carries, PartSteps, ObjectSteps, Putting, Deleting, Steps, Reasons
      <4> QED BY <4>1
    <3>2. CASE w # v /\ w \in lost
      BY <2>2, <2>7, <3>2 DEF MaintCommit, Outcomes, Applied
    <3>3. CASE w # v /\ w \notin lost
      <4>1. uploadLockKey(up(w)) \in holds[w]
        BY <1>0, <2>7, <3>3 DEF MaintCommit, LocksHeld, UploadSteps
      <4>2. up(w) # up(v) BY <1>0, <2>2, <3>3, <4>1 DEF LocksHeld
      <4>3. up(w) \in Uploads BY <1>0, <2>7, JobTyped DEF MaintCommit, Carries
      <4>4. transfer' \in {transfer, [transfer EXCEPT ![up(w)] = "failed"]}
        BY <2>7 DEF MaintCommit, failRows
      <4> QED BY <1>1, <2>2, <4>2, <4>3, <4>4
    <3> QED BY <3>1, <3>2, <3>3
  <2>8. ASSUME NEW w \in Workers, RemoveCommit(w) PROVE transfer' = transfer
    BY <2>8 DEF RemoveCommit
  <2>9. UNCHANGED ledger => transfer' = transfer BY DEF ledger
  <2> QED BY <2>1, <2>3, <2>4, <2>5, <2>6, <2>7, <2>8, <2>9, LedgerWriters
<1>3. CASE ~(job'[v] = job[v] /\ (v \in lost' <=> v \in lost))
  \* v itself took the step, and it took the lock.
  <2>1. /\ ~ \E u \in Uploads : ReserveUpload(u) \/ BecomeStale(u)
        /\ ~ UNCHANGED vars
    BY <1>3 DEF ReserveUpload, BecomeStale, vars
  <2>2. \A w \in Workers : Keeps(w) => w = v
    BY <1>3 DEF Keeps
  <2>3. StepOf(v)
    BY <1>0, <2>1, <2>2, WorkerKeeps DEF SessionNext, Next, StepOf
  <2>4. MaintLock(v)
    <3>1. ~SessionLost(v) BY DEF SessionLost
    <3> QED BY <1>0, <2>3, <3>1, Arrives DEF Arrivals
  <2> QED
    BY <1>0, <2>4, JobTyped, GotoJob
    DEF MaintLock, Confirmed, Owned, Goto, db, Carries, PartSteps, ObjectSteps, Putting,
      Deleting, Steps, Reasons
<1> QED BY <1>2, <1>3

LEMMA StaleWriters ==
  ASSUME [SessionNext]_vars
  PROVE  \/ stale' = stale
         \/ \E u \in Uploads : BecomeStale(u)
         \/ \E w \in Workers : PartCommit(w) \/ CompleteCommit(w) \/ FailCommit(w) \/ MaintCommit(w)
<1>1. ASSUME NEW w \in Workers, Advance(w),
             ~(PartCommit(w) \/ CompleteCommit(w) \/ FailCommit(w) \/ MaintCommit(w))
      PROVE stale' = stale
  BY <1>1 DEF Advance, db, PartLock, PartPut, PartCleanup, CompleteLock, CompletePut, Staging,
    CleanupLock, CleanupDelete, CleanupCommit, FailClean, RemoveLock, RemoveCommit, RemoveClean,
    MaintLock, MaintClean, MaintFinish
<1>2. ASSUME NEW w \in Workers, Crash(w) \/ SessionLost(w) PROVE stale' = stale
  BY <1>2 DEF Crash, SessionLost, db
<1>3. ASSUME NEW u \in Uploads, ReserveUpload(u) PROVE stale' = stale
  BY <1>3 DEF ReserveUpload
<1>4. ASSUME NEW w \in Workers, NEW u \in Uploads,
             \/ \E p \in Parts : UploadPart(w, u, p)
             \/ \E o \in Objects : CompleteUpload(w, u, o)
             \/ AttemptFails(w, u) \/ FailUpload(w, u) \/ RemoveAttachment(w, u) \/ Maintain(w, u)
      PROVE stale' = stale
  BY <1>4 DEF db, UploadPart, CompleteUpload, AttemptFails, FailUpload, RemoveAttachment, Maintain
<1>5. UNCHANGED vars => stale' = stale BY DEF vars
<1> QED BY <1>1, <1>2, <1>3, <1>4, <1>5 DEF SessionNext, Next

\* Two live transactions at steps that hold an upload lock are of two uploads.
LEMMA UploadsApart ==
  ASSUME LocksHeld, NEW v \in Workers \ lost, NEW w \in Workers \ lost, v # w,
         pc(v) \in UploadSteps, pc(w) \in UploadSteps
  PROVE  up(v) # up(w)
<1>1. uploadLockKey(up(v)) \in holds[v] /\ uploadLockKey(up(w)) \in holds[w] BY DEF LocksHeld
<1>2. holds[v] \cap holds[w] = {} BY DEF LocksHeld
<1> QED BY <1>1, <1>2

\* The same lock: no activity reaches an upload that maintenance has confirmed
\* as stale.
LEMMA StaleStep == LedgerInv /\ [SessionNext]_vars => StaleStands'
<1> SUFFICES ASSUME LedgerInv, [SessionNext]_vars,
                    NEW v \in Workers, v \notin lost', pc(v)' = "maint_commit"
             PROVE  stale'[up(v)']
  BY DEF StaleStands
<1>0. TypeInv /\ LocksHeld /\ StaleStands
  BY DEF LedgerInv
<1>1. /\ stale \in [Uploads -> BOOLEAN]
      /\ pc(v) \in Steps /\ (pc(v) # "idle" => up(v) \in Uploads)
  BY <1>0, JobTyped DEF TypeInv, TypeOK, Carries
<1>2. CASE job'[v] = job[v] /\ (v \in lost' <=> v \in lost)
  <2>1. pc(v) = "maint_commit" /\ up(v)' = up(v) /\ v \notin lost
    BY <1>2 DEF pc, up
  <2>2. /\ up(v) \in Uploads /\ stale[up(v)] /\ pc(v) \in UploadSteps
        /\ uploadLockKey(up(v)) \in holds[v]
    BY <1>0, <1>1, <2>1 DEF StaleStands, LocksHeld, UploadSteps
  <2>3. ASSUME NEW u \in Uploads, BecomeStale(u) PROVE stale'[up(v)]
    BY <1>1, <2>2, <2>3 DEF BecomeStale
  <2>4. ASSUME NEW w \in Workers, w # v, up(w) \in Uploads, pc(w) \in UploadSteps,
               stale' = stale \/ (w \notin lost /\ stale' = [stale EXCEPT ![up(w)] = FALSE])
        PROVE  stale'[up(v)]
    <3>1. CASE stale' = stale BY <2>2, <3>1
    <3>2. CASE w \notin lost /\ stale' = [stale EXCEPT ![up(w)] = FALSE]
      <4>1. up(w) # up(v) BY <1>0, <2>1, <2>2, <2>4, <3>2, UploadsApart
      <4> QED BY <1>1, <2>2, <2>4, <3>2, <4>1
    <3> QED BY <2>4, <3>1, <3>2
  <2>5. ASSUME NEW w \in Workers, PartCommit(w) PROVE stale'[up(v)]
    <3>1. w # v /\ pc(w) \in UploadSteps BY <2>1, <2>5 DEF PartCommit, UploadSteps
    <3>2. up(w) \in Uploads BY <1>0, <2>5, JobTyped DEF PartCommit, Carries
    <3>3. stale' = stale \/ (w \notin lost /\ stale' = [stale EXCEPT ![up(w)] = FALSE])
      BY <2>5 DEF PartCommit, Outcomes, Applied
    <3> QED BY <2>4, <3>1, <3>2, <3>3
  <2>6. ASSUME NEW w \in Workers, CompleteCommit(w) PROVE stale'[up(v)]
    <3>1. w # v /\ pc(w) \in UploadSteps BY <2>1, <2>6 DEF CompleteCommit, UploadSteps, Putting
    <3>2. up(w) \in Uploads BY <1>0, <2>6, JobTyped DEF CompleteCommit, Carries
    <3>3. stale' = stale \/ (w \notin lost /\ stale' = [stale EXCEPT ![up(w)] = FALSE])
      BY <2>6 DEF CompleteCommit, Outcomes, Applied, db
    <3> QED BY <2>4, <3>1, <3>2, <3>3
  <2>7. ASSUME NEW w \in Workers, FailCommit(w) PROVE stale'[up(v)]
    <3>1. w # v BY <2>1, <2>7 DEF FailCommit
    <3>2. up(w) # up(v) BY <2>2, <2>7, <3>1 DEF FailCommit, Unlocked
    <3>3. up(w) \in Uploads BY <1>0, <2>7, JobTyped DEF FailCommit, Carries
    <3>4. stale' \in {stale, [stale EXCEPT ![up(w)] = FALSE]}
      BY <2>7 DEF FailCommit, failRows
    <3> QED BY <1>1, <2>2, <3>2, <3>3, <3>4
  <2>8. ASSUME NEW w \in Workers, MaintCommit(w) PROVE stale'[up(v)]
    <3>1. CASE w = v
      <4>1. pc(v)' \in {"maint_clean", "idle"}
        BY <1>0, <2>8, <3>1, JobTyped, GotoJob
        DEF MaintCommit, Carries, PartSteps, ObjectSteps, Putting, Deleting, Steps, Reasons
      <4> QED BY <4>1
    <3>2. CASE w # v
      <4>1. pc(w) \in UploadSteps BY <2>8 DEF MaintCommit, UploadSteps
      <4>2. up(w) \in Uploads BY <1>0, <2>8, JobTyped DEF MaintCommit, Carries
      <4>3. stale' = stale \/ (w \notin lost /\ stale' = [stale EXCEPT ![up(w)] = FALSE])
        BY <2>8 DEF MaintCommit, Outcomes, Applied, failRows
      <4> QED BY <2>4, <3>2, <4>1, <4>2, <4>3
    <3> QED BY <3>1, <3>2
  <2> QED BY <2>1, <2>2, <2>3, <2>5, <2>6, <2>7, <2>8, StaleWriters
<1>3. CASE ~(job'[v] = job[v] /\ (v \in lost' <=> v \in lost))
  <2>1. /\ ~ \E u \in Uploads : ReserveUpload(u) \/ BecomeStale(u)
        /\ ~ UNCHANGED vars
    BY <1>3 DEF ReserveUpload, BecomeStale, vars
  <2>2. \A w \in Workers : Keeps(w) => w = v
    BY <1>3 DEF Keeps
  <2>3. StepOf(v)
    BY <1>0, <2>1, <2>2, WorkerKeeps DEF SessionNext, Next, StepOf
  <2>4. MaintLock(v)
    <3>1. ~SessionLost(v) BY DEF SessionLost
    <3> QED BY <1>0, <2>3, <3>1, Arrives DEF Arrivals
  <2>5. Confirmed(up(v)) /\ up(v)' = up(v) /\ stale' = stale
    BY <1>0, <2>4, JobTyped, GotoJob
    DEF MaintLock, Goto, db, Carries, PartSteps, ObjectSteps, Putting, Deleting, Steps, Reasons
  <2> QED BY <2>5 DEF Confirmed
<1> QED BY <1>2, <1>3

LEMMA LedgerInit == Init => LedgerInv
BY TypeInit DEF Init, LedgerInv, LocksHeld, ConfirmedStands, StaleStands,
  LedgerAgrees, pc, NoJob, UploadSteps, Putting, Deleting

LEMMA LedgerInductive == LedgerInv /\ [SessionNext]_vars => LedgerInv'
BY TypeStep, LocksStep, LedgerStep, ConfirmedStep, StaleStep DEF LedgerInv

\* The ledger and the attachments tell one story of each upload, whatever the
\* faults, lost database sessions included.
THEOREM LedgerCorrect == Spec \/ SessionSpec => []LedgerAgrees
<1>1. LedgerInv => LedgerAgrees BY DEF LedgerInv
<1>2. [Next]_vars => [SessionNext]_vars BY DEF SessionNext
<1> QED BY <1>1, <1>2, LedgerInit, LedgerInductive, PTL DEF Spec, SessionSpec

-----------------------------------------------------------------------------
(***************************************************************************)
(* Objects.  Needs the advisory locks to last: no session is lost.         *)
(***************************************************************************)
LEMMA NothingLost ==
  ASSUME lost = {}, [Next]_vars PROVE lost' = {}
<1>1. ASSUME NEW w \in Workers, Advance(w) PROVE lost' = {}
  BY <1>1 DEF Advance, lockKeys, Release, PartLock, PartPut, PartCommit, PartCleanup, CompleteLock,
    CompletePut, CompleteCommit, Staging, CleanupLock, CleanupDelete, CleanupCommit, FailCommit,
    FailClean, RemoveLock, RemoveCommit, RemoveClean, MaintLock, MaintCommit, MaintClean, MaintFinish
<1>2. ASSUME NEW w \in Workers, NEW u \in Uploads,
             \/ \E p \in Parts : UploadPart(w, u, p)
             \/ \E o \in Objects : CompleteUpload(w, u, o)
             \/ AttemptFails(w, u) \/ FailUpload(w, u) \/ RemoveAttachment(w, u) \/ Maintain(w, u)
      PROVE lost' = {}
  BY <1>2 DEF UploadPart, CompleteUpload, AttemptFails, FailUpload, RemoveAttachment, Maintain
<1>3. ASSUME NEW w \in Workers, Crash(w) PROVE lost' = {}
  BY <1>3 DEF Crash, Release
<1>4. UNCHANGED vars => lost' = {} BY DEF vars
<1>5. ASSUME NEW u \in Uploads, ReserveUpload(u) \/ BecomeStale(u) PROVE lost' = {}
  BY <1>5 DEF ReserveUpload, BecomeStale
<1> QED BY <1>1, <1>2, <1>3, <1>4, <1>5 DEF Next

\* Who writes what the invariant reads.
LEMMA ObjectWriters ==
  ASSUME [Next]_vars
  PROVE  /\ object' = object \/ \E w \in Workers : CompleteCommit(w) \/ RemoveCommit(w)
         /\ row' = row \/ \E w \in Workers : CompleteCommit(w) \/ CleanupCommit(w)
         /\ blob' = blob \/ \E w \in Workers : CompletePut(w) \/ CleanupDelete(w)
<1> DEFINE P == /\ object' = object \/ \E w \in Workers : CompleteCommit(w) \/ RemoveCommit(w)
                /\ row' = row \/ \E w \in Workers : CompleteCommit(w) \/ CleanupCommit(w)
                /\ blob' = blob \/ \E w \in Workers : CompletePut(w) \/ CleanupDelete(w)
<1>1. ASSUME NEW w \in Workers, Advance(w) PROVE P
  BY <1>1 DEF Advance, db, store, PartLock, PartPut, PartCommit, PartCleanup, CompleteLock,
    CompletePut, CompleteCommit, Staging, CleanupLock, CleanupDelete, CleanupCommit, FailCommit,
    FailClean, RemoveLock, RemoveCommit, RemoveClean, MaintLock, MaintCommit, MaintClean, MaintFinish
<1>2. ASSUME NEW w \in Workers, NEW u \in Uploads,
             \/ \E p \in Parts : UploadPart(w, u, p)
             \/ \E o \in Objects : CompleteUpload(w, u, o)
             \/ AttemptFails(w, u) \/ FailUpload(w, u) \/ RemoveAttachment(w, u) \/ Maintain(w, u)
      PROVE P
  BY <1>2 DEF db, store, UploadPart, CompleteUpload, AttemptFails, FailUpload, RemoveAttachment,
    Maintain
<1>3. ASSUME NEW w \in Workers, Crash(w) PROVE P
  BY <1>3 DEF Crash, db, store
<1>4. ASSUME NEW u \in Uploads, ReserveUpload(u) \/ BecomeStale(u) PROVE P
  BY <1>4 DEF ReserveUpload, BecomeStale, store
<1>5. UNCHANGED vars => P BY DEF vars
<1> QED BY <1>1, <1>2, <1>3, <1>4, <1>5 DEF Next

\* A worker whose job changed took the step itself.
LEMMA Mover ==
  ASSUME TypeInv, LocksHeld, [Next]_vars, NEW v \in Workers, job'[v] # job[v]
  PROVE  StepOf(v)
<1>1. ~ \E u \in Uploads : ReserveUpload(u) \/ BecomeStale(u)
  BY DEF ReserveUpload, BecomeStale
<1>2. ~ UNCHANGED vars
  BY DEF vars
<1>3. \A w \in Workers : Keeps(w) => w = v
  BY DEF Keeps
<1> QED BY <1>1, <1>2, <1>3, WorkerKeeps DEF Next, StepOf

\* A completion holds its object's lock until it commits, a cleanup until it has
\* deleted and tombstoned: they never work on one object at the same time.
LEMMA ObjectsApart ==
  ASSUME TypeInv, LocksHeld, lost = {}, NEW v \in Workers, NEW w \in Workers,
         pc(v) \in Putting, pc(w) \in Deleting
  PROVE  ob(v) # ob(w)
<1>1. v # w BY DEF Putting, Deleting
<1>2. storageObjectLockKey(ob(v)) \in holds[v] /\ storageObjectLockKey(ob(w)) \in holds[w]
  BY DEF LocksHeld
<1>3. holds[v] \cap holds[w] = {} BY <1>1 DEF LocksHeld
<1> QED BY <1>2, <1>3

LEMMA ObjectsStep ==
  ASSUME ObjectInv, [Next]_vars PROVE ObjectsSafe'
<1>0. /\ TypeInv /\ LocksHeld /\ lost = {} /\ ObjectsSafe
      /\ object \in [Uploads -> Objects \cup {None}]
      /\ row \in [Objects -> {"absent", "live", "deleted"}]
      /\ None \notin Objects
  BY FileStoreAssumption DEF ObjectInv, LedgerInv, TypeInv, TypeOK
<1>1. \A w \in Workers : pc(w) \in Putting \cup Deleting => ob(w) \in Objects /\ up(w) \in Uploads
  BY <1>0, JobTyped DEF Carries, ObjectSteps, Putting, Deleting
<1>2. ASSUME NEW w \in Workers, CompleteCommit(w)
      PROVE  /\ pc(w) \in Putting /\ ob(w) \in blob /\ blob' = blob
             /\ \/ object' = object /\ row' = row
                \/ /\ object' = [object EXCEPT ![up(w)] = ob(w)]
                   /\ row' = [row EXCEPT ![ob(w)] = "live"]
  BY <1>0, <1>2 DEF CompleteCommit, ObjectsSafe, Putting, db, store
<1>3. ASSUME NEW w \in Workers, RemoveCommit(w)
      PROVE  /\ up(w) \in Uploads /\ blob' = blob /\ row' = row
             /\ object' \in {object, [object EXCEPT ![up(w)] = None]}
  BY <1>0, <1>3, JobTyped DEF RemoveCommit, Carries, store
<1>4. ASSUME NEW w \in Workers, CleanupCommit(w)
      PROVE  /\ pc(w) \in Deleting /\ object' = object /\ blob' = blob
             /\ row' \in {row, [row EXCEPT ![ob(w)] = "deleted"]}
  BY <1>4 DEF CleanupCommit, Deleting, store
<1>5. ASSUME NEW w \in Workers, CompletePut(w)
      PROVE  /\ pc(w) \in Putting /\ object' = object /\ row' = row
             /\ blob' \in {blob, blob \cup {ob(w)}}
  BY <1>5 DEF CompletePut, Putting, db
<1>6. ASSUME NEW w \in Workers, CleanupDelete(w)
      PROVE  /\ pc(w) \in Deleting /\ object' = object /\ row' = row
             /\ blob' \in {blob, blob \ {ob(w)}}
  BY <1>6 DEF CleanupDelete, Deleting, db
<1>7. ASSUME NEW v \in Workers, job'[v] # job[v], pc(v)' \in Arrivals
      PROVE  \/ pc(v)' = "part_commit" /\ PartPut(v)
             \/ pc(v)' = "maint_commit" /\ MaintLock(v)
             \/ pc(v)' = "complete_commit" /\ CompletePut(v)
             \/ pc(v)' = "cleanup_delete" /\ CleanupLock(v)
             \/ pc(v)' = "cleanup_commit" /\ CleanupDelete(v)
  <2>1. ~SessionLost(v) BY <1>7 DEF SessionLost
  <2> QED BY <1>0, <1>7, <2>1, Mover, Arrives
<1>8. ASSUME NEW v \in Workers, pc(v)' \in Deleting, NEW u \in Uploads
      PROVE  object'[u] # ob(v)'
  <2>1. CASE job'[v] = job[v]
    <3>1. pc(v) \in Deleting /\ ob(v)' = ob(v) /\ ob(v) \in Objects /\ object[u] # ob(v)
      BY <1>0, <1>1, <1>8, <2>1 DEF pc, ob, ObjectsSafe
    <3>2. ASSUME NEW w \in Workers, CompleteCommit(w) PROVE object'[u] # ob(v)
      BY <1>0, <1>1, <1>2, <3>1, <3>2, ObjectsApart
    <3>3. ASSUME NEW w \in Workers, RemoveCommit(w) PROVE object'[u] # ob(v)
      BY <1>0, <1>3, <3>1, <3>3
    <3> QED BY <3>1, <3>2, <3>3, ObjectWriters
  <2>2. CASE job'[v] # job[v] /\ CleanupLock(v) /\ pc(v)' = "cleanup_delete"
    <3>1. object' = object /\ ob(v)' = ob(v) /\ ob(v) \in Objects /\ DeleteObject(ob(v))
      BY <1>0, <2>2, JobTyped, GotoJob
      DEF CleanupLock, Goto, AfterCleanup, db, Carries, PartSteps, ObjectSteps, Putting, Deleting,
        Steps, Reasons
    <3> QED BY <1>0, <3>1 DEF DeleteObject, References, ObjectsSafe
  <2>3. CASE job'[v] # job[v] /\ CleanupDelete(v) /\ pc(v)' = "cleanup_commit"
    <3>1. object' = object /\ ob(v)' = ob(v) /\ pc(v) \in Deleting
      BY <1>0, <2>3, JobTyped, GotoJob
      DEF CleanupDelete, Goto, AfterCleanup, db, Carries, PartSteps, ObjectSteps, Putting, Deleting,
        Steps, Reasons
    <3> QED BY <1>0, <3>1 DEF ObjectsSafe
  <2> QED BY <1>7, <1>8, <2>1, <2>2, <2>3 DEF Arrivals, Deleting
<1>9. ASSUME NEW v \in Workers, pc(v)' = "complete_commit"
      PROVE  ob(v)' \in blob'
  <2>1. CASE job'[v] = job[v]
    <3>1. pc(v) \in Putting /\ ob(v)' = ob(v) /\ ob(v) \in blob
      BY <1>0, <1>9, <2>1 DEF pc, ob, ObjectsSafe, Putting
    <3>2. ASSUME NEW w \in Workers, CleanupDelete(w) PROVE ob(v) \in blob'
      BY <1>0, <1>6, <3>1, <3>2, ObjectsApart
    <3> QED BY <1>5, <3>1, <3>2, ObjectWriters
  <2>2. CASE job'[v] # job[v]
    <3>1. CompletePut(v) BY <1>7, <1>9, <2>2 DEF Arrivals
    <3> QED
      BY <1>0, <1>9, <3>1, JobTyped, GotoJob
      DEF CompletePut, Goto, Carries, PartSteps, ObjectSteps, Putting, Deleting, Steps, Reasons
  <2> QED BY <2>1, <2>2
<1>10. ASSUME NEW u \in Uploads, object'[u] # None
       PROVE  object'[u] \in blob' /\ row'[object'[u]] = "live"
  <2>0. \A x \in Uploads : object[x] # None => object[x] \in blob /\ row[object[x]] = "live"
    BY <1>0 DEF ObjectsSafe
  <2>1. ASSUME NEW w \in Workers, CompleteCommit(w)
        PROVE object'[u] \in blob' /\ row'[object'[u]] = "live"
    BY <1>0, <1>1, <1>2, <1>10, <2>0, <2>1
  <2>2. ASSUME NEW w \in Workers, RemoveCommit(w)
        PROVE object'[u] \in blob' /\ row'[object'[u]] = "live"
    BY <1>0, <1>3, <1>10, <2>0, <2>2
  <2>3. ASSUME NEW w \in Workers, CleanupCommit(w)
        PROVE object'[u] \in blob' /\ row'[object'[u]] = "live"
    <3>1. object[u] # ob(w) BY <1>0, <1>4, <2>3 DEF ObjectsSafe
    <3> QED BY <1>0, <1>1, <1>4, <1>10, <2>0, <2>3, <3>1
  <2>4. ASSUME NEW w \in Workers, CompletePut(w)
        PROVE object'[u] \in blob' /\ row'[object'[u]] = "live"
    BY <1>5, <1>10, <2>0, <2>4
  <2>5. ASSUME NEW w \in Workers, CleanupDelete(w)
        PROVE object'[u] \in blob' /\ row'[object'[u]] = "live"
    <3>1. object[u] # ob(w) BY <1>0, <1>6, <2>5 DEF ObjectsSafe
    <3> QED BY <1>6, <1>10, <2>0, <2>5, <3>1
  <2>6. CASE object' = object /\ row' = row /\ blob' = blob
    BY <1>10, <2>0, <2>6
  <2> QED BY <2>1, <2>2, <2>3, <2>4, <2>5, <2>6, ObjectWriters
<1> QED BY <1>8, <1>9, <1>10 DEF ObjectsSafe

LEMMA ObjectInit == Init => ObjectInv
BY LedgerInit DEF Init, ObjectInv, ObjectsSafe, pc, NoJob, Deleting

\* No download can miss its bytes, for any number of uploads, contents and
\* requests, through crashes, failed commits and failed blob store calls, as
\* long as PostgreSQL keeps the session of an open transaction.
THEOREM NoDanglingReferenceCorrect ==
  Spec => []NoDanglingReference
<1>1. ObjectInv /\ [Next]_vars => ObjectInv'
  BY LedgerInductive, NothingLost, ObjectsStep DEF ObjectInv, SessionNext
<1>2. ObjectInv => NoDanglingReference
  BY DEF ObjectInv, LedgerInv, LedgerAgrees, ObjectsSafe, NoDanglingReference
<1> QED BY <1>1, <1>2, ObjectInit, PTL DEF Spec

-----------------------------------------------------------------------------
(***************************************************************************)
(* What a step may never undo.                                             *)
(***************************************************************************)
UndoesNothing(u) ==
  /\ Terminal(u) => transfer'[u] = transfer[u]
  /\ attach[u] = "removed" => attach'[u] = "removed" /\ object'[u] = None
  /\ transfer[u] = "reserved" /\ transfer'[u] = "failed" /\ ~stale[u]
       => \E w \in Workers : pc(w) = "fail" /\ up(w) = u

LEMMA Undone ==
  ASSUME LedgerInv, [SessionNext]_vars, NEW u \in Uploads
  PROVE  UndoesNothing(u) /\ (transfer[u] # "none" => transfer'[u] # "none")
<1> DEFINE P == UndoesNothing(u) /\ (transfer[u] # "none" => transfer'[u] # "none")
<1>0. /\ TypeInv /\ LedgerAgrees /\ transfer \in [Uploads -> TransferStatus]
      /\ attach \in [Uploads -> AttachmentStatus] /\ object \in [Uploads -> Objects \cup {None}]
      /\ ConfirmedStands /\ StaleStands
  BY DEF LedgerInv, TypeInv, TypeOK
<1>1. /\ attach[u] = "removed" => object[u] = None /\ transfer[u] # "none"
      /\ transfer[u] \in TransferStatus
  BY <1>0 DEF LedgerAgrees
<1>2. CASE UNCHANGED ledger BY <1>1, <1>2 DEF ledger, UndoesNothing
<1>3. ASSUME NEW x \in Uploads, ReserveUpload(x) PROVE P
  BY <1>0, <1>1, <1>3 DEF ReserveUpload, UndoesNothing, Terminal
<1>4. ASSUME NEW w \in Workers, CompleteCommit(w) PROVE P
  <2>1. up(w) \in Uploads BY <1>0, <1>4, JobTyped DEF CompleteCommit, Carries
  <2>2. \/ UNCHANGED ledger
        \/ /\ Owned(up(w))
           /\ transfer' = [transfer EXCEPT ![up(w)] = "completed"]
           /\ attach' = [attach EXCEPT ![up(w)] = "available"]
           /\ object' = [object EXCEPT ![up(w)] = ob(w)]
    BY <1>4 DEF CompleteCommit, ledger, db
  <2> QED BY <1>0, <1>1, <1>2, <2>1, <2>2 DEF UndoesNothing, Terminal, Owned
<1>5. ASSUME NEW w \in Workers, FailCommit(w) PROVE P
  <2>1. up(w) \in Uploads /\ pc(w) = "fail" BY <1>0, <1>5, JobTyped DEF FailCommit, Carries
  <2>2. \/ UNCHANGED ledger
        \/ /\ Owned(up(w)) /\ failRows(up(w)) /\ object' = object
    BY <1>5 DEF FailCommit, ledger
  <2> QED BY <1>0, <1>1, <1>2, <2>1, <2>2 DEF UndoesNothing, Terminal, failRows, Owned
<1>6. ASSUME NEW w \in Workers, RemoveCommit(w) PROVE P
  <2>1. up(w) \in Uploads BY <1>0, <1>6, JobTyped DEF RemoveCommit, Carries
  <2>2. \/ UNCHANGED ledger
        \/ /\ transfer' = transfer
           /\ attach' = [attach EXCEPT ![up(w)] = "removed"]
           /\ object' = [object EXCEPT ![up(w)] = None]
    BY <1>6 DEF RemoveCommit, ledger
  <2> QED BY <1>0, <1>1, <1>2, <2>1, <2>2 DEF UndoesNothing, Terminal
<1>7. ASSUME NEW w \in Workers, MaintCommit(w) PROVE P
  <2>1. up(w) \in Uploads BY <1>0, <1>7, JobTyped DEF MaintCommit, Carries
  <2>2. \/ UNCHANGED ledger
        \/ /\ w \notin lost /\ failRows(up(w)) /\ object' = object
    BY <1>7 DEF MaintCommit, ledger, Outcomes, Applied
  <2>3. w \notin lost => transfer[up(w)] = "reserved" /\ stale[up(w)]
    BY <1>0, <1>7 DEF MaintCommit, ConfirmedStands, StaleStands
  <2> QED BY <1>0, <1>1, <1>2, <2>1, <2>2, <2>3 DEF UndoesNothing, Terminal, failRows
<1> QED BY <1>2, <1>3, <1>4, <1>5, <1>6, <1>7, LedgerWriters

\* No step undoes what was settled, lost database sessions included: a transfer
\* that ended stays as it ended, a removed attachment stays removed, and
\* maintenance (maintenance.go, confirmUploadMaintenance under the upload lock)
\* fails no upload that saw activity since it was listed.
THEOREM NothingIsUndoneCorrect == Spec \/ SessionSpec => NothingIsUndone
<1>1. LedgerInv /\ [SessionNext]_vars => [\A u \in Uploads : UndoesNothing(u)]_vars BY Undone
<1>2. (\A u \in Uploads : UndoesNothing(u)) <=>
      (\A u \in Uploads :
         /\ Terminal(u) => transfer'[u] = transfer[u]
         /\ attach[u] = "removed" => attach'[u] = "removed" /\ object'[u] = None
         /\ transfer[u] = "reserved" /\ transfer'[u] = "failed" /\ ~stale[u]
              => \E w \in Workers : pc(w) = "fail" /\ up(w) = u)
  BY DEF UndoesNothing
<1>3. [Next]_vars => [SessionNext]_vars BY DEF SessionNext
<1> QED BY <1>1, <1>2, <1>3, LedgerInit, LedgerInductive, PTL DEF Spec, SessionSpec, NothingIsUndone

-----------------------------------------------------------------------------
(***************************************************************************)
(* Staged parts.                                                           *)
(***************************************************************************)
Cleaning == {"cleanup_lock"} \cup Deleting
Clearing == {"fail_clean", "maint_clean", "remove_clean"}
Gone(u) == Terminal(u) \/ attach[u] = "removed"

\* A job is about an upload that was reserved; one that clears the staged bytes
\* without a lock is about an upload nobody can complete any more.
Grounded(w) ==
  /\ pc(w) # "idle" => transfer[up(w)] # "none"
  /\ pc(w) = "remove_commit" => why(w) = "removed"
  /\ pc(w) \in Cleaning => why(w) \in {"refused", "failed"} \/ attach[up(w)] = "removed"
  /\ pc(w) \in Clearing => Gone(up(w))
JobsGrounded == \A w \in Workers : Grounded(w)

\* No part before the reservation; what a live request is about to record is
\* staged.
PartsSafe ==
  /\ \A u \in Uploads : transfer[u] = "none" => parts[u] = {}
  /\ \A w \in Workers \ lost :
       pc(w) = "part_commit" /\ Owned(up(w)) => part(w) \in staged[up(w)]
  /\ PartsBacked

PartInv == LedgerInv /\ JobsGrounded /\ PartsSafe

\* What was reserved stays reserved or ends; what ended stays ended.
LEMMA Onward ==
  ASSUME LedgerInv, [SessionNext]_vars, NEW u \in Uploads
  PROVE  /\ transfer[u] # "none" => transfer'[u] # "none"
         /\ Gone(u) => transfer'[u] \in {"completed", "failed"} \/ attach'[u] = "removed"
         /\ attach[u] = "removed" => attach'[u] = "removed"
         /\ transfer[u] # "none" /\ transfer'[u] = "reserved" /\ attach'[u] = "pending" => Owned(u)
         /\ Gone(u) => ~Owned(u)
<1>1. UndoesNothing(u) /\ (transfer[u] # "none" => transfer'[u] # "none") BY Undone
<1>2. transfer[u] \in TransferStatus /\ LedgerAgrees BY DEF LedgerInv, TypeInv, TypeOK
<1>3. transfer[u] = "reserved" => attach[u] \in {"pending", "removed"} BY <1>2 DEF LedgerAgrees
<1> QED BY <1>1, <1>2, <1>3 DEF UndoesNothing, Gone, Terminal, Owned, TransferStatus

\* Where a step takes its worker.
LEMMA Lands ==
  ASSUME LedgerInv, NEW w \in Workers, Grounded(w), [SessionNext]_vars, StepOf(w)
  PROVE  Grounded(w)'
<1> USE DEF Goto, AfterCleanup, AfterFail, Carries, PartSteps, ObjectSteps, Putting, Deleting, Cleaning,
      Clearing, Steps, Reasons
<1>0. TypeInv /\ LedgerAgrees /\ object \in [Uploads -> Objects \cup {None}]
  BY DEF LedgerInv, TypeInv, TypeOK
<1>1. \A u \in Uploads : /\ transfer[u] # "none" => transfer'[u] # "none"
                         /\ Gone(u) => transfer'[u] \in {"completed", "failed"} \/ attach'[u] = "removed"
                         /\ attach[u] = "removed" => attach'[u] = "removed"
  BY Onward
<1>2. /\ pc(w) # "idle" => up(w) \in Uploads /\ transfer'[up(w)] # "none"
      /\ pc(w) = "remove_commit" => why(w) = "removed"
      /\ pc(w) \in Cleaning => why(w) \in {"refused", "failed"} \/ attach'[up(w)] = "removed"
      /\ pc(w) \in Clearing => transfer'[up(w)] \in {"completed", "failed"} \/ attach'[up(w)] = "removed"
  <2>1. pc(w) # "idle" => up(w) \in Uploads BY <1>0, JobTyped
  <2>2. CASE pc(w) = "idle" BY <2>2
  <2>3. CASE pc(w) # "idle" BY <2>1, <2>3, <1>1 DEF Grounded
  <2> QED BY <2>2, <2>3
<1>3. ASSUME NEW u \in Uploads, NEW p \in Parts, UploadPart(w, u, p) PROVE Grounded(w)'
  BY <1>0, <1>1, <1>3, StartJob DEF UploadPart, Owned, Grounded
<1>4. ASSUME NEW u \in Uploads, NEW o \in Objects, CompleteUpload(w, u, o) PROVE Grounded(w)'
  BY <1>0, <1>1, <1>4, StartJob DEF CompleteUpload, Owned, Grounded
<1>5. ASSUME NEW u \in Uploads, AttemptFails(w, u) \/ FailUpload(w, u) PROVE Grounded(w)'
  BY <1>0, <1>1, <1>5, StartJob DEF AttemptFails, FailUpload, Owned, Grounded
<1>6. ASSUME NEW u \in Uploads, RemoveAttachment(w, u) PROVE Grounded(w)'
  <2>1. transfer[u] # "none" BY <1>0, <1>6 DEF RemoveAttachment, LedgerAgrees
  <2> QED BY <1>0, <1>1, <1>6, <2>1, StartJob DEF RemoveAttachment, Grounded
<1>7. ASSUME NEW u \in Uploads, Maintain(w, u) PROVE Grounded(w)'
  BY <1>0, <1>1, <1>7, StartJob DEF Maintain, Candidate, Owned, Terminal, Grounded
<1>8. CASE PartLock(w) \/ PartPut(w)
  BY <1>0, <1>2, <1>8, JobTyped, GotoJob DEF PartLock, PartPut, Grounded
<1>9. CASE PartCommit(w) \/ PartCleanup(w)
  BY <1>0, <1>2, <1>9, JobTyped, GotoJob DEF PartCommit, PartCleanup, Grounded
<1>10. CASE CompleteLock(w) \/ CompletePut(w)
  BY <1>0, <1>2, <1>10, JobTyped, GotoJob DEF CompleteLock, CompletePut, Grounded
<1>11. CASE CompleteCommit(w)
  BY <1>0, <1>2, <1>11, JobTyped, GotoJob DEF CompleteCommit, Grounded
<1>12. CASE Staging(w) \/ FailClean(w) \/ RemoveClean(w) \/ Crash(w)
  BY <1>0, <1>2, <1>12, JobTyped, GotoJob DEF Staging, FailClean, RemoveClean, Crash, Grounded
<1>13. CASE CleanupLock(w)
  BY <1>0, <1>2, <1>13, JobTyped, GotoJob DEF CleanupLock, Grounded, Gone
<1>14. CASE CleanupDelete(w)
  BY <1>0, <1>2, <1>14, JobTyped, GotoJob DEF CleanupDelete, Grounded, Gone
<1>15. CASE CleanupCommit(w)
  BY <1>0, <1>2, <1>15, JobTyped, GotoJob DEF CleanupCommit, Grounded, Gone
<1>16. CASE FailCommit(w)
  <2>1. pc(w)' \in {"fail_clean", "staging", "idle"} /\ (pc(w)' # "idle" => up(w)' = up(w)) /\ up(w) \in Uploads
    BY <1>0, <1>16, JobTyped, GotoJob DEF FailCommit
  <2>2. pc(w)' = "fail_clean" => Owned(up(w)) /\ failRows(up(w))
    BY <1>0, <1>16, JobTyped, GotoJob DEF FailCommit, Applied
  <2>3. pc(w)' = "fail_clean" => transfer'[up(w)] = "failed"
    BY <2>1, <2>2, <1>0 DEF failRows, TypeInv, TypeOK
  <2> QED BY <1>2, <1>16, <2>1, <2>3 DEF FailCommit, Grounded, Gone, Terminal
<1>17. CASE RemoveLock(w)
  BY <1>0, <1>2, <1>17, JobTyped, StartJob DEF RemoveLock, Grounded
<1>18. CASE RemoveCommit(w)
  <2>1. /\ pc(w)' \in {"idle", "remove_clean", "cleanup_lock"} /\ up(w) \in Uploads
        /\ pc(w)' # "idle" => up(w)' = up(w) /\ attach' = [attach EXCEPT ![up(w)] = "removed"]
    BY <1>0, <1>18, JobTyped, GotoJob DEF RemoveCommit, Applied
  <2>2. pc(w)' # "idle" => attach'[up(w)] = "removed" BY <1>0, <2>1 DEF TypeInv, TypeOK
  <2> QED BY <1>2, <1>18, <2>1, <2>2 DEF RemoveCommit, Grounded, Gone
<1>19. CASE MaintLock(w)
  <2>1. /\ pc(w)' \in {"maint_commit", "maint_clean", "idle"} /\ up(w) \in Uploads
        /\ pc(w)' # "idle" => up(w)' = up(w)
        /\ pc(w)' = "maint_clean" => Terminal(up(w))
    BY <1>0, <1>19, JobTyped, GotoJob DEF MaintLock
  <2>2. pc(w)' = "maint_clean" => transfer'[up(w)] \in {"completed", "failed"} \/ attach'[up(w)] = "removed"
    BY <1>1, <2>1 DEF Gone
  <2> QED BY <1>2, <1>19, <2>1, <2>2 DEF MaintLock, Grounded, Gone, Terminal
<1>20. CASE MaintCommit(w)
  <2>1. /\ pc(w)' \in {"maint_clean", "idle"} /\ up(w) \in Uploads
        /\ pc(w)' = "maint_clean" => up(w)' = up(w) /\ failRows(up(w))
    BY <1>0, <1>20, JobTyped, GotoJob DEF MaintCommit, Applied
  <2>2. pc(w)' = "maint_clean" => transfer'[up(w)] = "failed"
    BY <2>1, <1>0 DEF failRows, TypeInv, TypeOK
  <2> QED BY <1>2, <1>20, <2>1, <2>2 DEF MaintCommit, Grounded, Gone, Terminal
<1>21. CASE MaintClean(w) \/ MaintFinish(w)
  BY <1>0, <1>2, <1>21, JobTyped, GotoJob DEF MaintClean, MaintFinish, Grounded
<1>22. CASE SessionLost(w)
  <2>1. job' = job BY <1>22 DEF SessionLost
  <2>2. pc(w)' = pc(w) /\ up(w)' = up(w) /\ why(w)' = why(w) BY <2>1 DEF pc, up, why
  <2> QED BY <1>2, <2>2 DEF Grounded, Gone, Terminal
<1> QED
  BY <1>3, <1>4, <1>5, <1>6, <1>7, <1>8, <1>9, <1>10, <1>11, <1>12, <1>13, <1>14, <1>15, <1>16, <1>17, <1>18,
     <1>19, <1>20, <1>21, <1>22 DEF StepOf, Advance

LEMMA SessionMover ==
  ASSUME TypeInv, LocksHeld, [SessionNext]_vars, NEW v \in Workers,
         ~(job'[v] = job[v] /\ (v \in lost' <=> v \in lost))
  PROVE  StepOf(v)
<1>1. /\ ~ \E u \in Uploads : ReserveUpload(u) \/ BecomeStale(u)
      /\ ~ UNCHANGED vars
  BY DEF ReserveUpload, BecomeStale, vars
<1>2. \A w \in Workers : Keeps(w) => w = v
  BY DEF Keeps
<1> QED BY <1>1, <1>2, WorkerKeeps DEF SessionNext, Next, StepOf

LEMMA GroundedStep ==
  ASSUME PartInv, [SessionNext]_vars PROVE JobsGrounded'
<1> SUFFICES ASSUME NEW v \in Workers PROVE Grounded(v)' BY DEF JobsGrounded
<1>1. LedgerInv /\ TypeInv /\ LocksHeld /\ Grounded(v) BY DEF PartInv, LedgerInv, JobsGrounded
<1>2. CASE job'[v] = job[v] /\ (v \in lost' <=> v \in lost)
  <2>1. pc(v)' = pc(v) /\ up(v)' = up(v) /\ why(v)' = why(v) BY <1>2 DEF pc, up, why
  <2>2. pc(v) # "idle" => up(v) \in Uploads BY <1>1, JobTyped DEF Carries
  <2>3. pc(v) # "idle" => /\ transfer[up(v)] # "none" => transfer'[up(v)] # "none"
                          /\ Gone(up(v)) => transfer'[up(v)] \in {"completed", "failed"} \/ attach'[up(v)] = "removed"
                          /\ attach[up(v)] = "removed" => attach'[up(v)] = "removed"
    BY <1>1, <2>2, Onward
  <2> QED BY <1>1, <2>1, <2>3 DEF Grounded, Cleaning, Clearing, Deleting, Gone, Terminal
<1>3. CASE ~(job'[v] = job[v] /\ (v \in lost' <=> v \in lost))
  BY <1>1, <1>3, SessionMover, Lands
<1> QED BY <1>2, <1>3

LEMMA PartWriters ==
  ASSUME [SessionNext]_vars
  PROVE  /\ \/ staged' = staged
            \/ \E w \in Workers : PartPut(w) \/ PartCleanup(w) \/ Staging(w)
            \/ \E w \in Workers : FailClean(w) \/ RemoveClean(w) \/ MaintClean(w)
         /\ \/ parts' = parts
            \/ \E w \in Workers : PartCommit(w) \/ CompleteCommit(w)
            \/ \E w \in Workers : FailCommit(w) \/ MaintCommit(w) \/ MaintFinish(w)
<1> DEFINE S == \/ staged' = staged
                \/ \E w \in Workers : PartPut(w) \/ PartCleanup(w) \/ Staging(w)
                \/ \E w \in Workers : FailClean(w) \/ RemoveClean(w) \/ MaintClean(w)
           R == \/ parts' = parts
                \/ \E w \in Workers : PartCommit(w) \/ CompleteCommit(w)
                \/ \E w \in Workers : FailCommit(w) \/ MaintCommit(w) \/ MaintFinish(w)
<1>1. ASSUME NEW w \in Workers, Advance(w) PROVE S /\ R
  BY <1>1 DEF Advance, db, store, PartLock, PartPut, PartCommit, PartCleanup, CompleteLock,
    CompletePut, CompleteCommit, Staging, CleanupLock, CleanupDelete, CleanupCommit, FailCommit,
    FailClean, RemoveLock, RemoveCommit, RemoveClean, MaintLock, MaintCommit, MaintClean, MaintFinish
<1>2. ASSUME NEW w \in Workers, NEW u \in Uploads,
             \/ \E p \in Parts : UploadPart(w, u, p)
             \/ \E o \in Objects : CompleteUpload(w, u, o)
             \/ AttemptFails(w, u) \/ FailUpload(w, u) \/ RemoveAttachment(w, u) \/ Maintain(w, u)
      PROVE S /\ R
  BY <1>2 DEF db, store, UploadPart, CompleteUpload, AttemptFails, FailUpload, RemoveAttachment,
    Maintain
<1>3. ASSUME NEW w \in Workers, Crash(w) \/ SessionLost(w) PROVE S /\ R
  BY <1>3 DEF Crash, SessionLost, db, store
<1>4. ASSUME NEW u \in Uploads, ReserveUpload(u) \/ BecomeStale(u) PROVE S /\ R
  BY <1>4 DEF ReserveUpload, BecomeStale, store
<1>5. UNCHANGED vars => S /\ R BY DEF vars
<1> QED BY <1>1, <1>2, <1>3, <1>4, <1>5 DEF SessionNext, Next

\* Only a live PartCommit of a reserved upload adds a part row.
LEMMA PartsGrow ==
  ASSUME PartInv, [SessionNext]_vars, NEW u \in Uploads, NEW p \in parts'[u], p \notin parts[u]
  PROVE  \E w \in Workers \ lost :
           PartCommit(w) /\ up(w) = u /\ part(w) = p /\ transfer[u] = "reserved"
<1>0. TypeInv /\ parts \in [Uploads -> SUBSET Parts] BY DEF PartInv, LedgerInv, TypeInv, TypeOK
<1>1. parts' # parts OBVIOUS
<1>2. ASSUME NEW w \in Workers,
             parts' \in {parts, [parts EXCEPT ![up(w)] = {}]}
      PROVE  FALSE
  BY <1>0, <1>2
<1>3. ASSUME NEW w \in Workers, CompleteCommit(w) \/ FailCommit(w) \/ MaintCommit(w) \/ MaintFinish(w)
      PROVE  FALSE
  <2>1. parts' \in {parts, [parts EXCEPT ![up(w)] = {}]}
    BY <1>3 DEF CompleteCommit, FailCommit, MaintCommit, MaintFinish, failRows, db
  <2> QED BY <1>2, <2>1
<1>4. ASSUME NEW w \in Workers, PartCommit(w)
      PROVE  w \notin lost /\ up(w) = u /\ part(w) = p /\ transfer[u] = "reserved"
  <2>1. /\ w \notin lost /\ transfer[up(w)] = "reserved"
        /\ parts' = [parts EXCEPT ![up(w)] = @ \cup {part(w)}]
    BY <1>1, <1>4 DEF PartCommit, Outcomes, Applied
  <2>2. up(w) = u BY <1>0, <2>1
  <2>3. part(w) = p BY <1>0, <2>1, <2>2
  <2> QED BY <2>1, <2>2, <2>3
<1> QED BY <1>1, <1>3, <1>4, PartWriters

\* Staged bytes of an upload that can still be completed go only when
\* cleanupUnboundPart found no row for them.
LEMMA StagedKept ==
  ASSUME PartInv, [SessionNext]_vars, NEW u \in Uploads, Owned(u), NEW p \in staged[u],
         p \notin staged'[u]
  PROVE  \E w \in Workers : PartCleanup(w) /\ up(w) = u /\ part(w) = p /\ p \notin parts[u]
<1>0. TypeInv /\ staged \in [Uploads -> SUBSET Parts] BY DEF PartInv, LedgerInv, TypeInv, TypeOK
<1>1. staged' # staged OBVIOUS
<1>2. ASSUME NEW w \in Workers, PartPut(w) PROVE FALSE
  <2>1. staged' \in {staged, [staged EXCEPT ![up(w)] = @ \cup {part(w)}]} BY <1>2 DEF PartPut
  <2> QED BY <1>0, <2>1
<1>3. ASSUME NEW w \in Workers, Staging(w) PROVE FALSE
  <2>1. transfer[up(w)] # "reserved" /\ staged' = [staged EXCEPT ![up(w)] = {}]
    BY <1>1, <1>3 DEF Staging
  <2>2. up(w) # u BY <2>1 DEF Owned
  <2> QED BY <1>0, <2>1, <2>2
<1>4. ASSUME NEW w \in Workers, FailClean(w) \/ RemoveClean(w) \/ MaintClean(w) PROVE FALSE
  <2>1. pc(w) \in Clearing /\ (\E left : staged' = [staged EXCEPT ![up(w)] = left])
    BY <1>4 DEF FailClean, RemoveClean, MaintClean, Clearing
  <2>2. Gone(up(w)) BY <2>1 DEF PartInv, JobsGrounded, Grounded
  <2>3. up(w) # u BY <2>2 DEF Gone, Terminal, Owned
  <2> QED BY <1>0, <2>1, <2>3
<1>5. ASSUME NEW w \in Workers, PartCleanup(w)
      PROVE  up(w) = u /\ part(w) = p /\ p \notin parts[u]
  <2>1. part(w) \notin parts[up(w)] /\ staged' = [staged EXCEPT ![up(w)] = @ \ {part(w)}]
    BY <1>1, <1>5 DEF PartCleanup, Unbound
  <2>2. up(w) = u BY <1>0, <2>1
  <2>3. part(w) = p BY <1>0, <2>1, <2>2
  <2> QED BY <2>1, <2>2, <2>3
<1> QED BY <1>1, <1>2, <1>3, <1>4, <1>5, PartWriters

LEMMA PartsStep ==
  ASSUME PartInv, [SessionNext]_vars PROVE PartsSafe'
<1>0. /\ LedgerInv /\ TypeInv /\ LocksHeld /\ JobsGrounded /\ PartsSafe
      /\ staged \in [Uploads -> SUBSET Parts]
  BY DEF PartInv, LedgerInv, TypeInv, TypeOK
<1>1. ASSUME NEW u \in Uploads, transfer'[u] = "none" PROVE parts'[u] = {}
  <2>1. transfer[u] = "none" BY <1>0, <1>1, Onward
  <2>2. parts[u] = {} BY <1>0, <2>1 DEF PartsSafe
  <2>3. ASSUME NEW p \in parts'[u] PROVE FALSE
    BY <2>1, <2>2, <2>3, PartsGrow
  <2> QED BY <2>3
<1>2. ASSUME NEW v \in Workers, v \notin lost', pc(v)' = "part_commit",
             transfer'[up(v)'] = "reserved", attach'[up(v)'] = "pending"
      PROVE  part(v)' \in staged'[up(v)']
  <2>1. CASE job'[v] = job[v] /\ (v \in lost' <=> v \in lost)
    <3>1. pc(v) = "part_commit" /\ up(v)' = up(v) /\ part(v)' = part(v) /\ v \notin lost
      BY <1>2, <2>1 DEF pc, up, part
    <3>2. up(v) \in Uploads BY <1>0, <3>1, JobTyped DEF Carries
    <3>3. transfer[up(v)] # "none" BY <1>0, <3>1 DEF JobsGrounded, Grounded
    <3>4. Owned(up(v)) BY <1>0, <1>2, <3>1, <3>2, <3>3, Onward
    <3>5. part(v) \in staged[up(v)] BY <1>0, <3>1, <3>4 DEF PartsSafe
    <3>6. uploadLockKey(up(v)) \in holds[v] BY <1>0, <3>1 DEF LocksHeld, UploadSteps
    <3>7. ASSUME NEW w \in Workers, PartCleanup(w), up(w) = up(v) PROVE FALSE
      <4>1. w # v BY <3>1, <3>7 DEF PartCleanup
      <4> QED BY <3>6, <3>7, <4>1 DEF PartCleanup, Unlocked
    <3>8. part(v) \in staged'[up(v)] BY <3>2, <3>4, <3>5, <3>7, StagedKept
    <3> QED BY <3>1, <3>8
  <2>2. CASE ~(job'[v] = job[v] /\ (v \in lost' <=> v \in lost))
    <3>1. StepOf(v) BY <1>0, <2>2, SessionMover
    <3>2. ~SessionLost(v) BY <1>2 DEF SessionLost
    <3>3. PartPut(v) BY <1>0, <1>2, <3>1, <3>2, Arrives DEF Arrivals
    <3>4. up(v) \in Uploads /\ part(v) \in Parts
      BY <1>0, <3>3, JobTyped DEF PartPut, Carries, PartSteps
    <3>5. up(v)' = up(v) /\ part(v)' = part(v) /\ staged' = [staged EXCEPT ![up(v)] = @ \cup {part(v)}]
      BY <1>0, <1>2, <3>3, JobTyped, GotoJob
      DEF PartPut, Goto, Carries, PartSteps, ObjectSteps, Putting, Deleting, Steps, Reasons
    <3> QED BY <1>0, <3>4, <3>5
  <2> QED BY <2>1, <2>2
<1>3. ASSUME NEW u \in Uploads, transfer'[u] = "reserved", attach'[u] = "pending", NEW p \in parts'[u]
      PROVE  p \in staged'[u]
  <2>1. transfer[u] # "none"
    <3>1. CASE transfer[u] = "none"
      <4>1. p \notin parts[u] BY <1>0, <3>1 DEF PartsSafe
      <4> QED BY <1>3, <3>1, <4>1, PartsGrow
    <3> QED BY <3>1
  <2>2. Owned(u) BY <1>0, <1>3, <2>1, Onward
  <2>3. CASE p \in parts[u]
    <3>1. p \in staged[u] BY <1>0, <2>2, <2>3 DEF PartsSafe, PartsBacked
    <3> QED BY <2>2, <2>3, <3>1, StagedKept
  <2>4. CASE p \notin parts[u]
    <3>1. PICK w \in Workers \ lost : PartCommit(w) /\ up(w) = u /\ part(w) = p
      BY <1>3, <2>4, PartsGrow
    <3>2. p \in staged[u] BY <1>0, <2>2, <3>1 DEF PartsSafe, PartCommit
    <3>3. staged' = staged BY <3>1 DEF PartCommit, store
    <3> QED BY <3>2, <3>3
  <2> QED BY <2>3, <2>4
<1> QED BY <1>1, <1>2, <1>3 DEF PartsSafe, PartsBacked, Owned

LEMMA PartInit == Init => PartInv
BY LedgerInit DEF Init, PartInv, JobsGrounded, Grounded, PartsSafe, PartsBacked, Cleaning, Deleting,
  Clearing, pc, NoJob

LEMMA PartInductive == PartInv /\ [SessionNext]_vars => PartInv'
BY LedgerInductive, GroundedStep, PartsStep DEF PartInv

\* A part row of an upload that can still be completed is backed by staged
\* bytes, for any number of concurrent parts, completions, removals and
\* maintenance cycles, even where PostgreSQL drops sessions: a part whose lock
\* was lost is never recorded (UploadPart, cleanupUnboundPart).
THEOREM PartsBackedCorrect == Spec \/ SessionSpec => []PartsBacked
<1>1. PartInv => PartsBacked BY DEF PartInv, PartsSafe
<1>2. [Next]_vars => [SessionNext]_vars BY DEF SessionNext
<1> QED BY <1>1, <1>2, PartInit, PartInductive, PTL DEF Spec, SessionSpec
=============================================================================
