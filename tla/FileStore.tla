------------------------------ MODULE FileStore ------------------------------
(***************************************************************************)
(* Workspace files: the upload lifecycle over the database (transfer       *)
(* ledger, attachments, content-addressed object registry, part rows), the *)
(* blob store (canonical objects, staged parts) and the advisory locks     *)
(* that tie the two together.  From internal/workspace/files: service.go,  *)
(* pg_repository.go, upload_attempt.go, maintenance.go.                    *)
(*                                                                         *)
(* A worker is one request, or one candidate of a maintenance cycle.  A    *)
(* database transaction takes effect in one step, its commit; blob store   *)
(* calls made while it is open are steps of their own, since nothing rolls *)
(* them back.  Advisory locks are held from the step that takes them to    *)
(* the end of the transaction.  Event and audit rows are written in the    *)
(* same transaction as the status they report, and no property reads them. *)
(* The bytes of a request's own attempt key are private to it and left out.*)
(***************************************************************************)
EXTENDS Naturals, FiniteSets, TLC

CONSTANTS
  Uploads,   \* upload ids; an upload and its attachment share one name
  Objects,   \* content digests, that is storage objects
  Parts,     \* part numbers of a chunked upload
  Workers,   \* concurrent requests and maintenance candidates
  Faults,    \* which faults happen: "crash", "commit", "storage"
  None       \* a NULL column, an argument a job does not have

ASSUME FileStoreAssumption ==
  /\ None \notin Objects /\ None \notin Uploads /\ None \notin Parts
  /\ Faults \subseteq {"crash", "commit", "storage"}

VARIABLES
  transfer, \* transfer_ledger.status of each upload
  attach,   \* attachments.status of each upload's attachment
  object,   \* attachments.storage_object_id
  row,      \* workspace_storage_objects: absent, live, or deleted_at set
  parts,    \* workspace_upload_parts rows
  stale,    \* last activity is older than staleUploadAge
  blob,     \* canonical objects whose bytes are in the blob store
  staged,   \* parts whose bytes are in the blob store
  job,      \* what each worker is doing
  holds,    \* advisory locks of each worker's open transaction
  lost      \* workers whose database session died under an open transaction

db == <<transfer, attach, object, row, parts, stale>>
store == <<blob, staged>>
vars == <<transfer, attach, object, row, parts, stale, blob, staged,
          job, holds, lost>>

TransferStatus == {"none", "reserved", "completed", "failed"}
AttachmentStatus == {"none", "pending", "available", "failed", "removed"}
Steps == {"idle", "part_lock", "part_put", "part_commit", "part_cleanup",
          "complete_lock", "complete_put", "complete_commit", "staging",
          "cleanup_lock", "cleanup_delete", "cleanup_commit",
          "fail", "fail_clean", "remove_lock", "remove_commit", "remove_clean",
          "maint_lock", "maint_commit", "maint_clean", "maint_finish"}
Reasons == {"none", "refused", "failed", "removed", "asked", "terminal"}

uploadLockKey(u) == <<"workspace-upload", u>>
storageObjectLockKey(o) == <<"workspace-storage-object", o>>
attachmentLockKey(u) == <<"workspace-attachment", u>>
Keys == {uploadLockKey(u) : u \in Uploads} \cup
        {storageObjectLockKey(o) : o \in Objects} \cup
        {attachmentLockKey(u) : u \in Uploads}

-----------------------------------------------------------------------------
\* loadOwnedUpload: the upload can still be written to.
Owned(u) == transfer[u] = "reserved" /\ attach[u] = "pending"
Terminal(u) == transfer[u] \in {"completed", "failed"}
References(o) == {u \in Uploads : object[u] = o}

\* lockKeys: pg_advisory_xact_lock on every key, in sorted order.
lockKeys(w, ks) ==
  /\ \A v \in Workers \ {w} : ks \cap holds[v] = {}
  /\ holds' = [holds EXCEPT ![w] = ks]
  /\ UNCHANGED lost
\* The locks are free: for a transaction that takes and releases them in one step.
Unlocked(w, ks) == \A v \in Workers \ {w} : ks \cap holds[v] = {}
Release(w) ==
  /\ holds' = [holds EXCEPT ![w] = {}]
  /\ lost' = lost \ {w}

\* What COMMIT may report: a commit of a dead session never happened; one that
\* reports an error may or may not have.
Outcomes(w) ==
  IF w \in lost THEN {"rolledback"}
  ELSE {"ok"} \cup (IF "commit" \in Faults THEN {"rolledback", "unknown"} ELSE {})
Applied(r) == r \in {"ok", "unknown"}

\* A job: its next step, its arguments, and why it cleans up, which decides
\* how it goes on.
NoJob == [step |-> "idle", up |-> None, ob |-> None, part |-> None, why |-> "none"]
pc(w) == job[w].step
up(w) == job[w].up
ob(w) == job[w].ob
part(w) == job[w].part
why(w) == job[w].why

Start(w, step, u, o, p, reason) ==
  job' = [job EXCEPT ![w] = [step |-> step, up |-> u, ob |-> o, part |-> p, why |-> reason]]
GotoFor(w, step, reason) ==
  job' = [job EXCEPT ![w] = IF step = "idle" THEN NoJob
                            ELSE [job[w] EXCEPT !.step = step, !.why = reason]]
Goto(w, step) == GotoFor(w, step, why(w))

-----------------------------------------------------------------------------
\* ReserveUpload: a pending attachment with a reserved transfer.
ReserveUpload(u) ==
  /\ transfer[u] = "none"
  /\ transfer' = [transfer EXCEPT ![u] = "reserved"]
  /\ attach' = [attach EXCEPT ![u] = "pending"]
  /\ UNCHANGED <<object, row, parts, stale, store, job, holds, lost>>

\* Time: the upload saw no activity for staleUploadAge.
BecomeStale(u) ==
  /\ transfer[u] # "none" /\ ~stale[u]
  /\ stale' = [stale EXCEPT ![u] = TRUE]
  /\ UNCHANGED <<transfer, attach, object, row, parts, store, job, holds, lost>>

(***************************************************************************)
(* UploadPart.                                                             *)
(***************************************************************************)
UploadPart(w, u, p) ==
  /\ pc(w) = "idle" /\ Owned(u)
  /\ Start(w, "part_lock", u, None, p, "none")
  /\ UNCHANGED <<db, store, holds, lost>>

PartLock(w) ==
  /\ pc(w) = "part_lock"
  /\ \/ /\ Owned(up(w))
        /\ lockKeys(w, {uploadLockKey(up(w))})
        /\ Goto(w, "part_put")
     \/ \* no longer owned, or the part exists with another digest
        /\ Unlocked(w, {uploadLockKey(up(w))})
        /\ ~Owned(up(w)) \/ part(w) \in parts[up(w)]
        /\ Goto(w, "part_cleanup")
        /\ Release(w)
  /\ UNCHANGED <<db, store>>

PartPut(w) ==
  /\ pc(w) = "part_put"
  /\ \/ /\ staged' = [staged EXCEPT ![up(w)] = @ \cup {part(w)}]
        /\ Goto(w, "part_commit")
        /\ UNCHANGED <<holds, lost>>
     \/ /\ "storage" \in Faults
        /\ staged' \in {staged, [staged EXCEPT ![up(w)] = @ \cup {part(w)}]}
        /\ Goto(w, "part_cleanup")
        /\ Release(w)
  /\ UNCHANGED <<db, blob>>

\* UpsertUploadPart and TouchUpload, which needs a reserved transfer.
PartCommit(w) ==
  /\ pc(w) = "part_commit"
  /\ \E r \in Outcomes(w) :
       LET touched == transfer[up(w)] = "reserved" IN
       /\ IF touched /\ Applied(r)
          THEN /\ parts' = [parts EXCEPT ![up(w)] = @ \cup {part(w)}]
               /\ stale' = [stale EXCEPT ![up(w)] = FALSE]
          ELSE UNCHANGED <<parts, stale>>
       /\ Goto(w, IF touched /\ r = "ok" THEN "idle" ELSE "part_cleanup")
  /\ Release(w)
  /\ UNCHANGED <<transfer, attach, object, row, store>>

\* cleanupUnboundPart: the staged bytes go only if no row names them.
UnboundAlways(u, p) == TRUE
Unbound(u, p) == p \notin parts[u]

PartCleanup(w) ==
  /\ pc(w) = "part_cleanup"
  /\ Unlocked(w, {uploadLockKey(up(w))})
  /\ staged' = IF Unbound(up(w), part(w))
               THEN [staged EXCEPT ![up(w)] = @ \ {part(w)}] ELSE staged
  /\ Goto(w, "idle")
  /\ UNCHANGED <<db, blob, holds, lost>>

(***************************************************************************)
(* CompleteUpload.                                                         *)
(***************************************************************************)
\* The body, or the assembled parts, are stored under the attempt key; their
\* digest names the object.  A chunked upload needs every part, row and bytes.
CompleteUpload(w, u, o) ==
  /\ pc(w) = "idle" /\ Owned(u)
  /\ \E mode \in {"single", "chunked"} :
       mode = "chunked" => parts[u] = Parts /\ Parts \subseteq staged[u]
  /\ Start(w, "complete_lock", u, o, None, "none")
  /\ UNCHANGED <<db, store, holds, lost>>

\* The attempt could not be stored: the upload fails.
AttemptFails(w, u) ==
  /\ pc(w) = "idle" /\ Owned(u) /\ "storage" \in Faults
  /\ Start(w, "fail", u, None, None, "asked")
  /\ UNCHANGED <<db, store, holds, lost>>
completeKeysWithoutObject(w) == {uploadLockKey(up(w))}
completeKeys(w) == {uploadLockKey(up(w)), storageObjectLockKey(ob(w))}

CompleteLock(w) ==
  /\ pc(w) = "complete_lock"
  /\ \/ /\ Owned(up(w))
        /\ lockKeys(w, completeKeys(w))
        /\ Goto(w, "complete_put")
     \/ /\ ~Owned(up(w))
        /\ Unlocked(w, completeKeys(w))
        /\ GotoFor(w, "cleanup_lock", "refused")
        /\ Release(w)
  /\ UNCHANGED <<db, store>>

\* copyStagedToCanonical, under both locks.
CompletePut(w) ==
  /\ pc(w) = "complete_put"
  /\ \/ /\ blob' = blob \cup {ob(w)}
        /\ Goto(w, "complete_commit")
        /\ UNCHANGED <<holds, lost>>
     \/ /\ "storage" \in Faults
        /\ blob' \in {blob, blob \cup {ob(w)}}
        /\ GotoFor(w, "cleanup_lock", "failed")
        /\ Release(w)
  /\ UNCHANGED <<db, staged>>

\* EnsureStorageObjectAndBind and CompleteUpload of the repository: the object
\* row is registered or revived and bound, the transfer completed, the
\* attachment published, the part rows deleted; all or nothing.
CompleteCommit(w) ==
  /\ pc(w) = "complete_commit"
  /\ \E r \in Outcomes(w) :
       LET u == up(w)
           changed == Owned(u)
       IN /\ IF changed /\ Applied(r)
             THEN /\ transfer' = [transfer EXCEPT ![u] = "completed"]
                  /\ attach' = [attach EXCEPT ![u] = "available"]
                  /\ object' = [object EXCEPT ![u] = ob(w)]
                  /\ row' = [row EXCEPT ![ob(w)] = "live"]
                  /\ parts' = [parts EXCEPT ![u] = {}]
                  /\ stale' = [stale EXCEPT ![u] = FALSE]
             ELSE UNCHANGED db
          /\ GotoFor(w, IF changed /\ r = "ok" THEN "staging" ELSE "cleanup_lock",
                        IF changed THEN "failed" ELSE "refused")
  /\ Release(w)
  /\ UNCHANGED <<store>>

\* cleanupTerminalUploadStaging, deferred by CompleteUpload.
Staging(w) ==
  /\ pc(w) = "staging"
  /\ Unlocked(w, {uploadLockKey(up(w))})
  /\ staged' = IF transfer[up(w)] = "reserved" THEN staged
               ELSE [staged EXCEPT ![up(w)] = {}]
  /\ Goto(w, "idle")
  /\ UNCHANGED <<db, blob, holds, lost>>

(***************************************************************************)
(* cleanupObject, after a completion that failed and after a removal.      *)
(***************************************************************************)
\* Where the caller goes on; a removal stops at a cleanup that failed.
AfterCleanup(w, done) ==
  CASE why(w) = "refused" -> "staging"
    [] why(w) = "failed"  -> "fail"
    [] OTHER              -> IF done THEN "remove_clean" ELSE "idle"

\* CleanupStorageObject: delete if there is no row or no reference to it.
DeleteObject(o) == row[o] = "absent" \/ References(o) = {}

CleanupLock(w) ==
  /\ pc(w) = "cleanup_lock"
  /\ \/ /\ DeleteObject(ob(w))
        /\ lockKeys(w, {storageObjectLockKey(ob(w))})
        /\ Goto(w, "cleanup_delete")
     \/ /\ ~DeleteObject(ob(w))
        /\ Unlocked(w, {storageObjectLockKey(ob(w))})
        /\ Goto(w, AfterCleanup(w, TRUE))
        /\ UNCHANGED <<holds, lost>>
  /\ UNCHANGED <<db, store>>

CleanupDelete(w) ==
  /\ pc(w) = "cleanup_delete"
  /\ \/ /\ blob' = blob \ {ob(w)}
        /\ Goto(w, "cleanup_commit")
        /\ UNCHANGED <<holds, lost>>
     \/ /\ "storage" \in Faults
        /\ blob' \in {blob, blob \ {ob(w)}}
        /\ Goto(w, AfterCleanup(w, FALSE))
        /\ Release(w)
  /\ UNCHANGED <<db, staged>>

\* The tombstone, if there is a row.
CleanupCommit(w) ==
  /\ pc(w) = "cleanup_commit"
  /\ \E r \in Outcomes(w) :
       /\ row' = IF Applied(r) /\ row[ob(w)] # "absent"
                 THEN [row EXCEPT ![ob(w)] = "deleted"] ELSE row
       /\ Goto(w, AfterCleanup(w, r = "ok"))
  /\ Release(w)
  /\ UNCHANGED <<transfer, attach, object, parts, stale, store>>

(***************************************************************************)
(* FailUpload, asked for by the uploader or after a failed completion.     *)
(***************************************************************************)
FailUpload(w, u) ==
  /\ pc(w) = "idle" /\ Owned(u)
  /\ Start(w, "fail", u, None, None, "asked")
  /\ UNCHANGED <<db, store, holds, lost>>

\* FailUpload of the repository: the transfer, then the attachment and the part
\* rows if the attachment is still pending.
failRowsOfTransfer(u) ==
  /\ transfer' = [transfer EXCEPT ![u] = "failed"]
  /\ stale' = [stale EXCEPT ![u] = FALSE]
  /\ UNCHANGED <<attach, parts>>
failRows(u) ==
  /\ transfer' = [transfer EXCEPT ![u] = "failed"]
  /\ stale' = [stale EXCEPT ![u] = FALSE]
  /\ attach' = IF attach[u] = "pending" THEN [attach EXCEPT ![u] = "failed"] ELSE attach
  /\ parts' = IF attach[u] = "pending" THEN [parts EXCEPT ![u] = {}] ELSE parts

AfterFail(w) == IF why(w) = "failed" THEN "staging" ELSE "idle"

FailCommit(w) ==
  /\ pc(w) = "fail"
  /\ Unlocked(w, {uploadLockKey(up(w))})
  /\ \E r \in Outcomes(w) :
       LET u == up(w)
           changed == Owned(u)
       IN /\ IF changed /\ Applied(r)
             THEN failRows(u)
             ELSE UNCHANGED <<transfer, attach, parts, stale>>
          /\ Goto(w, IF changed /\ r = "ok" THEN "fail_clean" ELSE AfterFail(w))
  /\ UNCHANGED <<object, row, store, holds, lost>>

\* cleanupUploadStaging, without a lock.
FailClean(w) ==
  /\ pc(w) = "fail_clean"
  /\ staged' = [staged EXCEPT ![up(w)] = {}]
  /\ Goto(w, AfterFail(w))
  /\ UNCHANGED <<db, blob, holds, lost>>

(***************************************************************************)
(* RemoveAttachment.                                                       *)
(***************************************************************************)
RemoveAttachment(w, u) ==
  /\ pc(w) = "idle" /\ attach[u] \notin {"none", "removed"}
  /\ Start(w, "remove_lock", u, object[u], None, "removed")
  /\ UNCHANGED <<db, store, holds, lost>>

removeKeysUnguarded(w) == {attachmentLockKey(up(w)), storageObjectLockKey(ob(w))}
removeKeys(w) == {attachmentLockKey(up(w))} \cup
                 (IF ob(w) = None THEN {} ELSE {storageObjectLockKey(ob(w))})

\* The object's lock is taken only if the record read before had one; then
\* DetachAttachment reads the binding again, without a row lock.
RemoveLock(w) ==
  /\ pc(w) = "remove_lock"
  /\ lockKeys(w, removeKeys(w))
  /\ Start(w, "remove_commit", up(w), object[up(w)], None, "removed")
  /\ UNCHANGED <<db, store>>

RemoveCommit(w) ==
  /\ pc(w) = "remove_commit"
  /\ \E r \in Outcomes(w) :
       LET u == up(w)
           changed == attach[u] \notin {"none", "removed"}
       IN /\ IF changed /\ Applied(r)
             THEN /\ attach' = [attach EXCEPT ![u] = "removed"]
                  /\ object' = [object EXCEPT ![u] = None]
             ELSE UNCHANGED <<attach, object>>
          /\ Goto(w, IF ~(changed /\ r = "ok") THEN "idle"
                     ELSE IF ob(w) = None THEN "remove_clean" ELSE "cleanup_lock")
  /\ Release(w)
  /\ UNCHANGED <<transfer, row, parts, stale, store>>

RemoveClean(w) ==
  /\ pc(w) = "remove_clean"
  /\ staged' = [staged EXCEPT ![up(w)] = {}]
  /\ Goto(w, "idle")
  /\ UNCHANGED <<db, blob, holds, lost>>

(***************************************************************************)
(* RunUploadMaintenance, one candidate.                                    *)
(***************************************************************************)
\* The candidate query; it is only a hint.
Candidate(u) == stale[u] /\ (Owned(u) \/ Terminal(u))

Maintain(w, u) ==
  /\ pc(w) = "idle" /\ Candidate(u)
  /\ Start(w, "maint_lock", u, None, None, "terminal")
  /\ UNCHANGED <<db, store, holds, lost>>

\* confirmUploadMaintenance: the decisive check, under the upload lock.
ConfirmedByStatus(u) == Owned(u)
Confirmed(u) == stale[u] /\ Owned(u)

MaintLock(w) ==
  /\ pc(w) = "maint_lock"
  /\ \/ /\ Confirmed(up(w))
        /\ lockKeys(w, {uploadLockKey(up(w))})
        /\ Goto(w, "maint_commit")
     \/ /\ Unlocked(w, {uploadLockKey(up(w))})
        /\ ~Confirmed(up(w))
        /\ Goto(w, IF stale[up(w)] /\ Terminal(up(w)) THEN "maint_clean" ELSE "idle")
        /\ UNCHANGED <<holds, lost>>
  /\ UNCHANGED <<db, store>>

\* When the attachment was removed meanwhile the repository reports no change,
\* but here the transfer it already failed is committed.
MaintCommit(w) ==
  /\ pc(w) = "maint_commit"
  /\ \E r \in Outcomes(w) :
       LET u == up(w)
           changed == attach[u] = "pending"
       IN /\ IF Applied(r)
             THEN failRows(u)
             ELSE UNCHANGED <<transfer, attach, parts, stale>>
          /\ GotoFor(w, IF changed /\ r = "ok" THEN "maint_clean" ELSE "idle", "failed")
  /\ Release(w)
  /\ UNCHANGED <<object, row, store>>

\* cleanupMaintenanceArtifacts; only a terminal plan whose objects are all gone
\* goes on to the part rows.
MaintClean(w) ==
  /\ pc(w) = "maint_clean"
  /\ \/ /\ staged' = [staged EXCEPT ![up(w)] = {}]
        /\ Goto(w, IF why(w) = "terminal" THEN "maint_finish" ELSE "idle")
     \/ /\ "storage" \in Faults
        /\ \E left \in SUBSET staged[up(w)] : staged' = [staged EXCEPT ![up(w)] = left]
        /\ Goto(w, "idle")
  /\ UNCHANGED <<db, blob, holds, lost>>

\* finalizeTerminalUploadParts.
MaintFinish(w) ==
  /\ pc(w) = "maint_finish"
  /\ Unlocked(w, {uploadLockKey(up(w))})
  /\ parts' = IF Terminal(up(w)) /\ stale[up(w)] THEN [parts EXCEPT ![up(w)] = {}] ELSE parts
  /\ Goto(w, "idle")
  /\ UNCHANGED <<transfer, attach, object, row, stale, store, holds, lost>>

(***************************************************************************)
(* Faults.                                                                 *)
(***************************************************************************)
\* The process dies, or a request's context ends before a best-effort step:
\* the open transaction is rolled back, blob effects stay.
Crash(w) ==
  /\ "crash" \in Faults /\ pc(w) # "idle"
  /\ Goto(w, "idle")
  /\ Release(w)
  /\ UNCHANGED <<db, store>>

\* PostgreSQL drops the session of an open transaction: its locks are free
\* while the worker, inside a blob store call, does not know.
SessionLost(w) ==
  /\ holds[w] # {}
  /\ holds' = [holds EXCEPT ![w] = {}]
  /\ lost' = lost \cup {w}
  /\ UNCHANGED <<db, store, job>>

-----------------------------------------------------------------------------
Init ==
  /\ transfer = [u \in Uploads |-> "none"]
  /\ attach = [u \in Uploads |-> "none"]
  /\ object = [u \in Uploads |-> None]
  /\ row = [o \in Objects |-> "absent"]
  /\ parts = [u \in Uploads |-> {}]
  /\ stale = [u \in Uploads |-> FALSE]
  /\ blob = {}
  /\ staged = [u \in Uploads |-> {}]
  /\ job = [w \in Workers |-> NoJob]
  /\ holds = [w \in Workers |-> {}]
  /\ lost = {}

Advance(w) ==
  \/ PartLock(w) \/ PartPut(w) \/ PartCommit(w) \/ PartCleanup(w)
  \/ CompleteLock(w) \/ CompletePut(w) \/ CompleteCommit(w) \/ Staging(w)
  \/ CleanupLock(w) \/ CleanupDelete(w) \/ CleanupCommit(w)
  \/ FailCommit(w) \/ FailClean(w)
  \/ RemoveLock(w) \/ RemoveCommit(w) \/ RemoveClean(w)
  \/ MaintLock(w) \/ MaintCommit(w) \/ MaintClean(w) \/ MaintFinish(w)

Next ==
  \/ \E u \in Uploads : ReserveUpload(u) \/ BecomeStale(u)
  \/ \E w \in Workers, u \in Uploads, p \in Parts : UploadPart(w, u, p)
  \/ \E w \in Workers, u \in Uploads, o \in Objects : CompleteUpload(w, u, o)
  \/ \E w \in Workers, u \in Uploads :
       AttemptFails(w, u) \/ FailUpload(w, u) \/ RemoveAttachment(w, u) \/ Maintain(w, u)
  \/ \E w \in Workers : Advance(w) \/ Crash(w)

Spec == Init /\ [][Next]_vars

\* The same where PostgreSQL may drop sessions at any time.
SessionNext == Next \/ \E w \in Workers : SessionLost(w)
SessionSpec == Init /\ [][SessionNext]_vars

\* Every request runs on (PostgreSQL grants a lock in the order it was asked
\* for, so none waits for ever), time passes, and maintenance comes round to
\* every candidate.
Fairness ==
  /\ \A w \in Workers : SF_vars(Advance(w))
  /\ \A u \in Uploads : SF_vars(\E w \in Workers : Maintain(w, u)) /\ WF_vars(BecomeStale(u))
FairSpec == Spec /\ Fairness

(***************************************************************************)
(* Properties.                                                             *)
(***************************************************************************)
Job == [step : Steps, up : Uploads \cup {None}, ob : Objects \cup {None},
        part : Parts \cup {None}, why : Reasons]

\* Every column, key and job has a value the code can give it.
TypeOK ==
  /\ transfer \in [Uploads -> TransferStatus]
  /\ attach \in [Uploads -> AttachmentStatus]
  /\ object \in [Uploads -> Objects \cup {None}]
  /\ row \in [Objects -> {"absent", "live", "deleted"}]
  /\ parts \in [Uploads -> SUBSET Parts]
  /\ stale \in [Uploads -> BOOLEAN]
  /\ blob \subseteq Objects
  /\ staged \in [Uploads -> SUBSET Parts]
  /\ job \in [Workers -> Job]
  /\ holds \in [Workers -> SUBSET Keys]
  /\ lost \subseteq Workers

\* No download can miss its bytes: the object of an available attachment is
\* registered, not tombstoned, and its bytes are in the blob store, whatever
\* completions, removals, cleanups, crashes and failed commits ran before.
NoDanglingReference ==
  \A u \in Uploads : attach[u] = "available" =>
    object[u] \in blob /\ row[object[u]] = "live"

\* The ledger and the attachments tell one story of each upload, and only an
\* available attachment is bound to an object.
LedgerAgrees ==
  \A u \in Uploads :
    /\ transfer[u] = "none" => attach[u] = "none"
    /\ transfer[u] = "reserved" => attach[u] \in {"pending", "removed"}
    /\ transfer[u] = "completed" => attach[u] \in {"available", "removed"}
    /\ transfer[u] = "failed" => attach[u] \in {"failed", "removed"}
    /\ attach[u] = "available" <=> object[u] # None

\* A part row of an upload that can still be completed is backed by staged
\* bytes: no cleanup takes a part the client was told is stored.
PartsBacked == \A u \in Uploads : Owned(u) => parts[u] \subseteq staged[u]

\* Nothing is undone: a transfer that completed or failed stays so, a removed
\* attachment stays removed, and an active upload is never failed as stale by a
\* maintenance worker that saw it before its last part arrived.
NothingIsUndone ==
  [][\A u \in Uploads :
       /\ Terminal(u) => transfer'[u] = transfer[u]
       /\ attach[u] = "removed" => attach'[u] = "removed" /\ object'[u] = None
       /\ transfer[u] = "reserved" /\ transfer'[u] = "failed" /\ ~stale[u]
            => \E w \in Workers : pc(w) = "fail" /\ up(w) = u]_vars

\* With no request in flight, every canonical object in the blob store is
\* referenced (the quota design: it is removed after the last logical
\* reference is released).
NoOrphanObject ==
  (\A w \in Workers : pc(w) = "idle") => \A o \in blob : References(o) # {}

\* Neither uploads, contents, parts nor requests are told apart by their names.
Symmetry == Permutations(Uploads) \cup Permutations(Objects) \cup
            Permutations(Parts) \cup Permutations(Workers)
=============================================================================
