---------------------------- MODULE TransferQuota ----------------------------
(***************************************************************************)
(* The daily transfer quota of one user: reservations of uploads and       *)
(* downloads against the transfer ledger, download grants and their        *)
(* release.  From internal/workspace/files/service.go and                  *)
(* internal/workspace/httpapi/file_routes.go.                              *)
(*                                                                         *)
(* A request reads the clock when its transaction begins and takes the     *)
(* advisory lock of that day later, so midnight may lie in between.  What  *)
(* an upload does between its reservation and its end is in FileStore.     *)
(***************************************************************************)
EXTENDS Naturals, FiniteSets, FiniteSetsExt

CONSTANTS
  Transfers,  \* ids of transfer_ledger rows, a bound on reservations
  Requests,   \* concurrent HTTP requests of the user
  Sizes,      \* file sizes
  Quota,      \* Service.dailyQuotaBytes
  DayLength,  \* ticks of a day
  GrantTTL,   \* Service.downloadGrantTTL, in ticks
  StaleAge,   \* Service.staleUploadAge, in ticks
  MaxTime     \* bound: ticks of the clock

VARIABLES
  ledger,    \* transfer_ledger: a row, or NoRow
  req,       \* what each request is doing
  now,       \* the clock
  delivered  \* history: downloads whose bytes were sent

vars == <<ledger, req, now, delivered>>

NoRow == [status |-> "none"]
Idle == [step |-> "idle"]
Rows == {t \in Transfers : ledger[t].status # "none"}

Day(at) == at \div DayLength
dayStart(at) == Day(at) * DayLength

Counted(t) == ledger[t].status \in {"reserved", "completed"}
Bytes(ts) == MapThenSumSet(LAMBDA t : ledger[t].size, ts)

\* UsedTransferBytes: everything that counts since then.
UsedTransferBytes(since) == Bytes({t \in Rows : Counted(t) /\ ledger[t].createdAt >= since})
remainingQuota(used) == IF used >= Quota THEN 0 ELSE Quota - used

\* The advisory lock is keyed by the user and the day of the request's time.
quotaLockKeyOfInstant(at) == at
quotaLockKey(at) == Day(at)

SetStatus(ts, status) ==
  [t \in Transfers |-> IF t \in ts THEN [ledger[t] EXCEPT !.status = status] ELSE ledger[t]]

Stale ==
  {t \in Rows : /\ ledger[t].kind = "upload" /\ ledger[t].status = "reserved"
                /\ now > ledger[t].activityAt + StaleAge}

-----------------------------------------------------------------------------
\* Every reservation first fails a batch of the stale uploads, then begins its
\* transaction and reads the clock.  "get" is a download without a grant.
Reserve(r, kind, size) ==
  /\ req[r].step = "idle"
  /\ \E batch \in SUBSET Stale : ledger' = SetStatus(batch, "failed")
  /\ req' = [req EXCEPT ![r] = [step |-> "lock", kind |-> kind, size |-> size, at |-> now]]
  /\ UNCHANGED <<now, delivered>>

\* The lock, and then the sum and the decision.
LockAndCheck(r) ==
  /\ req[r].step = "lock"
  /\ \A q \in Requests : req[q].step = "commit" => quotaLockKey(req[q].at) # quotaLockKey(req[r].at)
  /\ req' = [req EXCEPT ![r] =
       [step |-> "commit", kind |-> req[r].kind, size |-> req[r].size, at |-> req[r].at,
        ok |-> req[r].size <= remainingQuota(UsedTransferBytes(dayStart(req[r].at)))]]
  /\ UNCHANGED <<ledger, now, delivered>>

NewRow(q) ==
  [kind |-> IF q.kind = "upload" THEN "upload" ELSE "download", size |-> q.size,
   createdAt |-> q.at, activityAt |-> q.at,
   status |-> CASE ~q.ok -> "rejected"
                [] q.ok /\ q.kind = "upload" -> "reserved"
                [] q.ok /\ q.kind # "upload" -> "completed"]

\* The row is inserted at commit; a "get" that was granted goes on to open it.
Commit(r) ==
  /\ req[r].step = "commit"
  /\ \E t \in Transfers :
       /\ ledger[t].status = "none"
       /\ ledger' = [ledger EXCEPT ![t] = NewRow(req[r])]
       /\ req' = [req EXCEPT ![r] = IF req[r].ok /\ req[r].kind = "get"
                                    THEN [step |-> "open", id |-> t] ELSE Idle]
  /\ UNCHANGED <<now, delivered>>

\* A failed statement or commit rolls back and ends the request.
Rollback(r) ==
  /\ req[r].step \in {"lock", "commit"}
  /\ req' = [req EXCEPT ![r] = Idle]
  /\ UNCHANGED <<ledger, now, delivered>>

\* The uploader's part, completion and failure of an upload.
TouchUpload(t) ==
  /\ t \in Rows /\ ledger[t].kind = "upload" /\ ledger[t].status = "reserved"
  /\ ledger[t].activityAt # now
  /\ ledger' = [ledger EXCEPT ![t].activityAt = now]
  /\ UNCHANGED <<req, now, delivered>>

EndUpload(t) ==
  /\ t \in Rows /\ ledger[t].kind = "upload" /\ ledger[t].status = "reserved"
  /\ \E status \in {"completed", "failed"} : ledger' = SetStatus({t}, status)
  /\ UNCHANGED <<req, now, delivered>>

-----------------------------------------------------------------------------
\* A GET that names a grant.
Download(r, t) ==
  /\ req[r].step = "idle" /\ t \in Rows /\ ledger[t].kind = "download"
  /\ req' = [req EXCEPT ![r] = [step |-> "open", id |-> t]]
  /\ UNCHANGED <<ledger, now, delivered>>

\* GetCompletedDownload: the grant is good until its age exceeds the TTL.
Granted(t) == ledger[t].status = "completed" /\ now <= ledger[t].createdAt + GrantTTL

\* OpenDownload: the bytes, or an error (no grant, attachment gone, store down).
OpenDownload(r) ==
  /\ req[r].step = "open"
  /\ LET t == req[r].id IN
     \/ /\ Granted(t)
        /\ delivered' = delivered \cup {t}
        /\ req' = [req EXCEPT ![r] = Idle]
     \/ /\ req' = [req EXCEPT ![r] = [step |-> "release", id |-> t]]
        /\ UNCHANGED delivered
  /\ UNCHANGED <<ledger, now>>

\* ReleaseDownloadReservation, whatever the error was; it is best effort.
Release(r) ==
  /\ req[r].step = "release"
  /\ \/ ledger[req[r].id].status = "completed" /\ ledger' = SetStatus({req[r].id}, "failed")
     \/ ledger' = ledger
  /\ req' = [req EXCEPT ![r] = Idle]
  /\ UNCHANGED <<now, delivered>>

Tick ==
  /\ now < MaxTime
  /\ now' = now + 1
  /\ UNCHANGED <<ledger, req, delivered>>

Init ==
  /\ ledger = [t \in Transfers |-> NoRow]
  /\ req = [r \in Requests |-> Idle]
  /\ now = 0 /\ delivered = {}

Next ==
  \/ \E r \in Requests, kind \in {"upload", "reserve", "get"}, size \in Sizes :
       Reserve(r, kind, size)
  \/ \E r \in Requests :
       LockAndCheck(r) \/ Commit(r) \/ Rollback(r) \/ OpenDownload(r) \/ Release(r)
  \/ \E t \in Transfers : TouchUpload(t) \/ EndUpload(t)
  \/ \E r \in Requests, t \in Transfers : Download(r, t)
  \/ Tick

Spec == Init /\ [][Next]_vars

-----------------------------------------------------------------------------
DayBytes(d) == Bytes({t \in Rows : Counted(t) /\ Day(ledger[t].createdAt) = d})

\* The bytes that count on any one day never exceed the quota, however many
\* reservations run at once and whenever they read the clock.
QuotaHeld == \A d \in 0 .. Day(MaxTime) : DayBytes(d) <= Quota

\* A download whose bytes were sent stays charged (the quota design: a stream
\* that was issued counts as completed and is not released).
DeliveredIsCharged == \A t \in delivered : ledger[t].status = "completed"
=============================================================================
