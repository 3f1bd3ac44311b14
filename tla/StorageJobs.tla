----------------------------- MODULE StorageJobs -----------------------------
(***************************************************************************)
(* The storage backfill (workspace/storageops): a journalled run walks the *)
(* resources that still have a legacy key, copies their bytes to the       *)
(* content-addressed store and binds them, roots first, then the emotes    *)
(* cloned from them.                                                       *)
(*                                                                         *)
(* Workers hold an external lease they assert between any two steps; the   *)
(* lease may be lost right after.  Every journal method is one transaction *)
(* on the locked run row.  The application goes on changing the resources. *)
(* A legacy key, the digest of its bytes and the object registered for     *)
(* them are one number; 0 is none.  Resources are numbered in the order    *)
(* (kind, id) of the pages.                                                *)
(***************************************************************************)
EXTENDS Naturals, FiniteSets

CONSTANTS Resources, Late, Avatars, Clones,  \* Late: attachments uploaded after the start
          SourceOf,      \* clone -> the emote it was copied from
          Workers, NoWorker, PageSize,
          MaxMishaps,    \* bound on lost leases, deaths and failing calls
          MaxChanges,    \* bound on the changes of the application
          MaxStarts      \* bound on the attempts to run the backfill

VARIABLES rows,    \* attachments, users, workspace_custom_emotes
          items,   \* workspace_storage_operator_items
          run,     \* the row of workspace_storage_operator_runs
          worker,  \* RunBackfill in each process
          lease,   \* who holds the mutation lease
          bytes,   \* contents in the canonical store
          mishaps, changes, starts,
          deaths   \* of the mishaps, deaths and lost leases

backfillVars == <<rows, items, run, worker, lease, bytes, mishaps, changes, starts, deaths>>
catalog == <<rows, changes>>

PhaseOf(r) == IF r \in Clones THEN "clone" ELSE "root"
NoItem == [status |-> "none", rev |-> 0, key |-> 0, object |-> 0]
Idle == [pc |-> "idle", ok |-> FALSE, token |-> 0, run |-> [state |-> "none", phase |-> "root",
           cursor |-> 0, rev |-> 0, fence |-> 0],
         page |-> {}, snap |-> [r \in Resources |-> NoItem], fence |-> 0, object |-> 0]
Open(r) == items[r].status \in {"pending", "failed"}

BackfillInit == /\ rows = [r \in Resources |->
                     [live |-> r \notin Late, key |-> IF r \in Clones THEN 0 ELSE 1, object |-> 0]]
        /\ items = [r \in Resources |-> NoItem]
        /\ run = Idle.run
        /\ worker = [w \in Workers |-> Idle]
        /\ lease = NoWorker /\ bytes = {}
        /\ mishaps = 0 /\ changes = 0 /\ starts = 0 /\ deaths = 0
-----------------------------------------------------------------------------
Become(w, s) == worker' = [worker EXCEPT ![w] = s]
\* The next transaction of a worker that has asserted its lease.
At(w, pc) == worker[w].pc = pc /\ worker[w].ok
GoOn(w, pc) == Become(w, [worker[w] EXCEPT !.pc = pc, !.ok = FALSE])
Mishap == mishaps < MaxMishaps /\ mishaps' = mishaps + 1
Fine == UNCHANGED mishaps

Leave(w) == /\ Become(w, Idle)
            /\ lease' = IF lease = w THEN NoWorker ELSE lease

assertLease(w) ==
  /\ worker[w].pc # "idle" /\ ~worker[w].ok
  /\ IF lease = w THEN Become(w, [worker[w] EXCEPT !.ok = TRUE]) /\ UNCHANGED lease
     ELSE Leave(w)
  /\ Fine /\ UNCHANGED <<catalog, items, run, bytes, starts, deaths>>

Tokens == 1 .. 2 * Cardinality(Workers) + 2
Unused == Tokens \ ({run.fence} \cup {worker[v].token : v \in Workers} \cup {worker[v].fence : v \in Workers})
Acquire(w) ==
  /\ worker[w] = Idle /\ lease = NoWorker /\ starts < MaxStarts
  /\ starts' = starts + 1
  /\ lease' = w
  /\ Become(w, [Idle EXCEPT !.pc = IF run.state = "running" THEN "recover" ELSE "begin",
                             !.token = CHOOSE t \in Unused : TRUE, !.run = run])
  /\ Fine /\ UNCHANGED <<catalog, items, run, bytes, deaths>>

\* The lease expires although its holder may still be at work.
LeaseLost == /\ lease # NoWorker /\ Mishap /\ lease' = NoWorker /\ deaths' = deaths + 1
             /\ UNCHANGED <<catalog, items, run, worker, bytes, starts>>
Dies(w) == /\ worker[w].pc # "idle" /\ Mishap /\ Become(w, Idle) /\ deaths' = deaths + 1
           /\ UNCHANGED <<catalog, items, run, lease, bytes, starts>>
-----------------------------------------------------------------------------
Seeded(S) == [r \in Resources |->
                IF r \in S /\ items[r].status = "none"
                  THEN [status |-> "pending", rev |-> 1, key |-> rows[r].key, object |-> rows[r].object]
                  ELSE items[r]]
seedRootItems == Seeded({r \in Resources : PhaseOf(r) = "root" /\ rows[r].live /\ rows[r].key # 0})

\* A new run, the running one of the same fence, or a failed one resumed with
\* a new fence at its old cursor.
BeginOrResume(w) ==
  LET t == worker[w].token
      begun == [run EXCEPT !.state = "running", !.fence = t, !.rev = @ + 1]
  IN /\ At(w, "begin")
     /\ IF run.state \in {"none", "failed"}
          THEN /\ run' = begun /\ items' = seedRootItems
               /\ Become(w, [worker[w] EXCEPT !.pc = "list", !.ok = FALSE, !.run = begun])
               /\ UNCHANGED lease
          ELSE /\ UNCHANGED <<run, items>>
               /\ IF run.state = "running" /\ run.fence = t
                    THEN /\ Become(w, [worker[w] EXCEPT !.pc = "list", !.ok = FALSE, !.run = run])
                         /\ UNCHANGED lease
                    ELSE Leave(w)
     /\ Fine /\ UNCHANGED <<catalog, bytes, starts, deaths>>

\* Rotates the fence of a run whose owner is gone, if it is still as observed.
SameFence(w) == run.fence = worker[w].run.fence /\ run.rev = worker[w].run.rev
RecoverRunning(w) ==
  /\ At(w, "recover")
  /\ IF run.state = "running" /\ SameFence(w)
       THEN /\ run' = [run EXCEPT !.fence = worker[w].token, !.rev = @ + 1]
            /\ GoOn(w, "begin") /\ UNCHANGED lease
       ELSE Leave(w) /\ UNCHANGED run
  /\ Fine /\ UNCHANGED <<catalog, items, bytes, starts, deaths>>

Listed(s) == {r \in Resources : PhaseOf(r) = s.phase /\ Open(r) /\ r > s.cursor}
FirstOf(S) == {r \in S : Cardinality({q \in S : q < r}) < PageSize}
ListPage(w) ==
  LET page == FirstOf(Listed(worker[w].run))
      pc == IF page # {} THEN "copy" ELSE IF worker[w].run.phase = "root" THEN "clone" ELSE "complete"
  IN /\ At(w, "list")
     /\ Become(w, [worker[w] EXCEPT !.pc = pc, !.ok = FALSE, !.page = page, !.fence = run.fence,
                                    !.snap = [r \in Resources |-> IF r \in page THEN items[r] ELSE NoItem],
                                    !.object = 0])
     /\ Fine /\ UNCHANGED <<catalog, items, run, lease, bytes, starts, deaths>>

\* What every update of the run row asks for.
CAS(w) == run.state = "running" /\ run.rev = worker[w].run.rev /\ run.fence = worker[w].run.fence
\* A refused or failing update returns an empty run, which the worker keeps.
Lost(w) == UNCHANGED <<run, items, lease>> /\
           Become(w, [worker[w] EXCEPT !.pc = "fail", !.ok = FALSE, !.run = Idle.run])
Checkpoint(w, next) ==
  run' = next /\ Become(w, [worker[w] EXCEPT !.pc = "list", !.ok = FALSE, !.run = next])

EnsureCloneItems(w) ==
  /\ At(w, "clone")
  /\ \/ /\ CAS(w) /\ Fine
        /\ Checkpoint(w, [run EXCEPT !.phase = "clone", !.cursor = 0, !.rev = @ + 1])
        /\ items' = Seeded({r \in Clones : rows[r].live})
        /\ UNCHANGED lease
     \/ ~CAS(w) /\ Fine /\ Lost(w)
     \/ Mishap /\ Lost(w)
  /\ UNCHANGED <<catalog, bytes, starts, deaths>>

LastOf(S) == CHOOSE r \in S : \A q \in S : q <= r
Current(w) == CHOOSE r \in worker[w].page : \A q \in worker[w].page : r <= q
Advance(w) ==
  /\ At(w, "advance")
  /\ \/ /\ CAS(w) /\ Fine
        /\ Checkpoint(w, [run EXCEPT !.cursor = LastOf({r \in Resources : worker[w].snap[r] # NoItem}),
                                     !.rev = @ + 1])
        /\ UNCHANGED <<items, lease>>
     \/ ~CAS(w) /\ Fine /\ Lost(w)
     \/ Mishap /\ Lost(w)
  /\ UNCHANGED <<catalog, bytes, starts, deaths>>

NothingOpen == \A r \in Resources : ~Open(r)
Complete(w) ==
  /\ At(w, "complete")
  /\ \/ /\ CAS(w) /\ NothingOpen /\ Fine
        /\ run' = [run EXCEPT !.state = "completed", !.rev = @ + 1] /\ Leave(w)
        /\ UNCHANGED items
     \/ ~(CAS(w) /\ NothingOpen) /\ Fine /\ Lost(w)
  /\ UNCHANGED <<catalog, bytes, starts, deaths>>
-----------------------------------------------------------------------------
\* A registered object that is still in the store is bound again; otherwise
\* the legacy bytes are hashed and put.
Candidate(it) == IF it.object # 0 THEN it.object ELSE it.key
putLegacy(w) ==
  LET it == worker[w].snap[Current(w)]
  IN /\ At(w, "copy") /\ worker[w].run.phase = "root"
     /\ \/ /\ bytes' = bytes \cup {Candidate(it)}
           /\ Become(w, [worker[w] EXCEPT !.pc = "bind", !.ok = FALSE, !.object = Candidate(it)])
           /\ Fine
        \/ Mishap /\ UNCHANGED bytes /\ GoOn(w, "item_failed")
     /\ UNCHANGED <<catalog, items, run, lease, starts, deaths>>

fencedUnchecked(w) == run.state = "running"
fenced(w) == run.state = "running" /\ run.fence = worker[w].fence
\* lockJournalItem: the run is still this owner's and the item as it was paged.
lockJournalItem(w, r) == fenced(w) /\ Open(r) /\ items[r] = worker[w].snap[r]

targetUnchecked(w, r) == rows[r].live
lockTarget(w, r) == /\ rows[r].live
                    /\ rows[r].key = worker[w].snap[r].key
                    /\ rows[r].object = worker[w].snap[r].object

Bound(w, r, o) ==
  /\ rows' = [rows EXCEPT ![r].object = o]
  /\ items' = [items EXCEPT ![r].status = "completed", ![r].rev = @ + 1]
  /\ GoOn(w, "mark")
Refused(w) == UNCHANGED <<rows, items>> /\ GoOn(w, "item_failed")

AcquireAndBind(w) ==
  LET r == Current(w)
  IN /\ At(w, "bind")
     /\ \/ lockJournalItem(w, r) /\ lockTarget(w, r) /\ Bound(w, r, worker[w].object) /\ Fine
        \/ ~(lockJournalItem(w, r) /\ lockTarget(w, r)) /\ Refused(w) /\ Fine
        \/ Mishap /\ Refused(w)
     /\ UNCHANGED <<run, lease, bytes, changes, starts, deaths>>

\* The clone takes the object of the nearest ancestor that has one.
BindClone(w) ==
  LET r == Current(w)
      o == IF rows[r].object # 0 THEN rows[r].object ELSE rows[SourceOf[r]].object
  IN /\ At(w, "copy") /\ worker[w].run.phase = "clone"
     /\ \/ lockJournalItem(w, r) /\ lockTarget(w, r) /\ o # 0 /\ Bound(w, r, o) /\ Fine
        \/ ~(lockJournalItem(w, r) /\ lockTarget(w, r) /\ o # 0) /\ Refused(w) /\ Fine
        \/ Mishap /\ Refused(w)
     /\ UNCHANGED <<run, lease, bytes, changes, starts, deaths>>

\* Only checks that the bind has completed the item.
MarkItemCompleted(w) ==
  LET r == Current(w)
      done == items[r].status = "completed" /\ items[r].rev = worker[w].snap[r].rev + 1
      rest == worker[w].page \ {r}
  IN /\ At(w, "mark")
     /\ Become(w, [worker[w] EXCEPT !.ok = FALSE, !.page = rest, !.object = 0,
                     !.pc = IF ~done THEN "item_failed" ELSE IF rest = {} THEN "advance" ELSE "copy"])
     /\ Fine /\ UNCHANGED <<catalog, items, run, lease, bytes, starts, deaths>>

\* The item, then the run; a worker without its lease records nothing.
MarkItemFailed(w) ==
  LET r == Current(w)
  IN /\ At(w, "item_failed")
     /\ items' = IF lockJournalItem(w, r) THEN [items EXCEPT ![r].status = "failed", ![r].rev = @ + 1]
                 ELSE items
     /\ GoOn(w, "fail")
     /\ Fine /\ UNCHANGED <<catalog, run, lease, bytes, starts, deaths>>
Fail(w) ==
  /\ At(w, "fail")
  /\ run' = IF CAS(w) THEN [run EXCEPT !.state = "failed", !.rev = @ + 1] ELSE run
  /\ Leave(w)
  /\ Fine /\ UNCHANGED <<catalog, items, bytes, starts, deaths>>
-----------------------------------------------------------------------------
\* The application: new attachments are bound when they appear; an avatar is
\* replaced or cleared, an attachment removed.
Change(r, row) == /\ changes < MaxChanges /\ changes' = changes + 1
                  /\ rows' = [rows EXCEPT ![r] = row]
                  /\ bytes' = bytes \cup ({row.object} \ {0})
                  /\ Fine /\ UNCHANGED <<items, run, worker, lease, starts, deaths>>
Upload(r) == ~rows[r].live /\ items[r] = NoItem /\ Change(r, [live |-> TRUE, key |-> 1, object |-> 1])
SetAvatar(r) == rows[r].key # 2 /\ Change(r, [live |-> TRUE, key |-> 2, object |-> 2])
ClearAvatar(r) == rows[r].key # 0 /\ Change(r, [live |-> TRUE, key |-> 0, object |-> 0])

WorkerStep(w) ==
  \/ assertLease(w) \/ Acquire(w) \/ BeginOrResume(w) \/ RecoverRunning(w) \/ ListPage(w)
  \/ EnsureCloneItems(w) \/ Advance(w) \/ Complete(w) \/ putLegacy(w) \/ AcquireAndBind(w)
  \/ BindClone(w) \/ MarkItemCompleted(w) \/ MarkItemFailed(w) \/ Fail(w)
LeaseRunsOut == /\ lease # NoWorker /\ worker[lease] = Idle /\ lease' = NoWorker
                /\ Fine /\ UNCHANGED <<catalog, items, run, worker, bytes, starts, deaths>>
BackfillNext ==
  \/ \E w \in Workers : WorkerStep(w) \/ Dies(w)
  \/ LeaseLost \/ LeaseRunsOut
  \/ \E r \in Late : Upload(r)
  \/ \E r \in Avatars : SetAvatar(r) \/ ClearAvatar(r)

-----------------------------------------------------------------------------
BackfillTypeOK == /\ run.state \in {"none", "running", "failed", "completed"}
                  /\ run.cursor \in Resources \cup {0}
                  /\ \A r \in Resources : items[r].status \in {"none", "pending", "failed", "completed"}
                  /\ \A w \in Workers : worker[w].page \subseteq Resources

\* Whatever the application changes while bytes are copied, a resource is
\* bound to its own contents, which are in the store; a clone to those of its
\* source (the snapshot checks of lockTarget).
OwnContents ==
  \A r \in Resources : rows[r].live /\ rows[r].object # 0 =>
    /\ rows[r].object = rows[IF r \in Clones THEN SourceOf[r] ELSE r].key
    /\ rows[r].object \in bytes

\* A worker whose run has been recovered by another writes nothing more: not
\* the run, not an item, not a resource, however far it had got.
FencedOff ==
  [][\A w \in Workers :
       worker[w].pc \notin {"idle", "begin", "recover"} /\ worker[w].run.fence # run.fence
       /\ worker'[w] # worker[w] => UNCHANGED <<run, items, rows>>]_backfillVars

\* A completed run has completed every item, and every resource it listed
\* that still has a legacy key, or was cloned, is bound.
CompletedIsComplete ==
  run.state = "completed" =>
    \A r \in Resources : items[r].status # "none" =>
      /\ items[r].status = "completed"
      /\ rows[r].live /\ (rows[r].key # 0 \/ r \in Clones) => rows[r].object # 0

-----------------------------------------------------------------------------
(***************************************************************************)
(* The worker's storage maintenance (cmd/worker/maintenance.go): what      *)
(* crashed uploads left in the attempts directory of an upload, in S3 and  *)
(* in the local mirror, and the multipart uploads the provider still       *)
(* holds.  Both walk bounded pages with a cursor that is kept from one     *)
(* cycle to the next; objects come, get old and go meanwhile.              *)
(*                                                                         *)
(* Keys are numbers, pages are in their order.                             *)
(***************************************************************************)

CONSTANTS Keys,
          MaxWrites,   \* bound on attempts that fail to clean up after themselves
          MaxFaults    \* bound on failing calls and timeouts

VARIABLES primary, mirror,  \* attempt objects: none, fresh or old
          cursor,           \* attemptCursors of the upload: endpoint and last key
          page,             \* the keys of the page being deleted
          parts,            \* the provider's multipart uploads: none, fresh or old
          marker,           \* multipartCursor
          writes, faults

maintenanceVars == <<primary, mirror, cursor, page, parts, marker, writes, faults>>
attemptVars == <<primary, mirror, cursor, page>>
partVars == <<parts, marker>>

Start == [at |-> "primary", key |-> 0]
NoPage == [on |-> FALSE, keys |-> {}, next |-> Start]

MaintenanceInit ==
  /\ primary = [k \in Keys |-> "none"] /\ mirror = [k \in Keys |-> "none"]
  /\ cursor = Start /\ page = NoPage
  /\ parts = [k \in Keys |-> "none"] /\ marker = 0
  /\ writes = 0 /\ faults = 0

Fault == faults < MaxFaults /\ faults' = faults + 1
NoFault == UNCHANGED faults
-----------------------------------------------------------------------------
\* A request dies before its own cleanup: the object is in the primary, and
\* in the mirror if it got that far.
AttemptLeft(k) ==
  /\ primary[k] = "none" /\ mirror[k] = "none" /\ writes < MaxWrites
  /\ writes' = writes + 1
  /\ primary' = [primary EXCEPT ![k] = "fresh"]
  /\ mirror' \in {mirror, [mirror EXCEPT ![k] = "fresh"]}
  /\ NoFault /\ UNCHANGED <<cursor, page, partVars>>
UploadLeft(k) ==
  /\ parts[k] = "none" /\ writes < MaxWrites
  /\ writes' = writes + 1
  /\ parts' = [parts EXCEPT ![k] = "fresh"]
  /\ NoFault /\ UNCHANGED <<attemptVars, marker>>
Aged(f) == [k \in Keys |-> IF f[k] = "fresh" THEN "old" ELSE f[k]]
TimePasses ==
  /\ "fresh" \in {primary[k] : k \in Keys} \cup {mirror[k] : k \in Keys} \cup {parts[k] : k \in Keys}
  /\ primary' = Aged(primary) /\ mirror' = Aged(mirror) /\ parts' = Aged(parts)
  /\ NoFault /\ UNCHANGED <<cursor, page, marker, writes>>
-----------------------------------------------------------------------------
\* S3 pages over every key and drops the fresh ones from the page; the local
\* store pages over the old ones, and stops at a page that is not full.
S3Page(after) ==
  LET all == {k \in Keys : primary[k] # "none" /\ k > after}
  IN [keys |-> {k \in FirstOf(all) : primary[k] = "old"},
      next |-> IF FirstOf(all) # all THEN LastOf(FirstOf(all)) ELSE 0]
LocalPage(after) ==
  LET all == {k \in Keys : mirror[k] = "old" /\ k > after}
  IN [keys |-> FirstOf(all),
      next |-> IF Cardinality(FirstOf(all)) = PageSize THEN LastOf(FirstOf(all)) ELSE 0]

\* The opaque cursor: the primary's pages, then the mirror's, then over again.
hybridMaintenanceCursor(at, next) ==
  IF next # 0 THEN [at |-> at, key |-> next]
  ELSE IF at = "primary" THEN [at |-> "local", key |-> 0] ELSE Start

\* A listing that fails keeps the cursor.
ListUploadAttemptObjects ==
  LET p == IF cursor.at = "primary" THEN S3Page(cursor.key) ELSE LocalPage(cursor.key)
  IN /\ ~page.on
     /\ page' = [on |-> TRUE, keys |-> p.keys, next |-> hybridMaintenanceCursor(cursor.at, p.next)]
     /\ NoFault /\ UNCHANGED <<primary, mirror, cursor, partVars, writes>>
\* The same key goes from both endpoints; a failure is counted and the page
\* goes on.
DeleteUploadAttemptObject(k) ==
  /\ page.on /\ k \in page.keys
  /\ page' = [page EXCEPT !.keys = @ \ {k}]
  /\ \/ /\ primary' = [primary EXCEPT ![k] = "none"]
        /\ mirror' = [mirror EXCEPT ![k] = "none"] /\ NoFault
     \/ /\ primary' \in {primary, [primary EXCEPT ![k] = "none"]}
        /\ mirror' \in {mirror, [mirror EXCEPT ![k] = "none"]} /\ Fault
  /\ UNCHANGED <<cursor, partVars, writes>>
PageDone ==
  /\ page.on /\ page.keys = {}
  /\ cursor' = page.next /\ page' = NoPage
  /\ NoFault /\ UNCHANGED <<primary, mirror, partVars, writes>>
\* The cycle's time is up in the middle of a page, or the worker restarts
\* and has no cursor.
CycleTimesOut ==
  /\ page.on /\ page' = NoPage /\ Fault
  /\ cursor' \in {cursor, Start}
  /\ UNCHANGED <<primary, mirror, partVars, writes>>
-----------------------------------------------------------------------------
Uploads(after) == {k \in Keys : parts[k] # "none" /\ k > after}
markerAfterPage(after) == IF FirstOf(Uploads(after)) # Uploads(after)
                          THEN LastOf(FirstOf(Uploads(after))) ELSE 0
\* One provider page per cycle; a failed abort is passed over, a timeout
\* stops at the record that was not aborted.
AbortStaleMultipartUploads ==
  LET old == {k \in FirstOf(Uploads(marker)) : parts[k] = "old"}
      without(S) == [k \in Keys |-> IF k \in S THEN "none" ELSE parts[k]]
  IN /\ \/ parts' = without(old) /\ marker' = markerAfterPage(marker) /\ NoFault
        \/ \E k \in old : parts' = without(old \ {k}) /\ marker' = markerAfterPage(marker) /\ Fault
        \/ \E k \in old : LET before == {q \in FirstOf(Uploads(marker)) : q < k}
                          IN /\ parts' = without(old \cap before)
                             /\ marker' = IF before = {} THEN marker ELSE LastOf(before)
                             /\ Fault
     /\ UNCHANGED <<attemptVars, writes>>

UploadStep == ListUploadAttemptObjects \/ PageDone
              \/ \E k \in Keys : DeleteUploadAttemptObject(k)
MaintenanceNext == \/ \E k \in Keys : AttemptLeft(k) \/ UploadLeft(k)
                   \/ TimePasses \/ CycleTimesOut \/ UploadStep \/ AbortStaleMultipartUploads
-----------------------------------------------------------------------------
=============================================================================
