----------------------------- MODULE MCPlatform -----------------------------
(***************************************************************************)
(* The processes and jobs around the services: start and stop of a         *)
(* process, schema migrations, the storage backfill, the maintenance of    *)
(* upload attempts and multipart uploads and of reserved uploads, uploads  *)
(* whose sessions are lost, and the picture processor.  part says which of *)
(* them a behaviour is about; the others stand still.                      *)
(***************************************************************************)
EXTENDS Naturals, Sequences, FiniteSets, TLC, FiniteSetTheorems, WellFoundedInduction, TLAPS

CONSTANTS Resources, Late, Avatars, Clones, SourceOf, Workers, NoWorker, PageSize,
          MaxMishaps, MaxChanges, MaxStarts,
          LeftoverKeys, MaxWrites, MaxFaults,
          Processes, NoProcess, Baseline, Latest, MaxFailures,
          HttpRequests, Sockets, Processors,
          PictureRequests, Slots, MaxInputEdge, MaxInputPixels, MaxFrames,
          MaxDurationMS, TargetSize, FallbackSize, MaxOutputBytes,
          FileUploads, Objects, Parts, FileWorkers, None

(* Resources are numbered, an emote is copied from one that is not itself  *)
(* a copy, and neither attachments nor avatars are emotes; releases come   *)
(* after the baseline; the absent worker, process and object are none.     *)
ASSUME PlatformAssumption ==
  /\ Resources \subseteq Nat \ {0} /\ IsFiniteSet(Resources) /\ IsFiniteSet(Workers)
  /\ Late \subseteq Resources /\ Avatars \subseteq Resources /\ Clones \subseteq Resources
  /\ Clones \cap (Late \cup Avatars) = {} /\ SourceOf \in [Clones -> Resources \ (Clones \cup Avatars)]
  /\ NoWorker \notin Workers /\ NoProcess \notin Processes
  /\ Baseline \in Nat /\ Latest \in Nat /\ Baseline <= Latest
  /\ None \notin Objects /\ None \notin FileUploads /\ None \notin Parts

VARIABLES part,
          rows, items, run, worker, lease, bytes, mishaps, changes, starts, deaths,
          primary, mirror, cursor, page, parts, marker, writes, faults,
          history, schema, holder, proc, failures,
          mode, main, pool, signalled, cancelled, failedServe, late, listener, request,
          socket, processor,
          processing, slots,
          transfer, attach, object, row, uploadParts, stale, blob, staged, job, holds, lost

\* The last emote was cloned from the one before it.
LastFromThird == 4 :> 3

Modes == [kind : {"workspace", "worker"}, work : {"active", "passive", "disabled"}]

(* Pictures: each format, whole and cut short, at and beyond the limits.   *)
Block(k, w, h, ms, f) == [kind |-> k, w |-> w, h |-> h, ms |-> ms, flags |-> f]
File(fmt, t, b) == [format |-> fmt, tail |-> t, blocks |-> b]
Frame(w, h, ms) == Block("ANMF", w, h, ms, {})
Canvas(w, h) == Block("VP8X", w, h, 0, {"anim"})
Image(w, h) == Block("image", w, h, 0, {})
Mark(k) == Block(k, 0, 0, 0, {})
Gif(ms, w, rest) == <<Block("screen", 2, 1, 0, {}), Block("gce", 0, 0, ms, {}), Image(w, 1)>> \o rest
Animations == {<<Canvas(2, 2), Frame(2, 2, 2), Frame(2, 1, 1)>>, <<Canvas(2, 2), Frame(4, 2, 2), Frame(2, 1, 1)>>,
               <<Canvas(1, 1), Frame(3, 2, 1), Frame(2, 2, 1)>>,
               <<Canvas(2, 1), Frame(1, 1, 1), Frame(1, 1, 1), Frame(1, 1, 1)>>}
Gifs == {Gif(1, 2, <<Mark("ext"), Image(2, 1), Mark("end")>>), Gif(9, 2, <<Mark("end")>>),
         Gif(1, 0, <<Mark("end")>>), Gif(1, 2, <<Mark("junk")>>), Gif(1, 2, <<Image(4, 3), Mark("end")>>)}
Files == {File("webp", "exact", b) : b \in Animations} \cup {File("gif", "exact", b) : b \in Gifs} \cup
         {File("webp", "cut", <<Canvas(2, 2), Frame(2, 2, 2)>>),
          File("webp", "loose", <<Block("VP8 ", 3, 1, 0, {})>>),
          File("webp", "exact", <<Block("VP8X", 2, 2, 0, {}), Block("VP8L", 3, 3, 0, {})>>),
          File("webp", "exact", <<Block("VP8X", 2, 2, 0, {}), Frame(2, 2, 1)>>),
          File("webp", "exact", <<Mark("EXIF")>>),
          File("jpeg", "exact", <<Mark("app"), Block("sof", 3, 2, 0, {})>>),
          File("jpeg", "exact", <<Mark("sos"), Block("sof", 3, 2, 0, {})>>),
          File("jpeg", "exact", <<Mark("app")>>),
          File("png", "exact", <<Block("ihdr", 4, 4, 0, {})>>),
          File("bmp", "cut", <<Block("dib", 2, 2, 0, {})>>),
          File("bmp", "exact", <<Block("dib", 2, 2, 0, {})>>), File("text", "exact", <<>>)}
Pictures == {[kind |-> "emote", mime |-> "webp", file |-> f] : f \in Files} \cup
            {[kind |-> "avatar", mime |-> "webp", file |-> File("webp", "exact", <<Canvas(2, 2), Frame(2, 2, 2)>>)],
             [kind |-> "avatar", mime |-> "gif", file |-> File("png", "exact", <<Block("ihdr", 1, 1, 0, {})>>)]}

J == INSTANCE StorageJobs WITH Keys <- LeftoverKeys
P == INSTANCE Processes WITH Requests <- HttpRequests
M == INSTANCE MediaProcessor WITH
       Requests <- PictureRequests, Uploads <- Pictures, req <- processing
F == INSTANCE FileStore WITH Workers <- FileWorkers, Uploads <- FileUploads, Faults <- {}, parts <- uploadParts
S == INSTANCE FileStoreProofs WITH Workers <- FileWorkers, Uploads <- FileUploads,
       Faults <- {"commit"}, parts <- uploadParts

backfillVars == <<rows, items, run, worker, lease, bytes, mishaps, changes, starts, deaths>>
maintenanceVars == <<primary, mirror, cursor, page, parts, marker, writes, faults>>
migrationVars == <<history, schema, holder, proc, failures>>
lifeVars == <<mode, main, pool, signalled, cancelled, failedServe, late, listener, request, socket,
              processor>>
pictureVars == <<processing, slots>>
fileVars == <<transfer, attach, object, row, uploadParts, stale, blob, staged, job, holds, lost>>
vars == <<part, backfillVars, maintenanceVars, migrationVars, lifeVars, pictureVars, fileVars>>

Init == /\ part \in {"backfill", "maintenance", "migrations", "process", "pictures", "files",
                    "sessions"}
        /\ J!BackfillInit /\ J!MaintenanceInit /\ P!LifeInit /\ P!MigrationsInit
        /\ M!MediaInit /\ F!Init
        /\ part # "process" => mode = [kind |-> "workspace", work |-> "active"]

(* A step of part p: the other parts stand still.                          *)
Only(p) ==
  /\ part = p /\ UNCHANGED part
  /\ IF p = "backfill" THEN TRUE ELSE UNCHANGED backfillVars
  /\ IF p = "maintenance" THEN TRUE ELSE UNCHANGED maintenanceVars
  /\ IF p = "migrations" THEN TRUE ELSE UNCHANGED migrationVars
  /\ IF p = "process" THEN TRUE ELSE UNCHANGED lifeVars
  /\ IF p = "pictures" THEN TRUE ELSE UNCHANGED pictureVars
  /\ IF p \in {"files", "sessions"} THEN TRUE ELSE UNCHANGED fileVars

BackfillStep == Only("backfill") /\ J!BackfillNext
MaintenanceStep == Only("maintenance") /\ J!MaintenanceNext
MigrationStep == Only("migrations") /\ P!MigrationsNext
LifeStep == Only("process") /\ P!LifeNext
PictureStep == Only("pictures") /\ M!MediaNext
FileStep == Only("files") /\ F!Next
SessionStep == Only("sessions") /\ S!SessionNext

Next == BackfillStep \/ MaintenanceStep \/ MigrationStep \/ LifeStep \/ PictureStep \/ FileStep
     \/ SessionStep

(* Each in its own part: the operator repeats the command, a process that  *)
(* lives goes on, a lease whose holder is dead runs out; the worker's      *)
(* loops run on and time passes; a goroutine that waits for a slot, and a  *)
(* transaction that waits for an advisory lock, is served in its turn.     *)
BackfillFairness ==
  /\ \A w \in Workers : WF_vars(Only("backfill") /\ J!WorkerStep(w))
  /\ WF_vars(Only("backfill") /\ J!LeaseRunsOut)
MaintenanceFairness ==
  \A step \in {"upload", "multipart", "time"} :
    WF_vars(/\ Only("maintenance")
            /\ \/ step = "upload" /\ J!UploadStep
               \/ step = "multipart" /\ J!AbortStaleMultipartUploads
               \/ step = "time" /\ J!TimePasses)
LifeFairness ==
  /\ WF_vars(Only("process") /\ P!MainStep)
  /\ WF_vars(Only("process") /\ P!ListenerEnds)
  /\ \A r \in HttpRequests : WF_vars(Only("process") /\ main \notin P!Exits /\ P!RequestStep(r))
  /\ \A s \in Sockets : WF_vars(Only("process") /\ main \notin P!Exits /\ P!SocketStep(s))
  /\ \A p \in Processors : WF_vars(Only("process") /\ main \notin P!Exits /\ P!ProcessorStep(p))
PictureFairness ==
  \A r \in PictureRequests :
    /\ SF_vars(Only("pictures") /\ M!acquire(r))
    /\ WF_vars(Only("pictures") /\ (M!decode(r) \/ M!encode(r) \/ M!finish(r)))
FileFairness ==
  /\ \A w \in FileWorkers : SF_vars(Only("files") /\ F!Advance(w))
  /\ \A u \in FileUploads : /\ SF_vars(Only("files") /\ \E w \in FileWorkers : F!Maintain(w, u))
                        /\ WF_vars(Only("files") /\ F!BecomeStale(u))
Spec == /\ Init /\ [][Next]_vars
        /\ BackfillFairness /\ MaintenanceFairness /\ LifeFairness /\ PictureFairness /\ FileFairness

(* Through every start, stop and failure. What the backfill binds is what  *)
(* the row said before, and a run is complete only when every row is       *)
(* bound; nothing queries a closed pool, no request is cut short within    *)
(* the grace period, a start that failed leaves nothing behind; each       *)
(* migration takes effect once and in order, and nothing is served on a    *)
(* schema its release does not know; and uploads whose database sessions   *)
(* die under them leave a ledger that agrees with the attachments.         *)
PlatformSound ==
  /\ part = "backfill" => J!BackfillTypeOK /\ J!OwnContents /\ J!CompletedIsComplete
  /\ part = "process" => P!LifeTypeOK /\ P!PoolOutlivesWork /\ P!RequestsNotCut /\ P!FailedStartClean
  /\ part = "migrations" => P!MigrationsTypeOK /\ P!AppliedOnce /\ P!ServesOnReviewedSchema
  /\ part = "sessions" => S!LedgerAgrees
(* A worker whose lease has passed to another changes nothing any more.    *)
FencedOff == J!FencedOff
(* No picture is decoded beyond its budget, and what is stored carries no  *)
(* metadata and all of its frames.                                         *)
PicturesSound ==
  part = "pictures" => M!MediaTypeOK /\ M!DecodedWithinBudget /\ M!StoredPictureClean /\ M!AnimationKept

(* What is begun comes to an end: a stopping process exits, a waiting      *)
(* picture is answered, a stale reservation is given back, the backfill    *)
(* completes, attempts and multipart uploads that nobody finished          *)
(* disappear from both stores.  Pictures are interchangeable: one of them  *)
(* is watched.                                                             *)
Watched == CHOOSE r \in PictureRequests : TRUE
StaleReservation == \E u \in FileUploads : F!Owned(u) /\ stale[u]
Leftovers == \E k \in LeftoverKeys : primary[k] # "none" \/ mirror[k] # "none" \/ parts[k] # "none"
Pending ==
  \/ part = "process" /\ (signalled \/ failedServe)
  \/ part = "pictures" /\ processing[Watched].pc = "waiting"
  \/ part = "files" /\ StaleReservation
  \/ part = "backfill"
  \/ part = "maintenance" /\ Leftovers
Over ==
  \/ part = "process" /\ main = "exited"
  \/ part = "pictures" /\ processing[Watched].pc \in {"done", "refused"}
  \/ part = "files" /\ ~StaleReservation
  \/ part = "backfill" /\ (run.state = "completed" \/ changes > 0)
  \/ part = "maintenance" /\ ~Leftovers
EverythingEnds == Pending ~> Over
-----------------------------------------------------------------------------
(***************************************************************************)
(* Naturals and finite sets.                                               *)
(***************************************************************************)
LEMMA LeastExists ==
  ASSUME NEW Z, Z \subseteq Nat, Z # {}
  PROVE  \E m \in Z : \A x \in Z : m <= x
<1> DEFINE Rel == OpToRel(<, Nat)
<1>1. IsWellFoundedOn(Rel, Nat) BY NatLessThanWellFounded
<1>2. \A x, y \in Nat : x < y => <<x, y>> \in Rel BY DEF OpToRel
<1> HIDE DEF Rel
<1>3. PICK m \in Z : \A y \in Z : ~(<<y, m>> \in Rel) BY <1>1, WFMin
<1>4. \A y \in Z : ~(y < m) BY <1>2, <1>3
<1> QED BY <1>4

(* Of the nonempty sets of resources without a greatest one, one has the   *)
(* fewest members; without one of them it has a greatest, or is empty.     *)
LEMMA GreatestExists ==
  ASSUME NEW Z, Z \subseteq Nat, IsFiniteSet(Z), Z # {}
  PROVE  \E m \in Z : \A x \in Z : x <= m
<1> DEFINE Top(T) == \E m \in T : \A x \in T : x <= m
           Sizes == {n \in Nat : \E T \in SUBSET Z : T # {} /\ ~Top(T) /\ Cardinality(T) = n}
<1>0. \A T \in SUBSET Z : IsFiniteSet(T) /\ Cardinality(T) \in Nat BY FS_Subset, FS_CardinalityType
<1>1. SUFFICES ASSUME ~Top(Z) PROVE FALSE OBVIOUS
<1>2. Cardinality(Z) \in Sizes BY <1>0, <1>1
<1>3. PICK n \in Sizes : \A k \in Sizes : n <= k
  <2>1. Sizes \subseteq Nat /\ Sizes # {} BY <1>2
  <2> HIDE DEF Sizes
  <2> QED BY <2>1, LeastExists
<1>4. PICK T \in SUBSET Z : T # {} /\ ~Top(T) /\ Cardinality(T) = n BY <1>3
<1>5. PICK e \in T : TRUE BY <1>4
<1> DEFINE U == T \ {e}
<1>6. Cardinality(U) = n - 1 /\ U \in SUBSET Z /\ Cardinality(U) \in Nat
  BY <1>0, <1>4, <1>5, FS_RemoveElement
<1>7. U = {} \/ Top(U)
  <2>1. Cardinality(U) \notin Sizes BY <1>3, <1>6
  <2> QED BY <1>6, <2>1
<1>8. CASE U = {}
  <2>1. T = {e} BY <1>5, <1>8
  <2> QED BY <1>4, <2>1
<1>9. CASE Top(U)
  <2>1. PICK m \in U : \A x \in U : x <= m BY <1>9
  <2>2. \A x \in T : x \in U \/ x = e OBVIOUS
  <2>3. m \in Nat /\ e \in Nat /\ T \subseteq Nat BY <1>4
  <2>4. CASE m <= e BY <1>4, <1>5, <2>1, <2>2, <2>3, <2>4
  <2>5. CASE e <= m BY <1>4, <1>5, <2>1, <2>2, <2>3, <2>5
  <2> QED BY <2>3, <2>4, <2>5
<1> QED BY <1>7, <1>8, <1>9
-----------------------------------------------------------------------------
(***************************************************************************)
(* The backfill.                                                           *)
(***************************************************************************)
BackfillSpec == J!BackfillInit /\ [][J!BackfillNext]_(J!backfillVars)

Statuses == {"none", "pending", "failed", "completed"}
CatalogRow == [live : BOOLEAN, key : Nat, object : Nat]
ItemRow == [status : Statuses, rev : Nat, key : Nat, object : Nat]
RunRow == [state : {"none", "running", "failed", "completed"}, phase : {"root", "clone"},
           cursor : Resources \cup {0}, rev : Nat, fence : Nat]
Paging == {"copy", "bind", "mark", "item_failed"}
Runner == [pc : Paging \cup {"idle", "recover", "begin", "list", "clone", "advance", "complete", "fail"},
           ok : BOOLEAN, token : Nat, run : RunRow, page : SUBSET Resources,
           snap : [Resources -> ItemRow], fence : Nat, object : Nat]
BackfillTyped ==
  /\ rows \in [Resources -> CatalogRow] /\ items \in [Resources -> ItemRow] /\ run \in RunRow
  /\ worker \in [Workers -> Runner] /\ lease \in Workers \cup {NoWorker}

First(P0) == CHOOSE r \in P0 : \A q \in P0 : r <= q

(* What a worker has in hand: the rest of its page is of its phase, what   *)
(* it binds is what it paged and has copied, what it marks is completed.   *)
InHand(x, its, stored) ==
  /\ x.pc \in Paging => x.page # {} /\ \A r \in x.page : J!PhaseOf(r) = x.run.phase
  /\ x.pc \in Paging \cup {"advance"} => \E r \in Resources : x.snap[r] # J!NoItem
  /\ x.pc = "bind" => /\ x.run.phase = "root" /\ x.object = J!Candidate(x.snap[First(x.page)])
                      /\ x.object \in stored
  /\ x.pc = "mark" => /\ its[First(x.page)].status = "completed"
                      /\ its[First(x.page)].rev = x.snap[First(x.page)].rev + 1

(* A bound resource has its own contents, whose key only an avatar ever    *)
(* changes, and what is completed is bound.                                *)
SourceRow(r) == IF r \in Clones THEN SourceOf[r] ELSE r
Contents(rs, stored) ==
  \A r \in Resources : rs[r].object # 0 => rs[r].object = rs[SourceRow(r)].key /\ rs[r].object \in stored
Keyed(rs) == \A r \in Resources \ (Avatars \cup Clones) : rs[r].key = 1
Done(rs, its) ==
  \A r \in Resources : its[r].status = "completed" => ((rs[r].key # 0 \/ r \in Clones) => rs[r].object # 0)
Finished(st, its) == st = "completed" => \A r \in Resources : its[r].status \in {"none", "completed"}
BackfillInv ==
  /\ BackfillTyped /\ \A w \in Workers : InHand(worker[w], items, bytes)
  /\ Contents(rows, bytes) /\ Keyed(rows) /\ Done(rows, items) /\ Finished(run.state, items)

(* No step forgets bytes or reopens an item.                               *)
Kept == /\ bytes \subseteq bytes'
        /\ \A r \in Resources : items[r].status = "completed" => items'[r] = items[r]

LEMMA BackfillConstants ==
  /\ Resources \subseteq Nat /\ 0 \notin Resources /\ IsFiniteSet(Resources) /\ IsFiniteSet(Workers)
  /\ Late \subseteq Resources /\ Avatars \subseteq Resources /\ Clones \subseteq Resources
  /\ \A r \in Clones : r \notin Late /\ r \notin Avatars
  /\ \A r \in Clones : SourceOf[r] \in Resources \ (Clones \cup Avatars)
  /\ NoWorker \notin Workers
BY PlatformAssumption

LEMMA FirstInPage == ASSUME NEW Z \in SUBSET Resources, Z # {} PROVE First(Z) \in Z
BY LeastExists, BackfillConstants DEF First

LEMMA CurrentIsFirst == \A w : J!Current(w) = First(worker[w].page)
BY DEF J!Current, First

LEMMA IdleTyped == J!Idle \in Runner /\ J!Idle.pc = "idle" /\ J!NoItem \in ItemRow /\ J!Idle.run \in RunRow
BY DEF J!Idle, J!NoItem, Runner, RunRow, ItemRow, Statuses, Paging

LEMMA IdleInHand == \A its, stored : InHand(J!Idle, its, stored)
BY IdleTyped DEF InHand, Paging

LEMMA BackfillInitially == J!BackfillInit => BackfillInv
<1> SUFFICES ASSUME J!BackfillInit PROVE BackfillInv OBVIOUS
<1>1. BackfillTyped BY IdleTyped DEF J!BackfillInit, BackfillTyped, CatalogRow, Statuses
<1>2. \A w \in Workers : InHand(worker[w], items, bytes) BY IdleInHand DEF J!BackfillInit
<1>3. Contents(rows, bytes) /\ Keyed(rows) BY DEF J!BackfillInit, Contents, Keyed
<1>4. J!NoItem.status = "none" BY DEF J!NoItem
<1>5. run.state = "none" BY DEF J!BackfillInit, J!Idle
<1>6. Done(rows, items) BY <1>4 DEF J!BackfillInit, Done
<1>7. Finished(run.state, items) BY <1>5 DEF Finished
<1> QED BY <1>1, <1>2, <1>3, <1>6, <1>7 DEF BackfillInv

(* A worker moves to x; the others keep what they have in hand.            *)
LEMMA MoveKeeps ==
  ASSUME BackfillInv, NEW w \in Workers, NEW x \in Runner, worker' = [worker EXCEPT ![w] = x], Kept,
         InHand(x, items', bytes'), lease' \in Workers \cup {NoWorker},
         rows' \in [Resources -> CatalogRow], items' \in [Resources -> ItemRow], run' \in RunRow,
         Contents(rows', bytes'), Keyed(rows'), Done(rows', items'), Finished(run'.state, items')
  PROVE  BackfillInv'
<1>1. BackfillTyped' BY DEF BackfillInv, BackfillTyped
<1>2. ASSUME NEW v \in Workers PROVE InHand(worker'[v], items', bytes')
  <2>1. CASE v = w BY <2>1 DEF BackfillInv, BackfillTyped
  <2>2. CASE v # w
    <3>1. worker'[v] = worker[v] /\ InHand(worker[v], items, bytes) /\ worker[v].page \in SUBSET Resources
      BY <2>2 DEF BackfillInv, BackfillTyped, Runner
    <3>2. worker[v].pc \in Paging => First(worker[v].page) \in Resources BY <3>1, FirstInPage DEF InHand
    <3> QED BY <3>1, <3>2 DEF InHand, Kept, Paging
  <2> QED BY <2>1, <2>2
<1> QED BY <1>1, <1>2 DEF BackfillInv

(* A step that only moves the worker and may add bytes.                    *)
LEMMA WalkKeeps ==
  ASSUME BackfillInv, NEW w \in Workers, NEW x \in Runner, worker' = [worker EXCEPT ![w] = x],
         rows' = rows, items' = items, run' = run, bytes \subseteq bytes',
         lease' \in Workers \cup {NoWorker}, InHand(x, items, bytes')
  PROVE  BackfillInv'
<1>1. Kept BY DEF Kept
<1>2. Contents(rows', bytes') /\ Keyed(rows') /\ Done(rows', items') /\ Finished(run'.state, items')
  BY DEF BackfillInv, Contents
<1>3. rows' \in [Resources -> CatalogRow] /\ items' \in [Resources -> ItemRow] /\ run' \in RunRow
  BY DEF BackfillInv, BackfillTyped
<1> QED BY <1>1, <1>2, <1>3, MoveKeeps

LEMMA LeaveKeeps ==
  ASSUME BackfillInv, NEW w \in Workers, J!Leave(w), rows' = rows, items' = items, bytes' = bytes,
         run' \in RunRow, Finished(run'.state, items)
  PROVE  BackfillInv'
<1>1. worker' = [worker EXCEPT ![w] = J!Idle] /\ lease' \in Workers \cup {NoWorker}
  BY DEF J!Leave, J!Become, BackfillInv, BackfillTyped
<1>2. Kept BY DEF Kept
<1> QED BY <1>1, <1>2, IdleTyped, IdleInHand, MoveKeeps DEF BackfillInv, BackfillTyped

(* A refused update leaves the worker with an empty run.                   *)
LEMMA LostKeeps ==
  ASSUME BackfillInv, NEW w \in Workers, J!Lost(w), rows' = rows, bytes' = bytes PROVE BackfillInv'
<1> DEFINE x == [worker[w] EXCEPT !.pc = "fail", !.ok = FALSE, !.run = J!Idle.run]
<1>1. x \in Runner /\ x.pc = "fail" BY IdleTyped DEF BackfillInv, BackfillTyped, Runner
<1>2. InHand(x, items, bytes') BY <1>1 DEF InHand, Paging
<1>3. worker' = [worker EXCEPT ![w] = x] /\ UNCHANGED <<run, items, lease>> BY DEF J!Lost, J!Become
<1> HIDE DEF x
<1> QED BY <1>1, <1>2, <1>3, WalkKeeps DEF BackfillInv, BackfillTyped

(* A worker goes on to its next transaction.                               *)
LEMMA GoneOn ==
  ASSUME BackfillInv, NEW w \in Workers, NEW pc \in Paging \cup {"begin", "fail"}, J!GoOn(w, pc)
  PROVE  \E x \in Runner : /\ worker' = [worker EXCEPT ![w] = x] /\ x.pc = pc /\ x.page = worker[w].page
                           /\ x.run = worker[w].run /\ x.snap = worker[w].snap
<1> DEFINE x == [worker[w] EXCEPT !.pc = pc, !.ok = FALSE]
<1>1. x \in Runner /\ x.pc = pc /\ x.page = worker[w].page /\ x.run = worker[w].run /\ x.snap = worker[w].snap
  BY DEF BackfillInv, BackfillTyped, Runner
<1>2. worker' = [worker EXCEPT ![w] = x] BY DEF J!GoOn, J!Become
<1> HIDE DEF x
<1> QED BY <1>1, <1>2

LEMMA AssertKeeps == ASSUME BackfillInv, NEW w \in Workers, J!assertLease(w) PROVE BackfillInv'
<1>1. UNCHANGED <<rows, items, run, bytes>> BY DEF J!assertLease, J!catalog
<1>2. CASE lease = w
  <2> DEFINE x == [worker[w] EXCEPT !.ok = TRUE]
  <2>1. x \in Runner BY DEF BackfillInv, BackfillTyped, Runner
  <2>2. InHand(x, items, bytes)
    BY DEF BackfillInv, BackfillTyped, Runner, InHand
  <2>3. worker' = [worker EXCEPT ![w] = x] /\ lease' = lease BY <1>2 DEF J!assertLease, J!Become
  <2> HIDE DEF x
  <2> QED BY <1>1, <2>1, <2>2, <2>3, WalkKeeps DEF BackfillInv, BackfillTyped
<1>3. CASE lease # w
  <2>1. J!Leave(w) BY <1>3 DEF J!assertLease
  <2> QED BY <1>1, <2>1, LeaveKeeps DEF BackfillInv, BackfillTyped
<1> QED BY <1>2, <1>3

LEMMA JobsCardinality == ASSUME NEW Z PROVE J!Cardinality(Z) = Cardinality(Z)
BY DEF J!Cardinality, Cardinality, J!IsFiniteSet, IsFiniteSet

(* There is always a token that nobody uses.                               *)
LEMMA TokenFree == ASSUME BackfillTyped PROVE J!Unused # {} /\ J!Unused \subseteq Nat \ {0, run.fence}
<1> DEFINE TokensOf == {worker[v].token : v \in Workers}
           FencesOf == {worker[v].fence : v \in Workers}
           N == Cardinality(Workers)
<1>1. N \in Nat BY FS_CardinalityType, BackfillConstants
<1>2. IsFiniteSet(TokensOf) /\ Cardinality(TokensOf) <= N
  <2>1. [v \in Workers |-> worker[v].token] \in Surjection(Workers, TokensOf) BY DEF Surjection
  <2> QED BY <2>1, FS_Surjection, BackfillConstants
<1>3. IsFiniteSet(FencesOf) /\ Cardinality(FencesOf) <= N
  <2>1. [v \in Workers |-> worker[v].fence] \in Surjection(Workers, FencesOf) BY DEF Surjection
  <2> QED BY <2>1, FS_Surjection, BackfillConstants
<1> HIDE DEF TokensOf, FencesOf, N
<1>4. IsFiniteSet(J!Tokens) /\ Cardinality(J!Tokens) = 2 * N + 2
  <2>1. J!Tokens = 1 .. (2 * N + 2) BY JobsCardinality DEF J!Tokens, N
  <2>2. IsFiniteSet(1 .. (2 * N + 2)) /\ Cardinality(1 .. (2 * N + 2)) = 2 * N + 2 BY <1>1, FS_Interval
  <2> QED BY <2>1, <2>2
<1> DEFINE Used == ({run.fence} \cup TokensOf) \cup FencesOf
<1>5. IsFiniteSet(Used) /\ Cardinality(Used) <= 2 * N + 1
  <2>1. IsFiniteSet({run.fence}) /\ Cardinality({run.fence}) = 1 BY FS_Singleton
  <2>2. /\ Cardinality(TokensOf) \in Nat /\ Cardinality(FencesOf) \in Nat
    BY <1>2, <1>3, FS_CardinalityType
  <2>3. IsFiniteSet({run.fence} \cup TokensOf) /\ Cardinality({run.fence} \cup TokensOf) <= N + 1
    <3>1. {run.fence} \cup TokensOf = TokensOf \cup {run.fence} OBVIOUS
    <3>2. /\ IsFiniteSet(TokensOf \cup {run.fence})
          /\ \/ Cardinality(TokensOf \cup {run.fence}) = Cardinality(TokensOf)
             \/ Cardinality(TokensOf \cup {run.fence}) = Cardinality(TokensOf) + 1
      BY <1>2, FS_AddElement
    <3> QED BY <1>1, <1>2, <2>2, <3>1, <3>2
  <2>4. Cardinality({run.fence} \cup TokensOf) \in Nat BY <2>3, FS_CardinalityType
  <2> HIDE DEF Used
  <2>5. /\ IsFiniteSet(Used)
        /\ Cardinality(Used) = Cardinality({run.fence} \cup TokensOf) + Cardinality(FencesOf)
                                 - Cardinality(({run.fence} \cup TokensOf) \cap FencesOf)
    BY <1>3, <2>3, FS_Union DEF Used
  <2>6. Cardinality(({run.fence} \cup TokensOf) \cap FencesOf) \in Nat
    BY <2>3, FS_Intersection, FS_CardinalityType
  <2> QED BY <1>1, <1>3, <2>2, <2>3, <2>4, <2>5, <2>6
<1>6. ~(J!Tokens \subseteq Used)
  <2> HIDE DEF Used
  <2>1. Cardinality(Used) \in Nat BY <1>5, FS_CardinalityType
  <2>2. J!Tokens \subseteq Used => Cardinality(J!Tokens) <= Cardinality(Used) BY <1>5, FS_Subset
  <2> QED BY <1>1, <1>4, <1>5, <2>1, <2>2
<1>7. J!Unused = J!Tokens \ Used BY DEF J!Unused, TokensOf, FencesOf
<1>8. J!Tokens \subseteq Nat \ {0} BY <1>1, JobsCardinality DEF J!Tokens, N
<1> QED BY <1>6, <1>7, <1>8

LEMMA AcquireKeeps == ASSUME BackfillInv, NEW w \in Workers, J!Acquire(w) PROVE BackfillInv'
<1>1. UNCHANGED <<rows, items, run, bytes>> /\ lease' = w BY DEF J!Acquire, J!catalog
<1> DEFINE t == CHOOSE t \in J!Unused : TRUE
           pc == IF run.state = "running" THEN "recover" ELSE "begin"
           x == [J!Idle EXCEPT !.pc = pc, !.token = t, !.run = run]
<1>2. t \in Nat BY TokenFree DEF BackfillInv
<1>3. worker' = [worker EXCEPT ![w] = x] BY DEF J!Acquire, J!Become
<1> HIDE DEF t
<1>4. x \in Runner /\ x.pc \in {"recover", "begin"} BY <1>2, IdleTyped DEF BackfillInv, BackfillTyped, Runner
<1> HIDE DEF x
<1>5. InHand(x, items, bytes) BY <1>4 DEF InHand, Paging
<1> QED BY <1>1, <1>3, <1>4, <1>5, WalkKeeps DEF BackfillInv, BackfillTyped

(* The rows a run goes through.                                            *)
LEMMA RunBegun ==
  ASSUME NEW g \in RunRow, NEW f \in Nat
  PROVE  LET a == [g EXCEPT !.state = "running", !.fence = f, !.rev = g.rev + 1]
         IN  a \in RunRow /\ a.state = "running" /\ a.fence = f /\ a.rev = g.rev + 1
<1> DEFINE n == g.rev + 1
<1>1. n \in Nat BY DEF RunRow
<1> HIDE DEF n
<1> QED BY <1>1 DEF RunRow, n

LEMMA RunRecovered ==
  ASSUME NEW g \in RunRow, NEW f \in Nat
  PROVE  LET a == [g EXCEPT !.fence = f, !.rev = g.rev + 1]
         IN  a \in RunRow /\ a.state = g.state /\ a.fence = f /\ a.rev = g.rev + 1
<1> DEFINE n == g.rev + 1
<1>1. n \in Nat BY DEF RunRow
<1> HIDE DEF n
<1> QED BY <1>1 DEF RunRow, n

LEMMA RunCloning ==
  ASSUME NEW g \in RunRow
  PROVE  LET a == [g EXCEPT !.phase = "clone", !.cursor = 0, !.rev = g.rev + 1]
         IN  a \in RunRow /\ a.state = g.state /\ a.fence = g.fence /\ a.rev = g.rev + 1
<1> DEFINE n == g.rev + 1
<1>1. n \in Nat BY DEF RunRow
<1> HIDE DEF n
<1> QED BY <1>1 DEF RunRow, n

LEMMA RunAdvanced ==
  ASSUME NEW g \in RunRow, NEW c \in Resources
  PROVE  LET a == [g EXCEPT !.cursor = c, !.rev = g.rev + 1]
         IN  a \in RunRow /\ a.state = g.state /\ a.fence = g.fence /\ a.rev = g.rev + 1
<1> DEFINE n == g.rev + 1
<1>1. n \in Nat BY DEF RunRow
<1> HIDE DEF n
<1> QED BY <1>1 DEF RunRow, n

LEMMA RunEnded ==
  ASSUME NEW g \in RunRow, NEW st \in {"failed", "completed"}
  PROVE  LET a == [g EXCEPT !.state = st, !.rev = g.rev + 1]
         IN  a \in RunRow /\ a.state = st /\ a.fence = g.fence /\ a.rev = g.rev + 1
<1> DEFINE n == g.rev + 1
<1>1. n \in Nat BY DEF RunRow
<1> HIDE DEF n
<1> QED BY <1>1 DEF RunRow, n

(* Seeding only adds pending items.                                        *)
LEMMA SeedKeeps ==
  ASSUME BackfillInv, NEW Z
  PROVE  /\ J!Seeded(Z) \in [Resources -> ItemRow] /\ Done(rows, J!Seeded(Z))
         /\ \A r \in Resources : items[r].status = "completed" => J!Seeded(Z)[r] = items[r]
<1> USE DEF BackfillInv
<1>1. ASSUME NEW r \in Resources
      PROVE  /\ J!Seeded(Z)[r] \in ItemRow
             /\ J!Seeded(Z)[r].status = "completed" => items[r].status = "completed"
             /\ items[r].status = "completed" => J!Seeded(Z)[r] = items[r]
  <2>1. rows[r] \in CatalogRow /\ items[r] \in ItemRow BY DEF BackfillTyped
  <2> DEFINE seed == [status |-> "pending", rev |-> 1, key |-> rows[r].key, object |-> rows[r].object]
  <2>2. seed \in ItemRow /\ seed.status = "pending" BY <2>1 DEF ItemRow, CatalogRow, Statuses
  <2> HIDE DEF seed
  <2>3. J!Seeded(Z)[r] = items[r] \/ (J!Seeded(Z)[r] = seed /\ items[r].status = "none") BY DEF J!Seeded, seed
  <2> QED BY <2>1, <2>2, <2>3
<1>2. J!Seeded(Z) \in [Resources -> ItemRow] BY <1>1 DEF J!Seeded
<1> QED BY <1>1, <1>2 DEF Done

LEMMA BeginKeeps == ASSUME BackfillInv, NEW w \in Workers, J!BeginOrResume(w) PROVE BackfillInv'
<1> DEFINE t == worker[w].token
           begun == [run EXCEPT !.state = "running", !.fence = t, !.rev = run.rev + 1]
<1>0. UNCHANGED <<rows, bytes>> BY DEF J!BeginOrResume, J!catalog
<1>1. t \in Nat /\ run \in RunRow /\ worker[w] \in Runner BY DEF BackfillInv, BackfillTyped, Runner
<1>2. ASSUME NEW g \in RunRow
      PROVE  LET x == [worker[w] EXCEPT !.pc = "list", !.ok = FALSE, !.run = g]
             IN  x \in Runner /\ \A its, st : InHand(x, its, st)
  <2> DEFINE x == [worker[w] EXCEPT !.pc = "list", !.ok = FALSE, !.run = g]
  <2>1. x \in Runner /\ x.pc = "list" BY <1>1 DEF Runner
  <2> HIDE DEF x
  <2>2. \A its, st : InHand(x, its, st) BY <2>1 DEF InHand, Paging
  <2> QED BY <2>1, <2>2 DEF x
<1>3. CASE run.state \in {"none", "failed"}
  <2> DEFINE x == [worker[w] EXCEPT !.pc = "list", !.ok = FALSE, !.run = begun]
  <2>1. begun \in RunRow /\ begun.state = "running" BY <1>1, RunBegun
  <2>2. run' = begun /\ worker' = [worker EXCEPT ![w] = x] /\ lease' = lease /\ items' = J!seedRootItems
    BY <1>3 DEF J!BeginOrResume, J!Become
  <2> HIDE DEF begun
  <2>3. x \in Runner /\ InHand(x, items', bytes') BY <1>2, <2>1
  <2> HIDE DEF x
  <2>4. /\ items' \in [Resources -> ItemRow] /\ Done(rows', items') /\ Kept
    BY <1>0, <2>2, SeedKeeps DEF J!seedRootItems, Kept
  <2>5. Finished(run'.state, items') BY <2>1, <2>2 DEF Finished
  <2> QED BY <1>0, <2>1, <2>2, <2>3, <2>4, <2>5, MoveKeeps DEF BackfillInv, BackfillTyped
<1>4. CASE run.state \notin {"none", "failed"} /\ J!Leave(w)
  <2>1. UNCHANGED <<run, items>> BY <1>4 DEF J!BeginOrResume
  <2> QED BY <1>0, <1>4, <2>1, LeaveKeeps DEF BackfillInv, BackfillTyped
<1>5. CASE run.state \notin {"none", "failed"} /\ ~J!Leave(w)
  <2> DEFINE x == [worker[w] EXCEPT !.pc = "list", !.ok = FALSE, !.run = run]
  <2>1. UNCHANGED <<run, items, lease>> /\ worker' = [worker EXCEPT ![w] = x]
    BY <1>5 DEF J!BeginOrResume, J!Become
  <2>2. x \in Runner /\ InHand(x, items, bytes') BY <1>1, <1>2
  <2> HIDE DEF x
  <2> QED BY <1>0, <2>1, <2>2, WalkKeeps DEF BackfillInv, BackfillTyped
<1> QED BY <1>3, <1>4, <1>5

LEMMA RecoverKeeps == ASSUME BackfillInv, NEW w \in Workers, J!RecoverRunning(w) PROVE BackfillInv'
<1>0. UNCHANGED <<rows, bytes, items>> BY DEF J!RecoverRunning, J!catalog
<1>1. CASE run.state = "running" /\ J!SameFence(w)
  <2> DEFINE g == [run EXCEPT !.fence = worker[w].token, !.rev = run.rev + 1]
  <2>1. g \in RunRow /\ g.state = "running"
    <3>1. run \in RunRow /\ worker[w].token \in Nat BY DEF BackfillInv, BackfillTyped, Runner
    <3> QED BY <1>1, <3>1, RunRecovered
  <2>2. run' = g /\ J!GoOn(w, "begin") /\ lease' = lease BY <1>1 DEF J!RecoverRunning
  <2> HIDE DEF g
  <2>3. PICK x \in Runner : worker' = [worker EXCEPT ![w] = x] /\ x.pc = "begin" BY <2>2, GoneOn
  <2>4. InHand(x, items', bytes') BY <2>3 DEF InHand, Paging
  <2>5. Kept /\ Finished(run'.state, items') BY <1>0, <2>1, <2>2 DEF Kept, Finished
  <2> QED BY <1>0, <2>1, <2>2, <2>3, <2>4, <2>5, MoveKeeps DEF BackfillInv, BackfillTyped
<1>2. CASE ~(run.state = "running" /\ J!SameFence(w))
  <2>1. J!Leave(w) /\ run' = run BY <1>2 DEF J!RecoverRunning
  <2> QED BY <1>0, <2>1, LeaveKeeps DEF BackfillInv, BackfillTyped
<1> QED BY <1>1, <1>2

LEMMA ListKeeps == ASSUME BackfillInv, NEW w \in Workers, J!ListPage(w) PROVE BackfillInv'
<1> DEFINE pg == J!FirstOf(J!Listed(worker[w].run))
           pc == IF pg # {} THEN "copy" ELSE IF worker[w].run.phase = "root" THEN "clone" ELSE "complete"
           sn == [r \in Resources |-> IF r \in pg THEN items[r] ELSE J!NoItem]
           x == [worker[w] EXCEPT !.pc = pc, !.ok = FALSE, !.page = pg, !.fence = run.fence, !.snap = sn,
                                  !.object = 0]
<1>1. UNCHANGED <<rows, items, run, lease, bytes>> /\ worker' = [worker EXCEPT ![w] = x]
  BY DEF J!ListPage, J!catalog, J!Become
<1>2. /\ pg \subseteq Resources
      /\ \A r \in pg : J!PhaseOf(r) = worker[w].run.phase /\ items[r].status \in {"pending", "failed"}
  BY DEF J!FirstOf, J!Listed, J!Open
<1> HIDE DEF pg
<1>3. /\ sn \in [Resources -> ItemRow] /\ run.fence \in Nat /\ worker[w] \in Runner
      /\ \A r \in pg : sn[r] # J!NoItem
  <2>1. \A r \in pg : items[r] # J!NoItem BY <1>2 DEF J!NoItem
  <2> QED BY <1>2, <2>1, IdleTyped DEF BackfillInv, BackfillTyped, RunRow
<1> HIDE DEF sn
<1>4. x \in Runner /\ x.pc = pc /\ x.page = pg /\ x.snap = sn /\ x.run = worker[w].run
  BY <1>2, <1>3 DEF Runner, Paging
<1> HIDE DEF x
<1>5. InHand(x, items, bytes') BY <1>2, <1>3, <1>4 DEF InHand, Paging
<1> QED BY <1>1, <1>4, <1>5, WalkKeeps DEF BackfillInv, BackfillTyped

(* A checkpoint: the run moves on, with its worker.                        *)
LEMMA CheckpointKeeps ==
  ASSUME BackfillInv, NEW w \in Workers, NEW g \in RunRow, g.state = "running", J!Checkpoint(w, g),
         rows' = rows, bytes' = bytes, lease' = lease, items' \in [Resources -> ItemRow],
         Done(rows, items'), Kept
  PROVE  BackfillInv'
<1> DEFINE x == [worker[w] EXCEPT !.pc = "list", !.ok = FALSE, !.run = g]
<1>1. x \in Runner /\ x.pc = "list" BY DEF BackfillInv, BackfillTyped, Runner
<1>2. run' = g /\ worker' = [worker EXCEPT ![w] = x] BY DEF J!Checkpoint, J!Become
<1> HIDE DEF x
<1>3. InHand(x, items', bytes') BY <1>1 DEF InHand, Paging
<1>4. Finished(run'.state, items') BY <1>2 DEF Finished
<1> QED BY <1>1, <1>2, <1>3, <1>4, MoveKeeps DEF BackfillInv, BackfillTyped

LEMMA ClonesKeep == ASSUME BackfillInv, NEW w \in Workers, J!EnsureCloneItems(w) PROVE BackfillInv'
<1>0. UNCHANGED <<rows, bytes>> BY DEF J!EnsureCloneItems, J!catalog
<1>1. CASE J!Lost(w) BY <1>0, <1>1, LostKeeps
<1>2. CASE ~J!Lost(w)
  <2> DEFINE g == [run EXCEPT !.phase = "clone", !.cursor = 0, !.rev = run.rev + 1]
  <2>1. /\ J!CAS(w) /\ J!Checkpoint(w, g) /\ items' = J!Seeded({r \in Clones : rows[r].live}) /\ lease' = lease
    BY <1>2 DEF J!EnsureCloneItems
  <2>2. g \in RunRow /\ g.state = "running"
    <3>1. run \in RunRow /\ run.state = "running" BY <2>1 DEF BackfillInv, BackfillTyped, J!CAS
    <3> QED BY <3>1, RunCloning
  <2> HIDE DEF g
  <2>3. items' \in [Resources -> ItemRow] /\ Done(rows, items') /\ Kept
    BY <1>0, <2>1, SeedKeeps DEF Kept
  <2> QED BY <1>0, <2>1, <2>2, <2>3, CheckpointKeeps
<1> QED BY <1>1, <1>2

LEMMA LastPaged ==
  ASSUME BackfillInv, NEW w \in Workers, worker[w].pc = "advance"
  PROVE  J!LastOf({r \in Resources : worker[w].snap[r] # J!NoItem}) \in Resources
<1> DEFINE Z == {r \in Resources : worker[w].snap[r] # J!NoItem}
<1>1. Z # {} BY DEF BackfillInv, InHand
<1>2. Z \subseteq Nat /\ IsFiniteSet(Z) BY BackfillConstants, FS_Subset
<1>3. \E m \in Z : \A q \in Z : q <= m
  <2> HIDE DEF Z
  <2> QED BY <1>1, <1>2, GreatestExists
<1>4. J!LastOf(Z) \in Z BY <1>3 DEF J!LastOf
<1> QED BY <1>4

LEMMA AdvanceKeeps == ASSUME BackfillInv, NEW w \in Workers, J!Advance(w) PROVE BackfillInv'
<1>0. UNCHANGED <<rows, bytes>> BY DEF J!Advance, J!catalog
<1>1. CASE J!Lost(w) BY <1>0, <1>1, LostKeeps
<1>2. CASE ~J!Lost(w)
  <2> DEFINE Z == {r \in Resources : worker[w].snap[r] # J!NoItem}
             c == J!LastOf(Z)
             g == [run EXCEPT !.cursor = c, !.rev = run.rev + 1]
  <2>1. J!CAS(w) /\ J!Checkpoint(w, g) /\ items' = items /\ lease' = lease /\ worker[w].pc = "advance"
    BY <1>2 DEF J!Advance, J!At
  <2>2. c \in Resources BY <2>1, LastPaged
  <2> HIDE DEF c
  <2>3. g \in RunRow /\ g.state = "running"
    <3>1. run \in RunRow /\ run.state = "running" BY <2>1 DEF BackfillInv, BackfillTyped, J!CAS
    <3> QED BY <2>2, <3>1, RunAdvanced
  <2> HIDE DEF g
  <2>4. items' \in [Resources -> ItemRow] /\ Done(rows, items') /\ Kept
    BY <1>0, <2>1 DEF Kept, BackfillInv, BackfillTyped
  <2> QED BY <1>0, <2>1, <2>3, <2>4, CheckpointKeeps
<1> QED BY <1>1, <1>2
-----------------------------------------------------------------------------
LEMMA CompleteKeeps == ASSUME BackfillInv, NEW w \in Workers, J!Complete(w) PROVE BackfillInv'
<1>0. UNCHANGED <<rows, bytes>> BY DEF J!Complete, J!catalog
<1>1. CASE J!Lost(w) BY <1>0, <1>1, LostKeeps
<1>2. CASE ~J!Lost(w)
  <2> DEFINE g == [run EXCEPT !.state = "completed", !.rev = run.rev + 1]
  <2>1. J!NothingOpen /\ run' = g /\ J!Leave(w) /\ items' = items BY <1>2 DEF J!Complete
  <2>2. g \in RunRow
    <3>1. run \in RunRow BY DEF BackfillInv, BackfillTyped
    <3> QED BY <3>1, RunEnded
  <2> HIDE DEF g
  <2>3. Finished(run'.state, items)
    BY <2>1 DEF Finished, J!NothingOpen, J!Open, BackfillInv, BackfillTyped, ItemRow, Statuses
  <2> QED BY <1>0, <2>1, <2>2, <2>3, LeaveKeeps
<1> QED BY <1>1, <1>2

LEMMA FailKeeps == ASSUME BackfillInv, NEW w \in Workers, J!Fail(w) PROVE BackfillInv'
<1>0. UNCHANGED <<rows, bytes, items>> /\ J!Leave(w) BY DEF J!Fail, J!catalog
<1> DEFINE g == [run EXCEPT !.state = "failed", !.rev = run.rev + 1]
<1>1. run' = g \/ run' = run BY DEF J!Fail
<1>2. g \in RunRow /\ g.state = "failed"
  <2>1. run \in RunRow BY DEF BackfillInv, BackfillTyped
  <2> QED BY <2>1, RunEnded
<1> HIDE DEF g
<1>3. run' \in RunRow /\ Finished(run'.state, items) BY <1>1, <1>2 DEF BackfillInv, BackfillTyped, Finished
<1> QED BY <1>0, <1>3, LeaveKeeps

LEMMA PutKeeps == ASSUME BackfillInv, NEW w \in Workers, J!putLegacy(w) PROVE BackfillInv'
<1> DEFINE it == worker[w].snap[J!Current(w)]
           o == J!Candidate(it)
           x == [worker[w] EXCEPT !.pc = "bind", !.ok = FALSE, !.object = o]
<1>0. UNCHANGED <<rows, items, run, lease>> /\ worker[w].pc = "copy" /\ worker[w].run.phase = "root"
  BY DEF J!putLegacy, J!catalog, J!At
<1>1. worker[w] \in Runner /\ InHand(worker[w], items, bytes) BY DEF BackfillInv, BackfillTyped
<1>2. CASE bytes' = bytes \cup {o} /\ J!Become(w, x)
  <2>1. First(worker[w].page) \in Resources /\ J!Current(w) = First(worker[w].page)
    BY <1>0, <1>1, FirstInPage, CurrentIsFirst DEF InHand, Paging, Runner
  <2>2. it \in ItemRow BY <1>1, <2>1 DEF Runner
  <2>3. o \in Nat BY <2>2 DEF J!Candidate, ItemRow
  <2>4. o = J!Candidate(worker[w].snap[First(worker[w].page)]) BY <2>1
  <2> HIDE DEF o
  <2>5. /\ x \in Runner /\ x.pc = "bind" /\ x.page = worker[w].page /\ x.run = worker[w].run
        /\ x.snap = worker[w].snap /\ x.object = o
    BY <1>1, <2>3 DEF Runner, Paging
  <2>6. worker' = [worker EXCEPT ![w] = x] BY <1>2 DEF J!Become
  <2> HIDE DEF x
  <2>7. InHand(x, items, bytes') BY <1>0, <1>1, <1>2, <2>4, <2>5 DEF InHand, Paging
  <2>8. bytes \subseteq bytes' BY <1>2
  <2> HIDE DEF it
  <2> QED BY <1>0, <2>5, <2>6, <2>7, <2>8, WalkKeeps DEF BackfillInv, BackfillTyped
<1>3. CASE bytes' = bytes /\ J!GoOn(w, "item_failed")
  <2>1. PICK y \in Runner : /\ worker' = [worker EXCEPT ![w] = y] /\ y.pc = "item_failed"
                            /\ y.page = worker[w].page /\ y.run = worker[w].run /\ y.snap = worker[w].snap
    BY <1>3, GoneOn DEF Paging
  <2>2. InHand(y, items, bytes') BY <1>0, <1>1, <2>1 DEF InHand, Paging
  <2> QED BY <1>0, <1>3, <2>1, <2>2, WalkKeeps DEF BackfillInv, BackfillTyped
<1> QED BY <1>2, <1>3 DEF J!putLegacy

(* A worker that is refused records the failure of its item.               *)
LEMMA RefusedKeeps ==
  ASSUME BackfillInv, NEW w \in Workers, J!Refused(w), worker[w].pc \in Paging,
         UNCHANGED <<run, lease, bytes>>
  PROVE  BackfillInv'
<1>1. PICK y \in Runner : /\ worker' = [worker EXCEPT ![w] = y] /\ y.pc = "item_failed"
                          /\ y.page = worker[w].page /\ y.run = worker[w].run /\ y.snap = worker[w].snap
  BY GoneOn DEF J!Refused, Paging
<1>2. InHand(worker[w], items, bytes) BY DEF BackfillInv
<1>3. InHand(y, items, bytes') BY <1>1, <1>2 DEF InHand, Paging
<1> QED BY <1>1, <1>3, WalkKeeps DEF BackfillInv, BackfillTyped, J!Refused

(* A resource gets its object, its item is completed.                      *)
LEMMA ItemStep ==
  ASSUME NEW it \in ItemRow, NEW st \in Statuses
  PROVE  LET a == [it EXCEPT !.status = st, !.rev = it.rev + 1]
         IN  a \in ItemRow /\ a.status = st /\ a.rev = it.rev + 1
<1> DEFINE n == it.rev + 1
<1>1. n \in Nat BY DEF ItemRow
<1> HIDE DEF n
<1> QED BY <1>1 DEF ItemRow, n

LEMMA BoundKeeps ==
  ASSUME BackfillInv, NEW w \in Workers, worker[w].pc \in Paging, NEW o \in Nat,
         J!Bound(w, First(worker[w].page), o), J!lockJournalItem(w, First(worker[w].page)),
         UNCHANGED <<run, lease, bytes>>, o \in bytes,
         o = rows[SourceRow(First(worker[w].page))].key,
         o # 0 \/ (rows[First(worker[w].page)].key = 0 /\ First(worker[w].page) \notin Clones)
  PROVE  BackfillInv'
<1> DEFINE r == First(worker[w].page)
           done == [items[r] EXCEPT !.status = "completed", !.rev = items[r].rev + 1]
           bnd == [rows[r] EXCEPT !.object = o]
<1>1. worker[w] \in Runner /\ InHand(worker[w], items, bytes) BY DEF BackfillInv, BackfillTyped
<1>2. r \in Resources BY <1>1, FirstInPage DEF InHand, Runner
<1>3. rows[r] \in CatalogRow /\ items[r] \in ItemRow BY <1>2 DEF BackfillInv, BackfillTyped
<1>4. rows' = [rows EXCEPT ![r] = bnd] /\ items' = [items EXCEPT ![r] = done] BY <1>2 DEF J!Bound
<1>5. bnd \in CatalogRow /\ bnd.object = o /\ bnd.key = rows[r].key BY <1>3 DEF CatalogRow
<1>6. done \in ItemRow /\ done.status = "completed" /\ done.rev = items[r].rev + 1
  BY <1>3, ItemStep DEF Statuses
<1>7. items[r].status \in {"pending", "failed"} /\ items[r] = worker[w].snap[r] BY DEF J!lockJournalItem, J!Open
<1>8. PICK y \in Runner : /\ worker' = [worker EXCEPT ![w] = y] /\ y.pc = "mark"
                          /\ y.page = worker[w].page /\ y.run = worker[w].run /\ y.snap = worker[w].snap
  BY GoneOn DEF J!Bound, Paging
<1> HIDE DEF done, bnd
<1>9. rows' \in [Resources -> CatalogRow] /\ items' \in [Resources -> ItemRow]
  BY <1>2, <1>4, <1>5, <1>6 DEF BackfillInv, BackfillTyped
<1>10. Kept BY <1>2, <1>4, <1>7 DEF Kept, BackfillInv, BackfillTyped
<1>11. InHand(y, items', bytes')
  <2>1. items'[r] = done BY <1>2, <1>4 DEF BackfillInv, BackfillTyped
  <2> QED BY <1>1, <1>6, <1>7, <1>8, <2>1 DEF InHand, Paging
<1>12. \A q \in Resources : rows'[q].key = rows[q].key /\ rows'[q].object = IF q = r THEN o ELSE rows[q].object
  BY <1>2, <1>4, <1>5 DEF BackfillInv, BackfillTyped
<1>13. \A q \in Resources : SourceRow(q) \in Resources BY BackfillConstants DEF SourceRow
<1>14. o = rows[SourceRow(r)].key /\ (o # 0 \/ (rows[r].key = 0 /\ r \notin Clones)) OBVIOUS
<1> HIDE DEF r
<1>15. Contents(rows', bytes') BY <1>12, <1>13, <1>14 DEF Contents, BackfillInv
<1>16. Keyed(rows') BY <1>12 DEF Keyed, BackfillInv
<1>17. Done(rows', items')
  <2>1. \A q \in Resources : q = r \/ items'[q] = items[q] BY <1>4 DEF BackfillInv, BackfillTyped
  <2> QED BY <1>12, <1>14, <2>1 DEF Done, BackfillInv
<1>18. Finished(run'.state, items')
  <2>1. run.state = "running" BY DEF J!lockJournalItem, J!fenced, r
  <2> QED BY <2>1 DEF Finished
<1> QED BY <1>8, <1>9, <1>10, <1>11, <1>15, <1>16, <1>17, <1>18, MoveKeeps DEF BackfillInv, BackfillTyped

LEMMA BindKeeps == ASSUME BackfillInv, NEW w \in Workers, J!AcquireAndBind(w) PROVE BackfillInv'
<1> DEFINE r == First(worker[w].page)
<1>0. J!Current(w) = r BY CurrentIsFirst
<1>1. worker[w].pc = "bind" /\ UNCHANGED <<run, lease, bytes>> BY DEF J!AcquireAndBind, J!At
<1>2. CASE J!Refused(w) BY <1>1, <1>2, RefusedKeeps DEF Paging
<1>3. CASE J!lockJournalItem(w, r) /\ J!lockTarget(w, r) /\ J!Bound(w, r, worker[w].object)
  <2>1. worker[w] \in Runner /\ InHand(worker[w], items, bytes) BY DEF BackfillInv, BackfillTyped
  <2>2. r \in worker[w].page /\ r \in Resources BY <1>1, <2>1, FirstInPage DEF InHand, Runner, Paging
  <2>3. r \notin Clones BY <1>1, <2>1, <2>2 DEF InHand, Paging, J!PhaseOf
  <2>4. /\ worker[w].object = J!Candidate(worker[w].snap[r]) /\ worker[w].object \in bytes
    BY <1>1, <2>1 DEF InHand
  <2>5. worker[w].object = rows[r].key
    BY <1>3, <2>2, <2>3, <2>4 DEF J!Candidate, J!lockTarget, BackfillInv, Contents, SourceRow
  <2>6. SourceRow(r) = r /\ worker[w].object \in Nat BY <2>1, <2>3 DEF SourceRow, Runner
  <2> QED BY <1>1, <1>3, <2>3, <2>4, <2>5, <2>6, BoundKeeps DEF Paging
<1> QED BY <1>0, <1>2, <1>3 DEF J!AcquireAndBind

LEMMA CloneKeeps == ASSUME BackfillInv, NEW w \in Workers, J!BindClone(w) PROVE BackfillInv'
<1> DEFINE r == First(worker[w].page)
           o == IF rows[r].object # 0 THEN rows[r].object ELSE rows[SourceOf[r]].object
<1>0. J!Current(w) = r BY CurrentIsFirst
<1>1. worker[w].pc = "copy" /\ worker[w].run.phase = "clone" /\ UNCHANGED <<run, lease, bytes>>
  BY DEF J!BindClone, J!At
<1>2. CASE J!Refused(w) BY <1>1, <1>2, RefusedKeeps DEF Paging
<1>3. CASE J!lockJournalItem(w, r) /\ o # 0 /\ J!Bound(w, r, o)
  <2>1. worker[w] \in Runner /\ InHand(worker[w], items, bytes) BY DEF BackfillInv, BackfillTyped
  <2>2. r \in worker[w].page /\ r \in Resources BY <1>1, <2>1, FirstInPage DEF InHand, Runner, Paging
  <2>3. r \in Clones BY <1>1, <2>1, <2>2 DEF InHand, Paging, J!PhaseOf
  <2>4. SourceOf[r] \in Resources /\ SourceOf[r] \notin Clones BY <2>3, BackfillConstants
  <2>5. SourceRow(r) = SourceOf[r] /\ SourceRow(SourceOf[r]) = SourceOf[r] BY <2>3, <2>4 DEF SourceRow
  <2>6. o = rows[SourceRow(r)].key /\ o \in bytes
    BY <1>3, <2>2, <2>4, <2>5 DEF BackfillInv, Contents
  <2>7. o \in Nat BY <2>2, <2>4 DEF BackfillInv, BackfillTyped, CatalogRow
  <2> HIDE DEF o
  <2> QED BY <1>1, <1>3, <2>3, <2>6, <2>7, BoundKeeps DEF Paging
<1> QED BY <1>0, <1>2, <1>3 DEF J!BindClone

LEMMA MarkKeeps == ASSUME BackfillInv, NEW w \in Workers, J!MarkItemCompleted(w) PROVE BackfillInv'
<1> DEFINE r == First(worker[w].page)
           done == items[r].status = "completed" /\ items[r].rev = worker[w].snap[r].rev + 1
           rest == worker[w].page \ {r}
           pc == IF ~done THEN "item_failed" ELSE IF rest = {} THEN "advance" ELSE "copy"
           x == [worker[w] EXCEPT !.ok = FALSE, !.page = rest, !.object = 0, !.pc = pc]
<1>0. J!Current(w) = r BY CurrentIsFirst
<1>1. /\ worker[w].pc = "mark" /\ UNCHANGED <<rows, items, run, lease, bytes>>
      /\ worker' = [worker EXCEPT ![w] = x]
  BY <1>0 DEF J!MarkItemCompleted, J!At, J!catalog, J!Become
<1>2. worker[w] \in Runner /\ InHand(worker[w], items, bytes) BY DEF BackfillInv, BackfillTyped
<1>3. done BY <1>1, <1>2 DEF InHand
<1>4. pc \in {"advance", "copy"} /\ (pc = "copy" => rest # {}) BY <1>3
<1>5. rest \subseteq worker[w].page /\ rest \subseteq Resources BY <1>2 DEF Runner
<1> HIDE DEF pc, rest, done
<1>6. /\ x \in Runner /\ x.pc = pc /\ x.page = rest /\ x.run = worker[w].run /\ x.snap = worker[w].snap
  BY <1>2, <1>4, <1>5 DEF Runner, Paging
<1> HIDE DEF x
<1>7. InHand(x, items, bytes') BY <1>1, <1>2, <1>4, <1>5, <1>6 DEF InHand, Paging
<1> QED BY <1>1, <1>6, <1>7, WalkKeeps DEF BackfillInv, BackfillTyped

LEMMA ItemFailedKeeps == ASSUME BackfillInv, NEW w \in Workers, J!MarkItemFailed(w) PROVE BackfillInv'
<1> DEFINE r == First(worker[w].page)
           it == [items[r] EXCEPT !.status = "failed", !.rev = items[r].rev + 1]
<1>0. J!Current(w) = r BY CurrentIsFirst
<1>1. worker[w].pc = "item_failed" /\ UNCHANGED <<rows, run, lease, bytes>> /\ J!GoOn(w, "fail")
  BY DEF J!MarkItemFailed, J!At, J!catalog
<1>2. PICK y \in Runner : worker' = [worker EXCEPT ![w] = y] /\ y.pc = "fail" BY <1>1, GoneOn
<1>3. \A its, st : InHand(y, its, st) BY <1>2 DEF InHand, Paging
<1>4. CASE items' = items BY <1>1, <1>2, <1>3, <1>4, WalkKeeps DEF BackfillInv, BackfillTyped
<1>5. CASE J!lockJournalItem(w, r) /\ items' = [items EXCEPT ![r].status = "failed", ![r].rev = @ + 1]
  <2>1. r \in Resources
    BY <1>1, FirstInPage DEF BackfillInv, BackfillTyped, InHand, Runner, Paging
  <2>2. items[r] \in ItemRow /\ items[r].status # "completed" /\ run.state = "running"
    BY <1>5, <2>1 DEF BackfillInv, BackfillTyped, J!lockJournalItem, J!Open, J!fenced
  <2>3. it \in ItemRow /\ it.status = "failed" BY <2>2, ItemStep DEF Statuses
  <2>4. items' = [items EXCEPT ![r] = it] BY <1>5, <2>1 DEF BackfillInv, BackfillTyped
  <2> HIDE DEF it, r
  <2>5. items' \in [Resources -> ItemRow] BY <2>1, <2>3, <2>4 DEF BackfillInv, BackfillTyped
  <2>6. \A q \in Resources : (q = r /\ items'[q] = it) \/ (q # r /\ items'[q] = items[q])
    BY <2>4 DEF BackfillInv, BackfillTyped
  <2>7. Kept BY <1>1, <2>2, <2>6 DEF Kept
  <2>8. Done(rows', items') BY <1>1, <2>3, <2>6 DEF Done, BackfillInv
  <2>9. Finished(run'.state, items') BY <1>1, <2>2 DEF Finished
  <2>10. Contents(rows', bytes') /\ Keyed(rows') /\ InHand(y, items', bytes') BY <1>1, <1>3 DEF BackfillInv
  <2> QED BY <1>1, <1>2, <2>5, <2>7, <2>8, <2>9, <2>10, MoveKeeps DEF BackfillInv, BackfillTyped
<1> QED BY <1>0, <1>4, <1>5 DEF J!MarkItemFailed

LEMMA DiesKeeps == ASSUME BackfillInv, NEW w \in Workers, J!Dies(w) PROVE BackfillInv'
<1>1. UNCHANGED <<rows, items, run, lease, bytes>> /\ worker' = [worker EXCEPT ![w] = J!Idle]
  BY DEF J!Dies, J!catalog, J!Become
<1> QED BY <1>1, IdleTyped, IdleInHand, WalkKeeps DEF BackfillInv, BackfillTyped

LEMMA LeaseKeeps ==
  ASSUME BackfillInv, lease' \in Workers \cup {NoWorker}, UNCHANGED <<rows, items, run, worker, bytes>>
  PROVE  BackfillInv'
BY DEF BackfillInv, BackfillTyped, Contents, Keyed, Done, Finished, InHand

(* The application changes a resource that is no clone.                    *)
LEMMA ChangeKeeps ==
  ASSUME BackfillInv, NEW r \in Resources, r \notin Clones, NEW row0 \in CatalogRow, J!Change(r, row0),
         row0.object = row0.key, r \in Avatars \/ row0.key = 1
  PROVE  BackfillInv'
<1>1. /\ UNCHANGED <<items, run, worker, lease>> /\ rows' = [rows EXCEPT ![r] = row0]
      /\ bytes' = bytes \cup ({row0.object} \ {0})
  BY DEF J!Change
<1>2. BackfillTyped' BY <1>1 DEF BackfillInv, BackfillTyped
<1>3. \A w \in Workers : InHand(worker'[w], items', bytes') BY <1>1 DEF BackfillInv, InHand
<1>4. \A q \in Resources : (q = r /\ rows'[q] = row0) \/ (q # r /\ rows'[q] = rows[q])
  BY <1>1 DEF BackfillInv, BackfillTyped
<1>5. Keyed(rows') BY <1>4 DEF Keyed, BackfillInv
<1>6. ASSUME NEW q \in Resources, rows'[q].object # 0
      PROVE  rows'[q].object = rows'[SourceRow(q)].key /\ rows'[q].object \in bytes'
  <2>1. CASE q = r BY <1>1, <1>4, <1>6, <2>1 DEF SourceRow
  <2>2. CASE q # r
    <3>1. rows'[q] = rows[q] /\ rows[q].object = rows[SourceRow(q)].key /\ rows[q].object \in bytes
      BY <1>4, <1>6, <2>2 DEF BackfillInv, Contents
    <3>2. SourceRow(q) \in Resources /\ (SourceRow(q) = q \/ SourceRow(q) \in Resources \ (Clones \cup Avatars))
      BY BackfillConstants DEF SourceRow
    <3>3. rows'[SourceRow(q)].key = rows[SourceRow(q)].key
      <4>1. CASE SourceRow(q) # r BY <1>4, <3>2, <4>1
      <4>2. CASE SourceRow(q) = r
        <5>1. r \in Resources \ (Avatars \cup Clones) BY <2>2, <3>2, <4>2
        <5>2. rows[r].key = 1 /\ rows'[r].key = 1 BY <1>5, <5>1 DEF BackfillInv, Keyed
        <5> QED BY <4>2, <5>2
      <4> QED BY <4>1, <4>2
    <3> QED BY <1>1, <3>1, <3>3
  <2> QED BY <2>1, <2>2
<1>7. Contents(rows', bytes') BY <1>6 DEF Contents
<1>8. Done(rows', items') BY <1>1, <1>4 DEF Done, BackfillInv
<1>9. Finished(run'.state, items') BY <1>1 DEF Finished, BackfillInv
<1> QED BY <1>2, <1>3, <1>5, <1>7, <1>8, <1>9 DEF BackfillInv

LEMMA BackfillStepKeeps == ASSUME BackfillInv, J!BackfillNext PROVE BackfillInv'
<1>1. ASSUME NEW w \in Workers, J!WorkerStep(w) PROVE BackfillInv'
  BY <1>1, AssertKeeps, AcquireKeeps, BeginKeeps, RecoverKeeps, ListKeeps, ClonesKeep, AdvanceKeeps,
     CompleteKeeps, PutKeeps, BindKeeps, CloneKeeps, MarkKeeps, ItemFailedKeeps, FailKeeps
     DEF J!WorkerStep
<1>2. ASSUME NEW w \in Workers, J!Dies(w) PROVE BackfillInv' BY <1>2, DiesKeeps
<1>3. CASE J!LeaseLost BY <1>3, LeaseKeeps DEF J!LeaseLost, J!catalog
<1>4. CASE J!LeaseRunsOut BY <1>4, LeaseKeeps DEF J!LeaseRunsOut, J!catalog
<1>5. ASSUME NEW r \in Late, J!Upload(r) PROVE BackfillInv'
  <2> DEFINE row0 == [live |-> TRUE, key |-> 1, object |-> 1]
  <2>1. row0 \in CatalogRow /\ row0.key = 1 /\ row0.object = 1 /\ J!Change(r, row0) BY <1>5 DEF CatalogRow, J!Upload
  <2>2. r \in Resources /\ r \notin Clones BY BackfillConstants
  <2> HIDE DEF row0
  <2> QED BY <2>1, <2>2, ChangeKeeps
<1>6. ASSUME NEW r \in Avatars, J!SetAvatar(r) PROVE BackfillInv'
  <2> DEFINE row0 == [live |-> TRUE, key |-> 2, object |-> 2]
  <2>1. row0 \in CatalogRow /\ row0.key = row0.object /\ J!Change(r, row0) BY <1>6 DEF CatalogRow, J!SetAvatar
  <2>2. r \in Resources /\ r \notin Clones BY BackfillConstants
  <2> HIDE DEF row0
  <2> QED BY <2>1, <2>2, ChangeKeeps
<1>7. ASSUME NEW r \in Avatars, J!ClearAvatar(r) PROVE BackfillInv'
  <2> DEFINE row0 == [live |-> TRUE, key |-> 0, object |-> 0]
  <2>1. row0 \in CatalogRow /\ row0.key = row0.object /\ J!Change(r, row0) BY <1>7 DEF CatalogRow, J!ClearAvatar
  <2>2. r \in Resources /\ r \notin Clones BY BackfillConstants
  <2> HIDE DEF row0
  <2> QED BY <2>1, <2>2, ChangeKeeps
<1> QED BY <1>1, <1>2, <1>3, <1>4, <1>5, <1>6, <1>7 DEF J!BackfillNext

LEMMA BackfillUnchanged == ASSUME BackfillInv, UNCHANGED J!backfillVars PROVE BackfillInv'
BY LeaseKeeps DEF J!backfillVars, BackfillInv, BackfillTyped

LEMMA BackfillSound == BackfillInv => J!BackfillTypeOK /\ J!OwnContents /\ J!CompletedIsComplete
<1> SUFFICES ASSUME BackfillInv PROVE J!BackfillTypeOK /\ J!OwnContents /\ J!CompletedIsComplete OBVIOUS
<1>1. J!BackfillTypeOK BY DEF BackfillInv, BackfillTyped, J!BackfillTypeOK, RunRow, ItemRow, Runner, Statuses
<1>2. J!OwnContents BY DEF BackfillInv, Contents, SourceRow, J!OwnContents
<1>3. J!CompletedIsComplete BY DEF BackfillInv, Done, Finished, J!CompletedIsComplete
<1> QED BY <1>1, <1>2, <1>3
-----------------------------------------------------------------------------
(* What keeps workers apart.  Beyond the start a worker has the run's row  *)
(* with its own token, which nobody else has.  As long as it holds the     *)
(* lease the run is its own, and whoever observed the run before is too    *)
(* late to recover it; a fence that was read from a run of somebody else   *)
(* is in the hands of a worker that will not get past the lease again.     *)
Holding == {"copy", "bind", "mark", "item_failed", "advance"}
Past == Holding \cup {"list", "clone", "complete"}
Under(x) == x.pc \in Past \cup {"fail"}
Claims(x, g) == Under(x) \/ (x.pc = "begin" /\ g.fence = x.token)
Off(w) == lease # w /\ ~worker[w].ok
TokensApart ==
  \A w \in Workers : worker[w].pc # "idle" =>
    /\ worker[w].token # 0
    /\ \A v \in Workers \ {w} : worker[v].pc # "idle" => worker[v].token # worker[w].token
OwnRun == \A w \in Workers : /\ worker[w].pc \in Past => worker[w].run.fence = worker[w].token
                             /\ worker[w].pc = "fail" => worker[w].run.fence \in {0, worker[w].token}
Observed == \A w \in Workers : worker[w].pc = "recover" => worker[w].run.rev <= run.rev
TooLate(w) == \A v \in Workers \ {w} : worker[v].pc = "recover" => worker[v].run.rev < run.rev
Leased == \A w \in Workers : lease = w /\ Claims(worker[w], run) =>
            run.state = "running" /\ run.fence = worker[w].token /\ TooLate(w)
FenceRead == \A w \in Workers : worker[w].pc \in Holding => worker[w].fence = worker[w].run.fence \/ Off(w)
FenceInv == TokensApart /\ OwnRun /\ Observed /\ Leased /\ FenceRead

LEMMA FenceInitially == J!BackfillInit => FenceInv
<1> SUFFICES ASSUME J!BackfillInit PROVE FenceInv OBVIOUS
<1>1. \A w \in Workers : worker[w].pc = "idle" BY IdleTyped DEF J!BackfillInit
<1>2. \A w \in Workers : lease # w BY BackfillConstants DEF J!BackfillInit
<1> QED BY <1>1, <1>2 DEF FenceInv, TokensApart, OwnRun, Observed, Leased, FenceRead, Past, Holding

(* The run stays as it is, a worker moves.                                 *)
LEMMA WalkFenced ==
  ASSUME BackfillTyped, FenceInv, NEW w \in Workers, NEW x \in Runner,
         worker' = [worker EXCEPT ![w] = x], run' = run, lease' = lease \/ lease' = NoWorker,
         x.pc # "idle" => worker[w].pc # "idle" /\ x.token = worker[w].token,
         x.pc \in Past => x.run.fence = x.token,
         x.pc = "fail" => x.run.fence \in {0, x.token},
         x.pc = "recover" => worker[w].pc = "recover" /\ x.run = worker[w].run,
         lease = w /\ Claims(x, run) => Claims(worker[w], run),
         x.pc \in Holding => x.fence = x.run.fence \/ (lease # w /\ ~x.ok)
  PROVE  FenceInv'
<1>1. worker'[w] = x /\ \A v \in Workers \ {w} : worker'[v] = worker[v] BY DEF BackfillTyped
<1>2. \A v \in Workers : lease' = v => lease = v BY BackfillConstants
<1>3. TokensApart' BY <1>1 DEF FenceInv, TokensApart
<1>4. OwnRun' BY <1>1 DEF FenceInv, OwnRun
<1>5. Observed' BY <1>1 DEF FenceInv, Observed
<1>6. ASSUME NEW v \in Workers, lease' = v, Claims(worker'[v], run')
      PROVE  run'.state = "running" /\ run'.fence = worker'[v].token /\ TooLate(v)'
  <2>1. lease = v /\ Claims(worker[v], run) BY <1>1, <1>2, <1>6
  <2>2. run.state = "running" /\ run.fence = worker[v].token /\ TooLate(v) BY <2>1 DEF FenceInv, Leased
  <2>3. worker'[v].token = worker[v].token
    <3>1. CASE v = w
      <4>1. x.pc # "idle" BY <1>1, <1>6, <3>1 DEF Claims, Under, Past, Holding
      <4> QED BY <1>1, <3>1, <4>1
    <3> QED BY <1>1, <3>1
  <2>4. TooLate(v)' BY <1>1, <2>2 DEF TooLate
  <2> QED BY <2>2, <2>3, <2>4
<1>7. Leased' BY <1>6 DEF Leased
<1>8. FenceRead' BY <1>1, <1>2 DEF FenceInv, FenceRead, Off
<1> QED BY <1>3, <1>4, <1>5, <1>7, <1>8 DEF FenceInv

(* A worker changes the run, which is nobody else's.                       *)
LEMMA WriteFenced ==
  ASSUME BackfillTyped, FenceInv, NEW w \in Workers, NEW x \in Runner,
         worker' = [worker EXCEPT ![w] = x], run' \in RunRow, run'.rev = run.rev + 1,
         lease' = lease \/ lease' = NoWorker,
         worker[w].pc # "idle", x.pc \in {"idle", "begin", "list"},
         x.pc # "idle" => x.token = worker[w].token /\ run'.state = "running" /\ run'.fence = x.token,
         x.pc = "list" => x.run.fence = x.token,
         run'.fence \in {0, worker[w].token},
         \A v \in Workers \ {w} : lease = v => ~Under(worker[v])
  PROVE  FenceInv'
<1>1. worker'[w] = x /\ \A v \in Workers \ {w} : worker'[v] = worker[v] BY DEF BackfillTyped
<1>2. \A v \in Workers : lease' = v => lease = v BY BackfillConstants
<1>3. TokensApart' BY <1>1 DEF FenceInv, TokensApart
<1>4. OwnRun' BY <1>1 DEF FenceInv, OwnRun, Past, Holding
<1>5. \A v \in Workers : worker[v].pc = "recover" => worker[v].run.rev < run'.rev
  BY DEF FenceInv, Observed, BackfillTyped, Runner, RunRow
<1>6. \A v \in Workers : worker'[v].pc = "recover" => v # w /\ worker'[v].run.rev < run'.rev BY <1>1, <1>5
<1>7. Observed'
  <2>1. \A v \in Workers \ {w} : worker'[v].run.rev \in Nat BY <1>1 DEF BackfillTyped, Runner, RunRow
  <2> QED BY <1>6, <2>1 DEF Observed, RunRow
<1>8. ASSUME NEW v \in Workers, lease' = v, Claims(worker'[v], run')
      PROVE  run'.state = "running" /\ run'.fence = worker'[v].token /\ TooLate(v)'
  <2>1. TooLate(v)' BY <1>6 DEF TooLate
  <2>2. CASE v = w BY <1>1, <1>8, <2>1, <2>2 DEF Claims, Under, Past, Holding
  <2>3. CASE v # w
    <3>1. ~Under(worker[v]) /\ worker'[v] = worker[v] BY <1>1, <1>2, <1>8, <2>3
    <3>2. worker[v].pc = "begin" /\ run'.fence = worker[v].token BY <1>8, <3>1 DEF Claims
    <3> QED BY <2>3, <3>2 DEF FenceInv, TokensApart
  <2> QED BY <2>2, <2>3
<1>9. Leased' BY <1>8 DEF Leased
<1>10. FenceRead' BY <1>1, <1>2 DEF FenceInv, FenceRead, Off, Holding
<1> QED BY <1>3, <1>4, <1>7, <1>9, <1>10 DEF FenceInv
-----------------------------------------------------------------------------
LEMMA LeaveFenced ==
  ASSUME BackfillTyped, FenceInv, NEW w \in Workers, J!Leave(w), run' = run PROVE FenceInv'
<1>1. worker' = [worker EXCEPT ![w] = J!Idle] /\ (lease' = lease \/ lease' = NoWorker) BY DEF J!Leave, J!Become
<1>2. ~Claims(J!Idle, run) BY IdleTyped DEF Claims, Under, Past, Holding
<1> QED BY <1>1, <1>2, IdleTyped, WalkFenced DEF Past, Holding

LEMMA LeaveWrites ==
  ASSUME BackfillTyped, FenceInv, NEW w \in Workers, J!Leave(w), worker[w].pc # "idle",
         run' \in RunRow, run'.rev = run.rev + 1, run'.fence \in {0, worker[w].token},
         \A v \in Workers \ {w} : lease = v => ~Under(worker[v])
  PROVE  FenceInv'
<1>1. worker' = [worker EXCEPT ![w] = J!Idle] /\ (lease' = lease \/ lease' = NoWorker) BY DEF J!Leave, J!Become
<1> QED BY <1>1, IdleTyped, WriteFenced

LEMMA LostFenced ==
  ASSUME BackfillTyped, FenceInv, NEW w \in Workers, J!Lost(w), Under(worker[w]) PROVE FenceInv'
<1> DEFINE x == [worker[w] EXCEPT !.pc = "fail", !.ok = FALSE, !.run = J!Idle.run]
<1>1. x \in Runner /\ x.pc = "fail" /\ x.token = worker[w].token /\ x.run = J!Idle.run
  BY IdleTyped DEF BackfillTyped, Runner
<1>2. J!Idle.run.fence = 0 BY DEF J!Idle
<1>3. worker' = [worker EXCEPT ![w] = x] /\ UNCHANGED <<run, lease>> BY DEF J!Lost, J!Become
<1> HIDE DEF x
<1>4. worker[w].pc # "idle" /\ Claims(worker[w], run) BY DEF Under, Claims, Past, Holding
<1> QED BY <1>1, <1>2, <1>3, <1>4, WalkFenced DEF Past, Holding

(* The lease keeps others out of a run that a worker may write.            *)
LEMMA CASAlone ==
  ASSUME BackfillTyped, FenceInv, NEW w \in Workers, Under(worker[w]), J!CAS(w)
  PROVE  /\ run.fence \in {0, worker[w].token} /\ \A v \in Workers \ {w} : lease = v => ~Under(worker[v])
         /\ run.fence = worker[w].run.fence
<1>1. run.fence = worker[w].run.fence /\ worker[w].pc # "idle" BY DEF J!CAS, Under, Past, Holding
<1>2. worker[w].run.fence \in {0, worker[w].token} BY DEF FenceInv, OwnRun, Under
<1>3. ASSUME NEW v \in Workers \ {w}, lease = v, Under(worker[v]) PROVE FALSE
  <2>1. run.fence = worker[v].token BY <1>3 DEF FenceInv, Leased, Claims
  <2>2. worker[v].pc # "idle" BY <1>3 DEF Under, Past, Holding
  <2> QED BY <1>1, <1>2, <2>1, <2>2 DEF FenceInv, TokensApart
<1> QED BY <1>1, <1>2, <1>3

LEMMA AssertFenced == ASSUME BackfillTyped, FenceInv, NEW w \in Workers, J!assertLease(w) PROVE FenceInv'
<1>1. run' = run BY DEF J!assertLease
<1>2. CASE lease = w
  <2> DEFINE x == [worker[w] EXCEPT !.ok = TRUE]
  <2>1. /\ x \in Runner /\ x.pc = worker[w].pc /\ x.token = worker[w].token /\ x.run = worker[w].run
        /\ x.fence = worker[w].fence
    BY DEF BackfillTyped, Runner
  <2>2. worker' = [worker EXCEPT ![w] = x] /\ lease' = lease BY <1>2 DEF J!assertLease, J!Become
  <2> HIDE DEF x
  <2>3. Claims(x, run) => Claims(worker[w], run) BY <2>1 DEF Claims, Under
  <2>4. x.pc \in Holding => x.fence = x.run.fence BY <1>2, <2>1 DEF FenceInv, FenceRead, Off
  <2>5. /\ x.pc \in Past => x.run.fence = x.token
        /\ x.pc = "fail" => x.run.fence \in {0, x.token}
    BY <2>1 DEF FenceInv, OwnRun
  <2> QED BY <1>1, <2>1, <2>2, <2>3, <2>4, <2>5, WalkFenced
<1>3. CASE lease # w
  <2>1. J!Leave(w) BY <1>3 DEF J!assertLease
  <2> QED BY <1>1, <2>1, LeaveFenced
<1> QED BY <1>2, <1>3

LEMMA AcquireFenced == ASSUME BackfillTyped, FenceInv, NEW w \in Workers, J!Acquire(w) PROVE FenceInv'
<1> DEFINE t == CHOOSE t \in J!Unused : TRUE
           pc == IF run.state = "running" THEN "recover" ELSE "begin"
           x == [J!Idle EXCEPT !.pc = pc, !.token = t, !.run = run]
<1>0. run' = run /\ lease' = w /\ lease = NoWorker /\ worker' = [worker EXCEPT ![w] = x] BY DEF J!Acquire, J!Become
<1>1. t \in J!Unused /\ t \in Nat \ {0, run.fence} BY TokenFree
<1>2. \A v \in Workers : worker[v].token # t BY <1>1 DEF J!Unused
<1> HIDE DEF t
<1>3. x \in Runner /\ x.pc = pc /\ x.token = t /\ x.run = run BY <1>1, IdleTyped DEF BackfillTyped, Runner
<1> HIDE DEF x
<1>4. worker'[w] = x /\ \A v \in Workers \ {w} : worker'[v] = worker[v] BY <1>0 DEF BackfillTyped
<1>5. TokensApart' BY <1>1, <1>2, <1>3, <1>4 DEF FenceInv, TokensApart
<1>6. OwnRun' /\ FenceRead'
  BY <1>0, <1>3, <1>4, BackfillConstants DEF FenceInv, OwnRun, FenceRead, Off, Past, Holding
<1>7. Observed' BY <1>0, <1>3, <1>4 DEF FenceInv, Observed, BackfillTyped, RunRow
<1>8. Leased'
  <2>1. ~Claims(x, run) BY <1>1, <1>3 DEF Claims, Under, Past, Holding
  <2> QED BY <1>0, <1>4, <2>1 DEF Leased
<1> QED BY <1>5, <1>6, <1>7, <1>8 DEF FenceInv

LEMMA BeginFenced == ASSUME BackfillTyped, FenceInv, NEW w \in Workers, J!BeginOrResume(w) PROVE FenceInv'
<1> DEFINE t == worker[w].token
           begun == [run EXCEPT !.state = "running", !.fence = t, !.rev = run.rev + 1]
<1>1. t \in Nat /\ run \in RunRow /\ worker[w] \in Runner /\ worker[w].pc = "begin"
  BY DEF BackfillTyped, Runner, J!BeginOrResume, J!At
<1>2. CASE run.state \in {"none", "failed"}
  <2> DEFINE x == [worker[w] EXCEPT !.pc = "list", !.ok = FALSE, !.run = begun]
  <2>1. begun \in RunRow /\ begun.state = "running" /\ begun.fence = t /\ begun.rev = run.rev + 1
    BY <1>1, RunBegun
  <2>2. run' = begun /\ worker' = [worker EXCEPT ![w] = x] /\ lease' = lease
    BY <1>2 DEF J!BeginOrResume, J!Become
  <2> HIDE DEF begun
  <2>3. x \in Runner /\ x.pc = "list" /\ x.token = t /\ x.run = begun BY <1>1, <2>1 DEF Runner
  <2> HIDE DEF x
  <2>4. \A v \in Workers \ {w} : lease = v => ~Under(worker[v]) BY <1>2 DEF FenceInv, Leased, Claims
  <2> QED BY <1>1, <2>1, <2>2, <2>3, <2>4, WriteFenced
<1>3. CASE run.state \notin {"none", "failed"} /\ ~(run.state = "running" /\ run.fence = t)
  BY <1>3, LeaveFenced DEF J!BeginOrResume
<1>4. CASE run.state = "running" /\ run.fence = t
  <2> DEFINE x == [worker[w] EXCEPT !.pc = "list", !.ok = FALSE, !.run = run]
  <2>1. UNCHANGED <<run, lease>> /\ worker' = [worker EXCEPT ![w] = x]
    BY <1>4 DEF J!BeginOrResume, J!Become
  <2>2. x \in Runner /\ x.pc = "list" /\ x.token = t /\ x.run = run BY <1>1 DEF Runner
  <2> HIDE DEF x
  <2>3. Claims(worker[w], run) BY <1>1, <1>4 DEF Claims
  <2> QED BY <1>1, <1>4, <2>1, <2>2, <2>3, WalkFenced DEF Holding
<1> QED BY <1>2, <1>3, <1>4

LEMMA RecoverFenced == ASSUME BackfillTyped, FenceInv, NEW w \in Workers, J!RecoverRunning(w) PROVE FenceInv'
<1>1. CASE run.state = "running" /\ J!SameFence(w)
  <2> DEFINE g == [run EXCEPT !.fence = worker[w].token, !.rev = run.rev + 1]
             x == [worker[w] EXCEPT !.pc = "begin", !.ok = FALSE]
  <2>1. worker[w] \in Runner /\ worker[w].pc = "recover" /\ run \in RunRow /\ worker[w].token \in Nat
    BY DEF BackfillTyped, Runner, J!RecoverRunning, J!At
  <2>2. g \in RunRow /\ g.state = "running" /\ g.fence = worker[w].token /\ g.rev = run.rev + 1
    BY <1>1, <2>1, RunRecovered
  <2>3. run' = g /\ worker' = [worker EXCEPT ![w] = x] /\ lease' = lease
    BY <1>1 DEF J!RecoverRunning, J!GoOn, J!Become
  <2> HIDE DEF g
  <2>4. x \in Runner /\ x.pc = "begin" /\ x.token = worker[w].token BY <2>1 DEF Runner
  <2> HIDE DEF x
  <2>5. ASSUME NEW v \in Workers \ {w}, lease = v, Under(worker[v]) PROVE FALSE
    <3>1. TooLate(v) BY <2>5 DEF FenceInv, Leased, Claims
    <3>2. worker[w].run.rev < run.rev BY <2>1, <3>1 DEF TooLate
    <3> QED BY <1>1, <2>1, <3>2 DEF J!SameFence, RunRow
  <2> QED BY <2>1, <2>2, <2>3, <2>4, <2>5, WriteFenced
<1>2. CASE ~(run.state = "running" /\ J!SameFence(w))
  <2>1. J!Leave(w) /\ run' = run BY <1>2 DEF J!RecoverRunning
  <2> QED BY <2>1, LeaveFenced
<1> QED BY <1>1, <1>2

LEMMA ListFenced == ASSUME BackfillTyped, FenceInv, NEW w \in Workers, J!ListPage(w), BackfillTyped' PROVE FenceInv'
<1> DEFINE pg == J!FirstOf(J!Listed(worker[w].run))
           pc == IF pg # {} THEN "copy" ELSE IF worker[w].run.phase = "root" THEN "clone" ELSE "complete"
           sn == [r \in Resources |-> IF r \in pg THEN items[r] ELSE J!NoItem]
           x == [worker[w] EXCEPT !.pc = pc, !.ok = FALSE, !.page = pg, !.fence = run.fence, !.snap = sn,
                                  !.object = 0]
<1>1. UNCHANGED <<run, lease>> /\ worker' = [worker EXCEPT ![w] = x] /\ worker[w].pc = "list"
  BY DEF J!ListPage, J!Become, J!At
<1>2. pc \in {"copy", "clone", "complete"} OBVIOUS
<1> HIDE DEF pg, sn, pc
<1>3. x.pc = pc /\ x.ok = FALSE /\ x.token = worker[w].token /\ x.run = worker[w].run /\ x.fence = run.fence
  BY DEF BackfillTyped, Runner
<1>4. x \in Runner
  <2>1. worker'[w] = x BY <1>1 DEF BackfillTyped
  <2> QED BY <2>1 DEF BackfillTyped
<1> HIDE DEF x
<1>5. worker[w].run.fence = worker[w].token /\ Claims(worker[w], run)
  BY <1>1 DEF FenceInv, OwnRun, Past, Claims, Under
<1>6. lease = w => run.fence = worker[w].token BY <1>5 DEF FenceInv, Leased
<1> QED BY <1>1, <1>2, <1>3, <1>4, <1>5, <1>6, WalkFenced DEF Past, Holding

LEMMA CheckpointFenced ==
  ASSUME BackfillTyped, FenceInv, NEW w \in Workers, NEW g \in RunRow, J!Checkpoint(w, g), J!CAS(w),
         g.state = run.state, g.rev = run.rev + 1, g.fence = run.fence, worker[w].pc \in Past, lease' = lease
  PROVE  FenceInv'
<1> DEFINE x == [worker[w] EXCEPT !.pc = "list", !.ok = FALSE, !.run = g]
<1>1. x \in Runner /\ x.pc = "list" /\ x.token = worker[w].token /\ x.run = g BY DEF BackfillTyped, Runner
<1>2. run' = g /\ worker' = [worker EXCEPT ![w] = x] BY DEF J!Checkpoint, J!Become
<1> HIDE DEF x
<1>3. Under(worker[w]) /\ worker[w].pc # "idle" BY DEF Under, Past, Holding
<1>4. run.fence = worker[w].token BY DEF FenceInv, OwnRun, J!CAS
<1>5. \A v \in Workers \ {w} : lease = v => ~Under(worker[v]) BY <1>3, CASAlone
<1>6. run.state = "running" BY DEF J!CAS
<1> QED BY <1>1, <1>2, <1>3, <1>4, <1>5, <1>6, WriteFenced

LEMMA ClonesFenced == ASSUME BackfillTyped, FenceInv, NEW w \in Workers, J!EnsureCloneItems(w) PROVE FenceInv'
<1>0. worker[w].pc = "clone" BY DEF J!EnsureCloneItems, J!At
<1>1. CASE J!Lost(w) BY <1>0, <1>1, LostFenced DEF Under, Past
<1>2. CASE ~J!Lost(w)
  <2> DEFINE g == [run EXCEPT !.phase = "clone", !.cursor = 0, !.rev = run.rev + 1]
  <2>1. /\ J!CAS(w) /\ J!Checkpoint(w, g) /\ lease' = lease BY <1>2 DEF J!EnsureCloneItems
  <2>2. g \in RunRow /\ g.state = run.state /\ g.fence = run.fence /\ g.rev = run.rev + 1
    <3>1. run \in RunRow BY DEF BackfillTyped
    <3> QED BY <3>1, RunCloning
  <2> HIDE DEF g
  <2> QED BY <1>0, <2>1, <2>2, CheckpointFenced DEF Past
<1> QED BY <1>1, <1>2

LEMMA AdvanceFenced == ASSUME BackfillInv, FenceInv, NEW w \in Workers, J!Advance(w) PROVE FenceInv'
<1>0. worker[w].pc = "advance" /\ BackfillTyped BY DEF J!Advance, J!At, BackfillInv
<1>1. CASE J!Lost(w) BY <1>0, <1>1, LostFenced DEF Under, Past, Holding
<1>2. CASE ~J!Lost(w)
  <2> DEFINE c == J!LastOf({r \in Resources : worker[w].snap[r] # J!NoItem})
             g == [run EXCEPT !.cursor = c, !.rev = run.rev + 1]
  <2>1. J!CAS(w) /\ J!Checkpoint(w, g) /\ lease' = lease BY <1>2 DEF J!Advance
  <2>2. c \in Resources BY <1>0, LastPaged
  <2> HIDE DEF c
  <2>3. g \in RunRow /\ g.state = run.state /\ g.fence = run.fence /\ g.rev = run.rev + 1
    <3>1. run \in RunRow BY <1>0 DEF BackfillTyped
    <3> QED BY <2>2, <3>1, RunAdvanced
  <2> HIDE DEF g
  <2> QED BY <1>0, <2>1, <2>3, CheckpointFenced DEF Past, Holding
<1> QED BY <1>1, <1>2

LEMMA EndsFenced ==
  ASSUME BackfillTyped, FenceInv, NEW w \in Workers, J!Leave(w), J!CAS(w), Under(worker[w]),
         NEW st \in {"failed", "completed"}, run' = [run EXCEPT !.state = st, !.rev = run.rev + 1]
  PROVE  FenceInv'
<1>1. run \in RunRow BY DEF BackfillTyped
<1>2. run' \in RunRow /\ run'.fence = run.fence /\ run'.rev = run.rev + 1 BY <1>1, RunEnded
<1>3. worker[w].pc # "idle" BY DEF Under, Past, Holding
<1> QED BY <1>2, <1>3, CASAlone, LeaveWrites

LEMMA CompleteFenced == ASSUME BackfillTyped, FenceInv, NEW w \in Workers, J!Complete(w) PROVE FenceInv'
<1>0. Under(worker[w]) BY DEF J!Complete, J!At, Under, Past
<1>1. CASE J!Lost(w) BY <1>0, <1>1, LostFenced
<1>2. CASE ~J!Lost(w)
  <2>1. J!CAS(w) /\ J!Leave(w) /\ run' = [run EXCEPT !.state = "completed", !.rev = run.rev + 1]
    BY <1>2 DEF J!Complete
  <2> QED BY <1>0, <2>1, EndsFenced
<1> QED BY <1>1, <1>2

LEMMA FailFenced == ASSUME BackfillTyped, FenceInv, NEW w \in Workers, J!Fail(w) PROVE FenceInv'
<1>0. Under(worker[w]) /\ J!Leave(w) BY DEF J!Fail, J!At, Under
<1>1. CASE J!CAS(w)
  <2>1. run' = [run EXCEPT !.state = "failed", !.rev = run.rev + 1] BY <1>1 DEF J!Fail
  <2> QED BY <1>0, <1>1, <2>1, EndsFenced
<1>2. CASE ~J!CAS(w) BY <1>0, <1>2, LeaveFenced DEF J!Fail
<1> QED BY <1>1, <1>2

(* Within its page a worker keeps its token, its run and its fence.        *)
LEMMA PageFenced ==
  ASSUME BackfillTyped, FenceInv, NEW w \in Workers, NEW x \in Runner, worker' = [worker EXCEPT ![w] = x],
         UNCHANGED <<run, lease>>, worker[w].pc \in Holding, x.pc \in Holding \cup {"fail"}, ~x.ok,
         x.token = worker[w].token, x.run = worker[w].run, x.fence = worker[w].fence
  PROVE  FenceInv'
<1>1. worker[w].run.fence = worker[w].token /\ (worker[w].fence = worker[w].run.fence \/ lease # w)
  BY DEF FenceInv, OwnRun, FenceRead, Off, Past
<1>2. Claims(worker[w], run) /\ worker[w].pc # "idle" BY DEF Claims, Under, Past, Holding
<1> QED BY <1>1, <1>2, WalkFenced DEF Past, Holding

LEMMA GoOnFenced ==
  ASSUME BackfillTyped, FenceInv, NEW w \in Workers, NEW pc \in Holding \cup {"fail"}, J!GoOn(w, pc),
         worker[w].pc \in Holding, UNCHANGED <<run, lease>>
  PROVE  FenceInv'
<1> DEFINE x == [worker[w] EXCEPT !.pc = pc, !.ok = FALSE]
<1>1. /\ x \in Runner /\ x.pc = pc /\ x.token = worker[w].token /\ x.run = worker[w].run
      /\ x.fence = worker[w].fence /\ x.ok = FALSE
  BY DEF BackfillTyped, Runner, Holding, Paging
<1>2. worker' = [worker EXCEPT ![w] = x] BY DEF J!GoOn, J!Become
<1> HIDE DEF x
<1> QED BY <1>1, <1>2, PageFenced

LEMMA PutFenced ==
  ASSUME BackfillTyped, FenceInv, NEW w \in Workers, J!putLegacy(w), BackfillTyped' PROVE FenceInv'
<1> DEFINE o == J!Candidate(worker[w].snap[J!Current(w)])
           x == [worker[w] EXCEPT !.pc = "bind", !.ok = FALSE, !.object = o]
<1>0. UNCHANGED <<run, lease>> /\ worker[w].pc \in Holding BY DEF J!putLegacy, J!At, Holding
<1>1. CASE J!GoOn(w, "item_failed") BY <1>0, <1>1, GoOnFenced DEF Holding
<1>2. CASE J!Become(w, x)
  <2> HIDE DEF o
  <2>1. /\ x.pc = "bind" /\ x.token = worker[w].token /\ x.run = worker[w].run
        /\ x.fence = worker[w].fence /\ x.ok = FALSE
    BY DEF BackfillTyped, Runner
  <2>2. worker' = [worker EXCEPT ![w] = x] BY <1>2 DEF J!Become
  <2> HIDE DEF x
  <2>3. x \in Runner
    <3>1. worker'[w] = x BY <2>2 DEF BackfillTyped
    <3> QED BY <3>1 DEF BackfillTyped
  <2> QED BY <1>0, <2>1, <2>2, <2>3, PageFenced DEF Holding
<1> QED BY <1>1, <1>2 DEF J!putLegacy

LEMMA BindFenced ==
  ASSUME BackfillTyped, FenceInv, NEW w \in Workers, J!AcquireAndBind(w) \/ J!BindClone(w) PROVE FenceInv'
<1>1. UNCHANGED <<run, lease>> /\ worker[w].pc \in Holding BY DEF J!AcquireAndBind, J!BindClone, J!At, Holding
<1>2. J!GoOn(w, "mark") \/ J!GoOn(w, "item_failed") BY DEF J!AcquireAndBind, J!BindClone, J!Bound, J!Refused
<1> QED BY <1>1, <1>2, GoOnFenced DEF Holding

LEMMA MarkFenced ==
  ASSUME BackfillTyped, FenceInv, NEW w \in Workers, J!MarkItemCompleted(w), BackfillTyped' PROVE FenceInv'
<1> DEFINE r == J!Current(w)
           done == items[r].status = "completed" /\ items[r].rev = worker[w].snap[r].rev + 1
           rest == worker[w].page \ {r}
           pc == IF ~done THEN "item_failed" ELSE IF rest = {} THEN "advance" ELSE "copy"
           x == [worker[w] EXCEPT !.ok = FALSE, !.page = rest, !.object = 0, !.pc = pc]
<1>1. UNCHANGED <<run, lease>> /\ worker[w].pc \in Holding /\ worker' = [worker EXCEPT ![w] = x]
  BY DEF J!MarkItemCompleted, J!At, J!Become, Holding
<1>2. pc \in Holding BY DEF Holding
<1> HIDE DEF pc, rest
<1>3. /\ x.pc = pc /\ x.token = worker[w].token /\ x.run = worker[w].run
      /\ x.fence = worker[w].fence /\ x.ok = FALSE
  BY DEF BackfillTyped, Runner
<1> HIDE DEF x
<1>4. x \in Runner
  <2>1. worker'[w] = x BY <1>1 DEF BackfillTyped
  <2> QED BY <2>1 DEF BackfillTyped
<1> QED BY <1>1, <1>2, <1>3, <1>4, PageFenced

LEMMA ItemFailedFenced ==
  ASSUME BackfillTyped, FenceInv, NEW w \in Workers, J!MarkItemFailed(w) PROVE FenceInv'
<1>1. UNCHANGED <<run, lease>> /\ worker[w].pc \in Holding /\ J!GoOn(w, "fail")
  BY DEF J!MarkItemFailed, J!At, Holding
<1> QED BY <1>1, GoOnFenced

LEMMA DiesFenced == ASSUME BackfillTyped, FenceInv, NEW w \in Workers, J!Dies(w) PROVE FenceInv'
<1>1. worker' = [worker EXCEPT ![w] = J!Idle] /\ UNCHANGED <<run, lease>> BY DEF J!Dies, J!Become
<1>2. ~Claims(J!Idle, run) BY IdleTyped DEF Claims, Under, Past, Holding
<1> QED BY <1>1, <1>2, IdleTyped, WalkFenced DEF Past, Holding

LEMMA LeaseFenced ==
  ASSUME FenceInv, lease' = lease \/ lease' = NoWorker, UNCHANGED <<worker, run>> PROVE FenceInv'
<1>1. \A v \in Workers : lease' = v => lease = v BY BackfillConstants
<1>2. TokensApart' /\ OwnRun' /\ Observed' BY DEF FenceInv, TokensApart, OwnRun, Observed
<1>3. Leased' BY <1>1 DEF FenceInv, Leased, TooLate
<1>4. FenceRead' BY <1>1 DEF FenceInv, FenceRead, Off
<1> QED BY <1>2, <1>3, <1>4 DEF FenceInv

LEMMA FenceStepKeeps == ASSUME BackfillInv, FenceInv, J!BackfillNext PROVE FenceInv'
<1>0. BackfillTyped /\ BackfillTyped' BY BackfillStepKeeps DEF BackfillInv
<1>1. ASSUME NEW w \in Workers, J!WorkerStep(w) PROVE FenceInv'
  BY <1>0, <1>1, AssertFenced, AcquireFenced, BeginFenced, RecoverFenced, ListFenced, ClonesFenced,
     AdvanceFenced, CompleteFenced, PutFenced, BindFenced, MarkFenced, ItemFailedFenced, FailFenced
     DEF J!WorkerStep
<1>2. ASSUME NEW w \in Workers, J!Dies(w) PROVE FenceInv' BY <1>0, <1>2, DiesFenced
<1>3. CASE J!LeaseLost BY <1>3, LeaseFenced DEF J!LeaseLost
<1>4. CASE J!LeaseRunsOut BY <1>4, LeaseFenced DEF J!LeaseRunsOut
<1>5. ASSUME NEW r, J!Upload(r) \/ J!SetAvatar(r) \/ J!ClearAvatar(r) PROVE FenceInv'
  <2>1. UNCHANGED <<worker, run, lease>> BY <1>5 DEF J!Upload, J!SetAvatar, J!ClearAvatar, J!Change
  <2> QED BY <2>1, LeaseFenced
<1> QED BY <1>1, <1>2, <1>3, <1>4, <1>5 DEF J!BackfillNext

(* Of the steps in which a worker beyond the start moves, those that write *)
(* ask for the fence it has.                                               *)
LEMMA WritesFenced ==
  ASSUME BackfillInv, FenceInv, J!BackfillNext, NEW w \in Workers,
         worker[w].pc \notin {"idle", "begin", "recover"}, worker[w].run.fence # run.fence,
         worker'[w] # worker[w]
  PROVE  UNCHANGED <<run, items, rows>>
<1>0. BackfillTyped BY DEF BackfillInv
<1>1. ASSUME NEW v \in Workers, J!WorkerStep(v) PROVE v = w
  <2>1. \E x : worker' = [worker EXCEPT ![v] = x]
    BY <1>1 DEF J!WorkerStep, J!assertLease, J!Acquire, J!BeginOrResume, J!RecoverRunning, J!ListPage,
       J!EnsureCloneItems, J!Advance, J!Complete, J!putLegacy, J!AcquireAndBind, J!BindClone,
       J!MarkItemCompleted, J!MarkItemFailed, J!Fail, J!Leave, J!Lost, J!GoOn, J!Become, J!Checkpoint,
       J!Bound, J!Refused
  <2> QED BY <1>0, <2>1 DEF BackfillTyped
<1>2. ~J!CAS(w) BY DEF J!CAS
<1>3. J!At(w, "begin") = FALSE /\ J!At(w, "recover") = FALSE /\ worker[w] # J!Idle
  BY IdleTyped DEF J!At
<1>4. worker[w].pc \in Holding /\ worker[w].ok => worker[w].fence # run.fence
  BY DEF FenceInv, FenceRead, Off
<1>5. ASSUME NEW r, worker[w].pc \in Holding, worker[w].ok PROVE ~J!lockJournalItem(w, r)
  BY <1>4, <1>5 DEF J!lockJournalItem, J!fenced
<1>6. CASE J!WorkerStep(w)
  <2>1. CASE J!assertLease(w) \/ J!ListPage(w) \/ J!putLegacy(w) \/ J!MarkItemCompleted(w)
    BY <2>1 DEF J!assertLease, J!ListPage, J!putLegacy, J!MarkItemCompleted, J!catalog
  <2>2. CASE J!Acquire(w) \/ J!BeginOrResume(w) \/ J!RecoverRunning(w)
    BY <1>3, <2>2 DEF J!Acquire, J!BeginOrResume, J!RecoverRunning
  <2>3. CASE J!EnsureCloneItems(w) \/ J!Advance(w) \/ J!Complete(w)
    BY <1>2, <2>3 DEF J!EnsureCloneItems, J!Advance, J!Complete, J!Lost, J!catalog
  <2>4. CASE J!Fail(w) BY <1>2, <2>4 DEF J!Fail, J!catalog
  <2>5. CASE J!AcquireAndBind(w) \/ J!BindClone(w)
    <3>1. worker[w].pc \in Holding /\ worker[w].ok BY <2>5 DEF J!AcquireAndBind, J!BindClone, J!At, Holding
    <3>2. ~J!lockJournalItem(w, J!Current(w)) BY <1>5, <3>1
    <3> QED BY <2>5, <3>2 DEF J!AcquireAndBind, J!BindClone, J!Refused
  <2>6. CASE J!MarkItemFailed(w)
    <3>1. worker[w].pc \in Holding /\ worker[w].ok BY <2>6 DEF J!MarkItemFailed, J!At, Holding
    <3>2. ~J!lockJournalItem(w, J!Current(w)) BY <1>5, <3>1
    <3> QED BY <2>6, <3>2 DEF J!MarkItemFailed, J!catalog
  <2> QED BY <1>6, <2>1, <2>2, <2>3, <2>4, <2>5, <2>6 DEF J!WorkerStep
<1>7. ASSUME NEW v \in Workers, J!Dies(v) PROVE UNCHANGED <<run, items, rows>> BY <1>7 DEF J!Dies, J!catalog
<1>8. CASE J!LeaseLost \/ J!LeaseRunsOut BY <1>8 DEF J!LeaseLost, J!LeaseRunsOut
<1>9. ASSUME NEW r, J!Upload(r) \/ J!SetAvatar(r) \/ J!ClearAvatar(r) PROVE FALSE
  BY <1>9 DEF J!Upload, J!SetAvatar, J!ClearAvatar, J!Change
<1> QED BY <1>1, <1>6, <1>7, <1>8, <1>9 DEF J!BackfillNext

(* The backfill alone: what it binds is what the row said before, a        *)
(* completed run has completed every item, and a worker whose run was      *)
(* recovered by another writes nothing more, for any number of resources   *)
(* and workers, any page size and any number of mishaps.                   *)
THEOREM BackfillCorrect ==
  BackfillSpec => [](J!BackfillTypeOK /\ J!OwnContents /\ J!CompletedIsComplete) /\ J!FencedOff
<1> DEFINE Fenced == \A w \in Workers :
             worker[w].pc \notin {"idle", "begin", "recover"} /\ worker[w].run.fence # run.fence
             /\ worker'[w] # worker[w] => UNCHANGED <<run, items, rows>>
           Safe == J!BackfillTypeOK /\ J!OwnContents /\ J!CompletedIsComplete
<1>1. J!BackfillInit => BackfillInv /\ FenceInv BY BackfillInitially, FenceInitially
<1>2. BackfillInv /\ FenceInv /\ [J!BackfillNext]_(J!backfillVars) => (BackfillInv /\ FenceInv)'
  <2>1. ASSUME BackfillInv, FenceInv, UNCHANGED J!backfillVars PROVE (BackfillInv /\ FenceInv)'
    <3>1. UNCHANGED <<worker, run, lease>> BY <2>1 DEF J!backfillVars
    <3> QED BY <2>1, <3>1, BackfillUnchanged, LeaseFenced
  <2> QED BY <2>1, BackfillStepKeeps, FenceStepKeeps
<1>3. BackfillInv => Safe BY BackfillSound
<1>4. BackfillInv /\ FenceInv /\ [J!BackfillNext]_(J!backfillVars) => [Fenced]_(J!backfillVars)
  BY WritesFenced
<1>5. J!FencedOff <=> [][Fenced]_(J!backfillVars) BY PTL DEF J!FencedOff
<1> HIDE DEF Fenced, Safe
<1>6. BackfillSpec => []Safe /\ [][Fenced]_(J!backfillVars) BY <1>1, <1>2, <1>3, <1>4, PTL DEF BackfillSpec
<1> QED BY <1>5, <1>6 DEF Safe
-----------------------------------------------------------------------------
(***************************************************************************)
(* Migrations.  The history is the numbers up to some k, which only the    *)
(* holder of the lock can move: what it read is 1..k, its batch is the     *)
(* numbers from k + 1 on.                                                  *)
(***************************************************************************)
MigrationsSpec == P!MigrationsInit /\ [][P!MigrationsNext]_(P!vars)

From(k, m) == [i \in 1 .. m |-> k + i]
ProcessRow == [pc : {"off", "begin", "read", "validate", "apply", "check", "inspect", "serving"},
               release : Baseline .. Latest, applied : SUBSET (1 .. Latest), batch : Seq(Nat),
               seen : SUBSET (1 .. Latest)]
Migrating(x, p, k, h) ==
  /\ x.pc \in {"read", "validate", "apply"} => h = p
  /\ x.pc \in {"validate", "apply"} => x.applied = 1 .. k
  /\ x.pc \in {"begin", "read", "validate"} => x.batch = << >>
  /\ x.pc = "apply" => \E m \in Nat : k + m <= x.release /\ x.batch = From(k, m)
Served(x, k) ==
  /\ x.pc \in {"inspect", "serving"} => x.seen \subseteq 1 .. k
  /\ x.pc = "serving" => 1 .. x.release \subseteq x.seen /\ x.seen \subseteq 1 .. (x.release + 1)
MigratedTo(k) ==
  /\ history = From(0, k) /\ schema = [n \in 1 .. Latest |-> IF n <= k THEN 1 ELSE 0]
  /\ holder \in Processes \cup {NoProcess} /\ proc \in [Processes -> ProcessRow]
  /\ \A p \in Processes : Migrating(proc[p], p, k, holder) /\ Served(proc[p], k)
MigrationsInv == \E k \in Baseline .. Latest : MigratedTo(k)

LEMMA MigrationConstants ==
  Baseline \in Nat /\ Latest \in Nat /\ Baseline <= Latest /\ NoProcess \notin Processes
BY PlatformAssumption

LEMMA Ranges == ASSUME NEW k \in Nat, NEW m \in Nat PROVE P!SetOf(From(k, m)) = (k + 1) .. (k + m)
<1>1. ASSUME NEW n \in (k + 1) .. (k + m) PROVE n \in P!SetOf(From(k, m))
  <2>1. n - k \in 1 .. m /\ k + (n - k) = n OBVIOUS
  <2>2. From(k, m)[n - k] = n BY <2>1 DEF From
  <2>3. n - k \in DOMAIN From(k, m) BY <2>1 DEF From
  <2> QED BY <2>2, <2>3 DEF P!SetOf
<1>2. ASSUME NEW n \in P!SetOf(From(k, m)) PROVE n \in (k + 1) .. (k + m)
  <2>1. PICK i \in 1 .. m : n = From(k, m)[i] BY DEF P!SetOf, From
  <2>2. n = k + i BY <2>1 DEF From
  <2> QED BY <2>2
<1> QED BY <1>1, <1>2

LEMMA FreshTyped ==
  /\ P!Fresh \in ProcessRow /\ P!Fresh.pc = "off"
  /\ \A p, k, h : Migrating(P!Fresh, p, k, h) /\ Served(P!Fresh, k)
<1>1. P!Fresh \in ProcessRow /\ P!Fresh.pc = "off" BY MigrationConstants DEF P!Fresh, ProcessRow
<1>2. \A p, k, h : Migrating(P!Fresh, p, k, h) /\ Served(P!Fresh, k) BY <1>1 DEF Migrating, Served
<1> QED BY <1>1, <1>2

LEMMA MigrationsInitially == P!MigrationsInit => MigrationsInv
<1> SUFFICES ASSUME P!MigrationsInit PROVE MigratedTo(Baseline) BY MigrationConstants DEF MigrationsInv
<1>1. history = From(0, Baseline)
  BY MigrationConstants DEF P!MigrationsInit, From
<1>2. schema = [n \in 1 .. Latest |-> IF n <= Baseline THEN 1 ELSE 0] BY DEF P!MigrationsInit, P!Numbers
<1>3. proc = [p \in Processes |-> P!Fresh] /\ holder = NoProcess BY DEF P!MigrationsInit
<1> QED BY <1>1, <1>2, <1>3, FreshTyped DEF MigratedTo

(* One process moves while the history stands.                             *)
LEMMA ProcessMoves ==
  ASSUME NEW k \in Baseline .. Latest, MigratedTo(k), NEW p \in Processes, NEW x \in ProcessRow,
         proc' = [proc EXCEPT ![p] = x], UNCHANGED <<history, schema>>,
         Migrating(x, p, k, holder'), Served(x, k),
         holder' = holder \/ (holder = NoProcess /\ holder' = p) \/ (holder = p /\ holder' = NoProcess)
  PROVE  MigrationsInv'
<1>1. proc'[p] = x /\ \A q \in Processes \ {p} : proc'[q] = proc[q] BY DEF MigratedTo
<1>2. \A q \in Processes \ {p} : holder = q => holder' = q BY MigrationConstants
<1>3. \A q \in Processes : Migrating(proc'[q], q, k, holder') /\ Served(proc'[q], k)
  BY <1>1, <1>2 DEF MigratedTo, Migrating
<1>4. proc' \in [Processes -> ProcessRow] /\ holder' \in Processes \cup {NoProcess} BY DEF MigratedTo
<1>5. MigratedTo(k)' BY <1>3, <1>4 DEF MigratedTo
<1> QED BY <1>5, MigrationConstants DEF MigrationsInv

LEMMA AbortKeeps ==
  ASSUME NEW k \in Baseline .. Latest, MigratedTo(k), NEW p \in Processes, P!Abort(p),
         UNCHANGED <<history, schema>>
  PROVE  MigrationsInv'
<1>1. proc' = [proc EXCEPT ![p] = P!Fresh] BY DEF P!Abort, P!Become
<1>2. holder' = holder \/ (holder = p /\ holder' = NoProcess) BY DEF P!Abort
<1> QED BY <1>1, <1>2, FreshTyped, ProcessMoves

LEMMA DiscoverKeeps ==
  ASSUME NEW k \in Baseline .. Latest, MigratedTo(k), NEW p \in Processes, NEW b \in P!Releases,
         P!Discover(p, b)
  PROVE  MigrationsInv'
<1> DEFINE X(pc) == [P!Fresh EXCEPT !.pc = pc, !.release = b]
<1>1. \A pc \in {"begin", "check"} : X(pc) \in ProcessRow /\ X(pc).pc = pc /\ X(pc).batch = << >>
  BY FreshTyped DEF ProcessRow, P!Releases, P!Fresh
<1>2. \A pc \in {"begin", "check"} : Migrating(X(pc), p, k, holder) /\ Served(X(pc), k)
  BY <1>1 DEF Migrating, Served
<1>3. PICK pc \in {"begin", "check"} : proc' = [proc EXCEPT ![p] = X(pc)] BY DEF P!Discover, P!Become
<1>4. UNCHANGED <<history, schema, holder>> BY DEF P!Discover
<1> HIDE DEF X
<1> QED BY <1>1, <1>2, <1>3, <1>4, ProcessMoves

LEMMA LockKeeps ==
  ASSUME NEW k \in Baseline .. Latest, MigratedTo(k), NEW p \in Processes, P!AdvisoryLock(p)
  PROVE  MigrationsInv'
<1> DEFINE x == [proc[p] EXCEPT !.pc = "read"]
<1>1. proc[p] \in ProcessRow /\ proc[p].pc = "begin" /\ Migrating(proc[p], p, k, holder)
  BY DEF MigratedTo, P!AdvisoryLock
<1>2. x \in ProcessRow /\ x.pc = "read" /\ x.batch = << >> BY <1>1 DEF ProcessRow, Migrating
<1>3. /\ proc' = [proc EXCEPT ![p] = x] /\ holder = NoProcess /\ holder' = p /\ UNCHANGED <<history, schema>>
  BY DEF P!AdvisoryLock, P!Become
<1> HIDE DEF x
<1>4. Migrating(x, p, k, holder') /\ Served(x, k) BY <1>2, <1>3 DEF Migrating, Served
<1> QED BY <1>2, <1>3, <1>4, ProcessMoves

LEMMA ReadKeeps ==
  ASSUME NEW k \in Baseline .. Latest, MigratedTo(k), NEW p \in Processes, P!readApplied(p)
  PROVE  MigrationsInv'
<1> DEFINE x == [proc[p] EXCEPT !.pc = "validate", !.applied = P!SetOf(history)]
<1>0. k \in Nat /\ k <= Latest BY MigrationConstants
<1>1. proc[p] \in ProcessRow /\ proc[p].pc = "read" /\ Migrating(proc[p], p, k, holder)
  BY DEF MigratedTo, P!readApplied
<1>2. P!SetOf(history) = 1 .. k
  <2>1. P!SetOf(From(0, k)) = (0 + 1) .. (0 + k) BY <1>0, Ranges
  <2> QED BY <1>0, <2>1 DEF MigratedTo
<1>3. 1 .. k \in SUBSET (1 .. Latest) BY <1>0, MigrationConstants
<1>4. x \in ProcessRow /\ x.pc = "validate" /\ x.batch = << >> /\ x.applied = 1 .. k
  BY <1>1, <1>2, <1>3 DEF ProcessRow, Migrating
<1>5. /\ proc' = [proc EXCEPT ![p] = x] /\ holder' = holder /\ UNCHANGED <<history, schema>>
  BY DEF P!readApplied, P!Become
<1> HIDE DEF x
<1>6. Migrating(x, p, k, holder') /\ Served(x, k) BY <1>1, <1>4, <1>5 DEF Migrating, Served
<1> QED BY <1>4, <1>5, <1>6, ProcessMoves

LEMMA ValidateKeeps ==
  ASSUME NEW k \in Baseline .. Latest, MigratedTo(k), NEW p \in Processes, P!validateHistory(p)
  PROVE  MigrationsInv'
<1> DEFINE x == [proc[p] EXCEPT !.pc = "apply"]
<1>0. k \in Nat /\ k <= Latest BY MigrationConstants
<1>1. proc[p] \in ProcessRow /\ proc[p].pc = "validate" /\ Migrating(proc[p], p, k, holder)
  BY DEF MigratedTo, P!validateHistory
<1>2. CASE P!KnownPrefix(proc[p].applied, P!Files(p))
  <2>1. x \in ProcessRow /\ x.pc = "apply" /\ x.batch = << >> /\ x.applied = 1 .. k /\ x.release = proc[p].release
    BY <1>1 DEF ProcessRow, Migrating
  <2>2. /\ proc' = [proc EXCEPT ![p] = x] /\ holder' = holder /\ UNCHANGED <<history, schema>>
    BY <1>2 DEF P!validateHistory, P!Become
  <2> HIDE DEF x
  <2>3. x.release \in Nat BY <2>1, MigrationConstants DEF ProcessRow
  <2>4. 1 .. k \subseteq 1 .. x.release BY <1>1, <1>2, <2>1 DEF P!KnownPrefix, P!Files, Migrating
  <2>5. k <= x.release
    <3>1. CASE k = 0 BY <2>3, <3>1
    <3>2. CASE k # 0
      <4>1. k \in 1 .. k BY <1>0, <3>2
      <4> QED BY <2>4, <4>1
    <3> QED BY <3>1, <3>2
  <2>6. x.batch = From(k, 0) BY <1>0, <2>1 DEF From
  <2>7. \E m \in Nat : k + m <= x.release /\ x.batch = From(k, m)
    <3>1. k + 0 <= x.release BY <1>0, <2>5
    <3> QED BY <2>6, <3>1
  <2>8. Migrating(x, p, k, holder') /\ Served(x, k) BY <1>1, <2>1, <2>2, <2>7 DEF Migrating, Served
  <2> QED BY <2>1, <2>2, <2>8, ProcessMoves
<1>3. CASE ~P!KnownPrefix(proc[p].applied, P!Files(p)) BY <1>3, AbortKeeps DEF P!validateHistory
<1> QED BY <1>2, <1>3

(* What is left to apply.                                                  *)
LEMMA PendingIs ==
  ASSUME NEW k \in Nat, NEW m \in Nat, NEW p \in Processes, proc[p].release \in Nat,
         proc[p].applied = 1 .. k, proc[p].batch = From(k, m)
  PROVE  P!Pending(p) = {n \in 1 .. proc[p].release : n > k + m}
<1>1. P!SetOf(proc[p].batch) = (k + 1) .. (k + m) BY Ranges
<1>2. \A n \in 1 .. proc[p].release : n \in (1 .. k) \cup ((k + 1) .. (k + m)) <=> ~(n > k + m) OBVIOUS
<1> QED BY <1>1, <1>2 DEF P!Pending, P!Files

LEMMA ApplyKeeps ==
  ASSUME NEW k \in Baseline .. Latest, MigratedTo(k), NEW p \in Processes, P!Apply(p)
  PROVE  MigrationsInv'
<1> DEFINE f == P!NextFile(p)
           b == Append(proc[p].batch, f)
           x == [proc[p] EXCEPT !.batch = b]
<1>0. k \in Nat /\ k <= Latest BY MigrationConstants
<1>1. proc[p] \in ProcessRow /\ proc[p].pc = "apply" /\ Migrating(proc[p], p, k, holder)
  BY DEF MigratedTo, P!Apply
<1>2. PICK m \in Nat : k + m <= proc[p].release /\ proc[p].batch = From(k, m) BY <1>1 DEF Migrating
<1>3. proc[p].release \in Nat /\ proc[p].applied = 1 .. k BY <1>1, MigrationConstants DEF ProcessRow, Migrating
<1>4. P!Pending(p) = {n \in 1 .. proc[p].release : n > k + m} BY <1>0, <1>2, <1>3, PendingIs
<1>5. P!Pending(p) # {} BY DEF P!Apply
<1>6. k + m + 1 \in P!Pending(p) /\ \A n \in P!Pending(p) : k + m + 1 <= n BY <1>0, <1>3, <1>4, <1>5
<1>7. f = k + m + 1
  <2>1. f \in P!Pending(p) /\ \A n \in P!Pending(p) : f <= n BY <1>6 DEF P!NextFile
  <2>2. f <= k + m + 1 /\ k + m + 1 <= f BY <1>6, <2>1
  <2>3. f \in Nat BY <1>4, <2>1
  <2> QED BY <1>0, <2>2, <2>3
<1>8. b = From(k, m + 1) BY <1>0, <1>2, <1>7 DEF From
<1>9. b \in Seq(Nat)
  <2>1. f \in Nat /\ proc[p].batch \in Seq(Nat) BY <1>0, <1>1, <1>7 DEF ProcessRow
  <2> QED BY <2>1
<1>10. proc' = [proc EXCEPT ![p] = x] /\ UNCHANGED <<history, schema, holder>> BY DEF P!Apply, P!Become
<1> HIDE DEF b, f
<1>11. x \in ProcessRow /\ x.pc = "apply" /\ x.batch = b /\ x.applied = 1 .. k /\ x.release = proc[p].release
  BY <1>1, <1>3, <1>9 DEF ProcessRow
<1> HIDE DEF x
<1>12. k + (m + 1) <= x.release BY <1>0, <1>3, <1>4, <1>6, <1>11
<1>13. Migrating(x, p, k, holder') /\ Served(x, k)
  BY <1>1, <1>8, <1>10, <1>11, <1>12 DEF Migrating, Served
<1> QED BY <1>10, <1>11, <1>13, ProcessMoves

LEMMA CommitKeeps ==
  ASSUME NEW k \in Baseline .. Latest, MigratedTo(k), NEW p \in Processes, P!Commit(p)
  PROVE  MigrationsInv'
<1>0. k \in Nat /\ k <= Latest /\ Baseline <= k BY MigrationConstants
<1>1. CASE UNCHANGED <<history, schema>> BY <1>1, AbortKeeps DEF P!Commit
<1>2. CASE ~UNCHANGED <<history, schema>>
  <2>1. proc[p] \in ProcessRow /\ proc[p].pc = "apply" /\ Migrating(proc[p], p, k, holder)
    BY DEF MigratedTo, P!Commit
  <2>2. PICK m \in Nat : k + m <= proc[p].release /\ proc[p].batch = From(k, m) BY <2>1 DEF Migrating
  <2>3. proc[p].release \in Nat /\ proc[p].release <= Latest /\ holder = p
    BY <2>1, MigrationConstants DEF ProcessRow, Migrating
  <2>4. k + m \in Baseline .. Latest BY <1>0, <2>2, <2>3, MigrationConstants
  <2>5. /\ history' = history \o proc[p].batch
        /\ schema' = [n \in 1 .. Latest |-> IF n \in P!SetOf(proc[p].batch) THEN schema[n] + 1 ELSE schema[n]]
    BY <1>2 DEF P!Commit, P!Numbers
  <2>6. history' = From(0, k + m)
    <3>1. history = From(0, k) BY DEF MigratedTo
    <3>2. From(0, k) \in Seq(Nat) /\ From(k, m) \in Seq(Nat) /\ Len(From(0, k)) = k /\ Len(From(k, m)) = m
      BY <1>0, <2>2 DEF From
    <3>3. From(0, k) \o From(k, m) = From(0, k + m) BY <1>0, <2>2, <3>2 DEF From
    <3> QED BY <2>2, <2>5, <3>1, <3>3
  <2>7. schema' = [n \in 1 .. Latest |-> IF n <= k + m THEN 1 ELSE 0]
    <3>1. P!SetOf(proc[p].batch) = (k + 1) .. (k + m) BY <1>0, <2>2, Ranges
    <3>2. \A n \in 1 .. Latest : schema[n] = IF n <= k THEN 1 ELSE 0 BY DEF MigratedTo
    <3>3. ASSUME NEW n \in 1 .. Latest
          PROVE (IF n \in (k + 1) .. (k + m) THEN schema[n] + 1 ELSE schema[n]) = IF n <= k + m THEN 1 ELSE 0
      <4>1. CASE n <= k BY <1>0, <2>2, <3>2, <4>1
      <4>2. CASE n > k /\ n <= k + m BY <1>0, <2>2, <3>2, <4>2
      <4>3. CASE n > k + m BY <1>0, <2>2, <3>2, <4>3
      <4> QED BY <1>0, <4>1, <4>2, <4>3
    <3> QED BY <2>5, <3>1, <3>3
  <2>8. proc' = [proc EXCEPT ![p] = P!Fresh] /\ holder' = NoProcess BY <2>3 DEF P!Commit, P!Abort, P!Become
  <2>9. \A q \in Processes \ {p} : proc'[q] = proc[q] BY <2>8 DEF MigratedTo
  <2>10. \A q \in Processes : Migrating(proc'[q], q, k + m, holder') /\ Served(proc'[q], k + m)
    <3>1. ASSUME NEW q \in Processes \ {p} PROVE Migrating(proc'[q], q, k + m, holder') /\ Served(proc'[q], k + m)
      <4>1. Migrating(proc[q], q, k, holder) /\ Served(proc[q], k) /\ proc'[q] = proc[q] /\ holder # q
        BY <2>3, <2>9 DEF MigratedTo
      <4>2. proc[q].pc \notin {"read", "validate", "apply"} BY <4>1 DEF Migrating
      <4>3. 1 .. k \subseteq 1 .. (k + m) BY <1>0, <2>2
      <4>4. Migrating(proc'[q], q, k + m, holder') BY <4>1, <4>2 DEF Migrating
      <4>5. Served(proc'[q], k + m) BY <4>1, <4>3 DEF Served
      <4> QED BY <4>4, <4>5
    <3>2. proc'[p] = P!Fresh BY <2>8 DEF MigratedTo
    <3> QED BY <3>1, <3>2, FreshTyped
  <2>11. proc' \in [Processes -> ProcessRow] /\ holder' \in Processes \cup {NoProcess}
    BY <2>8, FreshTyped DEF MigratedTo
  <2>12. MigratedTo(k + m)' BY <2>6, <2>7, <2>10, <2>11 DEF MigratedTo
  <2> QED BY <2>4, <2>12 DEF MigrationsInv
<1> QED BY <1>1, <1>2

LEMMA CheckKeeps ==
  ASSUME NEW k \in Baseline .. Latest, MigratedTo(k), NEW p \in Processes,
         P!CheckReads(p) \/ P!Check(p) \/ P!Stops(p)
  PROVE  MigrationsInv'
<1>0. k \in Nat /\ k <= Latest BY MigrationConstants
<1>1. proc[p] \in ProcessRow /\ Migrating(proc[p], p, k, holder) /\ Served(proc[p], k) BY DEF MigratedTo
<1>2. UNCHANGED <<history, schema, holder>> BY DEF P!CheckReads, P!Check, P!Stops
<1>3. CASE P!Become(p, P!Fresh) BY <1>2, <1>3, FreshTyped, ProcessMoves DEF P!Become
<1>4. CASE P!CheckReads(p)
  <2> DEFINE x == [proc[p] EXCEPT !.pc = "inspect", !.seen = P!SetOf(history)]
  <2>1. P!SetOf(history) = 1 .. k
    <3>1. P!SetOf(From(0, k)) = (0 + 1) .. (0 + k) BY <1>0, Ranges
    <3> QED BY <1>0, <3>1 DEF MigratedTo
  <2>2. 1 .. k \in SUBSET (1 .. Latest) BY <1>0, MigrationConstants
  <2>3. x \in ProcessRow /\ x.pc = "inspect" /\ x.seen = 1 .. k BY <1>1, <2>1, <2>2 DEF ProcessRow
  <2>4. proc' = [proc EXCEPT ![p] = x] BY <1>4 DEF P!CheckReads, P!Become
  <2> HIDE DEF x
  <2>5. Migrating(x, p, k, holder') /\ Served(x, k) BY <2>3 DEF Migrating, Served
  <2> QED BY <1>2, <2>3, <2>4, <2>5, ProcessMoves
<1>5. CASE P!Check(p) /\ P!Compatible(p) /\ ~P!Become(p, P!Fresh)
  <2> DEFINE x == [proc[p] EXCEPT !.pc = "serving"]
  <2>1. proc[p].pc = "inspect" /\ proc' = [proc EXCEPT ![p] = x] BY <1>5 DEF P!Check, P!Become
  <2>2. x \in ProcessRow /\ x.pc = "serving" /\ x.seen = proc[p].seen /\ x.release = proc[p].release
    BY <1>1 DEF ProcessRow
  <2> HIDE DEF x
  <2>3. x.seen \subseteq 1 .. k /\ x.release \in Nat /\ x.seen \subseteq Nat
    BY <1>1, <2>1, <2>2, MigrationConstants DEF Served, ProcessRow
  <2>4. 1 .. x.release \subseteq x.seen BY <1>5, <2>2 DEF P!Compatible, P!Files
  <2>5. ASSUME NEW n \in x.seen PROVE n \in 1 .. (x.release + 1)
    <3>1. n \in 1 .. x.release \/ n = x.release + 1
      BY <1>5, <2>2, <2>5 DEF P!Compatible, P!Files, P!allowsAfter
    <3> QED BY <2>3, <3>1
  <2>6. Migrating(x, p, k, holder') /\ Served(x, k) BY <2>2, <2>3, <2>4, <2>5 DEF Migrating, Served
  <2> QED BY <1>2, <2>1, <2>2, <2>6, ProcessMoves
<1> QED BY <1>3, <1>4, <1>5 DEF P!Check, P!Stops

LEMMA MigrationsStepKeeps == ASSUME MigrationsInv, P!MigrationsNext PROVE MigrationsInv'
<1>1. PICK k \in Baseline .. Latest : MigratedTo(k) BY DEF MigrationsInv
<1>2. PICK p \in Processes :
        \/ \E b \in P!Releases : P!Discover(p, b)
        \/ P!AdvisoryLock(p) \/ P!readApplied(p) \/ P!validateHistory(p) \/ P!Apply(p) \/ P!Commit(p) \/ P!Fails(p)
        \/ P!CheckReads(p) \/ P!Check(p) \/ P!Stops(p)
  BY DEF P!MigrationsNext
<1>3. CASE P!Fails(p) BY <1>1, <1>3, AbortKeeps DEF P!Fails
<1> QED BY <1>1, <1>2, <1>3, DiscoverKeeps, LockKeeps, ReadKeeps, ValidateKeeps, ApplyKeeps, CommitKeeps, CheckKeeps

LEMMA MigrationsSound ==
  MigrationsInv => P!MigrationsTypeOK /\ P!AppliedOnce /\ P!ServesOnReviewedSchema
<1> SUFFICES ASSUME NEW k \in Baseline .. Latest, MigratedTo(k)
             PROVE  P!MigrationsTypeOK /\ P!AppliedOnce /\ P!ServesOnReviewedSchema
  BY DEF MigrationsInv
<1>0. k \in Nat /\ k <= Latest BY MigrationConstants
<1>1. P!SetOf(history) = 1 .. k
  <2>1. P!SetOf(From(0, k)) = (0 + 1) .. (0 + k) BY <1>0, Ranges
  <2> QED BY <1>0, <2>1 DEF MigratedTo
<1>2. 1 .. k \subseteq 1 .. Latest BY <1>0, MigrationConstants
<1>3. P!MigrationsTypeOK BY <1>1, <1>2 DEF MigratedTo, P!MigrationsTypeOK, P!Numbers, ProcessRow
<1>4. \A i \in DOMAIN history : history[i] = i BY <1>0 DEF MigratedTo, From
<1>5. \A n \in P!Numbers : schema[n] = IF n \in P!SetOf(history) THEN 1 ELSE 0
  BY <1>0, <1>1, MigrationConstants DEF MigratedTo, P!Numbers
<1>6. P!ServesOnReviewedSchema
  <2>1. ASSUME NEW p \in Processes, proc[p].pc = "serving"
        PROVE  P!Files(p) \subseteq P!SetOf(history) /\ proc[p].seen \subseteq 1 .. (proc[p].release + 1)
    <3>1. Served(proc[p], k) BY DEF MigratedTo
    <3> QED BY <1>1, <2>1, <3>1 DEF Served, P!Files
  <2> QED BY <2>1 DEF P!ServesOnReviewedSchema
<1> QED BY <1>3, <1>4, <1>5, <1>6 DEF P!AppliedOnce

(* Migrations alone: whatever releases start together and whatever fails,  *)
(* each migration takes effect once and in order, and no process serves on *)
(* a schema its release was not reviewed for, for any number of processes  *)
(* and releases.                                                           *)
THEOREM MigrationsCorrect ==
  MigrationsSpec => [](P!MigrationsTypeOK /\ P!AppliedOnce /\ P!ServesOnReviewedSchema)
<1> DEFINE Safe == P!MigrationsTypeOK /\ P!AppliedOnce /\ P!ServesOnReviewedSchema
<1>1. P!MigrationsInit => MigrationsInv BY MigrationsInitially
<1>2. MigrationsInv /\ [P!MigrationsNext]_(P!vars) => MigrationsInv'
  <2>1. ASSUME MigrationsInv, UNCHANGED P!vars PROVE MigrationsInv'
    BY <2>1 DEF MigrationsInv, MigratedTo, P!vars
  <2> QED BY <2>1, MigrationsStepKeeps
<1>3. MigrationsInv => Safe BY MigrationsSound
<1> HIDE DEF Safe
<1>4. MigrationsSpec => []Safe BY <1>1, <1>2, <1>3, PTL DEF MigrationsSpec
<1> QED BY <1>4 DEF Safe
-----------------------------------------------------------------------------
(***************************************************************************)
(* The life of a process.                                                  *)
(***************************************************************************)
LifeSpec == P!LifeInit /\ [][P!LifeNext]_(P!lifeVars)

Starting == {"catalogs", "pool", "schema", "services", "runtime"}
Composed == {"schema", "services", "runtime", "serving", "draining", "cancel", "gateway", "background", "close"}
Stopping == {"cancel", "gateway", "background", "close", "wait", "exited"}
Disabled == mode.work = "disabled"
RequestRow == [at : {"none", "run", "query", "done", "failed"}, left : 0 .. 2]
LifeTyped ==
  /\ mode \in Modes /\ pool \in {"none", "open", "closing", "closed"} /\ late \subseteq {"http", "gateway"}
  /\ main \in Starting \cup {"serving", "draining", "wait", "failed"} \cup Stopping
  /\ listener \in {"none", "idle", "holds", "ended"} /\ request \in [HttpRequests -> RequestRow]
  /\ socket \in [Sockets -> {"none", "live", "cleaning", "cleaned", "cut"}]
  /\ processor \in [Processors -> {"off", "wait", "check", "work", "ended"}]

(* The pool is there from the stage that opens it to the last one.         *)
PoolFits ==
  /\ main \in {"catalogs", "pool"} => pool = "none"
  /\ main \in {"pool", "schema"} => ~Disabled
  /\ main \in Composed => pool = IF Disabled THEN "none" ELSE "open"
  /\ main = "wait" => pool = "closing"
  /\ main = "failed" => pool \in {"none", "closed"} /\ cancelled
(* Nothing runs before the process serves, and without a database little.  *)
Quiet ==
  /\ main \in Starting \cup {"failed"} => \A r \in HttpRequests : request[r] = P!NoRequest
  /\ Disabled => \A r \in HttpRequests : request[r].left = 0 /\ request[r].at \notin {"query", "failed"}
  /\ main \in Starting \cup {"failed"} \/ Disabled =>
       /\ listener = "none" /\ \A s \in Sockets : socket[s] = "none"
       /\ \A p \in Processors : processor[p] = "off"
  /\ P!Worker => \A s \in Sockets : socket[s] = "none"
(* What each stage of the stop has waited for.                             *)
Waited ==
  /\ main \in Stopping => (\A r \in HttpRequests : request[r].at \notin {"run", "query"})
                          \/ "http" \in late \/ failedServe
  /\ main \in {"background", "close", "wait", "exited"} =>
       (\A s \in Sockets : socket[s] \notin {"live", "cleaning"}) \/ "gateway" \in late
  /\ main \in {"close", "wait", "exited"} => P!BackgroundDone
Uncut == /\ P!RequestsNotCut /\ \A s \in Sockets : socket[s] = "cut" => "gateway" \in late
         /\ \A r \in HttpRequests : request[r].at = "query" => request[r].left # 0
LifeInv == LifeTyped /\ PoolFits /\ Quiet /\ Waited /\ Uncut

LEMMA LifeInitially == P!LifeInit => LifeInv
<1> SUFFICES ASSUME P!LifeInit PROVE LifeInv OBVIOUS
<1>1. P!NoRequest \in RequestRow /\ P!NoRequest.at = "none" /\ P!NoRequest.left = 0 BY DEF P!NoRequest, RequestRow
<1>2. LifeTyped BY <1>1 DEF P!LifeInit, LifeTyped, Starting
<1>3. PoolFits BY DEF P!LifeInit, PoolFits, Composed
<1>4. Quiet BY <1>1 DEF P!LifeInit, Quiet
<1>5. Waited BY DEF P!LifeInit, Waited, Stopping
<1>6. Uncut BY <1>1 DEF P!LifeInit, Uncut, P!RequestsNotCut
<1> QED BY <1>2, <1>3, <1>4, <1>5, <1>6 DEF LifeInv

(* The main goroutine goes from one stage to the next.                     *)
LEMMA StageKeeps ==
  ASSUME LifeInv, UNCHANGED <<mode, P!Work>>,
         main' \in Starting \cup {"serving", "draining", "wait", "failed"} \cup Stopping,
         pool' \in {"none", "open", "closing", "closed"}, late \subseteq late', late' \subseteq {"http", "gateway"},
         failedServe => failedServe', PoolFits',
         main' \in Starting \cup {"failed"} => main \in Starting \cup {"failed"},
         main' \in Stopping => main \in Stopping \/ P!Running = {} \/ failedServe',
         main' \in {"background", "close", "wait", "exited"} =>
           main \in {"background", "close", "wait", "exited"} \/ P!Open = {} \/ "gateway" \in late',
         main' \in {"close", "wait", "exited"} => main \in {"close", "wait", "exited"} \/ P!BackgroundDone
  PROVE  LifeInv'
<1>1. UNCHANGED <<mode, listener, request, socket, processor>> BY DEF P!Work
<1>2. LifeTyped' BY <1>1 DEF LifeInv, LifeTyped
<1>3. Quiet' BY <1>1 DEF LifeInv, Quiet, Disabled, P!Worker
<1>4. Waited' BY <1>1 DEF LifeInv, Waited, P!Running, P!Open, P!BackgroundDone
<1>5. Uncut' BY <1>1 DEF LifeInv, Uncut, P!RequestsNotCut
<1> QED BY <1>2, <1>3, <1>4, <1>5 DEF LifeInv

LEMMA StartKeeps ==
  ASSUME LifeInv, P!LoadCatalogs \/ P!OpenPoolFromEnv \/ P!CheckSchema \/ P!composeServices
                  \/ \E i \in 1 .. Len(P!Stages) : P!StartFails(P!Stages[i])
  PROVE  LifeInv'
<1> USE DEF Starting, Stopping
<1>1. CASE P!LoadCatalogs
  <2>1. PoolFits' BY <1>1 DEF P!LoadCatalogs, LifeInv, PoolFits, Composed, Disabled
  <2> QED BY <1>1, <2>1, StageKeeps DEF P!LoadCatalogs, LifeInv, LifeTyped
<1>2. CASE P!OpenPoolFromEnv
  <2>1. PoolFits' BY <1>2 DEF P!OpenPoolFromEnv, LifeInv, PoolFits, Composed, Disabled
  <2> QED BY <1>2, <2>1, StageKeeps DEF P!OpenPoolFromEnv, LifeInv, LifeTyped
<1>3. CASE P!CheckSchema
  <2>1. PoolFits' BY <1>3 DEF P!CheckSchema, LifeInv, PoolFits, Composed, Disabled
  <2> QED BY <1>3, <2>1, StageKeeps DEF P!CheckSchema, LifeInv, LifeTyped
<1>4. CASE P!composeServices
  <2>1. PoolFits' BY <1>4 DEF P!composeServices, LifeInv, PoolFits, Composed, Disabled
  <2> QED BY <1>4, <2>1, StageKeeps DEF P!composeServices, LifeInv, LifeTyped
<1>5. ASSUME NEW stage \in Starting, P!StartFails(stage) PROVE LifeInv'
  <2>1. PoolFits' BY <1>5 DEF P!StartFails, P!ClosePool, LifeInv, PoolFits, Composed, Disabled
  <2> QED BY <1>5, <2>1, StageKeeps DEF P!StartFails, P!ClosePool, LifeInv, LifeTyped
<1>6. \A i \in 1 .. Len(P!Stages) : P!Stages[i] \in Starting
  <2>1. Len(P!Stages) = 5 BY DEF P!Stages
  <2>2. \A i \in 1 .. 5 : i = 1 \/ i = 2 \/ i = 3 \/ i = 4 \/ i = 5 OBVIOUS
  <2> QED BY <2>1, <2>2 DEF P!Stages
<1> QED BY <1>1, <1>2, <1>3, <1>4, <1>5, <1>6

LEMMA StopKeeps ==
  ASSUME LifeInv, P!ServeShutdown \/ P!Serve \/ P!ServeTimesOut \/ P!ServerFails \/ P!CancelAll
                  \/ P!shutdownBotGateway \/ P!GatewayTimesOut \/ P!Close \/ P!PoolCloses \/ P!PoolClosed \/ P!Signal
  PROVE  LifeInv'
<1> USE DEF Starting, Stopping
<1>0. CASE P!Signal
  <2>1. UNCHANGED <<mode, main, pool, late, failedServe, P!Work>> /\ main = "serving" BY <1>0 DEF P!Signal
  <2>2. PoolFits' BY <2>1 DEF LifeInv, PoolFits, Disabled
  <2> QED BY <2>1, <2>2, StageKeeps DEF LifeInv, LifeTyped
<1>1. CASE P!ServeShutdown
  <2>1. PoolFits' BY <1>1 DEF P!ServeShutdown, LifeInv, PoolFits, Composed, Disabled
  <2> QED BY <1>1, <2>1, StageKeeps DEF P!ServeShutdown, LifeInv, LifeTyped
<1>2. CASE P!Serve
  <2>1. PoolFits' BY <1>2 DEF P!Serve, LifeInv, PoolFits, Composed, Disabled
  <2> QED BY <1>2, <2>1, StageKeeps DEF P!Serve, P!Drained, LifeInv, LifeTyped
<1>3. CASE P!ServeTimesOut \/ P!ServerFails
  <2>1. PoolFits' BY <1>3 DEF P!ServeTimesOut, P!ServerFails, LifeInv, PoolFits, Composed, Disabled
  <2> QED BY <1>3, <2>1, StageKeeps DEF P!ServeTimesOut, P!ServerFails, LifeInv, LifeTyped
<1>4. CASE P!CancelAll
  <2>1. PoolFits' BY <1>4 DEF P!CancelAll, LifeInv, PoolFits, Composed, Disabled
  <2>2. P!Worker => P!Open = {} BY DEF LifeInv, Quiet, P!Open
  <2> QED BY <1>4, <2>1, <2>2, StageKeeps DEF P!CancelAll, LifeInv, LifeTyped
<1>5. CASE P!shutdownBotGateway
  <2>1. PoolFits' BY <1>5 DEF P!shutdownBotGateway, LifeInv, PoolFits, Composed, Disabled
  <2> QED BY <1>5, <2>1, StageKeeps DEF P!shutdownBotGateway, P!GatewayDone, LifeInv, LifeTyped
<1>6. CASE P!GatewayTimesOut
  <2>1. PoolFits' BY <1>6 DEF P!GatewayTimesOut, LifeInv, PoolFits, Composed, Disabled
  <2> QED BY <1>6, <2>1, StageKeeps DEF P!GatewayTimesOut, LifeInv, LifeTyped
<1>7. CASE P!Close
  <2>1. PoolFits' BY <1>7 DEF P!Close, LifeInv, PoolFits, Composed, Disabled
  <2> QED BY <1>7, <2>1, StageKeeps DEF P!Close, LifeInv, LifeTyped
<1>8. CASE P!PoolCloses
  <2>1. PoolFits' BY <1>8 DEF P!PoolCloses, LifeInv, PoolFits, Composed, Disabled
  <2> QED BY <1>8, <2>1, StageKeeps DEF P!PoolCloses, LifeInv, LifeTyped
<1>9. CASE P!PoolClosed
  <2>1. PoolFits' BY <1>9 DEF P!PoolClosed, LifeInv, PoolFits, Composed, Disabled
  <2> QED BY <1>9, <2>1, StageKeeps DEF P!PoolClosed, LifeInv, LifeTyped
<1> QED BY <1>0, <1>1, <1>2, <1>3, <1>4, <1>5, <1>6, <1>7, <1>8, <1>9

(* The last stage of the start sets the goroutines off.                    *)
LEMMA ServingKeeps == ASSUME LifeInv, P!newWorkspace \/ P!newWorker PROVE LifeInv'
<1>1. /\ main \in Starting /\ main' = "serving" /\ UNCHANGED <<mode, pool, late, failedServe, request, socket>>
      /\ main \in Composed
  BY DEF P!newWorkspace, P!newWorker, Starting, Composed
<1>2. /\ listener' \in {"none", "idle"} /\ (Disabled => listener' = "none")
      /\ processor' \in [Processors -> {"off", "wait"}] /\ (Disabled => \A p \in Processors : processor'[p] = "off")
  <2>1. listener = "none" /\ \A p \in Processors : processor[p] = "off" BY <1>1 DEF LifeInv, Quiet
  <2>2. Disabled => ~P!Active BY DEF Disabled, P!Active
  <2>3. CASE P!newWorkspace
    <3>1. processor' \in [Processors -> {"off", "wait"}] BY <2>1, <2>3 DEF P!newWorkspace, LifeInv, LifeTyped
    <3> QED BY <2>1, <2>2, <2>3, <3>1 DEF P!newWorkspace
  <2>4. CASE P!newWorker BY <2>1, <2>2, <2>4 DEF P!newWorker
  <2> QED BY <2>3, <2>4
<1>3. LifeTyped' BY <1>1, <1>2 DEF LifeInv, LifeTyped
<1>4. PoolFits' BY <1>1 DEF LifeInv, PoolFits, Composed, Disabled
<1>5. Quiet' BY <1>1, <1>2 DEF LifeInv, Quiet, Starting, Disabled, P!Worker
<1>6. Waited' BY <1>1 DEF Waited, Stopping
<1>7. Uncut' BY <1>1 DEF LifeInv, Uncut, P!RequestsNotCut
<1> QED BY <1>3, <1>4, <1>5, <1>6, <1>7 DEF LifeInv

(* One request moves.                                                      *)
LEMMA RequestKeeps ==
  ASSUME LifeInv, main \notin P!Exits, NEW r \in HttpRequests, NEW x \in RequestRow,
         request' = [request EXCEPT ![r] = x],
         UNCHANGED <<mode, main, pool, signalled, cancelled, failedServe, late, listener, socket, processor>>,
         main \notin Starting, Disabled => x.left = 0 /\ x.at \notin {"query", "failed"},
         x.at \in {"run", "query"} => main = "serving" \/ request[r].at \in {"run", "query"},
         x.at = "failed" => "http" \in late \/ failedServe, x.at = "query" => x.left # 0
  PROVE  LifeInv'
<1>0. \A q \in HttpRequests : (q = r /\ request'[q] = x) \/ (q # r /\ request'[q] = request[q])
  BY DEF LifeInv, LifeTyped
<1>1. main \notin Starting \cup {"failed"} BY DEF P!Exits
<1>2. LifeTyped' BY DEF LifeInv, LifeTyped
<1>3. PoolFits' BY DEF LifeInv, PoolFits, Disabled
<1>4. Quiet' BY <1>0, <1>1 DEF LifeInv, Quiet, Disabled, P!Worker
<1>5. Waited' BY <1>0 DEF LifeInv, Waited, P!BackgroundDone, Stopping
<1>6. Uncut' BY <1>0 DEF LifeInv, Uncut, P!RequestsNotCut
<1> QED BY <1>2, <1>3, <1>4, <1>5, <1>6 DEF LifeInv

LEMMA RequestsKeep ==
  ASSUME LifeInv, main \notin P!Exits, NEW r \in HttpRequests, NEW left \in 0 .. 2,
         P!Arrive(r, left) \/ P!RequestStep(r)
  PROVE  LifeInv'
<1>0. request[r] \in RequestRow /\ request[r].left \in 0 .. 2 /\ P!NoRequest.at = "none"
  BY DEF LifeInv, LifeTyped, RequestRow, P!NoRequest
<1>1. UNCHANGED <<mode, main, pool, signalled, cancelled, failedServe, late, listener, socket, processor>>
  BY DEF P!Arrive, P!RequestStep, P!Acquire, P!Release, P!Respond
<1>2. CASE P!Arrive(r, left)
  <2> DEFINE x == [at |-> "run", left |-> left]
  <2>1. x \in RequestRow /\ x.at = "run" /\ x.left = left BY DEF RequestRow
  <2>2. request' = [request EXCEPT ![r] = x] /\ main = "serving" /\ (pool = "none" => left = 0)
    BY <1>2 DEF P!Arrive, P!Accepting
  <2> HIDE DEF x
  <2>3. Disabled => left = 0 BY <2>2 DEF LifeInv, PoolFits, Composed
  <2> QED BY <1>1, <2>1, <2>2, <2>3, RequestKeeps DEF Starting
<1>3. CASE P!Acquire(r)
  <2> DEFINE at == IF P!CanAcquire THEN "query" ELSE "failed"
             x == [request[r] EXCEPT !.at = at]
  <2>1. at \in {"query", "failed"} /\ (at = "failed" => pool # "open") BY DEF P!CanAcquire
  <2>2. request[r].at = "run" /\ request[r].left > 0 /\ request' = [request EXCEPT ![r] = x]
    BY <1>3 DEF P!Acquire, LifeInv, LifeTyped
  <2> HIDE DEF at
  <2>3. x \in RequestRow /\ x.at = at /\ x.left = request[r].left BY <1>0, <2>1 DEF RequestRow
  <2> HIDE DEF x
  <2>4. ~Disabled BY <1>0, <2>2 DEF LifeInv, Quiet
  <2>5. main \notin Starting BY <1>0, <2>2 DEF LifeInv, Quiet
  <2>6. at = "failed" => main \notin Composed BY <2>1, <2>4 DEF LifeInv, PoolFits
  <2>7. at = "failed" => main \in Stopping
    BY <2>5, <2>6 DEF LifeInv, LifeTyped, P!Exits, Composed, Starting, Stopping
  <2>8. at = "failed" => "http" \in late \/ failedServe BY <2>2, <2>7 DEF LifeInv, Waited
  <2>9. x.left # 0 BY <1>0, <2>2, <2>3
  <2> QED BY <1>1, <2>2, <2>3, <2>4, <2>5, <2>8, <2>9, RequestKeeps
<1>4. CASE P!Release(r)
  <2> DEFINE n == request[r].left - 1
             x == [at |-> "run", left |-> n]
  <2>1. request[r].at = "query" /\ request' = [request EXCEPT ![r] = x]
    BY <1>4 DEF P!Release, LifeInv, LifeTyped
  <2>2. ~Disabled /\ main \notin Starting BY <1>0, <2>1 DEF LifeInv, Quiet
  <2>5. request[r].left # 0 BY <2>1 DEF LifeInv, Uncut
  <2>3. n \in 0 .. 2 BY <1>0, <2>5
  <2> HIDE DEF n
  <2>4. x \in RequestRow /\ x.at = "run" BY <2>3 DEF RequestRow
  <2> HIDE DEF x
  <2> QED BY <1>1, <2>1, <2>2, <2>4, RequestKeeps
<1>5. CASE P!Respond(r)
  <2> DEFINE x == [request[r] EXCEPT !.at = "done"]
  <2>1. request[r].at = "run" /\ request[r].left = 0 /\ request' = [request EXCEPT ![r] = x]
    BY <1>5 DEF P!Respond, LifeInv, LifeTyped
  <2>2. x \in RequestRow /\ x.at = "done" /\ x.left = request[r].left BY <1>0 DEF RequestRow
  <2> HIDE DEF x
  <2>3. main \notin Starting BY <1>0, <2>1 DEF LifeInv, Quiet
  <2> QED BY <1>1, <2>1, <2>2, <2>3, RequestKeeps
<1> QED BY <1>2, <1>3, <1>4, <1>5 DEF P!RequestStep

(* The listener, a socket or a processor moves.                            *)
LEMMA ListenerKeeps ==
  ASSUME LifeInv, main \notin P!Exits, P!Listen \/ P!ConnectionLost \/ P!ListenerEnds PROVE LifeInv'
<1>1. /\ UNCHANGED <<mode, main, pool, signalled, cancelled, failedServe, late, request, socket, processor>>
      /\ listener \in {"idle", "holds"} /\ listener' \in {"idle", "holds", "ended"}
  BY DEF P!Listen, P!ConnectionLost, P!ListenerEnds
<1>2. LifeTyped' BY <1>1 DEF LifeInv, LifeTyped
<1>3. PoolFits' BY <1>1 DEF LifeInv, PoolFits, Disabled
<1>4. Quiet' BY <1>1 DEF LifeInv, Quiet, Disabled, P!Worker
<1>5. Waited' BY <1>1 DEF LifeInv, Waited, P!BackgroundDone
<1>6. Uncut' BY <1>1 DEF LifeInv, Uncut, P!RequestsNotCut
<1> QED BY <1>2, <1>3, <1>4, <1>5, <1>6 DEF LifeInv

LEMMA SocketsKeep ==
  ASSUME LifeInv, main \notin P!Exits, NEW s \in Sockets, P!SocketOpens(s) \/ P!SocketEnds(s) \/ P!SocketCleans(s)
  PROVE  LifeInv'
<1>1. UNCHANGED <<mode, main, pool, signalled, cancelled, failedServe, late, request, listener, processor>>
  BY DEF P!SocketOpens, P!SocketEnds, P!SocketCleans
<1>2. PICK x \in {"live", "cleaning", "cleaned", "cut"} :
        /\ socket' = [socket EXCEPT ![s] = x]
        /\ x = "live" => main \in {"serving", "draining", "cancel"} /\ ~P!Worker /\ P!Active
        /\ x # "live" => socket[s] \in {"live", "cleaning"}
        /\ x = "cut" => pool # "open"
  BY DEF P!SocketOpens, P!SocketEnds, P!SocketCleans, P!Admission, P!CanAcquire
<1>3. \A q \in Sockets : (q = s /\ socket'[q] = x) \/ (q # s /\ socket'[q] = socket[q])
  BY <1>2 DEF LifeInv, LifeTyped
<1>4. ~Disabled /\ ~P!Worker /\ main \notin Starting \cup {"failed"}
  BY <1>2 DEF LifeInv, Quiet, Disabled, P!Active, Starting
<1>5. x = "cut" => main \in {"background", "close", "wait", "exited"}
  BY <1>2, <1>4 DEF LifeInv, PoolFits, LifeTyped, Composed, Starting, Stopping
<1>6. x = "cut" => "gateway" \in late BY <1>2, <1>5 DEF LifeInv, Waited
<1>7. LifeTyped' BY <1>1, <1>2 DEF LifeInv, LifeTyped
<1>8. PoolFits' BY <1>1 DEF LifeInv, PoolFits, Disabled
<1>9. Quiet' BY <1>1, <1>4 DEF LifeInv, Quiet, Disabled, P!Worker
<1>10. Waited' BY <1>1, <1>2, <1>3 DEF LifeInv, Waited, P!BackgroundDone
<1>11. Uncut' BY <1>1, <1>3, <1>6 DEF LifeInv, Uncut, P!RequestsNotCut
<1> QED BY <1>7, <1>8, <1>9, <1>10, <1>11 DEF LifeInv

LEMMA ProcessorsKeep ==
  ASSUME LifeInv, main \notin P!Exits, NEW p \in Processors, P!tick(p) \/ P!ProcessorStep(p)
  PROVE  LifeInv'
<1>1. UNCHANGED <<mode, main, pool, signalled, cancelled, failedServe, late, request, listener, socket>>
  BY DEF P!tick, P!ProcessorStep, P!schemaReady, P!CycleEnds, P!runProcessor
<1>2. PICK x \in {"wait", "check", "work", "ended"} :
        processor' = [processor EXCEPT ![p] = x] /\ processor[p] \in {"wait", "check", "work"}
  BY DEF P!tick, P!ProcessorStep, P!schemaReady, P!CycleEnds, P!runProcessor
<1>3. main \notin {"close", "wait", "exited"} BY <1>2 DEF LifeInv, Waited, P!BackgroundDone
<1>4. ~Disabled /\ main \notin Starting \cup {"failed"} BY <1>2 DEF LifeInv, Quiet
<1>5. LifeTyped' BY <1>1, <1>2 DEF LifeInv, LifeTyped
<1>6. PoolFits' BY <1>1 DEF LifeInv, PoolFits, Disabled
<1>7. Quiet' BY <1>1, <1>4 DEF LifeInv, Quiet, Disabled, P!Worker
<1>8. Waited' BY <1>1, <1>3 DEF LifeInv, Waited
<1>9. Uncut' BY <1>1 DEF LifeInv, Uncut, P!RequestsNotCut
<1> QED BY <1>5, <1>6, <1>7, <1>8, <1>9 DEF LifeInv

LEMMA LifeStepKeeps == ASSUME LifeInv, P!LifeNext PROVE LifeInv'
<1>1. main \notin P!Exits BY DEF P!LifeNext
<1>2. CASE P!MainStep BY <1>2, StartKeeps, StopKeeps, ServingKeeps DEF P!MainStep
<1>3. ASSUME NEW r \in HttpRequests, P!RequestStep(r) PROVE LifeInv'
  <2>1. 0 \in 0 .. 2 OBVIOUS
  <2> QED BY <1>1, <1>3, <2>1, RequestsKeep
<1>4. ASSUME NEW s \in Sockets, P!SocketOpens(s) \/ P!SocketEnds(s) \/ P!SocketCleans(s) PROVE LifeInv'
  BY <1>1, <1>4, SocketsKeep
<1>5. ASSUME NEW p \in Processors, P!tick(p) \/ P!ProcessorStep(p) PROVE LifeInv' BY <1>1, <1>5, ProcessorsKeep
<1> QED BY <1>1, <1>2, <1>3, <1>4, <1>5, StartKeeps, StopKeeps, RequestsKeep, ListenerKeeps DEF P!LifeNext

LEMMA LifeSound == LifeInv => P!LifeTypeOK /\ P!PoolOutlivesWork /\ P!RequestsNotCut /\ P!FailedStartClean
<1> SUFFICES ASSUME LifeInv PROVE P!LifeTypeOK /\ P!PoolOutlivesWork /\ P!RequestsNotCut /\ P!FailedStartClean
  OBVIOUS
<1>1. P!LifeTypeOK BY DEF LifeInv, LifeTyped, P!LifeTypeOK, P!Exits, Starting, Stopping, RequestRow
<1>2. pool \in {"closing", "closed"} => main \in {"wait", "exited", "failed"}
  BY DEF LifeInv, LifeTyped, PoolFits, Composed, Starting, Stopping
<1>3. P!PoolOutlivesWork BY <1>2 DEF LifeInv, Quiet, Waited, Uncut, P!BackgroundDone, P!PoolOutlivesWork
<1>4. P!RequestsNotCut /\ P!FailedStartClean BY DEF LifeInv, Uncut, PoolFits, Quiet, P!FailedStartClean
<1> QED BY <1>1, <1>3, <1>4

(* A process alone: nothing queries a closed pool, no request is cut short *)
(* within the grace period and a failed start leaves nothing open, however *)
(* the stop interleaves with any number of requests, sockets and workers.  *)
THEOREM LifeCorrect ==
  LifeSpec => [](P!LifeTypeOK /\ P!PoolOutlivesWork /\ P!RequestsNotCut /\ P!FailedStartClean)
<1> DEFINE Safe == P!LifeTypeOK /\ P!PoolOutlivesWork /\ P!RequestsNotCut /\ P!FailedStartClean
<1>1. P!LifeInit => LifeInv BY LifeInitially
<1>2. LifeInv /\ [P!LifeNext]_(P!lifeVars) => LifeInv'
  <2>1. ASSUME LifeInv, UNCHANGED P!lifeVars PROVE LifeInv'
    <3> USE <2>1 DEF P!lifeVars, LifeInv
    <3>1. LifeTyped' BY DEF LifeTyped
    <3>2. PoolFits' /\ Quiet' BY DEF PoolFits, Quiet, Disabled, P!Worker
    <3>3. Waited' /\ Uncut' BY DEF Waited, Uncut, P!BackgroundDone, P!RequestsNotCut
    <3> QED BY <3>1, <3>2, <3>3
  <2> QED BY <2>1, LifeStepKeeps
<1>3. LifeInv => Safe BY LifeSound
<1> HIDE DEF Safe
<1>4. LifeSpec => []Safe BY <1>1, <1>2, <1>3, PTL DEF LifeSpec
<1> QED BY <1>4 DEF Safe
-----------------------------------------------------------------------------
(***************************************************************************)
(* The parts side by side: a step of the composition is a step of one of   *)
(* them, which the others do not notice.                                   *)
(***************************************************************************)
LEMMA PlatformParts == Spec => BackfillSpec /\ MigrationsSpec /\ LifeSpec
<1> USE DEF Next, vars, BackfillStep, MaintenanceStep, MigrationStep, LifeStep, PictureStep, FileStep, SessionStep,
        Only
<1>1. Init => J!BackfillInit /\ P!MigrationsInit /\ P!LifeInit BY DEF Init
<1>2. [Next]_vars => [J!BackfillNext]_(J!backfillVars) BY DEF backfillVars, J!backfillVars
<1>3. [Next]_vars => [P!MigrationsNext]_(P!vars) BY DEF migrationVars, P!vars
<1>4. [Next]_vars => [P!LifeNext]_(P!lifeVars) BY DEF lifeVars, P!lifeVars
<1> HIDE DEF Next, vars, BackfillStep, MaintenanceStep, MigrationStep, LifeStep, PictureStep, FileStep,
        SessionStep, Only
<1> QED BY <1>1, <1>2, <1>3, <1>4, PTL DEF Spec, BackfillSpec, MigrationsSpec, LifeSpec

(* The ledger of an upload whose session is lost: a behaviour about lost   *)
(* sessions is one of the file service, whose theorem covers them.         *)
InSessions == part = "sessions"
LEMMA SessionsCorrect == Spec => [](InSessions => S!LedgerAgrees)
<1>1. S!FileStoreAssumption BY PlatformAssumption DEF S!FileStoreAssumption
<1>2. S!SessionSpec => []S!LedgerAgrees BY <1>1, S!LedgerCorrect
<1>3. Init => S!Init BY DEF Init, F!Init, S!Init, F!NoJob, S!NoJob
<1> USE DEF Next, vars, BackfillStep, MaintenanceStep, MigrationStep, LifeStep, PictureStep, FileStep, SessionStep,
        Only, InSessions
<1>4. InSessions /\ [Next]_vars => InSessions' /\ [S!SessionNext]_(S!vars) BY DEF fileVars, S!vars
<1>5. ~InSessions /\ [Next]_vars => ~InSessions' OBVIOUS
<1> HIDE DEF Next, vars, BackfillStep, MaintenanceStep, MigrationStep, LifeStep, PictureStep, FileStep,
        SessionStep, Only, InSessions
<1> QED BY <1>2, <1>3, <1>4, <1>5, PTL DEF Spec, S!SessionSpec

(* PlatformSound: the backfill binds what the rows said, a process stops   *)
(* in order, migrations take effect once, and lost sessions leave a ledger *)
(* that agrees, for any number of rows, workers, processes and requests.   *)
THEOREM PlatformSoundCorrect == Spec => []PlatformSound
<1> DEFINE all == /\ J!BackfillTypeOK /\ J!OwnContents /\ J!CompletedIsComplete
                  /\ P!LifeTypeOK /\ P!PoolOutlivesWork /\ P!RequestsNotCut /\ P!FailedStartClean
                  /\ P!MigrationsTypeOK /\ P!AppliedOnce /\ P!ServesOnReviewedSchema
                  /\ (InSessions => S!LedgerAgrees)
<1>1. all => PlatformSound BY DEF PlatformSound, InSessions
<1> QED BY <1>1, PlatformParts, BackfillCorrect, MigrationsCorrect, LifeCorrect, SessionsCorrect, PTL

(* FencedOff: whatever a worker had in hand when its lease passed to       *)
(* another, it changes no row, item or run any more.                       *)
THEOREM BackfillFenced == Spec => FencedOff
BY PlatformParts, BackfillCorrect, PTL DEF FencedOff
=============================================================================
