----------------------------- MODULE StorageOps -----------------------------
(***************************************************************************)
(* storageops and cmd/storage: the read-only commands plan and verify. A   *)
(* manifest is a file of the operator's, or a snapshot that four SELECTs   *)
(* of one REPEATABLE READ transaction put together while the application   *)
(* goes on; it is validated, and verify then reads every active object     *)
(* back from the store. An object is named by its digest; its row, and a   *)
(* manifest's, may name it wrongly.                                        *)
(***************************************************************************)
EXTENDS Naturals, Sequences, FiniteSets, SequencesExt

CONSTANTS Digests,            \* naturals, which also order the objects
          Resources,          \* naturals: attachments, avatars and emotes
          Manifests,          \* manifests an operator may hand in
          Size,               \* the size of every object
          MaxTotal,           \* maxInt64, scaled down
          MaxChanges

VARIABLES row,                \* workspace_storage_objects: "none", "active", "deleted"
          bound,              \* per resource: the digest it refers to, or 0
          schema,             \* schema_migrations
          bytes,              \* per digest: "good", "damaged", "missing"
          auditRun,                \* the command
          changes, damaged    \* what happened beside it; ghost: bytes were damaged

auditVars == <<row, bound, schema, bytes, auditRun, changes, damaged>>

Expected == <<"025", "026">>
Healthy == [owner |-> "node", expected |-> Expected, applied |-> Expected, quotas |-> <<>>, resources |-> <<>>, objects |-> <<>>]
NoReport == [status |-> "none", scanned |-> 0, skipped |-> 0, verified |-> 0, failures |-> 0]
NoAudit == [pc |-> "new", command |-> "none", view |-> [row |-> <<>>, bound |-> <<>>, schema |-> <<>>], live |-> FALSE,
          manifest |-> Healthy, since |-> 0, next |-> 1, report |-> NoReport, hashed |-> {}]
Over == {"answered", "refused"}

(* The shape of every variable.                                            *)
AuditTypeOK ==
  /\ row \in [Digests -> {"none", "active", "deleted"}] /\ bound \in [Resources -> Digests \union {0}]
  /\ bytes \in [Digests -> {"good", "damaged", "missing"}] /\ changes \in 0..MaxChanges /\ damaged \in BOOLEAN
  /\ auditRun.pc \in {"new", "applied", "objects", "resources", "validate", "store", "verify", "body", "end"} \union Over
  /\ auditRun.report.status \in {"none", "ready", "blocked", "verified", "failed", "interrupted"}

AuditInit ==
  /\ row = [d \in Digests |-> IF d = 1 THEN "active" ELSE "none"]
  /\ bound = [r \in Resources |-> IF r = 1 THEN 1 ELSE 0] /\ schema = Expected
  /\ bytes = [d \in Digests |-> IF d = 1 THEN "good" ELSE "missing"]
  /\ auditRun = NoAudit /\ changes = 0 /\ damaged = FALSE
-----------------------------------------------------------------------------
(* The application, each change one transaction (modules FileStore,        *)
(* MediaObjects); a migration of a newer release; decay.                   *)
Change == changes < MaxChanges /\ changes' = changes + 1
Bind(r, d) ==
  /\ Change /\ bound[r] # d /\ bound' = [bound EXCEPT ![r] = d] /\ row' = [row EXCEPT ![d] = "active"]
  /\ bytes' = [bytes EXCEPT ![d] = "good"] /\ UNCHANGED <<schema, auditRun, damaged>>
Unbind(r) ==
  /\ Change /\ bound[r] # 0 /\ bound' = [bound EXCEPT ![r] = 0]
  /\ UNCHANGED <<row, schema, bytes, auditRun, damaged>>
Tombstone(d) ==
  /\ Change /\ row[d] = "active" /\ \A r \in Resources : bound[r] # d
  /\ row' = [row EXCEPT ![d] = "deleted"] /\ bytes' = [bytes EXCEPT ![d] = "missing"]
  /\ UNCHANGED <<bound, schema, auditRun, damaged>>
Migrate ==
  /\ Change /\ schema = Expected /\ schema' = Append(schema, "027")
  /\ UNCHANGED <<row, bound, bytes, auditRun, damaged>>
Damage(d) ==
  /\ Change /\ bytes[d] = "good" /\ bytes' = [bytes EXCEPT ![d] = "damaged"] /\ damaged' = TRUE
  /\ UNCHANGED <<row, bound, schema, auditRun>>
-----------------------------------------------------------------------------
Db == [row |-> row, bound |-> bound, schema |-> schema]
Goes(next) == auditRun' = [auditRun EXCEPT !.pc = next]
BesideAudit == UNCHANGED <<row, bound, schema, bytes, changes, damaged>>
OneSnapshot == auditRun.view

runCommand(command) == /\ auditRun = NoAudit /\ BesideAudit
LoadManifest(command, m) ==
  /\ runCommand(command) /\ auditRun' = [NoAudit EXCEPT !.pc = "validate", !.command = command, !.manifest = m, !.since = changes]
BeginSnapshot(command) ==
  /\ runCommand(command)
  /\ auditRun' = [NoAudit EXCEPT !.pc = "applied", !.command = command, !.view = Db, !.live = TRUE, !.since = changes]
(* Names that no release knows refuse the snapshot.                        *)
readAppliedMigrations ==
  /\ auditRun.pc = "applied" /\ BesideAudit /\ auditRun' = [auditRun EXCEPT !.pc = "objects", !.manifest.applied = OneSnapshot.schema]
References(view, d) == {r \in Resources : view.bound[r] = d}
readCanonicalObjects ==
  LET view == OneSnapshot
      ids == SetToSortSeq({d \in Digests : view.row[d] # "none"}, <)
  IN /\ auditRun.pc = "objects" /\ BesideAudit
     /\ auditRun' = [auditRun EXCEPT !.pc = "resources", !.manifest.objects = [i \in 1..Len(ids) |->
          [id |-> ids[i], digest |-> ids[i], key |-> ids[i], size |-> Size,
           refs |-> Cardinality(References(view, ids[i])), deleted |-> view.row[ids[i]] = "deleted"]]]
readBusinessReferences ==
  LET view == OneSnapshot
      ids == SetToSortSeq({r \in Resources : view.bound[r] # 0}, <)
  IN /\ auditRun.pc = "resources" /\ BesideAudit
     /\ auditRun' = [auditRun EXCEPT !.pc = "validate",
          !.manifest.resources = [i \in 1..Len(ids) |-> [id |-> ids[i], object |-> view.bound[ids[i]], size |-> Size]]]
-----------------------------------------------------------------------------
Repeats(s, i, Key(_)) == \E j \in 1..(i - 1) : Key(s[j]) = Key(s[i])
validateMigrationSet(m) ==
  LET Self(x) == x
      dup(s) == \E i \in DOMAIN s : Repeats(s, i, Self)
      sound == /\ "025" \in Range(m.expected) /\ "025" \in Range(m.applied)
               /\ ~dup(m.expected) /\ ~dup(m.applied) /\ Range(m.expected) = Range(m.applied)
  IN IF sound THEN {} ELSE {"schema"}
ownerIssues(m) == IF m.owner = "node" THEN {} ELSE {"owner"}
quotaIssues(m) ==
  LET Of(q) == q.subject IN
  UNION {LET q == m.quotas[i] IN
           (IF q.used > q.limit \/ q.reserved > q.limit - q.used THEN {"over_limit"} ELSE {})
           \union (IF Repeats(m.quotas, i, Of) THEN {"duplicate_snapshot"} ELSE {}) : i \in DOMAIN m.quotas}
casIssues(m) ==
  LET Id(o) == o.id Digest(o) == o.digest Key(o) == o.key IN
  UNION {LET o == m.objects[i] IN
           (IF o.id # o.digest THEN {"object_id_digest_mismatch"} ELSE {})
           \union (IF o.key # o.digest THEN {"object_key_digest_mismatch"} ELSE {})
           \union (IF Repeats(m.objects, i, Id) THEN {"object_id_duplicate"} ELSE {})
           \union (IF Repeats(m.objects, i, Digest) THEN {"digest_duplicate"} ELSE {})
           \union (IF Repeats(m.objects, i, Key) THEN {"object_key_duplicate"} ELSE {}) : i \in DOMAIN m.objects}
(* objectsByID keeps the last object of an id.                             *)
objectsByID(m, id) == m.objects[CHOOSE i \in DOMAIN m.objects :
                        m.objects[i].id = id /\ \A j \in (i + 1)..Len(m.objects) : m.objects[j].id # id]
Known(m) == {m.objects[i].id : i \in DOMAIN m.objects}
refIssues(m) ==
  LET Of(r) == r.id IN
  UNION {LET r == m.resources[i] IN
           (IF Repeats(m.resources, i, Of) THEN {"resource_duplicate"} ELSE {})
           \union (IF r.object = 0 THEN {"object_missing"}
                   ELSE IF r.object \notin Known(m) THEN {"object_unknown"}
                   ELSE IF r.size # objectsByID(m, r.object).size THEN {"byte_size_mismatch"} ELSE {})
         : i \in DOMAIN m.resources}
refsByObject(m, id) == Cardinality({i \in DOMAIN m.resources : m.resources[i].object = id})
countIssues(m) ==
  UNION {LET o == m.objects[i] actual == refsByObject(m, o.id) IN
           (IF actual # o.refs THEN {"count_mismatch"} ELSE {})
           \union (IF o.deleted /\ actual # 0 THEN {"deleted_object_referenced"} ELSE {})
           \union (IF ~o.deleted /\ actual = 0 THEN {"unreferenced_active_object"} ELSE {}) : i \in DOMAIN m.objects}
BoundedSum(sizes) == FoldLeft(LAMBDA acc, s : IF acc > MaxTotal - s THEN acc ELSE acc + s, 0, sizes)
FullSum(sizes) == FoldLeft(LAMBDA a, b : a + b, 0, sizes)
Overflows(sizes) == IF BoundedSum(sizes) = FullSum(sizes) THEN {} ELSE {"bytes_overflow"}
Sizes(s) == [i \in DOMAIN s |-> s[i].size]
Active(m) == SelectSeq(m.objects, LAMBDA o : ~o.deleted)
ValidateManifest(m) ==
  validateMigrationSet(m) \union ownerIssues(m) \union quotaIssues(m) \union casIssues(m) \union refIssues(m)
  \union countIssues(m) \union Overflows(Sizes(m.resources)) \union Overflows(Sizes(Active(m)))

sortedObjects(m) == SortSeq(m.objects, LAMBDA a, b : a.id < b.id)
BuildPlan ==
  /\ auditRun.pc = "validate" /\ auditRun.command = "plan" /\ BesideAudit
  /\ auditRun' = [auditRun EXCEPT !.pc = "answered",
     !.report.status = IF ValidateManifest(auditRun.manifest) = {} THEN "ready" ELSE "blocked"]
VerifyBegins ==
  /\ auditRun.pc = "validate" /\ auditRun.command = "verify" /\ BesideAudit
  /\ auditRun' = IF ValidateManifest(auditRun.manifest) = {} THEN [auditRun EXCEPT !.pc = "store"]
            ELSE [auditRun EXCEPT !.pc = "answered", !.report.status = "blocked"]
OpenReadOnlyStore == auditRun.pc = "store" /\ BesideAudit /\ (Goes("verify") \/ Goes("refused"))
-----------------------------------------------------------------------------
Current == sortedObjects(auditRun.manifest)[auditRun.next]
InRange == auditRun.next <= Len(auditRun.manifest.objects)
Tombstoned == Current.deleted
SkipDeleted ==
  /\ auditRun.pc = "verify" /\ InRange /\ Tombstoned /\ BesideAudit
  /\ auditRun' = [auditRun EXCEPT !.next = @ + 1, !.report.skipped = @ + 1]
AuditFails == [auditRun EXCEPT !.pc = "verify", !.next = @ + 1, !.report.failures = @ + 1]
(* The local store hashes the file when it opens it; the body is hashed    *)
(* once more as it is read.                                                *)
Open ==
  /\ auditRun.pc = "verify" /\ InRange /\ ~Tombstoned /\ BesideAudit
  /\ LET counted == [auditRun EXCEPT !.report.scanned = @ + 1]
     IN auditRun' = IF bytes[Current.digest] = "good" THEN [counted EXCEPT !.pc = "body"]
               ELSE [AuditFails EXCEPT !.report.scanned = auditRun.report.scanned + 1]
hashBounded == bytes[Current.digest] # "damaged"
VerifyBody ==
  /\ auditRun.pc = "body" /\ BesideAudit
  /\ auditRun' = IF hashBounded THEN [auditRun EXCEPT !.pc = "verify", !.next = @ + 1, !.report.verified = @ + 1,
                                            !.hashed = IF bytes[Current.digest] = "damaged" THEN @ ELSE @ \union {Current.digest}]
            ELSE AuditFails
(* The deadline or a signal.                                               *)
Interrupts(r) == [r EXCEPT !.status = "interrupted"]
Interrupted ==
  /\ auditRun.pc \in {"verify", "body"} /\ BesideAudit /\ auditRun' = [auditRun EXCEPT !.pc = "answered", !.report = Interrupts(@)]
Verify ==
  /\ auditRun.pc = "verify" /\ ~InRange /\ BesideAudit
  /\ auditRun' = [auditRun EXCEPT !.pc = "answered", !.report.status = IF auditRun.report.failures > 0 THEN "failed" ELSE "verified"]
SnapshotFails == auditRun.pc \in {"applied", "objects", "resources"} /\ BesideAudit /\ Goes("refused")
-----------------------------------------------------------------------------
AuditNext ==
  \/ \E d \in Digests : Tombstone(d) \/ Damage(d) \/ \E r \in Resources : Bind(r, d)
  \/ Migrate \/ \E r \in Resources : Unbind(r)
  \/ \E command \in {"plan", "verify"} : BeginSnapshot(command) \/ \E m \in Manifests : LoadManifest(command, m)
  \/ readAppliedMigrations \/ readCanonicalObjects \/ readBusinessReferences \/ SnapshotFails
  \/ BuildPlan \/ VerifyBegins \/ OpenReadOnlyStore
  \/ SkipDeleted \/ Open \/ VerifyBody \/ Interrupted \/ Verify
-----------------------------------------------------------------------------
(* A snapshot of a live database is of one moment: the counts one SELECT   *)
(* makes agree with the rows another returns, whatever commits between.    *)
SnapshotConsistent ==
  auditRun.live /\ auditRun.pc \notin {"new", "applied", "objects", "resources", "refused"} =>
    refIssues(auditRun.manifest) = {} /\ casIssues(auditRun.manifest) = {}
    /\ countIssues(auditRun.manifest) \subseteq {"unreferenced_active_object"}

(* A manifest found ready is a bijection of ids, digests and keys, and     *)
(* what every resource refers to is one active object of its size, each    *)
(* active object being referred to; its totals are true sums.              *)
ManifestSound ==
  auditRun.report.status \in {"ready", "verified", "failed", "interrupted"} =>
    LET m == auditRun.manifest objs == Range(m.objects) IN
    /\ \A o, p \in objs : (o.id = p.id \/ o.digest = p.digest \/ o.key = p.key) => o = p
    /\ Cardinality(objs) = Len(m.objects)
    /\ \A r \in Range(m.resources) : \E o \in objs : o.id = r.object /\ ~o.deleted /\ o.size = r.size
    /\ \A o \in objs : ~o.deleted => \E r \in Range(m.resources) : r.object = o.id
    /\ FullSum(Sizes(m.resources)) <= MaxTotal

(* Nothing is reported verified that was not read back whole: every active *)
(* object of the manifest, and none of a run that was cut short.           *)
VerifiedWhole ==
  auditRun.report.status = "verified" =>
    /\ LET objects == auditRun.manifest.objects IN
       {objects[i].digest : i \in {j \in DOMAIN objects : ~objects[j].deleted}} \subseteq auditRun.hashed
    /\ auditRun.report.verified + auditRun.report.skipped = Len(auditRun.manifest.objects)

(* A failure is never the tool's own doing: bytes were damaged, or what    *)
(* the manifest listed changed after it was made, or an operator's file    *)
(* did not describe this database.                                         *)
FailureHasCause ==
  auditRun.report.status = "failed" /\ auditRun.live => damaged \/ changes # auditRun.since
-----------------------------------------------------------------------------
(***************************************************************************)
(* cmd/storage provision: the bucket configuration one operator plans or   *)
(* applies, call by call, while the provider may refuse or lose a call,    *)
(* other operators run the same command and an administrator edits the     *)
(* bucket by hand. A policy is a sequence of statements; the principal of  *)
(* a statement, however nested, is the set of names found in it.           *)
(***************************************************************************)

CONSTANTS Operators, Policies, MaxEdits, MaxFaults

VARIABLES bucket,             \* [policy, versioning, cors, lifecycle]
          offers,             \* what the provider implements: a subset of {"cors", "lifecycle"}
          canaries,           \* multipart uploads left on the bucket, by operator
          provisionRun,                \* per operator; since, wrote, doubt and checked are ghosts
          edits, faults

provisionVars == <<bucket, offers, canaries, provisionRun, edits, faults>>

NoProvision == [pc |-> "new", apply |-> FALSE, checked |-> <<>>, corsMode |-> "", cleanup |-> "", actions |-> <<>>,
          wrote |-> {}, doubt |-> {}, since |-> 0, status |-> "", code |-> "", cancelled |-> FALSE]
Settings == {"versioning", "cors", "lifecycle"}
Outcomes == {"unchanged", "would_configure", "fallback", "configured"}

(* The shape of every variable.                                            *)
ProvisionTypeOK ==
  /\ bucket.policy \in Policies /\ bucket.versioning \in {"off", "on"} /\ offers \subseteq {"cors", "lifecycle"}
  /\ bucket.cors \in {"none", "other", "desired"} /\ bucket.lifecycle \in {"none", "other", "desired"}
  /\ canaries \subseteq Operators /\ edits \in 0..MaxEdits /\ faults \in 0..MaxFaults
  /\ \A o \in Operators : /\ provisionRun[o].status \in {"", "planned", "completed", "partial"} /\ provisionRun[o].wrote \subseteq Settings
                          /\ \A i \in DOMAIN provisionRun[o].actions :
                                provisionRun[o].actions[i] \in [name : Settings, outcome : Outcomes]

ProvisionInit ==
  /\ bucket \in [policy : Policies, versioning : {"off"}, cors : {"none", "other"}, lifecycle : {"none"}]
  /\ offers \in SUBSET {"cors", "lifecycle"} /\ canaries = {}
  /\ provisionRun = [o \in Operators |-> NoProvision] /\ edits = 0 /\ faults = 0
-----------------------------------------------------------------------------
(* The administrator: any setting, or the policy.                          *)
Edit ==
  /\ edits < MaxEdits /\ edits' = edits + 1
  /\ \/ \E p \in Policies : bucket' = [bucket EXCEPT !.policy = p]
     \/ bucket' = [bucket EXCEPT !.versioning = "off"]
     \/ "cors" \in offers /\ bucket' = [bucket EXCEPT !.cors = "other"]
     \/ "lifecycle" \in offers /\ bucket' = [bucket EXCEPT !.lifecycle = "other"]
  /\ UNCHANGED <<offers, canaries, provisionRun, faults>>
-----------------------------------------------------------------------------
s3PolicyPrincipalIsPublic(principal) == "*" \in principal
LetsAnyoneIn(s) == s.notPrincipal \/ s3PolicyPrincipalIsPublic(s.principal)
(* The statements are read in order; the first that decides does.          *)
s3PolicyIsPublic(policy) ==
  LET decides == {i \in DOMAIN policy : policy[i].effect \notin {"Allow", "Deny"}
                                         \/ (policy[i].effect = "Allow" /\ LetsAnyoneIn(policy[i]))}
  IN IF decides = {} THEN "private"
     ELSE IF policy[CHOOSE i \in decides : \A j \in decides : i <= j].effect = "Allow" THEN "public" ELSE "invalid"

NoCall == UNCHANGED <<bucket, canaries, faults>>
Beside == UNCHANGED <<offers, edits>>
Fails(o, code) == [provisionRun EXCEPT ![o].pc = "over", ![o].status = "partial", ![o].code = code]
Does(o, name, outcome) == Append(provisionRun[o].actions, [name |-> name, outcome |-> outcome])

(* Flags, credentials and the configuration are in order.                  *)
runProvision(o, apply) ==
  /\ provisionRun[o].pc = "new" /\ provisionRun' = [provisionRun EXCEPT ![o].pc = "head", ![o].apply = apply] /\ NoCall /\ Beside
headS3Bucket(o) ==
  /\ provisionRun[o].pc = "head" /\ provisionRun' = [provisionRun EXCEPT ![o].pc = "policy"] /\ NoCall /\ Beside
verifyPrivateS3Policy(o) ==
  /\ provisionRun[o].pc \in {"policy", "final"} /\ NoCall /\ Beside
  /\ LET verdict == s3PolicyIsPublic(bucket.policy)
         next == IF provisionRun[o].apply THEN "putVersioning" ELSE "planVersioning"
     IN provisionRun' = CASE verdict # "private" -> Fails(o, verdict)
                 [] verdict = "private" /\ provisionRun[o].pc = "policy" ->
                        [provisionRun EXCEPT ![o].pc = next, ![o].checked = bucket.policy]
                 [] OTHER -> [provisionRun EXCEPT ![o].pc = "over", ![o].status = "completed"]
-----------------------------------------------------------------------------
Inspect(o, name, next, outcome) ==
  provisionRun' = [provisionRun EXCEPT ![o].pc = next, ![o].actions = Does(o, name, outcome)]
planS3Provision(o) ==
  /\ provisionRun[o].pc = "planVersioning" /\ NoCall /\ Beside
  /\ Inspect(o, "versioning", "planCors", IF bucket.versioning = "on" THEN "unchanged" ELSE "would_configure")
inspectS3Cors(o) ==
  /\ provisionRun[o].pc = "planCors" /\ NoCall /\ Beside
  /\ Inspect(o, "cors", "planLifecycle", IF "cors" \notin offers THEN "fallback"
                                         ELSE IF bucket.cors = "desired" THEN "unchanged" ELSE "would_configure")
inspectS3Lifecycle(o) ==
  /\ provisionRun[o].pc = "planLifecycle" /\ NoCall /\ Beside
  /\ provisionRun' = [provisionRun EXCEPT ![o].pc = "over", ![o].status = "planned",
               ![o].actions = Does(o, "lifecycle", IF "lifecycle" \notin offers THEN "fallback"
                                                   ELSE IF bucket.lifecycle = "desired" THEN "unchanged" ELSE "would_configure")]
-----------------------------------------------------------------------------
Put(o, name, next, value) ==
  /\ bucket' = [bucket EXCEPT ![name] = value] /\ UNCHANGED <<canaries, faults>> /\ Beside
  /\ provisionRun' = [provisionRun EXCEPT ![o].pc = next, ![o].actions = Does(o, name, "configured"), ![o].wrote = @ \union {name},
               ![o].corsMode = IF name = "cors" THEN "bucket" ELSE @, ![o].cleanup = IF name = "lifecycle" THEN "bucket" ELSE @]
PutVersioning(o) == provisionRun[o].pc = "putVersioning" /\ Put(o, "versioning", "putCors", "on")
PutCors(o) ==
  /\ provisionRun[o].pc = "putCors"
  /\ \/ "cors" \in offers /\ Put(o, "cors", "putLifecycle", "desired")
     \/ /\ "cors" \notin offers /\ NoCall /\ Beside
        /\ provisionRun' = [provisionRun EXCEPT ![o].pc = "putLifecycle", ![o].corsMode = "gateway",
             ![o].actions = Does(o, "cors", "fallback")]
PutLifecycle(o) ==
  /\ provisionRun[o].pc = "putLifecycle"
  /\ \/ "lifecycle" \in offers /\ Put(o, "lifecycle", "getVersioning", "desired")
     \/ /\ "lifecycle" \notin offers /\ NoCall /\ Beside
        /\ provisionRun' = [provisionRun EXCEPT ![o].pc = "getVersioning", ![o].cleanup = "application",
             ![o].actions = Does(o, "lifecycle", "fallback")]
(* What was written is read back; in a fallback mode there is nothing to   *)
(* read, and access to multipart uploads is tried instead of the rule.     *)
ReadBack(o) ==
  CASE provisionRun[o].pc = "getVersioning" -> bucket.versioning = "on"
    [] provisionRun[o].pc = "getCors" -> provisionRun[o].corsMode # "bucket" \/ bucket.cors = "desired"
    [] OTHER -> provisionRun[o].cleanup # "bucket" \/ bucket.lifecycle = "desired"
verifyS3ProvisionResult(o) ==
  /\ provisionRun[o].pc \in {"getVersioning", "getCors", "getLifecycle"} /\ NoCall /\ Beside
  /\ LET since == IF provisionRun[o].pc = "getVersioning" THEN edits ELSE provisionRun[o].since
         next == CASE provisionRun[o].pc = "getVersioning" -> "getCors" [] provisionRun[o].pc = "getCors" -> "getLifecycle"
                   [] OTHER -> IF provisionRun[o].cleanup = "application" THEN "canary" ELSE "final"
     IN provisionRun' = IF ReadBack(o) THEN [provisionRun EXCEPT ![o].pc = next, ![o].since = since] ELSE Fails(o, "unverified")
CreateCanary(o) ==
  /\ provisionRun[o].pc = "canary" /\ canaries' = canaries \union {o} /\ provisionRun' = [provisionRun EXCEPT ![o].pc = "list"]
  /\ UNCHANGED <<bucket, faults>> /\ Beside
ListUploads(o) ==
  /\ provisionRun[o].pc = "list" /\ provisionRun' = [provisionRun EXCEPT ![o].pc = "abort"] /\ NoCall /\ Beside
(* The deferred abort has a context of its own.                            *)
AbortRuns(o) == TRUE
AbortCanary(o) ==
  /\ provisionRun[o].pc = "abort" /\ UNCHANGED <<bucket, faults>> /\ Beside
  /\ canaries' = IF AbortRuns(o) THEN canaries \ {o} ELSE canaries
  /\ provisionRun' = IF provisionRun[o].code = "" THEN [provisionRun EXCEPT ![o].pc = "final"] ELSE Fails(o, provisionRun[o].code)
-----------------------------------------------------------------------------
(* A call fails, or (a write) is applied while its answer is lost; a       *)
(* signal or the deadline fails the call under way just the same.          *)
Calls == {"head", "policy", "final", "planVersioning", "planCors", "planLifecycle", "putVersioning", "putCors", "putLifecycle",
          "getVersioning", "getCors", "getLifecycle", "canary"}
CallFails(o) ==
  /\ provisionRun[o].pc \in Calls /\ faults < MaxFaults /\ faults' = faults + 1
  /\ provisionRun' = Fails(o, "call_failed") /\ UNCHANGED <<bucket, canaries>> /\ Beside
AnswerLost(o) ==
  /\ faults < MaxFaults /\ faults' = faults + 1 /\ Beside
  /\ \/ \E name \in Settings, pc \in {"putVersioning", "putCors", "putLifecycle"} :
          /\ provisionRun[o].pc = pc
          /\ <<pc, name>> \in {<<"putVersioning", "versioning">>, <<"putCors", "cors">>,
                               <<"putLifecycle", "lifecycle">>}
          /\ name \in offers \union {"versioning"}
          /\ bucket' = [bucket EXCEPT ![name] = IF name = "versioning" THEN "on" ELSE "desired"]
          /\ provisionRun' = [Fails(o, "call_failed") EXCEPT ![o].wrote = @ \union {name}, ![o].doubt = {name}]
          /\ UNCHANGED canaries
     \/ /\ provisionRun[o].pc = "canary" /\ canaries' = canaries \union {o} /\ UNCHANGED bucket
        /\ provisionRun' = [Fails(o, "call_failed") EXCEPT ![o].doubt = {"canary"}]
ListFails(o) ==
  /\ provisionRun[o].pc = "list" /\ faults < MaxFaults /\ faults' = faults + 1
  /\ \E stopped \in BOOLEAN : provisionRun' = [provisionRun EXCEPT ![o].pc = "abort", ![o].code = "call_failed", ![o].cancelled = stopped]
  /\ UNCHANGED <<bucket, canaries>> /\ Beside
AbortFails(o) ==
  /\ provisionRun[o].pc = "abort" /\ faults < MaxFaults /\ faults' = faults + 1
  /\ provisionRun' = Fails(o, "cleanup_failed") /\ UNCHANGED <<bucket, canaries>> /\ Beside
-----------------------------------------------------------------------------
ProvisionNext ==
  \/ Edit
  \/ \E o \in Operators :
       \/ \E apply \in BOOLEAN : runProvision(o, apply)
       \/ headS3Bucket(o) \/ verifyPrivateS3Policy(o) \/ planS3Provision(o) \/ inspectS3Cors(o) \/ inspectS3Lifecycle(o)
       \/ PutVersioning(o) \/ PutCors(o) \/ PutLifecycle(o) \/ verifyS3ProvisionResult(o)
       \/ CreateCanary(o) \/ ListUploads(o) \/ AbortCanary(o)
       \/ CallFails(o) \/ AnswerLost(o) \/ ListFails(o) \/ AbortFails(o)
-----------------------------------------------------------------------------
(* A policy that admits whoever asks: an Allow that names no one it        *)
(* excludes from "*", or that is given by exclusion.                       *)
Anonymous(policy) == \E i \in DOMAIN policy : policy[i].effect = "Allow" /\ (policy[i].notPrincipal \/ "*" \in policy[i].principal)

(* Nothing is written to a bucket that was open to the public, in whatever *)
(* statement, when the command looked.                                     *)
PublicUntouched == \A o \in Operators : provisionRun[o].wrote # {} => ~Anonymous(provisionRun[o].checked)

(* A completed run means what it says, though other operators applied the  *)
(* same configuration at the same time: every setting the provider has is  *)
(* the wanted one and the policy is private, unless an administrator has   *)
(* changed the bucket after the command began to read its writes back.     *)
CompletedConfigured ==
  \A o \in Operators : provisionRun[o].status = "completed" /\ provisionRun[o].since = edits =>
    /\ bucket.versioning = "on" /\ ~Anonymous(bucket.policy)
    /\ "cors" \in offers => bucket.cors = "desired"
    /\ "lifecycle" \in offers => bucket.lifecycle = "desired"

(* A partial report accounts for every change made: what was written is    *)
(* among its actions, but for the one whose answer was lost.               *)
PartialTold ==
  \A o \in Operators :
    LET actions == provisionRun[o].actions IN
    provisionRun[o].wrote \subseteq
      {actions[i].name : i \in {j \in DOMAIN actions : actions[j].outcome = "configured"}} \union provisionRun[o].doubt

(* The trial upload does not outlive its run, also when the run is stopped *)
(* while it lists; it is left only where the failure was told as such or   *)
(* the answer to its creation was lost.                                    *)
CanaryCleaned ==
  \A o \in Operators : o \in canaries /\ provisionRun[o].pc = "over" =>
    provisionRun[o].code = "cleanup_failed" \/ "canary" \in provisionRun[o].doubt
=============================================================================
