------------------------------- MODULE MCMedia -------------------------------
(***************************************************************************)
(* Emote libraries as several tabs use them and as subscriptions follow    *)
(* them, the objects under emotes and avatars, the hybrid object store and *)
(* its verified reader, the audit of the stored bytes, the provisioning of *)
(* the bucket, and the daily transfer quota.  part says which of them a    *)
(* behaviour is about; the others stand still.                             *)
(***************************************************************************)
EXTENDS Naturals, FiniteSets, Sequences, FiniteSetTheorems, TLAPS

CONSTANTS Pics, MaxRows, MaxRevision, MaxSent, MaxEdits, Limit,
          People, Requests, NoPic, NoUser, MaxMishaps,
          BlobCalls, MaxBlobMishaps, MaxOps, Readers, Closers, ExpectedLength,
          Tabs, Builtins, MaxLibraryRows, MaxEntries, Packs, DefaultPacks, Absent,
          Digests, AuditResources, Size, MaxTotal, MaxAuditChanges,
          Operators, MaxPolicyEdits, MaxAnswersLost,
          Transfers, Downloads, FileSizes, Quota, DayLength, GrantTTL, StaleAge, MaxTime

(* The absent picture and user are none, people are finitely many, there   *)
(* is room for an emote, a stored object is not empty, and a call of Read  *)
(* is none of Close.                                                       *)
ASSUME MediaAssumption ==
  /\ NoPic \notin Pics /\ NoUser \notin People /\ IsFiniteSet(People)
  /\ {MaxMishaps, MaxPolicyEdits, MaxAnswersLost} \subseteq Nat
  /\ {MaxRows, ExpectedLength} \subseteq Nat \ {0} /\ Readers \cap Closers = {}

VARIABLES part,
          db, tx, visit,
          blob, object, emote, avatar, req, mishaps,
          flags, s3, local, temps, call, promise, blobMishaps, ops,
          body, count, terminal, closed, closeOnce, thread, told,
          tabsEmote, colls, entry, next, held, tabsReq, stored, chosen, visible, restarts, read,
          row, bound, schema, bytes, auditRun, changes, damaged,
          bucket, offers, canaries, provisionRun, edits, faults,
          ledger, download, now, delivered

(* Choices of packs and filters, one of them refused.                      *)
Patch(packs, click, types) == [packs |-> packs, click |-> click, types |-> types]
Patches == {Patch({"a", "b"}, {Absent}, {Absent}), Patch({"b"}, {Absent}, {"image"}),
            Patch({Absent}, {"on"}, {Absent}), Patch({Absent}, {Absent}, {"bad"})}

(* Manifests the audit may be given: of a system as it is, or edited.      *)
ObjectRow(i, d, n, gone) == [id |-> i, digest |-> d, key |-> i, size |-> 2, refs |-> n, deleted |-> gone]
ResourceRow(i, o, size) == [id |-> i, object |-> o, size |-> size]
ObjectRows == {ObjectRow(1, 1, 1, FALSE), ObjectRow(1, 1, 1, TRUE), ObjectRow(1, 2, 1, FALSE),
               ObjectRow(2, 2, 0, TRUE), ObjectRow(2, 2, 1, FALSE)}
ResourceRows == {ResourceRow(1, 1, 2), ResourceRow(1, 1, 1), ResourceRow(2, 2, 2), ResourceRow(2, 0, 2)}
AtMostOne(S) == {<<>>} \cup {<<a>> : a \in S}
Sound == [owner |-> "node", expected |-> <<"025", "026">>, applied |-> <<"025", "026">>,
          quotas |-> <<>>, resources |-> <<>>, objects |-> <<>>]
Manifests ==
  {[Sound EXCEPT !.objects = o, !.resources = r] :
     o \in AtMostOne(ObjectRows), r \in AtMostOne(ResourceRows)} \cup
  {[Sound EXCEPT !.objects = <<ObjectRow(1, 1, 1, FALSE), o>>, !.resources = <<ResourceRow(1, 1, 2), r>>] :
     o \in ObjectRows, r \in ResourceRows} \cup
  {[Sound EXCEPT !.owner = "go"], [Sound EXCEPT !.applied = <<"025">>],
   [Sound EXCEPT !.quotas = <<[subject |-> 1, limit |-> 2, used |-> 1, reserved |-> 2]>>],
   [Sound EXCEPT !.objects = <<ObjectRow(2, 2, 3, FALSE)>>,
                 !.resources = <<ResourceRow(1, 2, 2), ResourceRow(2, 2, 2), ResourceRow(3, 2, 2)>>]}

Statement(effect, principal, others) == [effect |-> effect, principal |-> principal, notPrincipal |-> others]
Policies == {<<>>, <<Statement("Deny", {"*"}, FALSE), Statement("Allow", {"app"}, FALSE)>>,
             <<Statement("Allow", {"app"}, FALSE), Statement("Allow", {}, TRUE)>>,
             <<Statement("Audit", {}, FALSE), Statement("Allow", {"*"}, FALSE)>>}

E == INSTANCE Emotes
O == INSTANCE MediaObjects WITH Users <- People
B == INSTANCE BlobStore WITH Calls <- BlobCalls, Expected <- ExpectedLength,
       mishaps <- blobMishaps, MaxMishaps <- MaxBlobMishaps
L == INSTANCE EmoteLibrary WITH
       Requests <- Tabs, Keys <- Builtins, MaxRows <- MaxLibraryRows,
       emote <- tabsEmote, req <- tabsReq
A == INSTANCE StorageOps WITH
       Resources <- AuditResources, MaxChanges <- MaxAuditChanges,
       MaxEdits <- MaxPolicyEdits, MaxFaults <- MaxAnswersLost
Q == INSTANCE TransferQuota WITH Requests <- Downloads, Sizes <- FileSizes, req <- download

emoteVars == <<db, tx, visit>>
objectVars == <<blob, object, emote, avatar, req, mishaps>>
storeVars == <<flags, s3, local, temps, call, promise, blobMishaps, ops>>
readerVars == <<body, count, terminal, closed, closeOnce, thread, told>>
tabsVars == <<tabsEmote, colls, entry, next, held, tabsReq, stored, chosen, visible, restarts, read>>
auditVars == <<row, bound, schema, bytes, auditRun, changes, damaged>>
provisionVars == <<bucket, offers, canaries, provisionRun, edits, faults>>
quotaVars == <<ledger, download, now, delivered>>
vars == <<part, emoteVars, objectVars, storeVars, readerVars, tabsVars, auditVars, provisionVars,
          quotaVars>>

Init == /\ part \in {"library", "objects", "store", "reader", "tabs", "audit", "provision", "quota"}
        /\ E!Init /\ O!Init /\ B!BlobInit /\ B!ReaderInit /\ L!EmoteLibraryInit
        /\ A!AuditInit /\ A!ProvisionInit /\ Q!Init
        /\ part # "tabs" => Cardinality(entry) = 2
        /\ part # "provision" => bucket.policy = <<>> /\ bucket.cors = "none" /\ offers = {}

(* A step of part p: the other parts stand still.                          *)
Only(p) ==
  /\ part = p /\ UNCHANGED part
  /\ IF p = "library" THEN TRUE ELSE UNCHANGED emoteVars
  /\ IF p = "objects" THEN TRUE ELSE UNCHANGED objectVars
  /\ IF p = "store" THEN TRUE ELSE UNCHANGED storeVars
  /\ IF p = "reader" THEN TRUE ELSE UNCHANGED readerVars
  /\ IF p = "tabs" THEN TRUE ELSE UNCHANGED tabsVars
  /\ IF p = "audit" THEN TRUE ELSE UNCHANGED auditVars
  /\ IF p = "provision" THEN TRUE ELSE UNCHANGED provisionVars
  /\ IF p = "quota" THEN TRUE ELSE UNCHANGED quotaVars

LibraryStep == Only("library") /\ E!Next
ObjectStep == Only("objects") /\ O!Next
StoreStep == Only("store") /\ B!BlobNext
ReaderStep == Only("reader") /\ B!ReaderNext
TabStep == Only("tabs") /\ L!EmoteLibraryNext
AuditStep == Only("audit") /\ A!AuditNext
ProvisionStep == Only("provision") /\ A!ProvisionNext
QuotaStep == Only("quota") /\ Q!Next

Next == LibraryStep \/ ObjectStep \/ StoreStep \/ ReaderStep \/ TabStep
     \/ AuditStep \/ ProvisionStep \/ QuotaStep
Spec == Init /\ [][Next]_vars

(* A person's emotes are what the person, other tabs and the packs         *)
(* subscribed to made of them: a subscription holds what its pack holds,   *)
(* a sent emote stays readable, tabs that race neither lose an order, a    *)
(* favourite nor a setting.                                                *)
LibraryConsistent ==
  /\ part = "library" => E!TypeOK /\ E!SubscriptionInStep /\ E!SentSurvives
  /\ part = "tabs" => /\ L!EmoteLibraryTypeOK /\ L!OrderIsAsked /\ L!FavoriteOnce /\ L!SettingsCompose
                      /\ L!UsablePacks /\ L!LibraryViewSound
(* The bytes behind a row are there and whole, whatever failed, and rows   *)
(* without use leave none behind; a bucket reported ready is private and   *)
(* configured, and a provisioning cut short says how far it came.          *)
BytesKept ==
  /\ part = "objects" => O!MediaPresent /\ O!NothingLeftBehind
  /\ part = "store" => B!StoredStays /\ B!DeletedStays /\ B!NoDamagedRead
  /\ part = "reader" => B!EndMeansVerified
  /\ part = "provision" => /\ A!ProvisionTypeOK /\ A!PublicUntouched /\ A!CompletedConfigured
                           /\ A!PartialTold /\ A!CanaryCleaned
(* What is added up is right: a day's transfers of a user stay within the  *)
(* quota; an audit that passes saw every byte of one moment and summed     *)
(* them without overflow, and one that fails names a cause.                *)
CountsTrue ==
  /\ part = "quota" => Q!QuotaHeld
  /\ part = "audit" => /\ A!AuditTypeOK /\ A!SnapshotConsistent /\ A!ManifestSound
                       /\ A!VerifiedWhole /\ A!FailureHasCause
(* Steps no one may take: a sync that touches emotes of one's own, an      *)
(* edit of a message's snapshot, a reader that changes its verdict.        *)
SettledStays == E!LocalIsYours /\ E!SnapshotKept /\ B!VerdictStands
-----------------------------------------------------------------------------
(***************************************************************************)
(* The hybrid store.  One Put or Delete runs at a time, and what it has    *)
(* done so far is what its caller will be told; an Open that has hashed    *)
(* the local file finds it whole or gone.                                  *)
(***************************************************************************)
StoreSpec == B!BlobInit /\ [][B!BlobNext]_(B!blobVars)

Copies == {"none", "good", "bad"}
PutSteps == {"head", "send", "resolve", "verify", "undo", "mirror", "local_put", "rename", "return"}
BlobCall == [op : {"idle", "put", "open", "delete"},
             pc : PutSteps \cup {"idle", "get", "local_open", "read", "primary", "local"},
             failed : BOOLEAN, got : Copies]
StoreFlags == [set : BOOLEAN, mirror : BOOLEAN, fallback : BOOLEAN]
StoreTyped == /\ flags \in StoreFlags /\ s3 \in Copies /\ local \in Copies
              /\ call \in [BlobCalls -> BlobCall] /\ promise \in {"nothing", "stored", "deleted"}

PutFits(x, p, l, pr) ==
  /\ pr # "deleted"
  /\ x.pc \in {"send", "resolve", "verify", "undo"} => pr = "nothing"
  /\ x.pc = "undo" => x.failed
  /\ x.pc \in {"mirror", "local_put", "rename"} => p # "none"
  /\ x.pc = "rename" => x.got = "good"
  /\ x.pc = "return" /\ ~x.failed => p # "none" /\ (flags.mirror => l # "none")
DeleteFits(x, p, l, pr) ==
  /\ pr = "nothing"
  /\ x.pc = "local" /\ ~x.failed => p = "none"
  /\ x.pc = "return" /\ ~x.failed => p = "none" /\ (B!localEnabled => l = "none")
OpenFits(x, l) ==
  /\ x.pc = "read" => l # "bad"
  /\ x.pc = "return" /\ ~x.failed => x.got = "good"
CallFits(x, p, l, pr) ==
  /\ x.op = "put" => PutFits(x, p, l, pr)
  /\ x.op = "delete" => DeleteFits(x, p, l, pr)
  /\ x.op = "open" => OpenFits(x, l)

Writing(c) == call[c].op \in {"put", "delete"}
OneWriter == \A c, d \in BlobCalls : Writing(c) /\ Writing(d) => c = d
Unset == ~flags.set => promise = "nothing" /\ \A c \in BlobCalls : call[c] = B!Free
StoreInv ==
  /\ StoreTyped /\ OneWriter /\ Unset /\ B!StoredStays /\ B!DeletedStays
  /\ \A c \in BlobCalls : CallFits(call[c], s3, local, promise)

LEMMA FreeCall == /\ B!Free \in BlobCall /\ B!Free.op = "idle" /\ B!Free.pc = "idle" /\ ~B!Free.failed
                  /\ B!Free.got = "none"
BY DEF B!Free, BlobCall, PutSteps, Copies

LEMMA StoreInitially == B!BlobInit => StoreInv
<1> SUFFICES ASSUME B!BlobInit PROVE StoreInv OBVIOUS
<1>1. B!Unset \in StoreFlags BY DEF B!Unset, StoreFlags
<1>2. \A c \in BlobCalls : call[c] = B!Free BY DEF B!BlobInit
<1>3. StoreTyped BY <1>1, FreeCall DEF B!BlobInit, StoreTyped, Copies
<1>4. OneWriter /\ Unset BY <1>2, FreeCall DEF B!BlobInit, OneWriter, Writing, Unset
<1>5. B!StoredStays /\ B!DeletedStays BY DEF B!BlobInit, B!StoredStays, B!DeletedStays
<1>6. \A c \in BlobCalls : CallFits(call[c], s3, local, promise) BY <1>2, FreeCall DEF CallFits
<1> QED BY <1>3, <1>4, <1>5, <1>6 DEF StoreInv

(* One call moves: what it does to the copies does not concern another     *)
(* writer, since there is none, nor an Open, unless the file goes bad.     *)
LEMMA CallKeeps ==
  ASSUME StoreInv, NEW c \in BlobCalls, NEW x \in BlobCall, call' = [call EXCEPT ![c] = x],
         flags' = flags, flags.set, s3' \in Copies, local' \in Copies, promise' \in {"nothing", "stored", "deleted"},
         local' = "bad" => local = "bad",
         Writing(c) \/ (UNCHANGED <<s3, local>> /\ (promise' = promise \/ \A d \in BlobCalls : ~Writing(d))),
         x.op \in {"put", "delete"} => Writing(c) \/ \A d \in BlobCalls : ~Writing(d),
         CallFits(x, s3', local', promise'), B!StoredStays', B!DeletedStays'
  PROVE  StoreInv'
<1>1. \A d \in BlobCalls : (d = c /\ call'[d] = x) \/ (d # c /\ call'[d] = call[d])
  BY DEF StoreInv, StoreTyped
<1>2. StoreTyped' BY DEF StoreInv, StoreTyped
<1>3. OneWriter' BY <1>1 DEF StoreInv, OneWriter, Writing
<1>4. Unset' BY DEF Unset
<1>5. ASSUME NEW d \in BlobCalls PROVE CallFits(call[d], s3, local, promise)' 
  <2>1. CASE d = c BY <1>1, <2>1 DEF CallFits, PutFits, DeleteFits, OpenFits, B!localEnabled
  <2>2. CASE d # c
    <3>1. call'[d] = call[d] /\ CallFits(call[d], s3, local, promise) BY <1>1, <2>2 DEF StoreInv
    <3>2. CASE ~Writing(d)
      BY <3>1, <3>2 DEF CallFits, OpenFits, Writing
    <3>3. CASE Writing(d)
      <4>1. UNCHANGED <<s3, local, promise>> BY <2>2, <3>3 DEF StoreInv, OneWriter
      <4> QED BY <3>1, <4>1 DEF CallFits, PutFits, DeleteFits, OpenFits, B!localEnabled
    <3> QED BY <3>2, <3>3
  <2> QED BY <2>1, <2>2
<1> QED BY <1>2, <1>3, <1>4, <1>5 DEF StoreInv
-----------------------------------------------------------------------------
Steps == PutSteps \cup {"idle", "get", "local_open", "read", "primary", "local"}
(* The forms a step gives a call.                                          *)
LEMMA Goes ==
  ASSUME StoreInv, NEW c \in BlobCalls, NEW pc \in Steps, B!Go(c, pc) \/ B!Fails(c, pc)
  PROVE  \E x \in BlobCall : /\ call' = [call EXCEPT ![c] = x] /\ x.op = call[c].op /\ x.pc = pc
                             /\ x.got = call[c].got /\ (x.failed = call[c].failed \/ x.failed)
                             /\ B!Go(c, pc) \/ x.failed
<1>0. call[c] \in BlobCall BY DEF StoreInv, StoreTyped
<1>1. CASE B!Go(c, pc)
  <2> DEFINE x == [call[c] EXCEPT !.pc = pc]
  <2>1. call' = [call EXCEPT ![c] = x] BY <1>1 DEF B!Go
  <2>2. x \in BlobCall /\ x.op = call[c].op /\ x.pc = pc /\ x.got = call[c].got /\ x.failed = call[c].failed
    BY <1>0 DEF BlobCall, Steps
  <2> HIDE DEF x
  <2> QED BY <1>1, <2>1, <2>2
<1>2. CASE B!Fails(c, pc)
  <2> DEFINE x == [call[c] EXCEPT !.pc = pc, !.failed = TRUE]
  <2>1. call' = [call EXCEPT ![c] = x] BY <1>2 DEF B!Fails
  <2>2. x \in BlobCall /\ x.op = call[c].op /\ x.pc = pc /\ x.got = call[c].got /\ x.failed
    BY <1>0 DEF BlobCall, Steps
  <2> HIDE DEF x
  <2> QED BY <2>1, <2>2
<1> QED BY <1>1, <1>2

LEMMA GotForm ==
  ASSUME StoreInv, NEW c \in BlobCalls, NEW pc \in Steps, NEW g \in Copies,
         call' = [call EXCEPT ![c].pc = pc, ![c].got = g]
  PROVE  \E x \in BlobCall : /\ call' = [call EXCEPT ![c] = x] /\ x.op = call[c].op /\ x.pc = pc
                             /\ x.got = g /\ x.failed = call[c].failed
<1>0. call[c] \in BlobCall BY DEF StoreInv, StoreTyped
<1> DEFINE x == [call[c] EXCEPT !.pc = pc, !.got = g]
<1>1. call' = [call EXCEPT ![c] = x] OBVIOUS
<1>2. x \in BlobCall /\ x.op = call[c].op /\ x.pc = pc /\ x.got = g /\ x.failed = call[c].failed
  BY <1>0 DEF BlobCall, Steps
<1> HIDE DEF x
<1> QED BY <1>1, <1>2

LEMMA CallSet == ASSUME StoreInv, NEW c \in BlobCalls, call[c].op # "idle" PROVE flags.set
BY FreeCall DEF StoreInv, Unset

(* A step of a Put.                                                        *)
LEMMA PutKeeps ==
  ASSUME StoreInv, NEW c \in BlobCalls, call[c].op = "put", NEW x \in BlobCall,
         call' = [call EXCEPT ![c] = x], x.op = "put", UNCHANGED <<flags, promise>>,
         s3' \in Copies, local' \in {local, "good"}, promise = "stored" => s3' # "none",
         PutFits(x, s3', local', promise)
  PROVE  StoreInv'
<1>1. flags.set /\ Writing(c) BY CallSet DEF Writing
<1>2. promise # "deleted" BY DEF StoreInv, CallFits, PutFits
<1>3. local' \in Copies BY DEF StoreInv, StoreTyped, Copies
<1>4. CallFits(x, s3', local', promise') BY DEF CallFits
<1>5. B!StoredStays' BY DEF StoreInv, B!StoredStays
<1>6. B!DeletedStays' BY <1>2 DEF B!DeletedStays
<1>7. promise' \in {"nothing", "stored", "deleted"} BY DEF StoreInv, StoreTyped
<1> QED BY <1>1, <1>3, <1>4, <1>5, <1>6, <1>7, CallKeeps

LEMMA PutsKeep ==
  ASSUME StoreInv, NEW c \in BlobCalls,
         B!PutHead(c) \/ B!PutSend(c) \/ B!resolveConditionalPut(c) \/ B!PutVerify(c) \/ B!cleanupAfterPutError(c)
         \/ B!MirrorOpen(c) \/ B!MirrorWrite(c) \/ B!MirrorRename(c)
  PROVE  StoreInv'
<1>0. /\ StoreTyped /\ call[c] \in BlobCall /\ s3 \in Copies /\ local \in Copies /\ flags \in StoreFlags
      /\ CallFits(call[c], s3, local, promise) /\ promise \in {"nothing", "stored", "deleted"} /\ B!StoredStays
  BY DEF StoreInv, StoreTyped
<1>1. call[c].op = "put" /\ UNCHANGED <<flags, promise>>
  BY DEF B!PutHead, B!PutSend, B!resolveConditionalPut, B!PutVerify, B!cleanupAfterPutError, B!MirrorOpen,
         B!MirrorWrite, B!MirrorRename, B!At, B!Still
<1>2. PutFits(call[c], s3, local, promise) BY <1>0, <1>1 DEF CallFits
<1>3. B!AfterPrimary \in {"mirror", "return"} /\ (B!AfterPrimary = "return" => ~flags.mirror)
  BY DEF B!AfterPrimary
<1> DEFINE Moved(pc, ok) == \E x \in BlobCall : /\ call' = [call EXCEPT ![c] = x] /\ x.op = "put" /\ x.pc = pc
                                                /\ x.got = call[c].got /\ (ok \/ x.failed)
                                                /\ (call[c].failed => x.failed)
<1>4. ASSUME NEW pc \in Steps, B!Go(c, pc) PROVE Moved(pc, TRUE)
  BY <1>1, <1>4, Goes
<1>5. ASSUME NEW pc \in Steps, B!Fails(c, pc) PROVE Moved(pc, FALSE)
  <2> DEFINE x == [call[c] EXCEPT !.pc = pc, !.failed = TRUE]
  <2>1. call' = [call EXCEPT ![c] = x] BY <1>5 DEF B!Fails
  <2>2. x \in BlobCall /\ x.op = call[c].op /\ x.pc = pc /\ x.got = call[c].got /\ x.failed
    BY <1>0 DEF BlobCall, Steps
  <2> HIDE DEF x
  <2> QED BY <1>1, <2>1, <2>2
<1> HIDE DEF Moved
<1>6. "return" \in Steps /\ "send" \in Steps /\ "resolve" \in Steps /\ "verify" \in Steps /\ "undo" \in Steps
      /\ "local_put" \in Steps /\ "rename" \in Steps /\ "mirror" \in Steps
  BY DEF Steps, PutSteps
(* The primary has it: the mirror is next, or the answer.                  *)
<1>7. ASSUME s3 # "none", B!Go(c, B!AfterPrimary), UNCHANGED <<s3, local>> PROVE StoreInv'
  <2>1. PICK x \in BlobCall : call' = [call EXCEPT ![c] = x] /\ x.op = "put" /\ x.pc = B!AfterPrimary
    BY <1>3, <1>4, <1>6, <1>7 DEF Moved
  <2>2. PutFits(x, s3', local', promise) BY <1>2, <1>3, <1>7, <2>1 DEF PutFits
  <2> QED BY <1>0, <1>1, <1>7, <2>1, <2>2, PutKeeps
(* It failed.                                                              *)
<1>8. ASSUME B!Fails(c, "return"), s3' \in Copies, promise = "stored" => s3' # "none", local' = local
      PROVE StoreInv'
  <2>1. PICK x \in BlobCall : call' = [call EXCEPT ![c] = x] /\ x.op = "put" /\ x.pc = "return" /\ x.failed
    BY <1>5, <1>6, <1>8 DEF Moved
  <2>2. PutFits(x, s3', local', promise) BY <1>2, <2>1 DEF PutFits
  <2> QED BY <1>0, <1>1, <1>8, <2>1, <2>2, PutKeeps
<1>9. promise = "stored" => s3 # "none" BY <1>0 DEF B!StoredStays
<1>10. CASE B!PutHead(c)
  <2>1. UNCHANGED <<s3, local>> BY <1>10 DEF B!PutHead
  <2>2. CASE s3 = "none" /\ B!Go(c, "send")
    <3>1. PICK x \in BlobCall : call' = [call EXCEPT ![c] = x] /\ x.op = "put" /\ x.pc = "send"
      BY <1>4, <1>6, <2>2 DEF Moved
    <3>2. PutFits(x, s3', local', promise) BY <1>0, <1>2, <1>9, <2>2, <3>1 DEF PutFits
    <3> QED BY <1>0, <1>1, <1>9, <2>1, <3>1, <3>2, PutKeeps
  <2> QED BY <1>0, <1>7, <1>8, <1>9, <1>10, <2>1, <2>2 DEF B!PutHead
<1>11. CASE B!PutSend(c)
  <2>1. promise = "nothing" BY <1>2, <1>11 DEF PutFits, B!PutSend, B!At
  <2>2. s3' \in Copies /\ local' = local BY <1>0, <1>11 DEF B!PutSend, Copies
  <2>3. CASE B!Go(c, "verify") \/ B!Go(c, "resolve")
    <3>1. PICK x \in BlobCall : call' = [call EXCEPT ![c] = x] /\ x.op = "put" /\ x.pc \in {"verify", "resolve"}
      BY <1>4, <1>6, <2>3 DEF Moved
    <3>2. PutFits(x, s3', local', promise) BY <2>1, <3>1 DEF PutFits
    <3> QED BY <1>0, <1>1, <2>1, <2>2, <3>1, <3>2, PutKeeps
  <2> QED BY <1>8, <1>11, <2>1, <2>2, <2>3 DEF B!PutSend
<1>12. CASE B!resolveConditionalPut(c)
  BY <1>0, <1>7, <1>8, <1>9, <1>12 DEF B!resolveConditionalPut
<1>13. CASE B!PutVerify(c)
  <2>1. UNCHANGED <<s3, local>> /\ promise = "nothing" BY <1>2, <1>13 DEF PutFits, B!PutVerify, B!At
  <2>2. CASE B!Fails(c, "undo")
    <3>1. PICK x \in BlobCall : call' = [call EXCEPT ![c] = x] /\ x.op = "put" /\ x.pc = "undo" /\ x.failed
      BY <1>5, <1>6, <2>2 DEF Moved
    <3>2. PutFits(x, s3', local', promise) BY <2>1, <3>1 DEF PutFits
    <3> QED BY <1>0, <1>1, <1>9, <2>1, <3>1, <3>2, PutKeeps
  <2> QED BY <1>7, <1>13, <2>1, <2>2 DEF B!PutVerify
<1>14. CASE B!cleanupAfterPutError(c)
  <2>1. promise = "nothing" /\ call[c].failed BY <1>2, <1>14 DEF PutFits, B!cleanupAfterPutError, B!At
  <2>2. s3' \in Copies /\ local' = local /\ B!Go(c, "return") BY <1>0, <1>14 DEF B!cleanupAfterPutError, Copies
  <2>3. PICK x \in BlobCall : call' = [call EXCEPT ![c] = x] /\ x.op = "put" /\ x.pc = "return" /\ x.failed
    BY <1>4, <1>6, <2>1, <2>2 DEF Moved
  <2>4. PutFits(x, s3', local', promise) BY <2>1, <2>3 DEF PutFits
  <2> QED BY <1>0, <1>1, <2>1, <2>2, <2>3, <2>4, PutKeeps
<1>15. CASE B!MirrorOpen(c)
  <2>1. UNCHANGED <<s3, local>> BY <1>15 DEF B!MirrorOpen
  <2>2. CASE s3 # "none" /\ call' = [call EXCEPT ![c].pc = "local_put", ![c].got = s3]
    <3> DEFINE x == [call[c] EXCEPT !.pc = "local_put", !.got = s3]
    <3>1. call' = [call EXCEPT ![c] = x] BY <2>2
    <3>3. x \in BlobCall /\ x.op = "put" /\ x.pc = "local_put" BY <1>0, <1>1 DEF BlobCall, PutSteps
    <3> HIDE DEF x
    <3>2. PutFits(x, s3', local', promise) BY <1>2, <2>1, <2>2, <3>3 DEF PutFits
    <3> QED BY <1>0, <1>1, <1>9, <2>1, <2>2, <3>1, <3>2, <3>3, PutKeeps
  <2> QED BY <1>0, <1>8, <1>9, <1>15, <2>1, <2>2 DEF B!MirrorOpen
<1>16. CASE B!MirrorWrite(c)
  <2>1. UNCHANGED <<s3, local>> /\ s3 # "none" BY <1>2, <1>16 DEF B!MirrorWrite, B!At, PutFits
  <2>2. CASE local = "good" /\ B!Go(c, "return")
    <3>1. PICK x \in BlobCall : call' = [call EXCEPT ![c] = x] /\ x.op = "put" /\ x.pc = "return"
      BY <1>4, <1>6, <2>2 DEF Moved
    <3>2. PutFits(x, s3', local', promise) BY <1>2, <2>1, <2>2, <3>1 DEF PutFits
    <3> QED BY <1>0, <1>1, <2>1, <3>1, <3>2, PutKeeps
  <2>3. CASE call[c].got = "good" /\ B!Go(c, "rename")
    <3>1. PICK x \in BlobCall : call' = [call EXCEPT ![c] = x] /\ x.op = "put" /\ x.pc = "rename" /\ x.got = "good"
      BY <1>4, <1>6, <2>3 DEF Moved
    <3>2. PutFits(x, s3', local', promise) BY <1>2, <2>1, <3>1 DEF PutFits
    <3> QED BY <1>0, <1>1, <2>1, <3>1, <3>2, PutKeeps
  <2> QED BY <1>0, <1>8, <1>16, <2>1, <2>2, <2>3 DEF B!MirrorWrite, B!KeepPrimary
<1>17. CASE B!MirrorRename(c)
  <2>1. s3' = s3 /\ s3 # "none" /\ call[c].got = "good" BY <1>2, <1>17 DEF B!MirrorRename, B!At, PutFits
  <2>2. CASE local' = call[c].got /\ B!Go(c, "return")
    <3>1. PICK x \in BlobCall : call' = [call EXCEPT ![c] = x] /\ x.op = "put" /\ x.pc = "return"
      BY <1>4, <1>6, <2>2 DEF Moved
    <3>2. PutFits(x, s3', local', promise) BY <1>2, <2>1, <2>2, <3>1 DEF PutFits
    <3> QED BY <1>0, <1>1, <2>1, <2>2, <3>1, <3>2, PutKeeps
  <2> QED BY <1>0, <1>8, <1>17, <2>1, <2>2 DEF B!MirrorRename
<1> QED BY <1>10, <1>11, <1>12, <1>13, <1>14, <1>15, <1>16, <1>17
-----------------------------------------------------------------------------
(* A step of an Open touches neither copy.                                 *)
LEMMA OpenKeeps ==
  ASSUME StoreInv, NEW c \in BlobCalls, call[c].op = "open", NEW x \in BlobCall,
         call' = [call EXCEPT ![c] = x], x.op = "open", UNCHANGED <<flags, s3, local, promise>>,
         OpenFits(x, local)
  PROVE  StoreInv'
<1>1. flags.set BY CallSet
<1>2. s3' \in Copies /\ local' \in Copies /\ promise' \in {"nothing", "stored", "deleted"}
  BY DEF StoreInv, StoreTyped
<1>3. CallFits(x, s3', local', promise') BY DEF CallFits
<1>4. B!StoredStays' /\ B!DeletedStays' BY DEF StoreInv, B!StoredStays, B!DeletedStays, B!localEnabled
<1>5. (local' = "bad" => local = "bad") /\ x.op \notin {"put", "delete"} OBVIOUS
<1> QED BY <1>1, <1>2, <1>3, <1>4, <1>5, CallKeeps

LEMMA OpensKeep ==
  ASSUME StoreInv, NEW c \in BlobCalls,
         B!OpenHead(c) \/ B!OpenGet(c) \/ B!LocalValidate(c) \/ B!LocalRead(c)
  PROVE  StoreInv'
<1>0. call[c] \in BlobCall /\ s3 \in Copies /\ local \in Copies /\ CallFits(call[c], s3, local, promise)
  BY DEF StoreInv, StoreTyped
<1>1. call[c].op = "open" /\ UNCHANGED <<flags, s3, local, promise>>
  BY DEF B!OpenHead, B!OpenGet, B!LocalValidate, B!LocalRead, B!At, B!Still
<1>2. ASSUME NEW pc \in {"get", "local_open"}, B!Go(c, pc) PROVE StoreInv'
  <2> DEFINE x == [call[c] EXCEPT !.pc = pc]
  <2>1. call' = [call EXCEPT ![c] = x] BY <1>2 DEF B!Go
  <2>2. x \in BlobCall /\ x.op = "open" /\ x.pc = pc BY <1>0, <1>1 DEF BlobCall
  <2> HIDE DEF x
  <2>3. OpenFits(x, local) BY <2>2 DEF OpenFits
  <2> QED BY <1>1, <2>1, <2>2, <2>3, OpenKeeps
<1>3. ASSUME B!Fails(c, "return") PROVE StoreInv'
  <2> DEFINE x == [call[c] EXCEPT !.pc = "return", !.failed = TRUE]
  <2>1. call' = [call EXCEPT ![c] = x] BY <1>3 DEF B!Fails
  <2>2. x \in BlobCall /\ x.op = "open" /\ x.pc = "return" /\ x.failed BY <1>0, <1>1 DEF BlobCall, PutSteps
  <2> HIDE DEF x
  <2>3. OpenFits(x, local) BY <2>2 DEF OpenFits
  <2> QED BY <1>1, <2>1, <2>2, <2>3, OpenKeeps
<1>4. ASSUME NEW g, g = "good", call' = [call EXCEPT ![c].pc = "return", ![c].got = g] PROVE StoreInv'
  <2> DEFINE x == [call[c] EXCEPT !.pc = "return", !.got = g]
  <2>1. call' = [call EXCEPT ![c] = x] BY <1>4
  <2>2. x \in BlobCall /\ x.op = "open" /\ x.pc = "return" /\ x.got = "good"
    BY <1>0, <1>1, <1>4 DEF BlobCall, PutSteps, Copies
  <2> HIDE DEF x
  <2>3. OpenFits(x, local) BY <2>2 DEF OpenFits
  <2> QED BY <1>1, <2>1, <2>2, <2>3, OpenKeeps
<1>5. B!Missing(c) => StoreInv' BY <1>2, <1>3 DEF B!Missing
<1>6. CASE B!OpenHead(c) BY <1>2, <1>3, <1>5, <1>6 DEF B!OpenHead
<1>7. CASE B!OpenGet(c)
  <2>1. CASE s3 = "good" /\ call' = [call EXCEPT ![c].pc = "return", ![c].got = s3] BY <1>4, <2>1
  <2> QED BY <1>3, <1>5, <1>7, <2>1 DEF B!OpenGet, B!s3Verified
<1>8. CASE B!LocalValidate(c)
  <2>1. CASE B!Go(c, "read") /\ local = "good"
    <3> DEFINE x == [call[c] EXCEPT !.pc = "read"]
    <3>1. call' = [call EXCEPT ![c] = x] BY <2>1 DEF B!Go
    <3>2. x \in BlobCall /\ x.op = "open" /\ x.pc = "read" BY <1>0, <1>1 DEF BlobCall
    <3> HIDE DEF x
    <3>3. OpenFits(x, local) BY <2>1, <3>2 DEF OpenFits
    <3> QED BY <1>1, <3>1, <3>2, <3>3, OpenKeeps
  <2> QED BY <1>3, <1>8, <2>1 DEF B!LocalValidate, B!validateFile
<1>9. CASE B!LocalRead(c)
  <2>1. local # "bad" BY <1>0, <1>9 DEF B!LocalRead, B!At, CallFits, OpenFits
  <2>2. CASE local = "none" BY <1>3, <1>9, <2>2 DEF B!LocalRead
  <2>3. CASE local # "none"
    <3>1. local = "good" BY <1>0, <2>1, <2>3 DEF Copies
    <3>2. call' = [call EXCEPT ![c].pc = "return", ![c].got = local] BY <1>9, <2>3 DEF B!LocalRead
    <3> QED BY <1>4, <3>1, <3>2
  <2> QED BY <2>2, <2>3
<1> QED BY <1>6, <1>7, <1>8, <1>9

(* A Delete leaves no promise of what is stored, and each endpoint it      *)
(* found no fault with is empty.                                           *)
LEMMA DeletesKeep ==
  ASSUME StoreInv, NEW c \in BlobCalls, B!DeletePrimary(c) \/ B!DeleteLocal(c)
  PROVE  StoreInv'
<1>0. call[c] \in BlobCall /\ s3 \in Copies /\ local \in Copies /\ CallFits(call[c], s3, local, promise)
      /\ flags \in StoreFlags
  BY DEF StoreInv, StoreTyped
<1>1. call[c].op = "delete" /\ UNCHANGED <<flags, promise>>
  BY DEF B!DeletePrimary, B!DeleteLocal, B!At, B!Still
<1>2. flags.set /\ Writing(c) BY <1>1, CallSet DEF Writing
<1>3. promise = "nothing" /\ DeleteFits(call[c], s3, local, promise) BY <1>0, <1>1 DEF CallFits, DeleteFits
<1>4. ASSUME NEW x \in BlobCall, call' = [call EXCEPT ![c] = x], x.op = "delete",
             s3' \in {s3, "none"}, local' \in {local, "none"}, DeleteFits(x, s3', local', promise)
      PROVE  StoreInv'
  <2>1. CallFits(x, s3', local', promise') BY <1>1, <1>4 DEF CallFits
  <2>2. B!StoredStays' /\ B!DeletedStays' BY <1>1, <1>3 DEF B!StoredStays, B!DeletedStays
  <2>3. s3' \in Copies /\ local' \in Copies /\ promise' \in {"nothing", "stored", "deleted"}
    BY <1>0, <1>1, <1>3, <1>4 DEF Copies
  <2>4. local' = "bad" => local = "bad" BY <1>4
  <2> QED BY <1>1, <1>2, <1>4, <2>1, <2>2, <2>3, <2>4, CallKeeps
<1>5. CASE B!DeletePrimary(c)
  <2> DEFINE pc == IF B!localEnabled THEN "local" ELSE "return"
             x(f) == [call[c] EXCEPT !.pc = pc, !.failed = f]
  <2>1. PICK f \in BOOLEAN : /\ call' = [call EXCEPT ![c] = x(f)] /\ s3' \in {s3, "none"} /\ local' = local
                             /\ (~f => s3' = "none")
    BY <1>5 DEF B!DeletePrimary
  <2>2. x(f) \in BlobCall /\ x(f).op = "delete" /\ x(f).pc = pc /\ x(f).failed = f
    BY <1>0, <1>1 DEF BlobCall, PutSteps
  <2> HIDE DEF x
  <2>3. DeleteFits(x(f), s3', local', promise) BY <1>3, <2>1, <2>2 DEF DeleteFits
  <2> QED BY <1>4, <2>1, <2>2, <2>3
<1>6. CASE B!DeleteLocal(c)
  <2> DEFINE x(f) == [call[c] EXCEPT !.pc = "return", !.failed = f]
  <2>1. PICK g \in BOOLEAN : /\ call' = [call EXCEPT ![c] = x(call[c].failed \/ g)] /\ s3' = s3
                             /\ local' \in {local, "none"} /\ (~g => local' = "none")
    BY <1>6 DEF B!DeleteLocal, B!mergeStorageErrors
  <2> DEFINE f == call[c].failed \/ g
  <2>2. f \in BOOLEAN /\ (~f => ~call[c].failed /\ ~g) BY <1>0, <2>1 DEF BlobCall
  <2>3. call' = [call EXCEPT ![c] = x(f)] BY <2>1
  <2> HIDE DEF f
  <2>4. x(f) \in BlobCall /\ x(f).op = "delete" /\ x(f).pc = "return" /\ x(f).failed = f
    BY <1>0, <1>1, <2>2 DEF BlobCall, PutSteps
  <2> HIDE DEF x
  <2>5. call[c].pc = "local" BY <1>6 DEF B!DeleteLocal, B!At
  <2>6. DeleteFits(x(f), s3', local', promise) BY <1>3, <2>1, <2>2, <2>4, <2>5 DEF DeleteFits
  <2> QED BY <1>4, <2>1, <2>3, <2>4, <2>6
<1> QED BY <1>5, <1>6

(* A call begins, answers or is cut off; a copy is damaged.                *)
LEMMA OthersKeep ==
  ASSUME StoreInv, NEW c \in BlobCalls,
         B!Begin(c, "put", "head") \/ B!Begin(c, "open", "head") \/ B!Begin(c, "delete", "primary")
         \/ B!Return(c) \/ B!Crash(c)
  PROVE  StoreInv'
<1>0. /\ StoreTyped /\ call[c] \in BlobCall /\ s3 \in Copies /\ local \in Copies
      /\ CallFits(call[c], s3, local, promise) /\ promise \in {"nothing", "stored", "deleted"}
      /\ B!StoredStays /\ B!DeletedStays /\ OneWriter
  BY DEF StoreInv, StoreTyped
<1>1. UNCHANGED <<flags, s3, local>> BY DEF B!Begin, B!Return, B!Crash
<1>2. ASSUME NEW op \in {"put", "open", "delete"}, NEW pc \in {"head", "primary"}, B!Begin(c, op, pc)
      PROVE  StoreInv'
  <2> DEFINE x == [B!Free EXCEPT !.op = op, !.pc = pc]
  <2>1. call' = [call EXCEPT ![c] = x] /\ flags.set BY <1>2 DEF B!Begin
  <2>2. x \in BlobCall /\ x.op = op /\ x.pc = pc BY DEF B!Free, BlobCall, PutSteps, Copies
  <2> HIDE DEF x
  <2>3. \/ op = "open" /\ promise' = promise
        \/ op = "put" /\ promise' \in {promise, "nothing"} /\ (promise # "stored" => promise' = "nothing")
        \/ op = "delete" /\ promise' = "nothing"
    BY <1>2 DEF B!Begin
  <2>4. op # "open" => \A d \in BlobCalls : ~Writing(d) BY <1>2 DEF B!Begin, B!LockFree, Writing
  <2>5. CallFits(x, s3', local', promise')
    BY <2>2, <2>3 DEF CallFits, PutFits, DeleteFits, OpenFits
  <2>6. promise' \in {promise, "nothing"} BY <2>3
  <2>7. B!StoredStays' /\ B!DeletedStays'
    BY <1>0, <1>1, <2>6 DEF B!StoredStays, B!DeletedStays, B!localEnabled
  <2>8. promise' = promise \/ \A d \in BlobCalls : ~Writing(d) BY <2>3, <2>4
  <2>9. x.op \in {"put", "delete"} => \A d \in BlobCalls : ~Writing(d) BY <2>2, <2>4
  <2> QED BY <1>0, <1>1, <2>1, <2>2, <2>5, <2>6, <2>7, <2>8, <2>9, CallKeeps
<1>3. ASSUME call' = [call EXCEPT ![c] = B!Free], promise' \in {"nothing", "stored", "deleted"}, flags.set,
             B!StoredStays', B!DeletedStays', promise' = promise \/ Writing(c)
      PROVE  StoreInv'
  <2>1. CallFits(B!Free, s3', local', promise') BY FreeCall DEF CallFits
  <2> QED BY <1>0, <1>1, <1>3, <2>1, FreeCall, CallKeeps
<1>4. CASE B!Return(c)
  <2>1. call[c].pc = "return" /\ call' = [call EXCEPT ![c] = B!Free] BY <1>4 DEF B!Return
  <2>2. flags.set BY <2>1, FreeCall DEF StoreInv, Unset
  <2>3. CASE call[c].failed \/ call[c].op \notin {"put", "delete"}
    <3>1. promise' = promise BY <1>4, <2>3 DEF B!Return
    <3>2. B!StoredStays' /\ B!DeletedStays'
      BY <1>0, <1>1, <3>1 DEF B!StoredStays, B!DeletedStays, B!localEnabled
    <3> QED BY <1>0, <1>3, <2>1, <2>2, <3>1, <3>2
  <2>4. CASE ~call[c].failed /\ call[c].op = "put"
    <3>1. promise' = "stored" BY <1>4, <2>4 DEF B!Return
    <3>2. B!StoredStays' BY <1>0, <1>1, <2>1, <2>4 DEF B!StoredStays, CallFits, PutFits
    <3>3. B!DeletedStays' BY <3>1 DEF B!DeletedStays
    <3> QED BY <1>3, <2>1, <2>2, <2>4, <3>1, <3>2, <3>3 DEF Writing
  <2>5. CASE ~call[c].failed /\ call[c].op = "delete"
    <3>1. promise' = "deleted" BY <1>4, <2>5 DEF B!Return
    <3>2. B!DeletedStays' BY <1>0, <1>1, <2>1, <2>5 DEF B!DeletedStays, CallFits, DeleteFits, B!localEnabled
    <3>3. B!StoredStays' BY <3>1 DEF B!StoredStays
    <3> QED BY <1>3, <2>1, <2>2, <2>5, <3>1, <3>2, <3>3 DEF Writing
  <2> QED BY <2>3, <2>4, <2>5
<1>5. CASE B!Crash(c)
  <2>1. call' = [call EXCEPT ![c] = B!Free] /\ promise' = promise /\ call[c] # B!Free BY <1>5 DEF B!Crash
  <2>2. flags.set BY <2>1 DEF StoreInv, Unset
  <2>3. B!StoredStays' /\ B!DeletedStays'
    BY <1>0, <1>1, <2>1 DEF B!StoredStays, B!DeletedStays, B!localEnabled
  <2> QED BY <1>0, <1>3, <2>1, <2>2, <2>3
<1> QED BY <1>2, <1>4, <1>5

LEMMA DamageKeeps == ASSUME StoreInv, B!Damage PROVE StoreInv'
<1>1. UNCHANGED <<flags, call, promise>> BY DEF B!Damage, B!Still
<1>2. /\ s3' \in Copies /\ local' \in Copies /\ (s3' = "none" <=> s3 = "none")
      /\ (local' = "none" <=> local = "none")
  BY DEF B!Damage, StoreInv, StoreTyped, Copies
<1>3. local' = local \/ \A c \in BlobCalls : ~(call[c].op = "open" /\ call[c].pc = "read")
  BY DEF B!Damage, B!At
<1>4. StoreTyped' BY <1>1, <1>2 DEF StoreInv, StoreTyped
<1>5. OneWriter' /\ Unset' BY <1>1 DEF StoreInv, OneWriter, Writing, Unset
<1>6. B!StoredStays' /\ B!DeletedStays' BY <1>1, <1>2 DEF StoreInv, B!StoredStays, B!DeletedStays, B!localEnabled
<1>7. ASSUME NEW c \in BlobCalls PROVE CallFits(call[c], s3, local, promise)'
  BY <1>1, <1>2, <1>3 DEF StoreInv, CallFits, PutFits, DeleteFits, OpenFits, B!localEnabled
<1> QED BY <1>4, <1>5, <1>6, <1>7 DEF StoreInv

LEMMA StoreOpens == ASSUME StoreInv, NEW m \in BOOLEAN, NEW f \in BOOLEAN, B!NewHybridBlobStore(m, f) PROVE StoreInv'
<1>1. UNCHANGED <<s3, local, call, promise>> /\ ~flags.set BY DEF B!NewHybridBlobStore
<1>2. promise = "nothing" /\ \A c \in BlobCalls : call[c] = B!Free BY <1>1 DEF StoreInv, Unset
<1>3. flags' \in StoreFlags /\ flags'.set BY DEF B!NewHybridBlobStore, StoreFlags
<1>4. StoreTyped' BY <1>1, <1>3 DEF StoreInv, StoreTyped
<1>5. OneWriter' /\ Unset' BY <1>1, <1>2, <1>3, FreeCall DEF OneWriter, Writing, Unset
<1>6. B!StoredStays' /\ B!DeletedStays' BY <1>1, <1>2 DEF B!StoredStays, B!DeletedStays
<1>7. \A c \in BlobCalls : CallFits(call[c], s3, local, promise)'
  BY <1>1, <1>2, FreeCall DEF CallFits
<1> QED BY <1>4, <1>5, <1>6, <1>7 DEF StoreInv

LEMMA StoreKeeps == StoreInv /\ [B!BlobNext]_(B!blobVars) => StoreInv'
<1> SUFFICES ASSUME StoreInv, [B!BlobNext]_(B!blobVars) PROVE StoreInv' OBVIOUS
<1>1. CASE UNCHANGED B!blobVars
  <2>1. UNCHANGED <<flags, s3, local, call, promise>> BY <1>1 DEF B!blobVars
  <2>2. StoreTyped' /\ OneWriter' /\ Unset' /\ B!StoredStays' /\ B!DeletedStays'
    BY <2>1 DEF StoreInv, StoreTyped, OneWriter, Writing, Unset, B!StoredStays, B!DeletedStays, B!localEnabled
  <2>3. \A c \in BlobCalls : CallFits(call[c], s3, local, promise)'
    BY <2>1 DEF StoreInv, CallFits, PutFits, DeleteFits, OpenFits, B!localEnabled
  <2> QED BY <2>2, <2>3 DEF StoreInv
<1>2. CASE B!BlobNext
  BY <1>2, PutsKeep, OpensKeep, DeletesKeep, OthersKeep, DamageKeeps, StoreOpens DEF B!BlobNext, B!CallStep
<1> QED BY <1>1, <1>2

LEMMA StoreSays == StoreInv => B!StoredStays /\ B!DeletedStays /\ B!NoDamagedRead
BY DEF StoreInv, B!NoDamagedRead, B!At, CallFits, OpenFits

(* Whatever fails, crashes or is damaged, what a Put said is stored stays, *)
(* what a Delete said is gone is gone, and no Open hands out bad bytes.    *)
THEOREM StoreCorrect == StoreSpec => [](B!StoredStays /\ B!DeletedStays /\ B!NoDamagedRead)
<1>1. StoreSpec => []StoreInv
  BY StoreInitially, StoreKeeps, PTL DEF StoreSpec
<1> QED BY <1>1, StoreSays, PTL
-----------------------------------------------------------------------------
(***************************************************************************)
(* The verified reader.  While a Read is under way the verdict is open or  *)
(* it is that the reader was closed, and the bytes handed out are those    *)
(* counted, but for the ones the Read holds.                               *)
(***************************************************************************)
ReaderSpec == B!ReaderInit /\ [][B!ReaderNext]_(B!readerVars)

Verdicts == {"nil", "EOF", "closed", "mismatch", "provider"}
ReadSteps == {"idle", "read", "record", "judge", "fail"}
Threads == Readers \cup Closers
ReaderTyped ==
  /\ body \in [kind : B!Bodies, left : Nat] /\ count \in 0 .. ExpectedLength /\ terminal \in Verdicts
  /\ thread \in [Threads -> [pc : ReadSteps \cup {"close_body"}, n : Nat, err : Verdicts]]
  /\ told \in [bytes : 0 .. ExpectedLength, verdicts : SUBSET Verdicts]
  /\ \A t \in Readers : thread[t].pc \in ReadSteps
OneReader == \A r, s \in Readers : thread[r].pc # "idle" /\ thread[s].pc # "idle" => r = s
ReadFits(x, verdict, out, counted) ==
  /\ x.pc # "idle" => verdict \in {"nil", "closed"}
  /\ x.pc \in {"read", "record", "judge"} => out = counted
  /\ x.pc = "record" /\ x.err # "nil" => x.n = 0
  /\ x.pc = "fail" => out + x.n = counted /\ x.err \in {"mismatch", "provider"}
ReaderInv ==
  /\ ReaderTyped /\ OneReader /\ \A t \in Readers : ReadFits(thread[t], terminal, told.bytes, count)
  /\ terminal = "nil" /\ B!readMuFree => told.bytes = count
  /\ terminal = "EOF" => body.kind = "good" /\ told.bytes = ExpectedLength
  /\ "EOF" \in told.verdicts => terminal = "EOF"

LEMMA ReaderInitially == B!ReaderInit => ReaderInv
<1> SUFFICES ASSUME B!ReaderInit PROVE ReaderInv OBVIOUS
<1> USE MediaAssumption DEF B!ReaderInit
<1>1. \A t \in Threads : thread[t] = B!Idle BY DEF Threads
<1>2. B!Idle.pc = "idle" /\ B!Idle \in [pc : ReadSteps \cup {"close_body"}, n : Nat, err : Verdicts]
  BY DEF B!Idle, ReadSteps, Verdicts
<1>3. ReaderTyped BY <1>1, <1>2 DEF ReaderTyped, Verdicts, Threads, B!Bodies, ReadSteps
<1>4. OneReader /\ \A t \in Readers : ReadFits(thread[t], terminal, told.bytes, count) BY <1>1, <1>2 DEF OneReader, ReadFits, Threads
<1> QED BY <1>3, <1>4 DEF ReaderInv

(* The reader t goes on with its Read.                                     *)
LEMMA ReadGoes ==
  ASSUME ReaderInv, NEW t \in Readers, NEW x \in [pc : ReadSteps, n : Nat, err : Verdicts],
         \A r \in Readers : r # t => thread[r].pc = "idle",
         thread' = [thread EXCEPT ![t] = x], x.pc # "idle", told' = told, terminal' = terminal,
         terminal \in {"nil", "closed"}, body' \in [kind : B!Bodies, left : Nat], count' \in 0 .. ExpectedLength,
         ReadFits(x, terminal', told'.bytes, count')
  PROVE  ReaderInv'
<1>0. t \in Threads /\ thread \in [Threads -> [pc : ReadSteps \cup {"close_body"}, n : Nat, err : Verdicts]]
  BY DEF Threads, ReaderInv, ReaderTyped
<1>1. \A r \in Readers : (r = t /\ thread'[r] = x) \/ (r # t /\ thread'[r] = thread[r] /\ thread[r].pc = "idle")
  BY <1>0 DEF Threads
<1>2. thread' \in [Threads -> [pc : ReadSteps \cup {"close_body"}, n : Nat, err : Verdicts]]
  BY <1>0
<1>3. \A r \in Readers : thread'[r].pc \in ReadSteps BY <1>1 DEF ReadSteps
<1>4. ReaderTyped' BY <1>2, <1>3 DEF ReaderTyped, ReaderInv
<1>5. OneReader' BY <1>1 DEF OneReader
<1>6. \A r \in Readers : ReadFits(thread[r], terminal, told.bytes, count)' BY <1>1 DEF ReadFits
<1>7. ~B!readMuFree' BY <1>1 DEF B!readMuFree
<1>8. "EOF" \notin told'.verdicts /\ terminal' # "EOF" BY DEF ReaderInv
<1> QED BY <1>4, <1>5, <1>6, <1>7, <1>8 DEF ReaderInv

(* The reader t returns: no Read is under way any more.                    *)
LEMMA ReadEnds ==
  ASSUME ReaderInv, NEW t \in Readers, \A r \in Readers : r # t => thread[r].pc = "idle",
         NEW n \in Nat, NEW err \in Verdicts, B!ReaderReturns(t, n, err), body' = body, count' \in 0 .. ExpectedLength,
         terminal' \in Verdicts, told.bytes + n <= ExpectedLength,
         terminal' = "nil" => told.bytes + n = count',
         terminal' = "EOF" => body.kind = "good" /\ told.bytes + n = ExpectedLength,
         err = "EOF" => terminal' = "EOF", terminal = "EOF" => terminal' = "EOF"
  PROVE  ReaderInv'
<1>0. /\ t \in Threads /\ thread \in [Threads -> [pc : ReadSteps \cup {"close_body"}, n : Nat, err : Verdicts]]
      /\ told \in [bytes : 0 .. ExpectedLength, verdicts : SUBSET Verdicts] /\ ExpectedLength \in Nat
  BY MediaAssumption DEF Threads, ReaderInv, ReaderTyped
<1>1. B!Idle.pc = "idle" /\ B!Idle \in [pc : ReadSteps \cup {"close_body"}, n : Nat, err : Verdicts]
  BY DEF B!Idle, ReadSteps, Verdicts
<1>2. thread' = [thread EXCEPT ![t] = B!Idle] BY DEF B!ReaderReturns
<1>3. thread' \in [Threads -> [pc : ReadSteps \cup {"close_body"}, n : Nat, err : Verdicts]] BY <1>0, <1>1, <1>2
<1>4. \A r \in Readers : thread'[r].pc = "idle" BY <1>0, <1>1, <1>2 DEF Threads
<1>5. told'.bytes = told.bytes + n /\ told'.verdicts = told.verdicts \cup {err} BY DEF B!ReaderReturns
<1>6. told.bytes + n \in 0 .. ExpectedLength BY <1>0
<1>7. told' \in [bytes : 0 .. ExpectedLength, verdicts : SUBSET Verdicts] BY <1>0, <1>6 DEF B!ReaderReturns
<1>8. ReaderTyped' BY <1>3, <1>4, <1>7 DEF ReaderTyped, ReaderInv, ReadSteps
<1>9. OneReader' /\ \A r \in Readers : ReadFits(thread[r], terminal, told.bytes, count)' BY <1>4 DEF OneReader, ReadFits
<1> QED BY <1>5, <1>8, <1>9 DEF ReaderInv

(* A step that leaves the Reads alone: the reader is made or closed.       *)
LEMMA ReadsStay ==
  ASSUME ReaderInv, UNCHANGED <<count, told>>, body' \in [kind : B!Bodies, left : Nat],
         body' = body \/ terminal = "nil", terminal' \in {terminal, "closed"}, terminal # "nil" => terminal' = terminal,
         thread' \in [Threads -> [pc : ReadSteps \cup {"close_body"}, n : Nat, err : Verdicts]],
         \A r \in Readers : thread'[r] = thread[r]
  PROVE  ReaderInv'
<1>1. ReaderTyped' BY DEF ReaderInv, ReaderTyped, Verdicts
<1>2. OneReader' BY DEF ReaderInv, OneReader
<1>3. \A r \in Readers : ReadFits(thread[r], terminal, told.bytes, count)' BY DEF ReaderInv, ReadFits, ReaderTyped, Verdicts
<1>4. B!readMuFree' => B!readMuFree BY DEF B!readMuFree
<1> QED BY <1>1, <1>2, <1>3, <1>4 DEF ReaderInv, ReaderTyped

LEMMA ReaderKeeps == ReaderInv /\ [B!ReaderNext]_(B!readerVars) => ReaderInv'
<1> SUFFICES ASSUME ReaderInv, [B!ReaderNext]_(B!readerVars) PROVE ReaderInv' OBVIOUS
<1>0. /\ ReaderTyped /\ OneReader /\ ExpectedLength \in Nat \ {0} /\ Readers \cap Closers = {}
      /\ thread \in [Threads -> [pc : ReadSteps \cup {"close_body"}, n : Nat, err : Verdicts]]
      /\ body \in [kind : B!Bodies, left : Nat] /\ count \in 0 .. ExpectedLength /\ terminal \in Verdicts
      /\ told.bytes \in 0 .. ExpectedLength
  BY MediaAssumption DEF ReaderInv, ReaderTyped
<1>1. CASE UNCHANGED B!readerVars BY <1>0, <1>1, ReadsStay DEF B!readerVars, ReaderInv, ReaderTyped
<1>2. ASSUME NEW kind \in B!Bodies, B!newS3VerifiedReadCloser(kind) PROVE ReaderInv'
  <2>1. body.kind = "unset" /\ UNCHANGED <<count, terminal, closed, closeOnce, thread, told>>
    BY <1>2 DEF B!newS3VerifiedReadCloser
  <2>2. terminal # "EOF" BY <2>1 DEF ReaderInv
  <2>3. B!LengthOf(kind) \in Nat BY <1>0 DEF B!LengthOf
  <2>4. body' \in [kind : B!Bodies, left : Nat] BY <1>2, <2>3 DEF B!newS3VerifiedReadCloser
  <2>5. ReaderTyped' BY <1>0, <2>1, <2>4 DEF ReaderTyped
  <2>6. OneReader' /\ (\A r \in Readers : ReadFits(thread[r], terminal, told.bytes, count)') /\ (B!readMuFree' <=> B!readMuFree)
    BY <2>1 DEF ReaderInv, OneReader, ReadFits, B!readMuFree
  <2> QED BY <2>1, <2>2, <2>5, <2>6 DEF ReaderInv
<1>3. ASSUME NEW t \in Readers,
             B!ReadBegins(t) \/ B!BodyRead(t) \/ B!Record(t) \/ B!Judge(t) \/ B!fail(t)
      PROVE  ReaderInv'
  <2>0. /\ t \in Threads /\ thread[t] \in [pc : ReadSteps \cup {"close_body"}, n : Nat, err : Verdicts]
        /\ thread[t].n \in Nat /\ ReadFits(thread[t], terminal, told.bytes, count)
    BY <1>0 DEF Threads, ReaderInv
  <2>1. \A r \in Readers : r # t => thread[r].pc = "idle"
    BY <1>0, <1>3 DEF B!ReadBegins, B!BodyRead, B!Record, B!Judge, B!fail, B!ReaderAt, B!readMuFree, OneReader
  <2>2. CASE B!ReadBegins(t)
    <3>1. UNCHANGED <<body, count, terminal>> /\ B!readMuFree BY <2>2 DEF B!ReadBegins
    <3>2. CASE terminal # "nil"
      <4>1. B!ReaderReturns(t, 0, terminal) BY <2>2, <3>2 DEF B!ReadBegins
      <4>2. terminal = "EOF" => body.kind = "good" /\ told.bytes + 0 = ExpectedLength BY <1>0 DEF ReaderInv
      <4>3. told.bytes + 0 <= ExpectedLength BY <1>0
      <4> QED BY <1>0, <2>1, <3>1, <3>2, <4>1, <4>2, <4>3, ReadEnds
    <3>3. CASE terminal = "nil"
      <4> DEFINE x == [thread[t] EXCEPT !.pc = "read"]
      <4>1. thread' = [thread EXCEPT ![t] = x] /\ told' = told BY <2>2, <3>3 DEF B!ReadBegins
      <4>2. x \in [pc : ReadSteps, n : Nat, err : Verdicts] /\ x.pc = "read" BY <2>0 DEF ReadSteps
      <4> HIDE DEF x
      <4>3. told.bytes = count BY <3>1, <3>3 DEF ReaderInv
      <4>4. ReadFits(x, terminal', told'.bytes, count') BY <3>1, <3>3, <4>1, <4>2, <4>3 DEF ReadFits
      <4> QED BY <1>0, <2>1, <3>1, <3>3, <4>1, <4>2, <4>4, ReadGoes
    <3> QED BY <3>2, <3>3
  <2>3. CASE B!BodyRead(t)
    <3>1. UNCHANGED <<count, terminal, told>> /\ thread[t].pc = "read" BY <2>3 DEF B!BodyRead, B!ReaderAt
    <3>2. PICK n \in 0 .. body.left :
             /\ body' = [body EXCEPT !.left = @ - n]
             /\ thread' = [thread EXCEPT ![t] = [pc |-> "record", n |-> n,
                  err |-> IF n > 0 THEN "nil"
                          ELSE IF closeOnce > 0 \/ body.kind = "broken" THEN "provider" ELSE "EOF"]]
      BY <2>3 DEF B!BodyRead
    <3> DEFINE e == IF n > 0 THEN "nil" ELSE IF closeOnce > 0 \/ body.kind = "broken" THEN "provider" ELSE "EOF"
               x == [pc |-> "record", n |-> n, err |-> e]
    <3>3. thread' = [thread EXCEPT ![t] = x] BY <3>2
    <3>4. e \in Verdicts BY DEF Verdicts
    <3>5. n \in Nat /\ body.left - n \in Nat BY <1>0, <3>2
    <3>6. body' \in [kind : B!Bodies, left : Nat] BY <1>0, <3>2, <3>5
    <3> HIDE DEF e
    <3>7. x \in [pc : ReadSteps, n : Nat, err : Verdicts] /\ x.pc = "record" BY <3>4, <3>5 DEF ReadSteps
    <3>12. x.n = n /\ x.err = e OBVIOUS
    <3> HIDE DEF x
    <3>8. terminal \in {"nil", "closed"} /\ told.bytes = count BY <2>0, <3>1 DEF ReadFits
    <3>11. e # "nil" => n = 0 BY <3>5 DEF e
    <3>9. ReadFits(x, terminal', told'.bytes, count') BY <3>1, <3>7, <3>8, <3>11, <3>12 DEF ReadFits
    <3> QED BY <1>0, <2>1, <3>1, <3>3, <3>6, <3>7, <3>8, <3>9, ReadGoes
  <2>4. CASE B!Record(t)
    <3> DEFINE n == thread[t].n
               b == B!boundedReadCount(n)
    <3>1. UNCHANGED <<body, terminal>> /\ thread[t].pc = "record" BY <2>4 DEF B!Record, B!ReaderAt
    <3>2. terminal \in {"nil", "closed"} /\ told.bytes = count BY <2>0, <3>1 DEF ReadFits
    <3>3. n \in Nat BY <2>0
    <3>4. b \in Nat /\ count + b <= ExpectedLength /\ (n <= ExpectedLength - count => b = n)
      BY <1>0, <3>3 DEF B!boundedReadCount
    <3>5. count' = IF terminal = "nil" THEN count + b ELSE count BY <2>4 DEF B!Record
    <3>6. count' \in 0 .. ExpectedLength BY <1>0, <3>4, <3>5
    <3>7. told.bytes + b <= ExpectedLength BY <3>2, <3>4
    <3>8. CASE terminal # "nil"
      <4>1. B!ReaderReturns(t, b, terminal) BY <2>4, <3>8 DEF B!Record
      <4> HIDE DEF n, b
      <4> QED BY <1>0, <2>1, <3>1, <3>2, <3>4, <3>6, <3>7, <3>8, <4>1, ReadEnds
    <3>9. CASE terminal = "nil"
      <4> DEFINE over == n > ExpectedLength - count
      <4>1. CASE over \/ thread[t].err = "provider"
        <5> DEFINE e == IF over THEN "mismatch" ELSE "provider"
                   x == [pc |-> "fail", n |-> b, err |-> e]
        <5>1. thread' = [thread EXCEPT ![t] = x] /\ told' = told BY <2>4, <3>9, <4>1 DEF B!Record
        <5>2. e \in {"mismatch", "provider"} OBVIOUS
        <5> HIDE DEF e, over, b, n
        <5>3. x \in [pc : ReadSteps, n : Nat, err : Verdicts] BY <3>4, <5>2 DEF ReadSteps, Verdicts
        <5>4. x.pc = "fail" /\ x.n = b /\ x.err = e OBVIOUS
        <5> HIDE DEF x
        <5>5. told'.bytes + x.n = count' BY <3>2, <3>5, <3>9, <5>1, <5>4
        <5>6. ReadFits(x, terminal', told'.bytes, count') BY <3>1, <3>2, <5>2, <5>4, <5>5 DEF ReadFits
        <5> QED BY <1>0, <2>1, <3>1, <3>2, <3>6, <5>1, <5>3, <5>4, <5>6, ReadGoes
      <4>2. CASE ~over /\ thread[t].err # "provider" /\ thread[t].err = "nil"
        <5>1. B!ReaderReturns(t, n, "nil") BY <2>4, <3>9, <4>2 DEF B!Record
        <5>2. b = n BY <1>0, <3>3, <3>4, <4>2
        <5>3. told.bytes + n = count' /\ told.bytes + n <= ExpectedLength BY <3>2, <3>5, <3>7, <3>9, <5>2
        <5>4. "nil" \in Verdicts BY DEF Verdicts
        <5> HIDE DEF n, b
        <5> QED BY <1>0, <2>1, <3>1, <3>2, <3>3, <3>6, <3>9, <5>1, <5>3, <5>4, ReadEnds
      <4>3. CASE ~over /\ thread[t].err # "provider" /\ thread[t].err # "nil"
        <5> DEFINE x == [thread[t] EXCEPT !.pc = "judge"]
        <5>1. thread' = [thread EXCEPT ![t] = x] /\ told' = told BY <2>4, <3>9, <4>3 DEF B!Record
        <5>2. x \in [pc : ReadSteps, n : Nat, err : Verdicts] /\ x.pc = "judge" BY <2>0 DEF ReadSteps
        <5> HIDE DEF x
        <5>5. n = 0 /\ b = 0 BY <1>0, <2>0, <3>1, <3>4, <4>3 DEF ReadFits
        <5>3. told'.bytes = count' BY <1>0, <3>2, <3>5, <3>9, <5>1, <5>5
        <5>4. ReadFits(x, terminal', told'.bytes, count') BY <3>1, <3>2, <5>2, <5>3 DEF ReadFits
        <5> QED BY <1>0, <2>1, <3>1, <3>2, <3>6, <5>1, <5>2, <5>4, ReadGoes
      <4> QED BY <4>1, <4>2, <4>3
    <3> QED BY <3>8, <3>9
  <2>5. CASE B!Judge(t)
    <3>1. UNCHANGED <<body, count>> /\ thread[t].pc = "judge" BY <2>5 DEF B!Judge, B!ReaderAt
    <3>2. terminal \in {"nil", "closed"} /\ told.bytes = count BY <2>0, <3>1 DEF ReadFits
    <3>3. told.bytes + 0 = count /\ told.bytes + 0 <= ExpectedLength BY <1>0, <3>2
    <3>4. CASE terminal # "nil"
      <4>1. B!ReaderReturns(t, 0, terminal) /\ terminal' = terminal BY <2>5, <3>4 DEF B!Judge
      <4> QED BY <1>0, <2>1, <3>1, <3>2, <3>3, <3>4, <4>1, ReadEnds
    <3>5. CASE terminal = "nil" /\ B!valid
      <4>1. B!ReaderReturns(t, 0, "EOF") /\ terminal' = "EOF" BY <2>5, <3>5 DEF B!Judge
      <4>2. body.kind = "good" /\ told.bytes + 0 = ExpectedLength BY <3>3, <3>5 DEF B!valid
      <4>3. "EOF" \in Verdicts BY DEF Verdicts
      <4> QED BY <1>0, <2>1, <3>1, <3>2, <3>3, <4>1, <4>2, <4>3, ReadEnds
    <3>6. CASE terminal = "nil" /\ ~B!valid
      <4> DEFINE x == [pc |-> "fail", n |-> 0, err |-> "mismatch"]
      <4>1. thread' = [thread EXCEPT ![t] = x] /\ told' = told /\ terminal' = terminal BY <2>5, <3>6 DEF B!Judge
      <4>2. x \in [pc : ReadSteps, n : Nat, err : Verdicts] BY DEF ReadSteps, Verdicts
      <4>3. x.pc = "fail" /\ x.n = 0 /\ x.err = "mismatch" OBVIOUS
      <4> HIDE DEF x
      <4>4. told'.bytes + x.n = count' BY <3>1, <3>3, <4>1, <4>3
      <4>5. ReadFits(x, terminal', told'.bytes, count') BY <3>2, <4>1, <4>3, <4>4 DEF ReadFits
      <4> QED BY <1>0, <2>1, <3>1, <3>2, <4>1, <4>2, <4>3, <4>5, ReadGoes
    <3> QED BY <3>4, <3>5, <3>6
  <2>6. CASE B!fail(t)
    <3>1. UNCHANGED <<body, count>> /\ thread[t].pc = "fail" BY <2>6 DEF B!fail, B!ReaderAt
    <3>2. terminal \in {"nil", "closed"} /\ told.bytes + thread[t].n = count /\ thread[t].err \in {"mismatch", "provider"}
      BY <2>0, <3>1 DEF ReadFits
    <3> DEFINE n == thread[t].n
               e == thread[t].err
    <3>3. n \in Nat /\ told.bytes + n <= ExpectedLength BY <1>0, <2>0, <3>2
    <3>4. e \in Verdicts /\ e \notin {"EOF", "nil"} BY <3>2 DEF Verdicts
    <3>5. CASE terminal # "nil"
      <4>1. B!ReaderReturns(t, n, terminal) /\ terminal' = terminal BY <2>6, <3>5 DEF B!fail, B!firstVerdict
      <4> HIDE DEF n
      <4> QED BY <1>0, <2>1, <3>1, <3>2, <3>3, <3>5, <4>1, ReadEnds
    <3>6. CASE terminal = "nil"
      <4>1. B!ReaderReturns(t, n, e) /\ terminal' = e BY <2>6, <3>6 DEF B!fail, B!firstVerdict
      <4> HIDE DEF n, e
      <4> QED BY <1>0, <2>1, <3>1, <3>2, <3>3, <3>4, <3>6, <4>1, ReadEnds
    <3> QED BY <3>5, <3>6
  <2> QED BY <1>3, <2>2, <2>3, <2>4, <2>5, <2>6
<1>4. ASSUME NEW t \in Closers, B!Close(t) \/ B!closeBody(t) PROVE ReaderInv'
  <2>1. t \in Threads /\ t \notin Readers /\ UNCHANGED <<body, count, told>>
    BY <1>0, <1>4 DEF Threads, B!Close, B!closeBody
  <2>2. terminal' \in {terminal, "closed"} /\ (terminal # "nil" => terminal' = terminal)
    BY <1>4 DEF B!Close, B!closeBody, B!firstVerdict
  <2>3. PICK x : thread' = [thread EXCEPT ![t] = x] /\ x \in [pc : ReadSteps \cup {"close_body"}, n : Nat, err : Verdicts]
    <3>1. [thread[t] EXCEPT !.pc = "close_body"] \in [pc : ReadSteps \cup {"close_body"}, n : Nat, err : Verdicts]
      BY <1>0, <2>1
    <3>2. B!Idle \in [pc : ReadSteps \cup {"close_body"}, n : Nat, err : Verdicts] BY DEF B!Idle, ReadSteps, Verdicts
    <3>3. CASE B!Close(t) BY <3>1, <3>3 DEF B!Close
    <3>4. CASE B!closeBody(t) BY <3>2, <3>4 DEF B!closeBody
    <3> QED BY <1>4, <3>3, <3>4
  <2>4. thread' \in [Threads -> [pc : ReadSteps \cup {"close_body"}, n : Nat, err : Verdicts]]
    BY <1>0, <2>1, <2>3
  <2>5. \A r \in Readers : thread'[r] = thread[r] BY <1>0, <2>1, <2>3 DEF Threads
  <2> QED BY <1>0, <2>1, <2>2, <2>4, <2>5, ReadsStay
<1> QED BY <1>1, <1>2, <1>3, <1>4 DEF B!ReaderNext

LEMMA ReaderSays == ReaderInv => B!EndMeansVerified
BY MediaAssumption DEF ReaderInv, ReaderTyped, B!EndMeansVerified
-----------------------------------------------------------------------------
(***************************************************************************)
(* Provisioning.  How far a run has come says what it has written, what it *)
(* has read back as wanted, whether its trial upload may be there, and     *)
(* what its report will say of all that.                                   *)
(***************************************************************************)
ProvisionSpec == A!ProvisionInit /\ [][A!ProvisionNext]_(A!provisionVars)

PlanSteps == {"planVersioning", "planCors", "planLifecycle"}
ReadySteps == {"canary", "list", "abort", "final"}
ApplySteps == {"putVersioning", "putCors", "putLifecycle", "getVersioning", "getCors", "getLifecycle"} \cup ReadySteps
ProvisionActions == [name : A!Settings, outcome : A!Outcomes]
ProvisionCodes == {"", "public", "invalid", "call_failed", "unverified", "cleanup_failed"}
ProvisionRuns ==
  [pc : {"new", "head", "policy", "over"} \cup PlanSteps \cup ApplySteps, apply : BOOLEAN, checked : Policies,
   corsMode : {"", "bucket", "gateway"}, cleanup : {"", "bucket", "application"}, actions : Seq(ProvisionActions),
   wrote : SUBSET A!Settings, doubt : SUBSET (A!Settings \cup {"canary"}), since : Nat,
   status : {"", "planned", "completed", "partial"}, code : ProvisionCodes, cancelled : BOOLEAN]
ThreeWays == {"none", "other", "desired"}
Buckets == [policy : Policies, versioning : {"off", "on"}, cors : ThreeWays, lifecycle : ThreeWays]
ProvisionTyped ==
  /\ bucket \in Buckets /\ offers \subseteq {"cors", "lifecycle"} /\ canaries \subseteq Operators
  /\ provisionRun \in [Operators -> ProvisionRuns] /\ edits \in 0 .. MaxPolicyEdits /\ faults \in 0 .. MaxAnswersLost

Configured(s) == {s[i].name : i \in {j \in DOMAIN s : s[j].outcome = "configured"}}
(* Of a run: what it wrote is in its report or in doubt, to a bucket it    *)
(* had found private; what it set is known by its modes.                   *)
WroteFits(x, off) ==
  /\ x.wrote \subseteq Configured(x.actions) \cup x.doubt
  /\ x.wrote # {} \/ x.pc \in ApplySteps => ~A!Anonymous(x.checked)
  /\ x.pc # "over" => x.doubt = {} /\ x.status = ""
  /\ x.pc \in ApplySteps \ {"putVersioning", "putCors"} /\ "cors" \in off => x.corsMode = "bucket"
  /\ x.pc \in ApplySteps \ {"putVersioning", "putCors", "putLifecycle"} /\ "lifecycle" \in off => x.cleanup = "bucket"
(* Of a run no edit has crossed: what it has read back is as it was.       *)
ReadFitsBucket(x, b, off, ed) ==
  /\ x.since <= ed
  /\ x.since = ed =>
       /\ x.pc \in {"getCors", "getLifecycle"} \cup ReadySteps => b.versioning = "on"
       /\ x.pc \in {"getLifecycle"} \cup ReadySteps /\ "cors" \in off => b.cors = "desired"
       /\ x.pc \in ReadySteps /\ "lifecycle" \in off => b.lifecycle = "desired"
       /\ x.status = "completed" => /\ b.versioning = "on" /\ ~A!Anonymous(b.policy)
                                    /\ "cors" \in off => b.cors = "desired"
                                    /\ "lifecycle" \in off => b.lifecycle = "desired"
CanaryFits(x, left) ==
  left => x.pc \in {"list", "abort"} \/ (x.pc = "over" /\ (x.code = "cleanup_failed" \/ "canary" \in x.doubt))
RunFits(x, b, off, ed, left) == WroteFits(x, off) /\ ReadFitsBucket(x, b, off, ed) /\ CanaryFits(x, left)
ProvisionInv ==
  ProvisionTyped /\ \A o \in Operators : RunFits(provisionRun[o], bucket, offers, edits, o \in canaries)

LEMMA NoOneAsked == <<>> \in Policies /\ ~A!Anonymous(<<>>)
BY DEF Policies, A!Anonymous

LEMMA PrivateIsPrivate == ASSUME NEW p, A!s3PolicyIsPublic(p) = "private" PROVE ~A!Anonymous(p)
<1> DEFINE decides == {i \in DOMAIN p : p[i].effect \notin {"Allow", "Deny"}
                                        \/ (p[i].effect = "Allow" /\ A!LetsAnyoneIn(p[i]))}
<1>1. decides = {} BY DEF A!s3PolicyIsPublic
<1> QED BY <1>1 DEF A!Anonymous, A!LetsAnyoneIn, A!s3PolicyPrincipalIsPublic

LEMMA NewRun == /\ A!NoProvision \in ProvisionRuns /\ A!NoProvision.pc = "new" /\ A!NoProvision.wrote = {}
                /\ A!NoProvision.doubt = {} /\ A!NoProvision.status = "" /\ A!NoProvision.since = 0
<1>1. <<>> \in Seq(ProvisionActions) OBVIOUS
<1> DEFINE empty == <<>>
<1>2. empty \in Seq(ProvisionActions) /\ empty \in Policies BY <1>1, NoOneAsked
<1>3. A!NoProvision = [pc |-> "new", apply |-> FALSE, checked |-> empty, corsMode |-> "", cleanup |-> "",
        actions |-> empty, wrote |-> {}, doubt |-> {}, since |-> 0, status |-> "", code |-> "", cancelled |-> FALSE]
  BY DEF A!NoProvision
<1> HIDE DEF empty
<1> QED BY <1>2, <1>3 DEF ProvisionRuns, ProvisionCodes

LEMMA ProvisionInitially == A!ProvisionInit => ProvisionInv
<1> SUFFICES ASSUME A!ProvisionInit PROVE ProvisionInv OBVIOUS
<1> USE DEF A!ProvisionInit
<1>1. \A o \in Operators : provisionRun[o] = A!NoProvision OBVIOUS
<1>2. bucket \in Buckets BY DEF Buckets, ThreeWays
<1>3. 0 \in 0 .. MaxPolicyEdits /\ 0 \in 0 .. MaxAnswersLost BY MediaAssumption
<1>4. ProvisionTyped BY <1>2, <1>3, NewRun DEF ProvisionTyped
<1>5. \A o \in Operators : RunFits(A!NoProvision, bucket, offers, edits, o \in canaries)
  <2>1. WroteFits(A!NoProvision, offers) BY NewRun DEF WroteFits, ApplySteps, ReadySteps
  <2>3. canaries = {} /\ edits = 0 OBVIOUS
  <2> HIDE DEF A!ProvisionInit
  <2>5. A!NoProvision.since = 0 /\ edits = 0 BY <2>3, NewRun
  <2>4. A!NoProvision.since <= edits BY <2>5, 0 <= 0
  <2>2. ReadFitsBucket(A!NoProvision, bucket, offers, edits) BY <2>4, NewRun DEF ReadFitsBucket, ReadySteps
  <2> QED BY <2>1, <2>2, <2>3 DEF RunFits, CanaryFits
<1> QED BY <1>1, <1>4, <1>5 DEF ProvisionInv

(* Settings that only become the wanted ones.                              *)
Better(b, c) == /\ c.policy = b.policy /\ (b.versioning = "on" => c.versioning = "on")
                /\ (b.cors = "desired" => c.cors = "desired") /\ (b.lifecycle = "desired" => c.lifecycle = "desired")
LEMMA RunGoes ==
  ASSUME ProvisionInv, NEW o \in Operators, NEW x \in ProvisionRuns, provisionRun' = [provisionRun EXCEPT ![o] = x],
         UNCHANGED <<offers, edits>>, faults' \in 0 .. MaxAnswersLost, bucket' \in Buckets, Better(bucket, bucket'),
         canaries' \subseteq canaries \cup {o}, RunFits(x, bucket', offers, edits, o \in canaries')
  PROVE  ProvisionInv'
<1>1. \A q \in Operators : (q = o /\ provisionRun'[q] = x) \/ (q # o /\ provisionRun'[q] = provisionRun[q])
  BY DEF ProvisionInv, ProvisionTyped
<1>2. ProvisionTyped' BY DEF ProvisionInv, ProvisionTyped
<1>3. ASSUME NEW q \in Operators PROVE RunFits(provisionRun'[q], bucket', offers', edits', q \in canaries')
  <2>1. CASE q = o BY <1>1, <2>1
  <2>2. CASE q # o
    <3>1. provisionRun'[q] = provisionRun[q] /\ (q \in canaries' => q \in canaries) BY <1>1, <2>2
    <3>2. RunFits(provisionRun[q], bucket, offers, edits, q \in canaries) BY DEF ProvisionInv
    <3>3. WroteFits(provisionRun'[q], offers') BY <3>1, <3>2 DEF RunFits
    <3>4. CanaryFits(provisionRun'[q], q \in canaries') BY <3>1, <3>2 DEF RunFits, CanaryFits
    <3>5. ReadFitsBucket(provisionRun'[q], bucket', offers', edits')
      BY <3>1, <3>2 DEF RunFits, ReadFitsBucket, Better
    <3> QED BY <3>3, <3>4, <3>5 DEF RunFits
  <2> QED BY <2>1, <2>2
<1> QED BY <1>2, <1>3 DEF ProvisionInv

LEMMA EditKeeps == ASSUME ProvisionInv, A!Edit PROVE ProvisionInv'
<1>0. edits \in 0 .. MaxPolicyEdits /\ MaxPolicyEdits \in Nat /\ bucket \in Buckets
  BY MediaAssumption DEF ProvisionInv, ProvisionTyped
<1>1. edits' = edits + 1 /\ edits' \in 0 .. MaxPolicyEdits BY <1>0 DEF A!Edit
<1>2. UNCHANGED <<offers, canaries, provisionRun, faults>> BY DEF A!Edit
<1>3. bucket' \in Buckets BY <1>0 DEF A!Edit, Buckets, ThreeWays
<1>4. ProvisionTyped' BY <1>1, <1>2, <1>3 DEF ProvisionInv, ProvisionTyped
<1>5. ASSUME NEW o \in Operators PROVE RunFits(provisionRun[o], bucket, offers, edits, o \in canaries)'
  <2>1. RunFits(provisionRun[o], bucket, offers, edits, o \in canaries) BY DEF ProvisionInv
  <2>2. provisionRun[o].since \in Nat BY DEF ProvisionInv, ProvisionTyped, ProvisionRuns
  <2>3. provisionRun[o].since <= edits + 1 /\ provisionRun[o].since # edits + 1
    BY <1>0, <2>1, <2>2 DEF RunFits, ReadFitsBucket
  <2>4. ReadFitsBucket(provisionRun'[o], bucket', offers', edits') BY <1>1, <1>2, <2>3 DEF ReadFitsBucket
  <2> QED BY <1>2, <2>1, <2>4 DEF RunFits
<1> QED BY <1>4, <1>5 DEF ProvisionInv

(* One more line in the report.                                            *)
LEMMA ToldMore ==
  ASSUME NEW s \in Seq(ProvisionActions), NEW name \in A!Settings, NEW outcome \in A!Outcomes
  PROVE  LET t == Append(s, [name |-> name, outcome |-> outcome]) IN
         /\ t \in Seq(ProvisionActions) /\ Configured(s) \subseteq Configured(t)
         /\ (outcome = "configured" => name \in Configured(t))
<1> DEFINE m == [name |-> name, outcome |-> outcome]
           t == Append(s, m)
<1>1. m \in ProvisionActions BY DEF ProvisionActions
<1>2. m.name = name /\ m.outcome = outcome OBVIOUS
<1> HIDE DEF m
<1>3. t \in Seq(ProvisionActions) /\ Len(t) = Len(s) + 1 /\ t[Len(t)] = m /\ \A i \in 1 .. Len(s) : t[i] = s[i]
  BY <1>1
<1> HIDE DEF t
<1>4. DOMAIN s = 1 .. Len(s) /\ DOMAIN t = 1 .. Len(t) /\ Len(s) \in Nat BY <1>3
<1>5. Configured(s) \subseteq Configured(t) BY <1>3, <1>4 DEF Configured
<1>6. outcome = "configured" => name \in Configured(t)
  <2>1. Len(t) \in DOMAIN t BY <1>3, <1>4
  <2> QED BY <1>2, <1>3, <2>1 DEF Configured
<1> QED BY <1>3, <1>5, <1>6 DEF t, m
-----------------------------------------------------------------------------
LEMMA RunFacts ==
  ASSUME ProvisionInv, NEW o \in Operators
  PROVE  /\ provisionRun[o] \in ProvisionRuns /\ bucket \in Buckets /\ faults \in 0 .. MaxAnswersLost
         /\ WroteFits(provisionRun[o], offers) /\ ReadFitsBucket(provisionRun[o], bucket, offers, edits)
         /\ CanaryFits(provisionRun[o], o \in canaries) /\ offers \subseteq {"cors", "lifecycle"}
         /\ provisionRun \in [Operators -> ProvisionRuns] /\ edits \in Nat
BY MediaAssumption DEF ProvisionInv, ProvisionTyped, RunFits

LEMMA SameBucket == ASSUME ProvisionInv, bucket' = bucket PROVE bucket' \in Buckets /\ Better(bucket, bucket')
BY DEF ProvisionInv, ProvisionTyped, Better

LEMMA OneMoreFault == ASSUME ProvisionInv, faults < MaxAnswersLost, faults' = faults + 1 PROVE faults' \in 0 .. MaxAnswersLost
BY MediaAssumption DEF ProvisionInv, ProvisionTyped

(* The run is over, and says that it is cut short.                         *)
LEMMA RunFails ==
  ASSUME ProvisionInv, NEW o \in Operators, NEW code \in ProvisionCodes, provisionRun[o].pc # "over",
         provisionRun' = A!Fails(o, code), UNCHANGED <<bucket, offers, edits>>, faults' \in 0 .. MaxAnswersLost,
         canaries' \subseteq canaries, code = "cleanup_failed" \/ o \notin canaries'
  PROVE  ProvisionInv'
<1> DEFINE y == provisionRun[o]
           x == [y EXCEPT !.pc = "over", !.status = "partial", !.code = code]
<1>1. y \in ProvisionRuns /\ WroteFits(y, offers) /\ ReadFitsBucket(y, bucket, offers, edits) BY RunFacts
<1>2. provisionRun' = [provisionRun EXCEPT ![o] = x] BY DEF A!Fails
<1> HIDE DEF y
<1>3. /\ x \in ProvisionRuns /\ x.pc = "over" /\ x.status = "partial" /\ x.code = code /\ x.wrote = y.wrote
      /\ x.actions = y.actions /\ x.doubt = y.doubt /\ x.checked = y.checked /\ x.since = y.since
  BY <1>1 DEF ProvisionRuns
<1> HIDE DEF x
<1>4. WroteFits(x, offers) BY <1>1, <1>3 DEF WroteFits, ApplySteps, ReadySteps
<1>5. ReadFitsBucket(x, bucket, offers, edits) BY <1>1, <1>3 DEF ReadFitsBucket, ReadySteps
<1>6. CanaryFits(x, o \in canaries') BY <1>3 DEF CanaryFits
<1>7. RunFits(x, bucket', offers, edits, o \in canaries') BY <1>4, <1>5, <1>6 DEF RunFits
<1> QED BY <1>2, <1>3, <1>7, SameBucket, RunGoes

(* The run goes on to another step before it has written anything, or to   *)
(* one where it has read back no more than before.                         *)
LEMMA RunMoves ==
  ASSUME ProvisionInv, NEW o \in Operators, NEW x \in ProvisionRuns, provisionRun' = [provisionRun EXCEPT ![o] = x],
         provisionRun[o].pc # "over", x.pc # "over", UNCHANGED <<bucket, offers, edits>>, faults' \in 0 .. MaxAnswersLost,
         canaries' \subseteq canaries \cup {o}, o \in canaries' => x.pc \in {"list", "abort"},
         x.wrote = provisionRun[o].wrote, Configured(provisionRun[o].actions) \subseteq Configured(x.actions),
         x.doubt = provisionRun[o].doubt, x.status = provisionRun[o].status, x.checked = provisionRun[o].checked,
         x.pc \in ApplySteps => provisionRun[o].pc \in ApplySteps,
         x.pc \in ApplySteps \ {"putVersioning", "putCors"} /\ "cors" \in offers => x.corsMode = "bucket",
         x.pc \in ApplySteps \ {"putVersioning", "putCors", "putLifecycle"} /\ "lifecycle" \in offers =>
            x.cleanup = "bucket",
         ReadFitsBucket(x, bucket, offers, edits)
  PROVE  ProvisionInv'
<1>1. WroteFits(provisionRun[o], offers) BY RunFacts
<1>2. WroteFits(x, offers) BY <1>1 DEF WroteFits
<1>3. CanaryFits(x, o \in canaries') BY DEF CanaryFits
<1>4. RunFits(x, bucket', offers, edits, o \in canaries') BY <1>2, <1>3 DEF RunFits
<1> QED BY <1>4, SameBucket, RunGoes

LEMMA NoCanary ==
  ASSUME ProvisionInv, NEW o \in Operators, provisionRun[o].pc \notin {"list", "abort", "over"} PROVE o \notin canaries
BY RunFacts DEF CanaryFits

(* The first steps, and those of a plan.                                   *)
LEMMA PlansKeep ==
  ASSUME ProvisionInv, NEW o \in Operators,
         (\E apply \in BOOLEAN : A!runProvision(o, apply)) \/ A!headS3Bucket(o) \/ A!verifyPrivateS3Policy(o)
         \/ A!planS3Provision(o) \/ A!inspectS3Cors(o) \/ A!inspectS3Lifecycle(o)
  PROVE  ProvisionInv'
<1> DEFINE y == provisionRun[o]
<1>0. /\ y \in ProvisionRuns /\ bucket \in Buckets /\ WroteFits(y, offers) /\ CanaryFits(y, o \in canaries)
      /\ ReadFitsBucket(y, bucket, offers, edits) /\ faults \in 0 .. MaxAnswersLost
  BY RunFacts
<1>1. UNCHANGED <<bucket, canaries, faults, offers, edits>>
  BY DEF A!runProvision, A!headS3Bucket, A!verifyPrivateS3Policy, A!planS3Provision, A!inspectS3Cors,
         A!inspectS3Lifecycle, A!NoCall, A!Beside
<1>2. y.pc \in {"new", "head", "policy", "final"} \cup PlanSteps
  BY DEF A!runProvision, A!headS3Bucket, A!verifyPrivateS3Policy, A!planS3Provision, A!inspectS3Cors,
         A!inspectS3Lifecycle, PlanSteps
<1>3. y.pc \notin {"over", "list", "abort"} /\ o \notin canaries BY <1>2, NoCanary DEF PlanSteps
<1>4. ASSUME NEW x \in ProvisionRuns, provisionRun' = [provisionRun EXCEPT ![o] = x],
             x.pc \in {"head", "policy"} \cup PlanSteps, x.wrote = y.wrote, x.since = y.since,
             Configured(y.actions) \subseteq Configured(x.actions), x.doubt = y.doubt, x.status = y.status,
             x.checked = y.checked
      PROVE  ProvisionInv'
  <2>1. x.pc \notin ApplySteps /\ x.pc # "over" BY <1>4 DEF ApplySteps, ReadySteps, PlanSteps
  <2>2. x.status = "" BY <1>0, <1>3, <1>4 DEF WroteFits
  <2>3. x.since <= edits BY <1>0, <1>4 DEF ReadFitsBucket
  <2>4. ReadFitsBucket(x, bucket, offers, edits) BY <2>1, <2>2, <2>3 DEF ReadFitsBucket, ApplySteps
  <2> QED BY <1>0, <1>1, <1>3, <1>4, <2>1, <2>4, RunMoves
<1>5. ASSUME NEW apply \in BOOLEAN, A!runProvision(o, apply) PROVE ProvisionInv'
  <2> DEFINE x == [y EXCEPT !.pc = "head", !.apply = apply]
  <2>1. provisionRun' = [provisionRun EXCEPT ![o] = x] BY <1>5 DEF A!runProvision
  <2> HIDE DEF y
  <2>2. /\ x \in ProvisionRuns /\ x.pc = "head" /\ x.wrote = y.wrote /\ x.since = y.since /\ x.actions = y.actions
        /\ x.doubt = y.doubt /\ x.status = y.status /\ x.checked = y.checked
    BY <1>0 DEF ProvisionRuns
  <2> HIDE DEF x
  <2> QED BY <1>4, <2>1, <2>2
<1>6. CASE A!headS3Bucket(o)
  <2> DEFINE x == [y EXCEPT !.pc = "policy"]
  <2>1. provisionRun' = [provisionRun EXCEPT ![o] = x] BY <1>6 DEF A!headS3Bucket
  <2> HIDE DEF y
  <2>2. /\ x \in ProvisionRuns /\ x.pc = "policy" /\ x.wrote = y.wrote /\ x.since = y.since /\ x.actions = y.actions
        /\ x.doubt = y.doubt /\ x.status = y.status /\ x.checked = y.checked
    BY <1>0 DEF ProvisionRuns
  <2> HIDE DEF x
  <2> QED BY <1>4, <2>1, <2>2
<1>7. ASSUME NEW name \in A!Settings, NEW outcome \in A!Outcomes, NEW pc \in {"planCors", "planLifecycle"},
             A!Inspect(o, name, pc, outcome)
      PROVE  ProvisionInv'
  <2> DEFINE acts == Append(y.actions, [name |-> name, outcome |-> outcome])
             x == [y EXCEPT !.pc = pc, !.actions = acts]
  <2>1. provisionRun' = [provisionRun EXCEPT ![o] = x] BY <1>7 DEF A!Inspect, A!Does
  <2>2. y.actions \in Seq(ProvisionActions) BY <1>0 DEF ProvisionRuns
  <2>3. acts \in Seq(ProvisionActions) /\ Configured(y.actions) \subseteq Configured(acts) BY <2>2, ToldMore
  <2> HIDE DEF y, acts
  <2>4. /\ x \in ProvisionRuns /\ x.pc = pc /\ x.wrote = y.wrote /\ x.since = y.since /\ x.actions = acts
        /\ x.doubt = y.doubt /\ x.status = y.status /\ x.checked = y.checked
    BY <1>0, <2>3 DEF ProvisionRuns, PlanSteps
  <2> HIDE DEF x
  <2> QED BY <1>4, <2>1, <2>3, <2>4 DEF PlanSteps
<1>8. CASE A!planS3Provision(o) \/ A!inspectS3Cors(o)
  BY <1>7, <1>8 DEF A!planS3Provision, A!inspectS3Cors, A!Settings, A!Outcomes
<1>9. CASE A!inspectS3Lifecycle(o)
  <2> DEFINE outcome == IF "lifecycle" \notin offers THEN "fallback"
                        ELSE IF bucket.lifecycle = "desired" THEN "unchanged" ELSE "would_configure"
             acts == Append(y.actions, [name |-> "lifecycle", outcome |-> outcome])
             x == [y EXCEPT !.pc = "over", !.status = "planned", !.actions = acts]
  <2>1. provisionRun' = [provisionRun EXCEPT ![o] = x] BY <1>9 DEF A!inspectS3Lifecycle, A!Does
  <2>2. y.actions \in Seq(ProvisionActions) BY <1>0 DEF ProvisionRuns
  <2>3. outcome \in A!Outcomes /\ "lifecycle" \in A!Settings BY DEF A!Outcomes, A!Settings
  <2> HIDE DEF outcome
  <2>4. acts \in Seq(ProvisionActions) /\ Configured(y.actions) \subseteq Configured(acts) BY <2>2, <2>3, ToldMore
  <2> HIDE DEF y, acts
  <2>5. /\ x \in ProvisionRuns /\ x.pc = "over" /\ x.wrote = y.wrote /\ x.since = y.since /\ x.actions = acts
        /\ x.doubt = y.doubt /\ x.status = "planned" /\ x.checked = y.checked
    BY <1>0, <2>4 DEF ProvisionRuns, PlanSteps
  <2> HIDE DEF x
  <2>6. WroteFits(x, offers) BY <1>0, <2>4, <2>5 DEF WroteFits, ApplySteps, ReadySteps
  <2>7. ReadFitsBucket(x, bucket, offers, edits) BY <1>0, <2>5 DEF ReadFitsBucket, ReadySteps
  <2>8. RunFits(x, bucket', offers, edits, o \in canaries') BY <1>1, <1>3, <2>6, <2>7 DEF RunFits, CanaryFits
  <2> QED BY <1>0, <1>1, <2>1, <2>5, <2>8, SameBucket, RunGoes
<1>10. CASE A!verifyPrivateS3Policy(o)
  <2> DEFINE verdict == A!s3PolicyIsPublic(bucket.policy)
             pc == IF y.apply THEN "putVersioning" ELSE "planVersioning"
  <2>0. verdict \in {"private", "public", "invalid"} BY DEF A!s3PolicyIsPublic
  <2>1. CASE verdict # "private"
    <3>1. provisionRun' = A!Fails(o, verdict) BY <1>10, <2>1 DEF A!verifyPrivateS3Policy
    <3>2. verdict \in ProvisionCodes BY <2>0, <2>1 DEF ProvisionCodes
    <3> HIDE DEF verdict
    <3> QED BY <1>0, <1>1, <1>3, <3>1, <3>2, RunFails
  <2>2. CASE verdict = "private" /\ y.pc = "policy"
    <3> DEFINE x == [y EXCEPT !.pc = pc, !.checked = bucket.policy]
    <3>1. provisionRun' = [provisionRun EXCEPT ![o] = x] BY <1>10, <2>2 DEF A!verifyPrivateS3Policy
    <3>2. bucket.policy \in Policies /\ ~A!Anonymous(bucket.policy) BY <1>0, <2>2, PrivateIsPrivate DEF Buckets
    <3>3. pc \in {"putVersioning", "planVersioning"} OBVIOUS
    <3> HIDE DEF y, pc
    <3>4. /\ x \in ProvisionRuns /\ x.pc = pc /\ x.wrote = y.wrote /\ x.since = y.since /\ x.actions = y.actions
          /\ x.doubt = y.doubt /\ x.status = y.status /\ x.checked = bucket.policy
      BY <1>0, <3>2, <3>3 DEF ProvisionRuns, PlanSteps, ApplySteps
    <3> HIDE DEF x
    <3>5. WroteFits(x, offers) BY <1>0, <1>3, <3>2, <3>3, <3>4 DEF WroteFits, ApplySteps, ReadySteps
    <3>6. x.status = "" BY <1>0, <1>3, <3>4 DEF WroteFits
    <3>7. ReadFitsBucket(x, bucket, offers, edits) BY <1>0, <3>3, <3>4, <3>6 DEF ReadFitsBucket, ReadySteps
    <3>8. RunFits(x, bucket', offers, edits, o \in canaries') BY <1>1, <1>3, <3>5, <3>7 DEF RunFits, CanaryFits
    <3> QED BY <1>0, <1>1, <3>1, <3>4, <3>8, SameBucket, RunGoes
  <2>3. CASE verdict = "private" /\ y.pc # "policy"
    <3> DEFINE x == [y EXCEPT !.pc = "over", !.status = "completed"]
    <3>1. provisionRun' = [provisionRun EXCEPT ![o] = x] BY <1>10, <2>3 DEF A!verifyPrivateS3Policy
    <3>2. y.pc = "final" BY <1>10, <2>3 DEF A!verifyPrivateS3Policy
    <3>3. ~A!Anonymous(bucket.policy) BY <2>3, PrivateIsPrivate
    <3> HIDE DEF y
    <3>4. /\ x \in ProvisionRuns /\ x.pc = "over" /\ x.wrote = y.wrote /\ x.since = y.since /\ x.actions = y.actions
          /\ x.doubt = y.doubt /\ x.checked = y.checked
      BY <1>0 DEF ProvisionRuns
    <3> HIDE DEF x
    <3>5. WroteFits(x, offers) BY <1>0, <1>3, <3>4 DEF WroteFits, ApplySteps, ReadySteps
    <3>6. ReadFitsBucket(x, bucket, offers, edits) BY <1>0, <3>2, <3>3, <3>4 DEF ReadFitsBucket, ReadySteps
    <3>7. RunFits(x, bucket', offers, edits, o \in canaries') BY <1>1, <1>3, <3>5, <3>6 DEF RunFits, CanaryFits
    <3> QED BY <1>0, <1>1, <3>1, <3>4, <3>7, SameBucket, RunGoes
  <2> QED BY <2>1, <2>2, <2>3
<1> QED BY <1>5, <1>6, <1>8, <1>9, <1>10
-----------------------------------------------------------------------------
(* A write that was answered: the setting is there and the report says so. *)
LEMMA PutsGo ==
  ASSUME ProvisionInv, NEW o \in Operators, NEW name \in A!Settings, NEW pc \in {"putCors", "putLifecycle", "getVersioning"},
         NEW value, A!Put(o, name, pc, value), provisionRun[o].pc \in {"putVersioning", "putCors", "putLifecycle"},
         bucket' \in Buckets, Better(bucket, bucket'),
         provisionRun[o].pc = "putCors" => pc = "putLifecycle" /\ name = "cors",
         provisionRun[o].pc = "putVersioning" => pc = "putCors",
         provisionRun[o].pc = "putLifecycle" => name = "lifecycle"
  PROVE  ProvisionInv'
<1> DEFINE y == provisionRun[o]
           acts == Append(y.actions, [name |-> name, outcome |-> "configured"])
           w == y.wrote \cup {name}
           mode == IF name = "cors" THEN "bucket" ELSE y.corsMode
           clean == IF name = "lifecycle" THEN "bucket" ELSE y.cleanup
           x == [y EXCEPT !.pc = pc, !.actions = acts, !.wrote = w, !.corsMode = mode, !.cleanup = clean]
<1>0. y \in ProvisionRuns /\ WroteFits(y, offers) /\ ReadFitsBucket(y, bucket, offers, edits)
      /\ faults \in 0 .. MaxAnswersLost
  BY RunFacts
<1>1. UNCHANGED <<canaries, faults, offers, edits>> /\ o \notin canaries BY NoCanary DEF A!Put, A!Beside
<1>2. provisionRun' = [provisionRun EXCEPT ![o] = x] BY DEF A!Put, A!Does
<1>3. y.actions \in Seq(ProvisionActions) /\ "configured" \in A!Outcomes BY <1>0 DEF ProvisionRuns, A!Outcomes
<1>4. acts \in Seq(ProvisionActions) /\ Configured(y.actions) \subseteq Configured(acts) /\ name \in Configured(acts)
  BY <1>3, ToldMore
<1>10. w \in SUBSET A!Settings BY <1>0 DEF ProvisionRuns
<1>11. mode \in {"", "bucket", "gateway"} /\ clean \in {"", "bucket", "application"} BY <1>0 DEF ProvisionRuns
<1> HIDE DEF y, acts, w, mode, clean
<1>13. x = [y EXCEPT !.pc = pc, !.actions = acts, !.wrote = w, !.corsMode = mode, !.cleanup = clean] OBVIOUS
<1> HIDE DEF x
<1>14. /\ y \in ProvisionRuns /\ acts \in Seq(ProvisionActions) BY <1>0, <1>4
<1>12. /\ x \in ProvisionRuns /\ x.pc = pc /\ x.wrote = w /\ x.since = y.since /\ x.actions = acts
       /\ x.doubt = y.doubt /\ x.status = y.status /\ x.checked = y.checked
       /\ x.corsMode = mode /\ x.cleanup = clean
  <2>1. pc \in ApplySteps BY DEF ApplySteps
  <2>2. x \in ProvisionRuns BY ONLY <1>10, <1>11, <1>13, <1>14, <2>1 DEF ProvisionRuns
  <2>3. x.pc = pc /\ x.wrote = w /\ x.actions = acts /\ x.corsMode = mode /\ x.cleanup = clean
    BY ONLY <1>13, <1>14 DEF ProvisionRuns
  <2>4. x.since = y.since /\ x.doubt = y.doubt /\ x.status = y.status /\ x.checked = y.checked
    BY ONLY <1>13, <1>14 DEF ProvisionRuns
  <2> QED BY ONLY <2>2, <2>3, <2>4
<1> USE DEF y
<1>5. /\ x \in ProvisionRuns /\ x.pc = pc /\ x.wrote = y.wrote \cup {name} /\ x.since = y.since /\ x.actions = acts
      /\ x.doubt = y.doubt /\ x.status = y.status /\ x.checked = y.checked
      /\ (name = "cors" => x.corsMode = "bucket") /\ (name # "cors" => x.corsMode = y.corsMode)
      /\ (name = "lifecycle" => x.cleanup = "bucket")
  BY <1>12 DEF w, mode, clean
<1>6. y.pc \in ApplySteps /\ y.pc # "over" BY DEF ApplySteps
<1>7. WroteFits(x, offers)
  <2>1. x.wrote \subseteq Configured(x.actions) \cup x.doubt BY <1>0, <1>4, <1>5 DEF WroteFits
  <2>2. ~A!Anonymous(x.checked) /\ x.doubt = {} /\ x.status = "" BY <1>0, <1>5, <1>6 DEF WroteFits
  <2>3. x.pc \in ApplySteps \ {"putVersioning", "putCors"} /\ "cors" \in offers => x.corsMode = "bucket"
    BY <1>0, <1>5, <1>6 DEF WroteFits
  <2>4. x.pc \in ApplySteps \ {"putVersioning", "putCors", "putLifecycle"} /\ "lifecycle" \in offers => x.cleanup = "bucket"
    BY <1>5
  <2> QED BY <2>1, <2>2, <2>3, <2>4 DEF WroteFits
<1>8. ReadFitsBucket(x, bucket', offers, edits)
  BY <1>0, <1>5, <1>6 DEF WroteFits, ReadFitsBucket, ReadySteps
<1>9. RunFits(x, bucket', offers, edits, o \in canaries') BY <1>1, <1>7, <1>8 DEF RunFits, CanaryFits
<1> QED BY <1>0, <1>1, <1>2, <1>5, <1>9, RunGoes

(* What writing the wanted setting makes of the bucket.                    *)
LEMMA WantedBucket ==
  ASSUME NEW b \in Buckets
  PROVE  /\ [b EXCEPT !["versioning"] = "on"] \in Buckets /\ Better(b, [b EXCEPT !["versioning"] = "on"])
         /\ [b EXCEPT !["cors"] = "desired"] \in Buckets /\ Better(b, [b EXCEPT !["cors"] = "desired"])
         /\ [b EXCEPT !["lifecycle"] = "desired"] \in Buckets /\ Better(b, [b EXCEPT !["lifecycle"] = "desired"])
<1>1. [b EXCEPT !["versioning"] = "on"] \in Buckets /\ Better(b, [b EXCEPT !["versioning"] = "on"])
  BY DEF Buckets, Better
<1>2. [b EXCEPT !["cors"] = "desired"] \in Buckets /\ Better(b, [b EXCEPT !["cors"] = "desired"])
  BY DEF Buckets, Better, ThreeWays
<1>3. [b EXCEPT !["lifecycle"] = "desired"] \in Buckets /\ Better(b, [b EXCEPT !["lifecycle"] = "desired"])
  BY DEF Buckets, Better, ThreeWays
<1> QED BY <1>1, <1>2, <1>3

(* The provider does not have the setting: the fallback is noted.          *)
LEMMA FallbacksGo ==
  ASSUME ProvisionInv, NEW o \in Operators, NEW x \in ProvisionRuns, provisionRun' = [provisionRun EXCEPT ![o] = x],
         UNCHANGED <<bucket, canaries, faults, offers, edits>>,
         \/ provisionRun[o].pc = "putCors" /\ x.pc = "putLifecycle" /\ "cors" \notin offers
         \/ provisionRun[o].pc = "putLifecycle" /\ x.pc = "getVersioning" /\ "lifecycle" \notin offers
            /\ x.corsMode = provisionRun[o].corsMode,
         Configured(provisionRun[o].actions) \subseteq Configured(x.actions), x.wrote = provisionRun[o].wrote,
         x.doubt = provisionRun[o].doubt, x.status = provisionRun[o].status, x.checked = provisionRun[o].checked,
         x.since = provisionRun[o].since
  PROVE  ProvisionInv'
<1>0. WroteFits(provisionRun[o], offers) /\ ReadFitsBucket(provisionRun[o], bucket, offers, edits)
      /\ faults \in 0 .. MaxAnswersLost /\ o \notin canaries
  BY RunFacts, NoCanary
<1>1. provisionRun[o].pc \in ApplySteps /\ x.pc # "over" /\ provisionRun[o].pc # "over" BY DEF ApplySteps
<1>2. ReadFitsBucket(x, bucket, offers, edits) BY <1>0, <1>1 DEF ReadFitsBucket, WroteFits, ReadySteps
<1>3. x.pc \in ApplySteps \ {"putVersioning", "putCors"} /\ "cors" \in offers => x.corsMode = "bucket"
  BY <1>0, <1>1 DEF WroteFits
<1>4. x.pc \in ApplySteps \ {"putVersioning", "putCors", "putLifecycle"} /\ "lifecycle" \in offers => x.cleanup = "bucket"
  OBVIOUS
<1>5. canaries' \subseteq canaries \cup {o} /\ (o \in canaries' => x.pc \in {"list", "abort"}) BY <1>0
<1>6. faults' \in 0 .. MaxAnswersLost BY <1>0
<1>7. x.pc \in ApplySteps => provisionRun[o].pc \in ApplySteps BY <1>1
<1> QED BY <1>1, <1>2, <1>3, <1>4, <1>5, <1>6, <1>7, RunMoves

LEMMA WritesKeep ==
  ASSUME ProvisionInv, NEW o \in Operators, A!PutVersioning(o) \/ A!PutCors(o) \/ A!PutLifecycle(o)
  PROVE  ProvisionInv'
<1> DEFINE y == provisionRun[o]
<1>0. y \in ProvisionRuns /\ bucket \in Buckets /\ y.actions \in Seq(ProvisionActions) BY RunFacts DEF ProvisionRuns
<1>1. {"versioning", "cors", "lifecycle"} \subseteq A!Settings /\ "fallback" \in A!Outcomes BY DEF A!Settings, A!Outcomes
<1>2. CASE A!PutVersioning(o)
  <2>1. y.pc = "putVersioning" /\ A!Put(o, "versioning", "putCors", "on") BY <1>2 DEF A!PutVersioning
  <2>2. bucket' \in Buckets /\ Better(bucket, bucket') BY <1>0, <2>1, WantedBucket DEF A!Put
  <2> QED BY <1>1, <2>1, <2>2, PutsGo
<1>3. CASE A!PutCors(o) /\ "cors" \in offers
  <2>1. y.pc = "putCors" /\ A!Put(o, "cors", "putLifecycle", "desired") BY <1>3 DEF A!PutCors
  <2>2. bucket' \in Buckets /\ Better(bucket, bucket') BY <1>0, <2>1, WantedBucket DEF A!Put
  <2> QED BY <1>1, <2>1, <2>2, PutsGo
<1>4. CASE A!PutLifecycle(o) /\ "lifecycle" \in offers
  <2>1. y.pc = "putLifecycle" /\ A!Put(o, "lifecycle", "getVersioning", "desired") BY <1>4 DEF A!PutLifecycle
  <2>2. bucket' \in Buckets /\ Better(bucket, bucket') BY <1>0, <2>1, WantedBucket DEF A!Put
  <2> QED BY <1>1, <2>1, <2>2, PutsGo
<1>5. CASE A!PutCors(o) /\ "cors" \notin offers
  <2> DEFINE acts == Append(y.actions, [name |-> "cors", outcome |-> "fallback"])
             x == [y EXCEPT !.pc = "putLifecycle", !.corsMode = "gateway", !.actions = acts]
  <2>1. provisionRun' = [provisionRun EXCEPT ![o] = x] /\ y.pc = "putCors" BY <1>5 DEF A!PutCors, A!Does
  <2>2. UNCHANGED <<bucket, canaries, faults, offers, edits>> BY <1>5 DEF A!PutCors, A!NoCall, A!Beside
  <2>3. acts \in Seq(ProvisionActions) /\ Configured(y.actions) \subseteq Configured(acts) BY <1>0, <1>1, ToldMore
  <2> HIDE DEF y, acts
  <2>4. /\ x \in ProvisionRuns /\ x.pc = "putLifecycle" /\ x.wrote = y.wrote /\ x.since = y.since /\ x.actions = acts
        /\ x.doubt = y.doubt /\ x.status = y.status /\ x.checked = y.checked
    BY <1>0, <2>3 DEF ProvisionRuns, ApplySteps
  <2> HIDE DEF x
  <2> USE DEF y
  <2> QED BY <1>5, <2>1, <2>2, <2>3, <2>4, FallbacksGo
<1>6. CASE A!PutLifecycle(o) /\ "lifecycle" \notin offers
  <2> DEFINE acts == Append(y.actions, [name |-> "lifecycle", outcome |-> "fallback"])
             x == [y EXCEPT !.pc = "getVersioning", !.cleanup = "application", !.actions = acts]
  <2>1. provisionRun' = [provisionRun EXCEPT ![o] = x] /\ y.pc = "putLifecycle" BY <1>6 DEF A!PutLifecycle, A!Does
  <2>2. UNCHANGED <<bucket, canaries, faults, offers, edits>> BY <1>6 DEF A!PutLifecycle, A!NoCall, A!Beside
  <2>3. acts \in Seq(ProvisionActions) /\ Configured(y.actions) \subseteq Configured(acts) BY <1>0, <1>1, ToldMore
  <2> HIDE DEF y, acts
  <2>4. /\ x \in ProvisionRuns /\ x.pc = "getVersioning" /\ x.wrote = y.wrote /\ x.since = y.since /\ x.actions = acts
        /\ x.doubt = y.doubt /\ x.status = y.status /\ x.checked = y.checked /\ x.corsMode = y.corsMode
    BY <1>0, <2>3 DEF ProvisionRuns, ApplySteps
  <2> HIDE DEF x
  <2> USE DEF y
  <2> QED BY <1>6, <2>1, <2>2, <2>3, <2>4, FallbacksGo
<1> QED BY <1>2, <1>3, <1>4, <1>5, <1>6

(* What is read back, and the trial upload.                                *)
LEMMA ReadBacksKeep ==
  ASSUME ProvisionInv, NEW o \in Operators,
         A!verifyS3ProvisionResult(o) \/ A!CreateCanary(o) \/ A!ListUploads(o) \/ A!AbortCanary(o) \/ A!ListFails(o)
  PROVE  ProvisionInv'
<1> DEFINE y == provisionRun[o]
<1>0. /\ y \in ProvisionRuns /\ bucket \in Buckets /\ WroteFits(y, offers) /\ CanaryFits(y, o \in canaries)
      /\ ReadFitsBucket(y, bucket, offers, edits) /\ faults \in 0 .. MaxAnswersLost /\ edits \in Nat
  BY RunFacts
<1>1. UNCHANGED <<bucket, offers, edits>>
  BY DEF A!verifyS3ProvisionResult, A!CreateCanary, A!ListUploads, A!AbortCanary, A!ListFails, A!NoCall, A!Beside
<1>2. y.pc \in {"getVersioning", "getCors", "getLifecycle", "canary", "list", "abort"}
  BY DEF A!verifyS3ProvisionResult, A!CreateCanary, A!ListUploads, A!AbortCanary, A!ListFails
<1>3. y.pc \in ApplySteps \ {"putVersioning", "putCors", "putLifecycle"} /\ y.pc # "over"
  BY <1>2 DEF ApplySteps, ReadySteps
<1>4. ("cors" \in offers => y.corsMode = "bucket") /\ ("lifecycle" \in offers => y.cleanup = "bucket") /\ y.status = ""
  BY <1>3, <1>0 DEF WroteFits
<1>5. faults' \in 0 .. MaxAnswersLost
  BY <1>0, OneMoreFault DEF A!verifyS3ProvisionResult, A!CreateCanary, A!ListUploads, A!AbortCanary, A!ListFails, A!NoCall
(* The run goes on: only its step, since and failure change.               *)
<1>6. ASSUME NEW x \in ProvisionRuns, provisionRun' = [provisionRun EXCEPT ![o] = x], x.pc # "over",
             canaries' \subseteq canaries \cup {o}, o \in canaries' => x.pc \in {"list", "abort"},
             x.wrote = y.wrote, x.actions = y.actions, x.doubt = y.doubt, x.status = y.status, x.checked = y.checked,
             x.corsMode = y.corsMode, x.cleanup = y.cleanup, ReadFitsBucket(x, bucket, offers, edits)
      PROVE  ProvisionInv'
  <2>1. x.pc \in ApplySteps => y.pc \in ApplySteps BY <1>3
  <2>2. Configured(y.actions) \subseteq Configured(x.actions) BY <1>6
  <2> QED BY <1>1, <1>3, <1>4, <1>5, <1>6, <2>1, <2>2, RunMoves
<1>7. CASE A!verifyS3ProvisionResult(o)
  <2>0. UNCHANGED <<canaries, faults>> /\ y.pc \in {"getVersioning", "getCors", "getLifecycle"}
    BY <1>7 DEF A!verifyS3ProvisionResult, A!NoCall
  <2>1. o \notin canaries BY <2>0, NoCanary
  <2> DEFINE since == IF y.pc = "getVersioning" THEN edits ELSE y.since
             pc == CASE y.pc = "getVersioning" -> "getCors" [] y.pc = "getCors" -> "getLifecycle"
                     [] OTHER -> IF y.cleanup = "application" THEN "canary" ELSE "final"
  <2>2. CASE ~A!ReadBack(o)
    <3>1. provisionRun' = A!Fails(o, "unverified") BY <1>7, <2>2 DEF A!verifyS3ProvisionResult
    <3> QED BY <1>1, <1>3, <1>5, <2>0, <2>1, <3>1, RunFails DEF ProvisionCodes
  <2>3. CASE A!ReadBack(o)
    <3> DEFINE x == [y EXCEPT !.pc = pc, !.since = since]
    <3>1. provisionRun' = [provisionRun EXCEPT ![o] = x] BY <1>7, <2>3 DEF A!verifyS3ProvisionResult
    <3>2. y.since \in Nat /\ y.since <= edits BY <1>0 DEF ProvisionRuns, ReadFitsBucket
    <3>3. since \in Nat /\ since <= edits BY <1>0, <3>2
    <3>4. \/ y.pc = "getVersioning" /\ pc = "getCors" /\ bucket.versioning = "on"
          \/ /\ y.pc = "getCors" /\ pc = "getLifecycle" /\ since = y.since
             /\ (y.corsMode # "bucket" \/ bucket.cors = "desired")
          \/ /\ y.pc = "getLifecycle" /\ pc \in {"canary", "final"} /\ since = y.since
             /\ (y.cleanup # "bucket" \/ bucket.lifecycle = "desired")
      BY <2>0, <2>3 DEF A!ReadBack
    <3> HIDE DEF y, pc, since
    <3>5. /\ x \in ProvisionRuns /\ x.pc = pc /\ x.since = since /\ x.wrote = y.wrote /\ x.actions = y.actions
          /\ x.doubt = y.doubt /\ x.status = y.status /\ x.checked = y.checked /\ x.corsMode = y.corsMode
          /\ x.cleanup = y.cleanup
      BY <1>0, <3>3, <3>4 DEF ProvisionRuns, ApplySteps, ReadySteps
    <3> HIDE DEF x
    <3>6. ReadFitsBucket(x, bucket, offers, edits)
      <4>1. CASE y.pc = "getVersioning" /\ pc = "getCors" /\ bucket.versioning = "on"
        BY <1>4, <3>3, <3>5, <4>1 DEF ReadFitsBucket, ReadySteps
      <4>2. CASE y.pc = "getCors" /\ pc = "getLifecycle" /\ since = y.since
                 /\ (y.corsMode # "bucket" \/ bucket.cors = "desired")
        BY <1>0, <1>4, <3>3, <3>5, <4>2 DEF ReadFitsBucket, ReadySteps
      <4>3. CASE y.pc = "getLifecycle" /\ pc \in {"canary", "final"} /\ since = y.since
                 /\ (y.cleanup # "bucket" \/ bucket.lifecycle = "desired")
        BY <1>0, <1>4, <3>3, <3>5, <4>3 DEF ReadFitsBucket, ReadySteps
      <4> QED BY <3>4, <4>1, <4>2, <4>3
    <3> QED BY <1>6, <2>0, <2>1, <3>1, <3>4, <3>5, <3>6
  <2> QED BY <2>2, <2>3
<1>8. ASSUME NEW x \in ProvisionRuns, provisionRun' = [provisionRun EXCEPT ![o] = x], x.pc \in ReadySteps,
             y.pc \in ReadySteps, canaries' \subseteq canaries \cup {o}, o \in canaries' => x.pc \in {"list", "abort"},
             x.wrote = y.wrote, x.actions = y.actions, x.doubt = y.doubt, x.status = y.status, x.checked = y.checked,
             x.corsMode = y.corsMode, x.cleanup = y.cleanup, x.since = y.since
      PROVE  ProvisionInv'
  <2>1. ReadFitsBucket(x, bucket, offers, edits) BY <1>0, <1>4, <1>8 DEF ReadFitsBucket
  <2> QED BY <1>6, <1>8, <2>1 DEF ReadySteps
<1>9. CASE A!CreateCanary(o) \/ A!ListUploads(o)
  <2> DEFINE pc == IF y.pc = "canary" THEN "list" ELSE "abort"
             x == [y EXCEPT !.pc = pc]
  <2>1. /\ provisionRun' = [provisionRun EXCEPT ![o] = x] /\ y.pc \in {"canary", "list"}
        /\ canaries' \subseteq canaries \cup {o}
    BY <1>9 DEF A!CreateCanary, A!ListUploads, A!NoCall
  <2> HIDE DEF y
  <2>2. pc \in {"list", "abort"} OBVIOUS
  <2> HIDE DEF pc
  <2>3. /\ x \in ProvisionRuns /\ x.pc = pc /\ x.since = y.since /\ x.wrote = y.wrote /\ x.actions = y.actions
        /\ x.doubt = y.doubt /\ x.status = y.status /\ x.checked = y.checked /\ x.corsMode = y.corsMode
        /\ x.cleanup = y.cleanup
    BY <1>0, <2>2 DEF ProvisionRuns, ApplySteps, ReadySteps
  <2> HIDE DEF x
  <2>4. x.pc \in ReadySteps /\ y.pc \in ReadySteps BY <2>1, <2>2, <2>3 DEF ReadySteps
  <2> QED BY <1>8, <2>1, <2>2, <2>3, <2>4
<1>10. CASE A!ListFails(o)
  <2>1. PICK stopped \in BOOLEAN :
           provisionRun' = [provisionRun EXCEPT ![o].pc = "abort", ![o].code = "call_failed", ![o].cancelled = stopped]
    BY <1>10 DEF A!ListFails
  <2> DEFINE x == [y EXCEPT !.pc = "abort", !.code = "call_failed", !.cancelled = stopped]
  <2>2. provisionRun' = [provisionRun EXCEPT ![o] = x] /\ canaries' = canaries /\ y.pc = "list" BY <1>10, <2>1 DEF A!ListFails
  <2> HIDE DEF y
  <2>3. /\ x \in ProvisionRuns /\ x.pc = "abort" /\ x.since = y.since /\ x.wrote = y.wrote /\ x.actions = y.actions
        /\ x.doubt = y.doubt /\ x.status = y.status /\ x.checked = y.checked /\ x.corsMode = y.corsMode
        /\ x.cleanup = y.cleanup
    BY <1>0 DEF ProvisionRuns, ApplySteps, ReadySteps, ProvisionCodes
  <2> HIDE DEF x
  <2>4. x.pc \in ReadySteps /\ y.pc \in ReadySteps BY <2>2, <2>3 DEF ReadySteps
  <2> QED BY <1>8, <2>2, <2>3, <2>4
<1>11. CASE A!AbortCanary(o)
  <2>1. canaries' = canaries \ {o} /\ y.pc = "abort" BY <1>11 DEF A!AbortCanary, A!AbortRuns
  <2>2. CASE y.code = ""
    <3> DEFINE x == [y EXCEPT !.pc = "final"]
    <3>1. provisionRun' = [provisionRun EXCEPT ![o] = x] BY <1>11, <2>2 DEF A!AbortCanary
    <3> HIDE DEF y
    <3>2. /\ x \in ProvisionRuns /\ x.pc = "final" /\ x.since = y.since /\ x.wrote = y.wrote /\ x.actions = y.actions
          /\ x.doubt = y.doubt /\ x.status = y.status /\ x.checked = y.checked /\ x.corsMode = y.corsMode
          /\ x.cleanup = y.cleanup
      BY <1>0 DEF ProvisionRuns, ApplySteps, ReadySteps
    <3> HIDE DEF x
    <3>3. x.pc \in ReadySteps /\ y.pc \in ReadySteps BY <2>1, <3>2 DEF ReadySteps
    <3>4. canaries' \subseteq canaries \cup {o} /\ o \notin canaries' BY <2>1
    <3> QED BY <1>8, <3>1, <3>2, <3>3, <3>4
  <2>3. CASE y.code # ""
    <3>1. provisionRun' = A!Fails(o, y.code) BY <1>11, <2>3 DEF A!AbortCanary
    <3>2. y.code \in ProvisionCodes BY <1>0 DEF ProvisionRuns
    <3>3. canaries' \subseteq canaries /\ o \notin canaries' BY <2>1
    <3> QED BY <1>1, <1>3, <1>5, <3>1, <3>2, <3>3, RunFails
  <2> QED BY <2>2, <2>3
<1> QED BY <1>7, <1>9, <1>10, <1>11
-----------------------------------------------------------------------------
(* A call fails, or its answer is lost.                                    *)
LEMMA FaultsKeep ==
  ASSUME ProvisionInv, NEW o \in Operators, A!CallFails(o) \/ A!AnswerLost(o) \/ A!AbortFails(o)
  PROVE  ProvisionInv'
<1> DEFINE y == provisionRun[o]
<1>0. /\ y \in ProvisionRuns /\ bucket \in Buckets /\ WroteFits(y, offers)
      /\ ReadFitsBucket(y, bucket, offers, edits) /\ provisionRun \in [Operators -> ProvisionRuns]
  BY RunFacts
<1>1. UNCHANGED <<offers, edits>> /\ faults' \in 0 .. MaxAnswersLost
  BY OneMoreFault DEF A!CallFails, A!AnswerLost, A!AbortFails, A!Beside
<1>2. CASE A!CallFails(o)
  <2>1. UNCHANGED <<bucket, canaries>> /\ provisionRun' = A!Fails(o, "call_failed") /\ y.pc \in A!Calls
    BY <1>2 DEF A!CallFails
  <2>2. y.pc \notin {"list", "abort", "over"} BY <2>1 DEF A!Calls
  <2>3. o \notin canaries' BY <2>1, <2>2, NoCanary
  <2> QED BY <1>1, <2>1, <2>2, <2>3, RunFails DEF ProvisionCodes
<1>3. CASE A!AbortFails(o)
  <2>1. UNCHANGED <<bucket, canaries>> /\ provisionRun' = A!Fails(o, "cleanup_failed") /\ y.pc = "abort"
    BY <1>3 DEF A!AbortFails
  <2> QED BY <1>1, <2>1, RunFails DEF ProvisionCodes
(* The write was made: it is in doubt, not in the report.                  *)
<1>4. ASSUME NEW w \in SUBSET A!Settings, NEW d \in SUBSET (A!Settings \cup {"canary"}), w \subseteq y.wrote \cup d,
             provisionRun' = [A!Fails(o, "call_failed") EXCEPT ![o].wrote = w, ![o].doubt = d],
             bucket' \in Buckets, Better(bucket, bucket'), canaries' \subseteq canaries \cup {o},
             o \in canaries' => "canary" \in d, y.pc # "over", w # y.wrote => y.pc \in ApplySteps
      PROVE  ProvisionInv'
  <2> DEFINE x == [y EXCEPT !.pc = "over", !.status = "partial", !.code = "call_failed", !.wrote = w, !.doubt = d]
  <2>1. provisionRun' = [provisionRun EXCEPT ![o] = x]
    <3> DEFINE z == [y EXCEPT !.pc = "over", !.status = "partial", !.code = "call_failed"]
    <3>1. A!Fails(o, "call_failed") = [provisionRun EXCEPT ![o] = z] BY DEF A!Fails
    <3>2. [provisionRun EXCEPT ![o] = z][o] = z BY <1>0
    <3>3. x = [z EXCEPT !.wrote = w, !.doubt = d] OBVIOUS
    <3> HIDE DEF z, x, y
    <3> DEFINE g == [provisionRun EXCEPT ![o] = z]
    <3>4. provisionRun' = [g EXCEPT ![o] = [g[o] EXCEPT !.wrote = w, !.doubt = d]] BY <1>4, <3>1
    <3>5. provisionRun' = [g EXCEPT ![o] = x] BY <3>2, <3>3, <3>4
    <3> QED BY <1>0, <3>5
  <2> HIDE DEF y
  <2>2. /\ x \in ProvisionRuns /\ x.pc = "over" /\ x.status = "partial" /\ x.wrote = w /\ x.doubt = d
        /\ x.actions = y.actions /\ x.checked = y.checked /\ x.since = y.since
    BY <1>0 DEF ProvisionRuns, ProvisionCodes
  <2> HIDE DEF x
  <2>3. y.doubt = {} BY <1>0, <1>4 DEF WroteFits
  <2>4. WroteFits(x, offers)
    <3>1. x.wrote \subseteq Configured(x.actions) \cup x.doubt BY <1>0, <1>4, <2>2, <2>3 DEF WroteFits
    <3>2. x.wrote # {} => ~A!Anonymous(x.checked) BY <1>0, <1>4, <2>2 DEF WroteFits
    <3> QED BY <2>2, <3>1, <3>2 DEF WroteFits, ApplySteps, ReadySteps
  <2>5. ReadFitsBucket(x, bucket', offers, edits) BY <1>0, <2>2 DEF ReadFitsBucket, ReadySteps
  <2>6. CanaryFits(x, o \in canaries') BY <1>4, <2>2 DEF CanaryFits
  <2>7. RunFits(x, bucket', offers, edits, o \in canaries') BY <2>4, <2>5, <2>6 DEF RunFits
  <2> QED BY <1>1, <1>4, <2>1, <2>2, <2>7, RunGoes
<1>5. CASE A!AnswerLost(o) /\ y.pc = "canary"
  <2>1. /\ provisionRun' = [A!Fails(o, "call_failed") EXCEPT ![o].doubt = {"canary"}]
        /\ canaries' = canaries \cup {o} /\ bucket' = bucket
    BY <1>5 DEF A!AnswerLost
  <2> DEFINE x == [y EXCEPT !.pc = "over", !.status = "partial", !.code = "call_failed", !.doubt = {"canary"}]
  <2>2. provisionRun' = [provisionRun EXCEPT ![o] = x]
    <3> DEFINE z == [y EXCEPT !.pc = "over", !.status = "partial", !.code = "call_failed"]
    <3>1. A!Fails(o, "call_failed") = [provisionRun EXCEPT ![o] = z] BY DEF A!Fails
    <3>2. [provisionRun EXCEPT ![o] = z][o] = z BY <1>0
    <3>3. x = [z EXCEPT !.doubt = {"canary"}] OBVIOUS
    <3> HIDE DEF z, x, y
    <3> DEFINE g == [provisionRun EXCEPT ![o] = z]
    <3>4. provisionRun' = [g EXCEPT ![o] = [g[o] EXCEPT !.doubt = {"canary"}]] BY <2>1, <3>1
    <3>5. provisionRun' = [g EXCEPT ![o] = x] BY <3>2, <3>3, <3>4
    <3> QED BY <1>0, <3>5
  <2>3. /\ x \in ProvisionRuns /\ x.pc = "over" /\ x.status = "partial" /\ x.wrote = y.wrote /\ x.doubt = {"canary"}
        /\ x.actions = y.actions /\ x.checked = y.checked /\ x.since = y.since
    <3> HIDE DEF y
    <3> QED BY <1>0 DEF ProvisionRuns, ProvisionCodes
  <2> HIDE DEF x
  <2>4. y.doubt = {} BY <1>0, <1>5 DEF WroteFits
  <2>5. WroteFits(x, offers) BY <1>0, <2>3, <2>4 DEF WroteFits, ApplySteps, ReadySteps
  <2>6. ReadFitsBucket(x, bucket, offers, edits) BY <1>0, <2>3 DEF ReadFitsBucket, ReadySteps
  <2>7. CanaryFits(x, o \in canaries') BY <2>3 DEF CanaryFits
  <2>8. RunFits(x, bucket', offers, edits, o \in canaries') BY <2>1, <2>5, <2>6, <2>7 DEF RunFits
  <2> QED BY <1>1, <2>1, <2>2, <2>3, <2>8, SameBucket, RunGoes
<1>6. CASE A!AnswerLost(o) /\ y.pc # "canary"
  <2>1. PICK name \in A!Settings, pc \in {"putVersioning", "putCors", "putLifecycle"} :
          /\ y.pc = pc
          /\ <<pc, name>> \in {<<"putVersioning", "versioning">>, <<"putCors", "cors">>, <<"putLifecycle", "lifecycle">>}
          /\ bucket' = [bucket EXCEPT ![name] = IF name = "versioning" THEN "on" ELSE "desired"]
          /\ provisionRun' = [A!Fails(o, "call_failed") EXCEPT ![o].wrote = @ \cup {name}, ![o].doubt = {name}]
          /\ UNCHANGED canaries
    BY <1>6 DEF A!AnswerLost
  <2>2. y.pc \in ApplySteps /\ y.pc \notin {"over", "list", "abort"} BY <2>1 DEF ApplySteps
  <2>3. o \notin canaries' /\ canaries' \subseteq canaries BY <2>1, <2>2, NoCanary
  <2>4. bucket' \in Buckets /\ Better(bucket, bucket')
    BY <1>0, <2>1, WantedBucket DEF A!Settings
  <2> DEFINE w == y.wrote \cup {name}
             d == {name}
  <2>5. w \in SUBSET A!Settings /\ d \in SUBSET (A!Settings \cup {"canary"}) /\ w \subseteq y.wrote \cup d
    BY <1>0 DEF ProvisionRuns
  <2>6. A!Fails(o, "call_failed")[o].wrote = y.wrote BY <1>0 DEF A!Fails, ProvisionRuns
  <2>7. provisionRun' = [A!Fails(o, "call_failed") EXCEPT ![o].wrote = w, ![o].doubt = d] BY <2>1, <2>6
  <2> HIDE DEF w, d
  <2> QED BY <1>4, <2>2, <2>3, <2>4, <2>5, <2>7
<1> QED BY <1>2, <1>3, <1>5, <1>6

LEMMA ProvisionKeeps == ProvisionInv /\ [A!ProvisionNext]_(A!provisionVars) => ProvisionInv'
<1> SUFFICES ASSUME ProvisionInv, [A!ProvisionNext]_(A!provisionVars) PROVE ProvisionInv' OBVIOUS
<1>1. CASE UNCHANGED A!provisionVars
  BY <1>1 DEF A!provisionVars, ProvisionInv, ProvisionTyped, RunFits, WroteFits, ReadFitsBucket, CanaryFits
<1>2. CASE A!ProvisionNext
  BY <1>2, EditKeeps, PlansKeep, WritesKeep, ReadBacksKeep, FaultsKeep DEF A!ProvisionNext
<1> QED BY <1>1, <1>2

LEMMA ProvisionSays ==
  ProvisionInv => A!ProvisionTypeOK /\ A!PublicUntouched /\ A!CompletedConfigured /\ A!PartialTold /\ A!CanaryCleaned
<1> SUFFICES ASSUME ProvisionInv
             PROVE  A!ProvisionTypeOK /\ A!PublicUntouched /\ A!CompletedConfigured /\ A!PartialTold /\ A!CanaryCleaned
  OBVIOUS
<1>1. \A o \in Operators : /\ provisionRun[o] \in ProvisionRuns /\ WroteFits(provisionRun[o], offers)
                           /\ ReadFitsBucket(provisionRun[o], bucket, offers, edits)
                           /\ CanaryFits(provisionRun[o], o \in canaries)
  BY RunFacts
<1>2. A!ProvisionTypeOK
  <2>1. \A o \in Operators : /\ provisionRun[o].status \in {"", "planned", "completed", "partial"}
                             /\ provisionRun[o].wrote \subseteq A!Settings
                             /\ provisionRun[o].actions \in Seq(ProvisionActions)
    BY <1>1 DEF ProvisionRuns
  <2>2. \A o \in Operators : \A i \in DOMAIN provisionRun[o].actions : provisionRun[o].actions[i] \in ProvisionActions
    <3>1. \A s \in Seq(ProvisionActions) : \A i \in DOMAIN s : s[i] \in ProvisionActions OBVIOUS
    <3> QED BY <2>1, <3>1
  <2> QED BY <2>1, <2>2 DEF A!ProvisionTypeOK, ProvisionInv, ProvisionTyped, Buckets, ThreeWays, ProvisionActions
<1>3. A!PublicUntouched BY <1>1 DEF A!PublicUntouched, WroteFits
<1>4. A!CompletedConfigured BY <1>1 DEF A!CompletedConfigured, ReadFitsBucket
<1>5. A!PartialTold BY <1>1 DEF A!PartialTold, WroteFits, Configured
<1>6. A!CanaryCleaned BY <1>1 DEF A!CanaryCleaned, CanaryFits
<1> QED BY <1>2, <1>3, <1>4, <1>5, <1>6
-----------------------------------------------------------------------------
(***************************************************************************)
(* The objects under emotes and avatars.  The locks of two requests are    *)
(* disjoint, so the bytes a request has put, the avatar it replaces and    *)
(* the row its import refers to stay; and while nothing has failed some    *)
(* request has in mind every object that nothing refers to.                *)
(***************************************************************************)
ObjectSpec == O!Init /\ [][O!Next]_(O!vars)

SomePic == Pics \cup {NoPic}
SomeUser == People \cup {NoUser}
CleanupOps == {"cleanup_emote", "cleanup_avatar"}
MediaJobs == [op : {"idle", "store", "avatar", "import", "imported", "favorite"} \cup CleanupOps,
              user : SomeUser, pic : SomePic, old : SomePic, src : SomeUser, known : BOOLEAN]

Referred(p, rows, av) == (\E x \in rows : x[2] = p) \/ (\E u \in People : av[u] = p)
WorldTyped(bl, ob, rows, av) ==
  /\ bl \subseteq Pics /\ ob \in [Pics -> {"none", "live", "deleted"}]
  /\ rows \subseteq People \X Pics /\ IsFiniteSet(rows) /\ av \in [People -> SomePic]
AllPresent(bl, ob, rows, av) == \A p \in Pics : Referred(p, rows, av) => p \in bl /\ ob[p] = "live"
JobFits(j, bl, rows, av) ==
  /\ j.op # "idle" => j.pic \in Pics
  /\ j.op \in {"store", "avatar"} => j.user \in People /\ j.pic \in bl
  /\ j.op = "avatar" => j.old = av[j.user]
  /\ j.op \in {"import", "imported", "favorite"} => j.user \in People
  /\ j.op = "imported" => <<j.src, j.pic>> \in rows
Left(p, bl, ob, rows, av) == ~Referred(p, rows, av) /\ (ob[p] = "live" \/ (ob[p] = "none" /\ p \in bl))
Minds(j, p, registered) ==
  j.pic = p /\ (j.op \in {"store", "avatar"} \/ (j.op \in CleanupOps /\ (registered # "none" \/ j.known)))

Minded == mishaps = 0 => \A p \in Pics : Left(p, blob, object, O!Rows, avatar) =>
            \E r \in Requests : Minds(req[r], p, object[p])
Exclusive == \A r, q \in Requests : r # q => O!Held(req[r]) \cap O!Held(req[q]) = {}
ObjectsInv ==
  /\ WorldTyped(blob, object, O!Rows, avatar) /\ AllPresent(blob, object, O!Rows, avatar)
  /\ req \in [Requests -> MediaJobs] /\ mishaps \in Nat
  /\ \A r \in Requests : JobFits(req[r], blob, O!Rows, avatar)
  /\ Exclusive /\ Minded

LEMMA FreeJob == /\ O!Free \in MediaJobs /\ O!Free.op = "idle" /\ O!Held(O!Free) = {}
                 /\ (\A bl, rows, av : JobFits(O!Free, bl, rows, av)) /\ \A p, s : ~Minds(O!Free, p, s)
<1>1. O!Free \in MediaJobs /\ O!Free.op = "idle" BY DEF O!Free, MediaJobs, SomePic, SomeUser
<1>2. O!Held(O!Free) = {} BY <1>1 DEF O!Held
<1>3. \A bl, rows, av : JobFits(O!Free, bl, rows, av) BY <1>1 DEF JobFits
<1>4. \A p, s : ~Minds(O!Free, p, s) BY <1>1 DEF Minds, CleanupOps
<1> QED BY <1>1, <1>2, <1>3, <1>4

LEMMA CleanupJob ==
  ASSUME NEW op \in CleanupOps, NEW p \in Pics, NEW known \in BOOLEAN
  PROVE  /\ O!CleanupOf(op, p, known) \in MediaJobs /\ O!CleanupOf(op, p, known).op = op
         /\ O!CleanupOf(op, p, known).pic = p /\ O!CleanupOf(op, p, known).known = known
         /\ O!Held(O!CleanupOf(op, p, known)) = {}
         /\ (\A bl, rows, av : JobFits(O!CleanupOf(op, p, known), bl, rows, av))
         /\ (\A s : Minds(O!CleanupOf(op, p, known), p, s) <=> (s # "none" \/ known))
<1> DEFINE x == O!CleanupOf(op, p, known)
<1>1. x \in MediaJobs /\ x.op = op /\ x.pic = p /\ x.known = known
  BY DEF O!CleanupOf, O!Free, MediaJobs, SomePic, SomeUser
<1> HIDE DEF x
<1>2. O!Held(x) = {} BY <1>1 DEF O!Held, CleanupOps
<1>3. \A bl, rows, av : JobFits(x, bl, rows, av) BY <1>1 DEF JobFits, CleanupOps
<1>4. \A s : Minds(x, p, s) <=> (s # "none" \/ known) BY <1>1 DEF Minds, CleanupOps
<1> QED BY <1>1, <1>2, <1>3, <1>4 DEF x

LEMMA MediaCardinality == ASSUME NEW Z PROVE O!Cardinality(Z) = Cardinality(Z)
BY DEF O!Cardinality, Cardinality, O!IsFiniteSet, IsFiniteSet

LEMMA NoReference ==
  ASSUME WorldTyped(blob, object, O!Rows, avatar), NEW p
  PROVE  O!References(p) = 0 <=> ~Referred(p, O!Rows, avatar)
<1> DEFINE S == {r \in O!Rows : r[2] = p}
           T == {u \in People : avatar[u] = p}
<1>1. IsFiniteSet(S) /\ IsFiniteSet(T)
  <2>1. IsFiniteSet(O!Rows) /\ S \subseteq O!Rows /\ IsFiniteSet(People) /\ T \subseteq People
    BY MediaAssumption DEF WorldTyped
  <2> HIDE DEF S, T
  <2> QED BY <2>1, FS_Subset
<1>2. O!References(p) = Cardinality(S) + Cardinality(T) BY MediaCardinality DEF O!References
<1>3. ~Referred(p, O!Rows, avatar) <=> (S = {} /\ T = {}) BY DEF Referred
<1> HIDE DEF S, T
<1>4. /\ Cardinality(S) \in Nat /\ Cardinality(T) \in Nat /\ (Cardinality(S) = 0 <=> S = {})
      /\ (Cardinality(T) = 0 <=> T = {})
  BY <1>1, FS_CardinalityType, FS_EmptySet
<1> QED BY <1>2, <1>3, <1>4

LEMMA ObjectsInitially == O!Init => ObjectsInv
<1> SUFFICES ASSUME O!Init PROVE ObjectsInv OBVIOUS
<1> USE DEF O!Init
<1>1. O!Rows = {} BY DEF O!Rows
<1>2. \A p \in Pics : ~Referred(p, O!Rows, avatar) BY <1>1, MediaAssumption DEF Referred
<1>3. WorldTyped(blob, object, O!Rows, avatar) BY <1>1, FS_EmptySet DEF WorldTyped, SomePic
<1>4. AllPresent(blob, object, O!Rows, avatar) BY <1>2 DEF AllPresent
<1>5. \A r \in Requests : req[r] = O!Free OBVIOUS
<1>6. req \in [Requests -> MediaJobs] /\ \A r \in Requests : JobFits(req[r], blob, O!Rows, avatar)
  BY <1>5, FreeJob
<1>7. Exclusive BY <1>5, FreeJob DEF Exclusive
<1>8. Minded BY DEF Minded, Left
<1> QED BY <1>3, <1>4, <1>6, <1>7, <1>8 DEF ObjectsInv

(* One request takes a step.                                               *)
LEMMA JobGoes ==
  ASSUME ObjectsInv, NEW r \in Requests, NEW j \in MediaJobs, req' = [req EXCEPT ![r] = j],
         WorldTyped(blob', object', O!Rows', avatar'), AllPresent(blob', object', O!Rows', avatar'),
         mishaps' \in Nat, mishaps' = 0 => mishaps = 0, JobFits(j, blob', O!Rows', avatar'),
         \A q \in Requests \ {r} : O!Held(j) \cap O!Held(req[q]) = {},
         \A p \in blob \ blob' : O!Grab(r, {O!storageObjectLock(p)}),
         \A u, p : <<u, p>> \in O!Rows /\ <<u, p>> \notin O!Rows' => O!AwaitImports(u, p),
         \A u \in People : avatar'[u] = avatar[u] \/ O!Grab(r, {O!avatarResourceLock(u)}),
         \A p \in Pics : object[p] # "none" => object'[p] # "none",
         mishaps' = 0 => \A p \in Pics : Left(p, blob', object', O!Rows', avatar') =>
            Minds(j, p, object'[p]) \/ (Left(p, blob, object, O!Rows, avatar) /\ ~Minds(req[r], p, object[p]))
  PROVE  ObjectsInv'
<1>1. \A q \in Requests : (q = r /\ req'[q] = j) \/ (q # r /\ req'[q] = req[q]) BY DEF ObjectsInv
<1>2. req' \in [Requests -> MediaJobs] BY DEF ObjectsInv
<1>3. ASSUME NEW q \in Requests, q # r PROVE JobFits(req[q], blob', O!Rows', avatar')
  <2> DEFINE i == req[q]
  <2>1. JobFits(i, blob, O!Rows, avatar) BY DEF ObjectsInv
  <2>2. i.op \in {"store", "avatar"} => i.pic \in blob'
    <3>1. i.op \in {"store", "avatar"} => O!storageObjectLock(i.pic) \in O!Held(i)
      <4>1. i.op = "store" => O!storageObjectLock(i.pic) \in O!Held(i) BY DEF O!Held, O!storeLocks
      <4>2. i.op = "avatar" => O!storageObjectLock(i.pic) \in O!Held(i)
        BY <2>1, MediaAssumption DEF O!Held, O!avatarLocks, JobFits
      <4> QED BY <4>1, <4>2
    <3>2. i.pic \in blob /\ i.pic \notin blob' => O!storageObjectLock(i.pic) \notin O!Held(i)
      BY <1>3 DEF O!Grab
    <3> QED BY <2>1, <3>1, <3>2 DEF JobFits
  <2>3. i.op = "avatar" => avatar'[i.user] = avatar[i.user]
    <3>1. i.op = "avatar" => i.user \in People /\ O!avatarResourceLock(i.user) \in O!Held(i)
      BY <2>1 DEF O!Held, O!avatarLocks, JobFits
    <3> QED BY <1>3, <3>1 DEF O!Grab
  <2>4. i.op = "imported" => <<i.src, i.pic>> \in O!Rows' BY <2>1 DEF JobFits, O!AwaitImports
  <2> QED BY <2>1, <2>2, <2>3, <2>4 DEF JobFits
<1>4. \A q \in Requests : JobFits(req'[q], blob', O!Rows', avatar') BY <1>1, <1>3
<1>5. Exclusive'
  <2>1. ASSUME NEW p \in Requests, NEW q \in Requests, p # q PROVE O!Held(req'[p]) \cap O!Held(req'[q]) = {}
    <3>1. CASE p = r
      <4>1. q \in Requests \ {r} /\ req'[p] = j /\ req'[q] = req[q] BY <1>1, <2>1, <3>1
      <4> QED BY <4>1
    <3>2. CASE q = r
      <4>1. p \in Requests \ {r} /\ req'[q] = j /\ req'[p] = req[p] BY <1>1, <2>1, <3>2
      <4>2. O!Held(j) \cap O!Held(req[p]) = {} BY <4>1
      <4> QED BY <4>1, <4>2
    <3>3. CASE p # r /\ q # r
      <4>1. req'[q] = req[q] /\ req'[p] = req[p] BY <1>1, <3>3
      <4> QED BY <2>1, <4>1 DEF ObjectsInv, Exclusive
    <3> QED BY <3>1, <3>2, <3>3
  <2>2. \A q \in Requests : O!Held(req[q])' = O!Held(req'[q])
    BY DEF O!Held, O!storeLocks, O!avatarLocks, O!libraryLock, O!avatarResourceLock, O!storageObjectLock
  <2> QED BY <2>1, <2>2 DEF Exclusive
<1>6. Minded'
  <2> SUFFICES ASSUME mishaps' = 0, NEW p \in Pics, Left(p, blob', object', O!Rows', avatar')
               PROVE  \E q \in Requests : Minds(req'[q], p, object'[p])
    BY DEF Minded
  <2>1. CASE Minds(j, p, object'[p]) BY <1>1, <2>1
  <2>2. CASE Left(p, blob, object, O!Rows, avatar) /\ ~Minds(req[r], p, object[p])
    <3>1. PICK q \in Requests : Minds(req[q], p, object[p]) BY <2>2 DEF ObjectsInv, Minded
    <3>2. q # r /\ req'[q] = req[q] BY <1>1, <2>2, <3>1
    <3>3. Minds(req'[q], p, object'[p]) BY <3>1, <3>2 DEF Minds
    <3> QED BY <3>3
  <2> QED BY <2>1, <2>2
<1> QED BY <1>2, <1>4, <1>5, <1>6 DEF ObjectsInv
-----------------------------------------------------------------------------
LEMMA MediaTrouble == ASSUME ObjectsInv, O!Trouble PROVE mishaps' \in Nat /\ mishaps' # 0
BY DEF ObjectsInv, O!Trouble
LEMMA MediaFine == ASSUME ObjectsInv, O!Fine PROVE mishaps' \in Nat /\ (mishaps' = 0 => mishaps = 0)
BY DEF ObjectsInv, O!Fine
LEMMA SameRows == ASSUME emote' = emote PROVE O!Rows' = O!Rows
BY DEF O!Rows

(* The request alone changes.                                              *)
LEMMA JobMoves ==
  ASSUME ObjectsInv, NEW r \in Requests, NEW j \in MediaJobs, req' = [req EXCEPT ![r] = j],
         UNCHANGED <<blob, object, emote, avatar>>, mishaps' \in Nat, mishaps' = 0 => mishaps = 0,
         JobFits(j, blob, O!Rows, avatar), \A q \in Requests \ {r} : O!Held(j) \cap O!Held(req[q]) = {},
         mishaps' = 0 => \A p \in Pics : Minds(req[r], p, object[p]) => Minds(j, p, object[p])
  PROVE  ObjectsInv'
<1>1. O!Rows' = O!Rows BY SameRows
<1>2. WorldTyped(blob', object', O!Rows', avatar') /\ AllPresent(blob', object', O!Rows', avatar')
      /\ JobFits(j, blob', O!Rows', avatar')
  BY <1>1 DEF ObjectsInv
<1>3. /\ \A p \in blob \ blob' : O!Grab(r, {O!storageObjectLock(p)})
      /\ \A u, p : <<u, p>> \in O!Rows /\ <<u, p>> \notin O!Rows' => O!AwaitImports(u, p)
      /\ \A u \in People : avatar'[u] = avatar[u] \/ O!Grab(r, {O!avatarResourceLock(u)})
      /\ \A p \in Pics : object[p] # "none" => object'[p] # "none"
  BY <1>1
<1>4. mishaps' = 0 => \A p \in Pics : Left(p, blob', object', O!Rows', avatar') =>
         Minds(j, p, object'[p]) \/ (Left(p, blob, object, O!Rows, avatar) /\ ~Minds(req[r], p, object[p]))
  BY <1>1
<1> QED BY <1>2, <1>3, <1>4, JobGoes

LEMMA JobsOf ==
  ASSUME ObjectsInv, NEW r \in Requests
  PROVE  /\ req[r] \in MediaJobs /\ JobFits(req[r], blob, O!Rows, avatar)
         /\ WorldTyped(blob, object, O!Rows, avatar) /\ AllPresent(blob, object, O!Rows, avatar)
         /\ \A q \in Requests \ {r} : O!Held(req[r]) \cap O!Held(req[q]) = {}
BY DEF ObjectsInv, Exclusive

LEMMA NoLocks == ASSUME NEW j, O!Held(j) = {}, NEW r PROVE \A q \in Requests \ {r} : O!Held(j) \cap O!Held(req[q]) = {}
OBVIOUS

(* The request becomes a cleanup or ends after a failure, or keeps what it *)
(* has in mind.                                                            *)
LEMMA RequestsKeep ==
  ASSUME ObjectsInv, NEW r \in Requests, UNCHANGED <<blob, object, emote, avatar>>,
         \/ O!StoreRefused(r) \/ O!AvatarFails(r) \/ O!Crash(r) \/ O!ImportInserts(r)
         \/ \E u \in People, s \in People, p \in Pics : O!ImportReads(r, u, s, p) \/ O!FavoriteReads(r, u, s, p)
         \/ \E op \in CleanupOps, p \in Pics : O!Become(r, O!CleanupOf(op, p, TRUE)) /\ O!Trouble
         \/ O!End(r) /\ O!Fine /\ req[r].op = "favorite"
  PROVE  ObjectsInv'
<1>0. req[r] \in MediaJobs /\ JobFits(req[r], blob, O!Rows, avatar) BY JobsOf
<1>1. ASSUME NEW op \in CleanupOps, NEW p \in Pics, O!Become(r, O!CleanupOf(op, p, TRUE)),
             (mishaps' \in Nat /\ mishaps' # 0) \/ (O!Fine /\ req[r].pic = p)
      PROVE  ObjectsInv'
  <2> DEFINE j == O!CleanupOf(op, p, TRUE)
  <2>1. req' = [req EXCEPT ![r] = j] BY <1>1 DEF O!Become
  <2>2. /\ j \in MediaJobs /\ O!Held(j) = {} /\ JobFits(j, blob, O!Rows, avatar)
        /\ \A s : Minds(j, p, s)
    BY CleanupJob
  <2>3. mishaps' \in Nat /\ (mishaps' = 0 => mishaps = 0) BY <1>1, MediaFine
  <2>4. mishaps' = 0 => \A q \in Pics : Minds(req[r], q, object[q]) => Minds(j, q, object[q])
    BY <1>1, <2>2 DEF Minds
  <2> HIDE DEF j
  <2>5. \A q \in Requests \ {r} : O!Held(j) \cap O!Held(req[q]) = {} BY <2>2
  <2> QED BY <2>1, <2>2, <2>3, <2>4, <2>5, JobMoves
<1>2. ASSUME O!End(r), mishaps' \in Nat, mishaps' = 0 => mishaps = 0 /\ req[r].op \in {"import", "favorite"}
      PROVE  ObjectsInv'
  <2>1. req' = [req EXCEPT ![r] = O!Free] BY <1>2 DEF O!End, O!Become
  <2>2. mishaps' = 0 => \A q \in Pics : Minds(req[r], q, object[q]) => Minds(O!Free, q, object[q])
    BY <1>2 DEF Minds, CleanupOps
  <2>3. \A q \in Requests \ {r} : O!Held(O!Free) \cap O!Held(req[q]) = {} BY FreeJob
  <2> QED BY <1>2, <2>1, <2>2, <2>3, FreeJob, JobMoves
<1>3. CASE O!StoreRefused(r)
  <2>1. req[r].pic \in Pics BY <1>0, <1>3 DEF O!StoreRefused, JobFits
  <2> QED BY <1>1, <1>3, <2>1 DEF O!StoreRefused, CleanupOps
<1>4. CASE O!AvatarFails(r)
  <2>1. req[r].pic \in Pics BY <1>0, <1>4 DEF O!AvatarFails, JobFits
  <2> QED BY <1>1, <1>4, <2>1, MediaTrouble DEF O!AvatarFails, CleanupOps
<1>5. CASE O!Crash(r) BY <1>2, <1>5, MediaTrouble DEF O!Crash
<1>6. CASE \E op \in CleanupOps, p \in Pics : O!Become(r, O!CleanupOf(op, p, TRUE)) /\ O!Trouble
  BY <1>1, <1>6, MediaTrouble
<1>7. CASE O!End(r) /\ O!Fine /\ req[r].op = "favorite" BY <1>2, <1>7, MediaFine
<1>8. CASE O!ImportInserts(r)
  <2>1. req[r].op = "import" /\ O!Fine BY <1>8 DEF O!ImportInserts
  <2>2. CASE <<req[r].src, req[r].pic>> \in O!Rows
    <3> DEFINE j == [req[r] EXCEPT !.op = "imported"]
    <3>1. req' = [req EXCEPT ![r] = j] BY <1>8, <2>2 DEF O!ImportInserts, O!Become
    <3>2. /\ j \in MediaJobs /\ j.op = "imported" /\ j.user = req[r].user /\ j.pic = req[r].pic /\ j.src = req[r].src
      BY <1>0 DEF MediaJobs
    <3> HIDE DEF j
    <3>3. JobFits(j, blob, O!Rows, avatar) BY <1>0, <2>1, <2>2, <3>2 DEF JobFits
    <3>4. O!Held(j) = O!Held(req[r]) BY <2>1, <3>2 DEF O!Held
    <3>5. \A q \in Requests \ {r} : O!Held(j) \cap O!Held(req[q]) = {} BY <3>4, JobsOf
    <3>6. \A p \in Pics : ~Minds(req[r], p, object[p]) BY <2>1 DEF Minds, CleanupOps
    <3> QED BY <2>1, <3>1, <3>2, <3>3, <3>5, <3>6, MediaFine, JobMoves
  <2>3. CASE <<req[r].src, req[r].pic>> \notin O!Rows
    BY <1>2, <1>8, <2>1, <2>3, MediaFine DEF O!ImportInserts
  <2> QED BY <2>2, <2>3
<1>9. ASSUME NEW u \in People, NEW s \in People, NEW p \in Pics, O!ImportReads(r, u, s, p) \/ O!FavoriteReads(r, u, s, p)
      PROVE  ObjectsInv'
  <2>1. PICK op \in {"import", "favorite"} :
          O!Become(r, [O!Free EXCEPT !.op = op, !.user = u, !.src = s, !.pic = p])
    BY <1>9 DEF O!ImportReads, O!FavoriteReads
  <2>2. req[r] = O!Free /\ O!Grab(r, {O!libraryLock(u)}) /\ O!Fine BY <1>9 DEF O!ImportReads, O!FavoriteReads
  <2> DEFINE j == [O!Free EXCEPT !.op = op, !.user = u, !.src = s, !.pic = p]
  <2>3. req' = [req EXCEPT ![r] = j] BY <2>1 DEF O!Become
  <2>4. j \in MediaJobs /\ j.op = op /\ j.user = u /\ j.pic = p BY DEF O!Free, MediaJobs, SomePic, SomeUser
  <2> HIDE DEF j
  <2>5. O!Held(j) = {O!libraryLock(u)} BY <2>4 DEF O!Held
  <2>6. \A q \in Requests \ {r} : O!Held(j) \cap O!Held(req[q]) = {} BY <2>2, <2>5 DEF O!Grab
  <2>7. JobFits(j, blob, O!Rows, avatar) BY <2>4 DEF JobFits
  <2>8. \A q \in Pics : ~Minds(req[r], q, object[q]) BY <2>2, FreeJob
  <2> QED BY <2>2, <2>3, <2>4, <2>6, <2>7, <2>8, MediaFine, JobMoves
<1> QED BY <1>3, <1>4, <1>5, <1>6, <1>7, <1>8, <1>9

(* The bytes are put.                                                      *)
LEMMA BytesPut ==
  ASSUME ObjectsInv, NEW r \in Requests, NEW p \in Pics, NEW j \in MediaJobs, req[r] = O!Free,
         req' = [req EXCEPT ![r] = j], blob' = blob \cup {p}, UNCHANGED <<object, emote, avatar, mishaps>>,
         j.op \in {"store", "avatar"}, j.pic = p, j.user \in People, j.op = "avatar" => j.old = avatar[j.user],
         O!Grab(r, O!Held(j))
  PROVE  ObjectsInv'
<1>0. WorldTyped(blob, object, O!Rows, avatar) /\ AllPresent(blob, object, O!Rows, avatar) BY JobsOf
<1>1. O!Rows' = O!Rows BY SameRows
<1>2. WorldTyped(blob', object', O!Rows', avatar') BY <1>0, <1>1 DEF WorldTyped
<1>3. AllPresent(blob', object', O!Rows', avatar') BY <1>0, <1>1 DEF AllPresent
<1>4. JobFits(j, blob', O!Rows', avatar') BY DEF JobFits
<1>5. \A q \in Requests \ {r} : O!Held(j) \cap O!Held(req[q]) = {} BY DEF O!Grab
<1>6. /\ \A q \in blob \ blob' : O!Grab(r, {O!storageObjectLock(q)})
      /\ \A u, q : <<u, q>> \in O!Rows /\ <<u, q>> \notin O!Rows' => O!AwaitImports(u, q)
      /\ \A u \in People : avatar'[u] = avatar[u] \/ O!Grab(r, {O!avatarResourceLock(u)})
      /\ \A q \in Pics : object[q] # "none" => object'[q] # "none"
  BY <1>1
<1>7. \A q \in Pics : Left(q, blob', object', O!Rows', avatar') =>
         Minds(j, q, object'[q]) \/ (Left(q, blob, object, O!Rows, avatar) /\ ~Minds(req[r], q, object[q]))
  <2> TAKE q \in Pics
  <2>1. CASE q = p BY <2>1 DEF Minds
  <2>2. CASE q # p BY <1>1, <2>2, FreeJob DEF Left
  <2> QED BY <2>1, <2>2
<1>8. mishaps' \in Nat /\ (mishaps' = 0 => mishaps = 0) BY DEF ObjectsInv
<1> QED BY <1>2, <1>3, <1>4, <1>5, <1>6, <1>7, <1>8, JobGoes

LEMMA PutsOfMediaKeep ==
  ASSUME ObjectsInv, NEW r \in Requests, NEW u \in People, NEW p \in Pics, O!StorePut(r, u, p) \/ O!AvatarPut(r, u, p)
  PROVE  ObjectsInv'
<1>0. avatar[u] \in SomePic BY JobsOf DEF WorldTyped
<1>1. CASE O!StorePut(r, u, p)
  <2> DEFINE j == [O!Free EXCEPT !.op = "store", !.user = u, !.pic = p]
  <2>1. j \in MediaJobs /\ j.op = "store" /\ j.user = u /\ j.pic = p BY DEF O!Free, MediaJobs, SomePic, SomeUser
  <2>2. req[r] = O!Free /\ O!Grab(r, O!storeLocks(j)) /\ UNCHANGED <<object, emote, avatar>> BY <1>1 DEF O!StorePut
  <2>3. \/ O!Become(r, j) /\ blob' = blob \cup {p} /\ O!Fine
        \/ O!Become(r, O!CleanupOf("cleanup_emote", p, TRUE)) /\ O!Trouble /\ blob' = blob
    BY <1>1 DEF O!StorePut
  <2> HIDE DEF j
  <2>4. O!Held(j) = O!storeLocks(j) BY <2>1 DEF O!Held
  <2>5. CASE O!Become(r, j) /\ blob' = blob \cup {p} /\ O!Fine
    BY <2>1, <2>2, <2>4, <2>5, BytesPut DEF O!Become, O!Fine
  <2>6. CASE O!Become(r, O!CleanupOf("cleanup_emote", p, TRUE)) /\ O!Trouble /\ blob' = blob
    BY <2>2, <2>6, RequestsKeep DEF CleanupOps
  <2> QED BY <2>3, <2>5, <2>6
<1>2. CASE O!AvatarPut(r, u, p)
  <2> DEFINE j == [O!Free EXCEPT !.op = "avatar", !.user = u, !.pic = p, !.old = avatar[u]]
  <2>1. j \in MediaJobs /\ j.op = "avatar" /\ j.user = u /\ j.pic = p /\ j.old = avatar[u]
    BY <1>0 DEF O!Free, MediaJobs, SomePic, SomeUser
  <2>2. req[r] = O!Free /\ O!Grab(r, O!avatarLocks(j)) /\ UNCHANGED <<object, emote, avatar>> BY <1>2 DEF O!AvatarPut
  <2>3. \/ O!Become(r, j) /\ blob' = blob \cup {p} /\ O!Fine
        \/ O!Become(r, O!CleanupOf("cleanup_avatar", p, TRUE)) /\ O!Trouble /\ blob' = blob
    BY <1>2 DEF O!AvatarPut
  <2> HIDE DEF j
  <2>4. O!Held(j) = O!avatarLocks(j) BY <2>1 DEF O!Held
  <2>5. CASE O!Become(r, j) /\ blob' = blob \cup {p} /\ O!Fine
    BY <2>1, <2>2, <2>4, <2>5, BytesPut DEF O!Become, O!Fine
  <2>6. CASE O!Become(r, O!CleanupOf("cleanup_avatar", p, TRUE)) /\ O!Trouble /\ blob' = blob
    BY <2>2, <2>6, RequestsKeep DEF CleanupOps
  <2> QED BY <2>3, <2>5, <2>6
<1> QED BY <1>1, <1>2
-----------------------------------------------------------------------------
(* A row is committed, and the request ends.                               *)
LEMMA RowAdded ==
  ASSUME ObjectsInv, NEW r \in Requests, NEW u \in People, NEW p \in Pics, p \in blob,
         O!Rows' = O!Rows \cup {<<u, p>>}, UNCHANGED <<blob, avatar>>, object' = [object EXCEPT ![p] = "live"],
         O!End(r), O!Fine, req[r].op \notin CleanupOps, req[r].op \in {"store", "avatar"} => req[r].pic = p
  PROVE  ObjectsInv'
<1>0. WorldTyped(blob, object, O!Rows, avatar) /\ AllPresent(blob, object, O!Rows, avatar) BY JobsOf
<1>1. \A q \in Pics : object'[q] = IF q = p THEN "live" ELSE object[q] BY <1>0 DEF WorldTyped
<1>2. \A q \in Pics : Referred(q, O!Rows', avatar') <=> Referred(q, O!Rows, avatar) \/ q = p
  <2> DEFINE fresh == <<u, p>>
  <2>1. fresh[2] = p OBVIOUS
  <2>2. O!Rows' = O!Rows \cup {fresh} OBVIOUS
  <2> HIDE DEF fresh
  <2>3. \A q : (\E x \in O!Rows' : x[2] = q) <=> (\E x \in O!Rows : x[2] = q) \/ q = p BY <2>1, <2>2
  <2> QED BY <2>3 DEF Referred
<1>3. WorldTyped(blob', object', O!Rows', avatar')
  <2>1. IsFiniteSet(O!Rows') BY <1>0, FS_AddElement DEF WorldTyped
  <2> QED BY <1>0, <2>1 DEF WorldTyped
<1>4. AllPresent(blob', object', O!Rows', avatar') BY <1>0, <1>1, <1>2 DEF AllPresent
<1>5. req' = [req EXCEPT ![r] = O!Free] BY DEF O!End, O!Become
<1>6. \A q \in Requests \ {r} : O!Held(O!Free) \cap O!Held(req[q]) = {} BY FreeJob
<1>7. /\ \A q \in blob \ blob' : O!Grab(r, {O!storageObjectLock(q)})
      /\ \A v, q : <<v, q>> \in O!Rows /\ <<v, q>> \notin O!Rows' => O!AwaitImports(v, q)
      /\ \A v \in People : avatar'[v] = avatar[v] \/ O!Grab(r, {O!avatarResourceLock(v)})
      /\ \A q \in Pics : object[q] # "none" => object'[q] # "none"
  BY <1>1
<1>8. \A q \in Pics : Left(q, blob', object', O!Rows', avatar') =>
         (Left(q, blob, object, O!Rows, avatar) /\ ~Minds(req[r], q, object[q]))
  BY <1>1, <1>2 DEF Left, Minds
<1> QED BY <1>3, <1>4, <1>5, <1>6, <1>7, <1>8, FreeJob, MediaFine, JobGoes

LEMMA CommitsKeep ==
  ASSUME ObjectsInv, NEW r \in Requests, O!StoreCommit(r) \/ O!ImportCommits(r) \/ O!FavoriteCommits(r)
  PROVE  ObjectsInv'
<1> DEFINE j == req[r]
<1>0. j \in MediaJobs /\ JobFits(j, blob, O!Rows, avatar) /\ WorldTyped(blob, object, O!Rows, avatar)
      /\ AllPresent(blob, object, O!Rows, avatar)
  BY JobsOf
<1>1. ASSUME NEW p, <<j.src, p>> \in O!Rows PROVE p \in Pics /\ p \in blob /\ object[p] = "live"
  <2>1. <<j.src, p>> \in People \X Pics BY <1>0, <1>1 DEF WorldTyped
  <2>2. p \in Pics BY <2>1
  <2>3. Referred(p, O!Rows, avatar) BY <1>1 DEF Referred
  <2> QED BY <1>0, <2>2, <2>3 DEF AllPresent
<1>2. CASE O!StoreCommit(r)
  <2>1. /\ j.op = "store" /\ object' = [object EXCEPT ![j.pic] = "live"] /\ O!End(r) /\ O!Fine
        /\ UNCHANGED <<blob, avatar>>
    BY <1>2 DEF O!StoreCommit
  <2>2. j.user \in People /\ j.pic \in Pics /\ j.pic \in blob BY <1>0, <2>1 DEF JobFits
  <2>3. O!Rows' = O!Rows \cup {<<j.user, j.pic>>} BY <1>2 DEF O!StoreCommit, O!Rows
  <2> QED BY <2>1, <2>2, <2>3, RowAdded DEF CleanupOps
<1>3. CASE O!ImportCommits(r)
  <2>1. j.op = "imported" /\ O!End(r) /\ O!Fine /\ UNCHANGED <<blob, object, avatar>> BY <1>3 DEF O!ImportCommits
  <2>2. j.user \in People /\ j.pic \in Pics /\ <<j.src, j.pic>> \in O!Rows BY <1>0, <2>1 DEF JobFits
  <2>3. j.pic \in blob /\ object[j.pic] = "live" BY <1>1, <2>2
  <2>4. O!Rows' = O!Rows \cup {<<j.user, j.pic>>} BY <1>3 DEF O!ImportCommits, O!Rows
  <2>5. object' = [object EXCEPT ![j.pic] = "live"] BY <1>0, <2>1, <2>2, <2>3 DEF WorldTyped
  <2> QED BY <2>1, <2>2, <2>3, <2>4, <2>5, RowAdded DEF CleanupOps
<1>4. CASE O!FavoriteCommits(r)
  <2>1. j.op = "favorite" /\ O!End(r) /\ O!Fine /\ UNCHANGED <<blob, object, avatar>> BY <1>4 DEF O!FavoriteCommits
  <2>2. j.user \in People /\ j.pic \in Pics BY <1>0, <2>1 DEF JobFits
  <2>3. CASE object[j.pic] = "live" /\ <<j.src, j.pic>> \in O!Rows
    <3>1. j.pic \in blob BY <1>1, <2>3
    <3>2. O!Rows' = O!Rows \cup {<<j.user, j.pic>>} BY <1>4, <2>3 DEF O!FavoriteCommits, O!Rows
    <3>3. object' = [object EXCEPT ![j.pic] = "live"] BY <1>0, <2>1, <2>2, <2>3 DEF WorldTyped
    <3> QED BY <2>1, <2>2, <3>1, <3>2, <3>3, RowAdded DEF CleanupOps
  <2>4. CASE ~(object[j.pic] = "live" /\ <<j.src, j.pic>> \in O!Rows)
    <3>1. emote' = emote BY <1>4, <2>4 DEF O!FavoriteCommits
    <3> QED BY <2>1, <3>1, RequestsKeep
  <2> QED BY <2>3, <2>4
<1> QED BY <1>2, <1>3, <1>4

(* A reference goes or an avatar is replaced; what was its object is the   *)
(* request's to look after.                                                *)
LEMMA RemovesKeep ==
  ASSUME ObjectsInv, NEW r \in Requests,
         \/ \E u \in People, p \in Pics : O!RemoveEmote(r, u, p)
         \/ \E u \in People : O!RemoveOwnAvatar(r, u)
  PROVE  ObjectsInv'
<1>0. WorldTyped(blob, object, O!Rows, avatar) /\ AllPresent(blob, object, O!Rows, avatar) BY JobsOf
(* Only p may have lost its last reference; it is registered.              *)
<1>1. ASSUME NEW p \in Pics, NEW op \in CleanupOps, NEW known \in BOOLEAN, req[r] = O!Free,
             O!Become(r, O!CleanupOf(op, p, known)), object[p] = "live", UNCHANGED <<blob, object, mishaps>>,
             WorldTyped(blob', object', O!Rows', avatar'),
             \A q \in Pics : Referred(q, O!Rows', avatar') => Referred(q, O!Rows, avatar),
             \A q \in Pics : Referred(q, O!Rows, avatar) => Referred(q, O!Rows', avatar') \/ q = p,
             \A u, q : <<u, q>> \in O!Rows /\ <<u, q>> \notin O!Rows' => O!AwaitImports(u, q),
             \A u \in People : avatar'[u] = avatar[u] \/ O!Grab(r, {O!avatarResourceLock(u)})
      PROVE  ObjectsInv'
  <2> DEFINE j == O!CleanupOf(op, p, known)
  <2>1. req' = [req EXCEPT ![r] = j] BY <1>1 DEF O!Become
  <2>2. /\ j \in MediaJobs /\ O!Held(j) = {} /\ JobFits(j, blob', O!Rows', avatar')
        /\ \A s : Minds(j, p, s) <=> (s # "none" \/ known)
    BY CleanupJob
  <2> HIDE DEF j
  <2>3. AllPresent(blob', object', O!Rows', avatar') BY <1>0, <1>1 DEF AllPresent
  <2>4. \A q \in Requests \ {r} : O!Held(j) \cap O!Held(req[q]) = {} BY <2>2
  <2>5. /\ \A q \in blob \ blob' : O!Grab(r, {O!storageObjectLock(q)})
        /\ \A q \in Pics : object[q] # "none" => object'[q] # "none"
    BY <1>1
  <2>6. \A q \in Pics : Left(q, blob', object', O!Rows', avatar') =>
           Minds(j, q, object'[q]) \/ (Left(q, blob, object, O!Rows, avatar) /\ ~Minds(req[r], q, object[q]))
    <3> TAKE q \in Pics
    <3>1. CASE q = p BY <1>1, <2>2, <3>1
    <3>2. CASE q # p BY <1>1, <3>2, FreeJob DEF Left
    <3> QED BY <3>1, <3>2
  <2>7. mishaps' \in Nat /\ (mishaps' = 0 => mishaps = 0) BY <1>1 DEF ObjectsInv
  <2> QED BY <1>1, <2>1, <2>2, <2>3, <2>4, <2>5, <2>6, <2>7, JobGoes
<1>2. ASSUME NEW u \in People, NEW p \in Pics, O!RemoveEmote(r, u, p) PROVE ObjectsInv'
  <2>1. /\ req[r] = O!Free /\ <<u, p>> \in O!Rows /\ O!AwaitImports(u, p) /\ UNCHANGED <<blob, object, avatar, mishaps>>
        /\ O!Become(r, O!CleanupOf("cleanup_emote", p, FALSE))
    BY <1>2 DEF O!RemoveEmote, O!Fine
  <2>2. O!Rows' = O!Rows \ {<<u, p>>} BY <1>2 DEF O!RemoveEmote, O!Rows
  <2>3. Referred(p, O!Rows, avatar) BY <2>1 DEF Referred
  <2>4. object[p] = "live" BY <1>0, <2>3 DEF AllPresent
  <2>5. WorldTyped(blob', object', O!Rows', avatar')
    <3>1. IsFiniteSet(O!Rows') BY <1>0, <2>2, FS_Subset DEF WorldTyped
    <3> QED BY <1>0, <2>1, <2>2, <3>1 DEF WorldTyped
  <2>6. \A q \in Pics : Referred(q, O!Rows', avatar') => Referred(q, O!Rows, avatar) BY <2>1, <2>2 DEF Referred
  <2>7. \A q \in Pics : Referred(q, O!Rows, avatar) => Referred(q, O!Rows', avatar') \/ q = p
    BY <2>1, <2>2 DEF Referred
  <2>8. \A v, q : <<v, q>> \in O!Rows /\ <<v, q>> \notin O!Rows' => O!AwaitImports(v, q) BY <2>1, <2>2
  <2> QED BY <1>1, <2>1, <2>4, <2>5, <2>6, <2>7, <2>8 DEF CleanupOps
<1>3. ASSUME NEW u \in People, O!RemoveOwnAvatar(r, u) PROVE ObjectsInv'
  <2> DEFINE p == avatar[u]
  <2>1. /\ req[r] = O!Free /\ p # NoPic /\ UNCHANGED <<blob, object, emote, mishaps>>
        /\ O!Become(r, O!CleanupOf("cleanup_avatar", p, TRUE)) /\ avatar' = [avatar EXCEPT ![u] = NoPic]
        /\ O!Grab(r, {O!avatarResourceLock(u), O!storageObjectLock(p)})
    BY <1>3 DEF O!RemoveOwnAvatar, O!Fine
  <2>2. p \in Pics BY <1>0, <2>1 DEF WorldTyped, SomePic
  <2>3. Referred(p, O!Rows, avatar) BY DEF Referred
  <2>4. object[p] = "live" BY <1>0, <2>2, <2>3 DEF AllPresent
  <2>5. \A v \in People : avatar'[v] = IF v = u THEN NoPic ELSE avatar[v] BY <1>0, <2>1 DEF WorldTyped
  <2>6. O!Rows' = O!Rows BY <2>1, SameRows
  <2>7. WorldTyped(blob', object', O!Rows', avatar') BY <1>0, <2>1, <2>6 DEF WorldTyped, SomePic
  <2>8. \A q \in Pics : Referred(q, O!Rows', avatar') => Referred(q, O!Rows, avatar)
    BY <2>5, <2>6, MediaAssumption DEF Referred
  <2>9. \A q \in Pics : Referred(q, O!Rows, avatar) => Referred(q, O!Rows', avatar') \/ q = p
    BY <2>5, <2>6 DEF Referred
  <2>10. \A v \in People : avatar'[v] = avatar[v] \/ O!Grab(r, {O!avatarResourceLock(v)})
    BY <2>1, <2>5 DEF O!Grab
  <2>11. \A v, q : <<v, q>> \in O!Rows /\ <<v, q>> \notin O!Rows' => O!AwaitImports(v, q) BY <2>6
  <2> HIDE DEF p
  <2> QED BY <1>1, <2>1, <2>2, <2>4, <2>7, <2>8, <2>9, <2>10, <2>11 DEF CleanupOps
<1> QED BY <1>2, <1>3

LEMMA AvatarCommitKeeps == ASSUME ObjectsInv, NEW r \in Requests, O!AvatarCommit(r) PROVE ObjectsInv'
<1> DEFINE j == req[r]
<1>0. j \in MediaJobs /\ JobFits(j, blob, O!Rows, avatar) /\ WorldTyped(blob, object, O!Rows, avatar)
      /\ AllPresent(blob, object, O!Rows, avatar)
  BY JobsOf
<1>1. /\ j.op = "avatar" /\ object' = [object EXCEPT ![j.pic] = "live"] /\ avatar' = [avatar EXCEPT ![j.user] = j.pic]
      /\ UNCHANGED <<blob, emote, mishaps>>
  BY DEF O!AvatarCommit, O!Fine
<1>2. j.user \in People /\ j.pic \in Pics /\ j.pic \in blob /\ j.old = avatar[j.user] BY <1>0, <1>1 DEF JobFits
<1>3. \A q \in Pics : object'[q] = IF q = j.pic THEN "live" ELSE object[q] BY <1>0, <1>1 DEF WorldTyped
<1>4. \A v \in People : avatar'[v] = IF v = j.user THEN j.pic ELSE avatar[v] BY <1>0, <1>1 DEF WorldTyped
<1>5. O!Rows' = O!Rows BY <1>1, SameRows
<1>6. WorldTyped(blob', object', O!Rows', avatar') BY <1>0, <1>1, <1>2, <1>5 DEF WorldTyped, SomePic
<1>7. \A q \in Pics : /\ Referred(q, O!Rows', avatar') => Referred(q, O!Rows, avatar) \/ q = j.pic
                      /\ Referred(q, O!Rows, avatar) => Referred(q, O!Rows', avatar') \/ q = j.old
  BY <1>2, <1>4, <1>5 DEF Referred
<1>8. Referred(j.pic, O!Rows', avatar') BY <1>2, <1>4 DEF Referred
<1>9. AllPresent(blob', object', O!Rows', avatar') BY <1>0, <1>1, <1>2, <1>3, <1>7 DEF AllPresent
<1>10. \A v \in People : avatar'[v] = avatar[v] \/ O!Grab(r, {O!avatarResourceLock(v)})
  <2>1. O!avatarResourceLock(j.user) \in O!Held(j) BY <1>1 DEF O!Held, O!avatarLocks
  <2>2. O!Grab(r, {O!avatarResourceLock(j.user)}) BY <2>1, JobsOf DEF O!Grab
  <2> QED BY <1>4, <2>2
<1>11. /\ \A q \in blob \ blob' : O!Grab(r, {O!storageObjectLock(q)})
       /\ \A v, q : <<v, q>> \in O!Rows /\ <<v, q>> \notin O!Rows' => O!AwaitImports(v, q)
       /\ \A q \in Pics : object[q] # "none" => object'[q] # "none"
  BY <1>1, <1>3, <1>5
<1>12. mishaps' \in Nat /\ (mishaps' = 0 => mishaps = 0) BY <1>1 DEF ObjectsInv
<1>13. \A q \in Pics : q # j.pic => ~Minds(j, q, object[q]) BY DEF Minds
<1>14. \A q \in Pics : Left(q, blob', object', O!Rows', avatar') /\ q # j.old =>
          Left(q, blob, object, O!Rows, avatar) /\ ~Minds(j, q, object[q])
  BY <1>1, <1>3, <1>7, <1>8, <1>13 DEF Left
<1>15. CASE j.old \in {NoPic, j.pic}
  <2>1. req' = [req EXCEPT ![r] = O!Free] BY <1>15 DEF O!AvatarCommit, O!End, O!Become
  <2>2. \A q \in Pics : Left(q, blob', object', O!Rows', avatar') => q # j.old
    BY <1>8, <1>15, MediaAssumption DEF Left
  <2>3. \A q \in Requests \ {r} : O!Held(O!Free) \cap O!Held(req[q]) = {} BY FreeJob
  <2>4. \A q \in Pics : Left(q, blob', object', O!Rows', avatar') =>
          Left(q, blob, object, O!Rows, avatar) /\ ~Minds(j, q, object[q])
    BY <1>14, <2>2
  <2> QED BY <1>6, <1>9, <1>10, <1>11, <1>12, <2>1, <2>3, <2>4, FreeJob, JobGoes
<1>16. CASE j.old \notin {NoPic, j.pic}
  <2>1. j.old \in Pics BY <1>0, <1>16 DEF MediaJobs, SomePic
  <2> DEFINE i == O!CleanupOf("cleanup_avatar", j.old, TRUE)
  <2>2. req' = [req EXCEPT ![r] = i] BY <1>16 DEF O!AvatarCommit, O!Become
  <2>3. /\ i \in MediaJobs /\ O!Held(i) = {} /\ JobFits(i, blob', O!Rows', avatar') /\ \A s : Minds(i, j.old, s)
    BY <2>1, CleanupJob DEF CleanupOps
  <2> HIDE DEF i
  <2>4. \A q \in Requests \ {r} : O!Held(i) \cap O!Held(req[q]) = {} BY <2>3
  <2>5. \A q \in Pics : Left(q, blob', object', O!Rows', avatar') =>
           Minds(i, q, object'[q]) \/ (Left(q, blob, object, O!Rows, avatar) /\ ~Minds(j, q, object[q]))
    BY <1>14, <2>3
  <2> QED BY <1>6, <1>9, <1>10, <1>11, <1>12, <2>2, <2>3, <2>4, <2>5, JobGoes
<1> QED BY <1>15, <1>16

(* A cleanup deletes what nothing refers to, under the lock of the object; *)
(* when nothing fails it leaves nothing of what it had in mind.            *)
LEMMA CleanupsKeep ==
  ASSUME ObjectsInv, NEW r \in Requests, O!CleanupEmoteObject(r) \/ O!CleanupAvatarObject(r)
  PROVE  ObjectsInv'
<1> DEFINE p == req[r].pic
           i == req[r]
<1>0. i \in MediaJobs /\ JobFits(i, blob, O!Rows, avatar) /\ WorldTyped(blob, object, O!Rows, avatar)
      /\ AllPresent(blob, object, O!Rows, avatar)
  BY JobsOf
<1>1. i.op \in CleanupOps /\ O!Grab(r, {O!storageObjectLock(p)}) /\ O!End(r) /\ UNCHANGED <<emote, avatar>>
  BY DEF O!CleanupEmoteObject, O!CleanupAvatarObject, CleanupOps
<1>2. p \in Pics BY <1>0, <1>1 DEF JobFits, CleanupOps
<1>3. O!Rows' = O!Rows BY <1>1, SameRows
<1> DEFINE may == O!emoteMayDelete(r, p) \/ (i.op = "cleanup_avatar" /\ O!avatarMayDelete(r, p))
<1>4. may => ~Referred(p, O!Rows, avatar)
  <2>1. O!Unregistered(r, p) => ~Referred(p, O!Rows, avatar) BY <1>0, <1>2 DEF O!Unregistered, AllPresent
  <2>2. O!Unreferenced(p) => ~Referred(p, O!Rows, avatar) BY <1>0, NoReference DEF O!Unreferenced
  <2> QED BY <2>1, <2>2 DEF O!emoteMayDelete, O!avatarMayDelete
<1>5. blob' \in {blob, blob \ {p}} /\ (blob' # blob => may)
  BY DEF O!CleanupEmoteObject, O!CleanupAvatarObject
<1>6. object' \in {object, [object EXCEPT ![p] = "deleted"]} /\ (object' # object => may /\ object[p] = "live")
  BY DEF O!CleanupEmoteObject, O!CleanupAvatarObject
<1>7. WorldTyped(blob', object', O!Rows', avatar') BY <1>0, <1>1, <1>3, <1>5, <1>6 DEF WorldTyped
<1>8. \A q \in Pics : object'[q] = object[q] \/ (q = p /\ object'[q] = "deleted" /\ object[q] = "live" /\ may)
  BY <1>0, <1>6 DEF WorldTyped
<1> HIDE DEF may
<1>9. AllPresent(blob', object', O!Rows', avatar')
  <2> SUFFICES ASSUME NEW q \in Pics, Referred(q, O!Rows, avatar) PROVE q \in blob' /\ object'[q] = "live"
    BY <1>1, <1>3 DEF AllPresent
  <2>1. q \in blob /\ object[q] = "live" BY <1>0 DEF AllPresent
  <2>2. CASE q = p BY <1>4, <1>5, <1>6, <2>1, <2>2
  <2>3. CASE q # p BY <1>5, <1>8, <2>1, <2>3
  <2> QED BY <2>2, <2>3
<1>10. mishaps' \in Nat /\ (mishaps' = 0 => mishaps = 0)
  BY MediaFine, MediaTrouble DEF O!CleanupEmoteObject, O!CleanupAvatarObject
<1>11. /\ \A q \in blob \ blob' : O!Grab(r, {O!storageObjectLock(q)})
       /\ \A v, q : <<v, q>> \in O!Rows /\ <<v, q>> \notin O!Rows' => O!AwaitImports(v, q)
       /\ \A v \in People : avatar'[v] = avatar[v] \/ O!Grab(r, {O!avatarResourceLock(v)})
       /\ \A q \in Pics : object[q] # "none" => object'[q] # "none"
  BY <1>1, <1>3, <1>5, <1>8
<1>12. ASSUME mishaps' = 0, NEW q \in Pics, Left(q, blob', object', O!Rows', avatar')
       PROVE  Left(q, blob, object, O!Rows, avatar) /\ ~Minds(i, q, object[q])
  <2>1. O!Fine BY <1>12, MediaTrouble DEF O!CleanupEmoteObject, O!CleanupAvatarObject
  <2>2. CASE q # p BY <1>1, <1>3, <1>5, <1>8, <1>12, <2>2 DEF Left, Minds
  <2>3. CASE q = p
    <3>1. ~Referred(p, O!Rows, avatar) BY <1>1, <1>3, <1>12, <2>3 DEF Left
    <3>2. O!References(p) = 0 BY <1>0, <3>1, NoReference
    <3>3. may => blob' = blob \ {p} /\ object'[p] # "live"
      <4>1. ASSUME may PROVE blob' = blob \ {p} /\ (object[p] = "live" => object' = [object EXCEPT ![p] = "deleted"])
        <5>1. CASE O!CleanupEmoteObject(r)
          <6>1. i.op = "cleanup_emote" BY <5>1 DEF O!CleanupEmoteObject
          <6>2. O!emoteMayDelete(r, p) BY <4>1, <6>1 DEF may
          <6> QED BY <1>12, <5>1, <6>2, MediaTrouble DEF O!CleanupEmoteObject
        <5>2. CASE O!CleanupAvatarObject(r)
          <6>1. O!avatarMayDelete(r, p) BY <4>1 DEF may, O!emoteMayDelete, O!avatarMayDelete
          <6> QED BY <1>12, <5>2, <6>1, MediaTrouble DEF O!CleanupAvatarObject
        <5> QED BY <5>1, <5>2
      <4> QED BY <1>0, <1>2, <1>8, <4>1 DEF WorldTyped
    <3>4. ~may
      <4>1. p \notin blob \ {p} OBVIOUS
      <4> QED BY <1>12, <2>3, <3>3, <4>1 DEF Left
    <3>5. object'[p] = object[p] /\ blob' = blob BY <1>2, <1>5, <1>6, <3>4
    <3>6. object[p] # "live" BY <3>2, <3>4 DEF may, O!emoteMayDelete, O!Unreferenced
    <3>7. object[p] = "none" /\ p \in blob BY <1>12, <2>3, <3>5, <3>6 DEF Left
    <3>8. ~i.known BY <3>4, <3>7 DEF may, O!emoteMayDelete, O!Unregistered
    <3>9. ~Minds(i, p, object[p]) BY <1>1, <3>7, <3>8 DEF Minds, CleanupOps
    <3> QED BY <2>3, <3>1, <3>7, <3>9 DEF Left
  <2> QED BY <2>2, <2>3
<1>13. req' = [req EXCEPT ![r] = O!Free] BY <1>1 DEF O!End, O!Become
<1>14. \A q \in Requests \ {r} : O!Held(O!Free) \cap O!Held(req[q]) = {} BY FreeJob
<1> QED BY <1>7, <1>9, <1>10, <1>11, <1>12, <1>13, <1>14, FreeJob, JobGoes

LEMMA ObjectsKeep == ObjectsInv /\ [O!Next]_(O!vars) => ObjectsInv'
<1> SUFFICES ASSUME ObjectsInv, [O!Next]_(O!vars) PROVE ObjectsInv' OBVIOUS
<1>1. CASE UNCHANGED O!vars
  <2>1. UNCHANGED <<blob, object, emote, avatar, req, mishaps>> BY <1>1 DEF O!vars
  <2>2. O!Rows' = O!Rows BY <2>1, SameRows
  <2>3. Exclusive' BY <2>1 DEF ObjectsInv, Exclusive, O!Held, O!storeLocks, O!avatarLocks, O!libraryLock,
                               O!avatarResourceLock, O!storageObjectLock
  <2>4. Minded' BY <2>1, <2>2 DEF ObjectsInv, Minded
  <2> QED BY <2>1, <2>2, <2>3, <2>4 DEF ObjectsInv
<1>2. ASSUME NEW r \in Requests, O!StoreRefused(r) \/ O!AvatarFails(r) \/ O!Crash(r) \/ O!ImportInserts(r)
                \/ \E u, s \in People, p \in Pics : O!ImportReads(r, u, s, p) \/ O!FavoriteReads(r, u, s, p)
      PROVE  ObjectsInv'
  <2>1. UNCHANGED <<blob, object, emote, avatar>>
    BY <1>2 DEF O!StoreRefused, O!AvatarFails, O!Crash, O!ImportInserts, O!ImportReads, O!FavoriteReads
  <2> QED BY <1>2, <2>1, RequestsKeep
<1>3. CASE O!Next
  BY <1>2, <1>3, PutsOfMediaKeep, CommitsKeep, RemovesKeep, AvatarCommitKeeps, CleanupsKeep DEF O!Next
<1> QED BY <1>1, <1>3

LEMMA ObjectsSay == ObjectsInv => O!MediaPresent /\ O!NothingLeftBehind
<1> SUFFICES ASSUME ObjectsInv PROVE O!MediaPresent /\ O!NothingLeftBehind OBVIOUS
<1>0. WorldTyped(blob, object, O!Rows, avatar) /\ AllPresent(blob, object, O!Rows, avatar) /\ Minded
      /\ req \in [Requests -> MediaJobs]
  BY DEF ObjectsInv
<1>1. O!MediaPresent
  <2>1. ASSUME NEW x \in O!Rows PROVE x[2] \in blob /\ object[x[2]] = "live"
    <3>1. x \in People \X Pics BY <1>0 DEF WorldTyped
    <3>2. x[2] \in Pics /\ Referred(x[2], O!Rows, avatar) BY <3>1 DEF Referred
    <3> QED BY <1>0, <3>2 DEF AllPresent
  <2>2. ASSUME NEW u \in People, avatar[u] # NoPic PROVE avatar[u] \in blob /\ object[avatar[u]] = "live"
    <3>1. avatar[u] \in Pics /\ Referred(avatar[u], O!Rows, avatar) BY <1>0, <2>2 DEF WorldTyped, SomePic, Referred
    <3> QED BY <1>0, <3>1 DEF AllPresent
  <2> QED BY <2>1, <2>2 DEF O!MediaPresent
<1>2. O!NothingLeftBehind
  <2> SUFFICES ASSUME mishaps = 0, \A r \in Requests : req[r] = O!Free, NEW p \in Pics, O!References(p) = 0
               PROVE  object[p] # "live" /\ (object[p] = "none" => p \notin blob)
    BY DEF O!NothingLeftBehind
  <2>1. ~Referred(p, O!Rows, avatar) BY <1>0, NoReference
  <2>2. ~Left(p, blob, object, O!Rows, avatar) BY <1>0, FreeJob DEF Minded
  <2> QED BY <2>1, <2>2 DEF Left
<1> QED BY <1>1, <1>2
-----------------------------------------------------------------------------
LEMMA VerdictKept == [B!ReaderNext]_(B!readerVars) => [terminal # "nil" => terminal' = terminal]_(B!readerVars)
BY DEF B!ReaderNext, B!newS3VerifiedReadCloser, B!ReadBegins, B!BodyRead, B!Record, B!Judge, B!fail, B!Close,
       B!closeBody, B!firstVerdict

(* Whatever reads, closings and failures interleave, a reader that came to *)
(* the end was handed the expected bytes, and its verdict stands.          *)
THEOREM ReaderCorrect == ReaderSpec => []B!EndMeansVerified /\ B!VerdictStands
<1>1. ReaderSpec => []ReaderInv BY ReaderInitially, ReaderKeeps, PTL DEF ReaderSpec
<1> QED BY <1>1, VerdictKept, ReaderSays, PTL DEF ReaderSpec, B!VerdictStands

(* A provisioning never writes to a public bucket; when it says completed  *)
(* the bucket is as wanted, and when it says partial it says what it did.  *)
THEOREM ProvisionCorrect ==
  ProvisionSpec => [](A!ProvisionTypeOK /\ A!PublicUntouched /\ A!CompletedConfigured /\ A!PartialTold /\ A!CanaryCleaned)
<1>1. ProvisionSpec => []ProvisionInv BY ProvisionInitially, ProvisionKeeps, PTL DEF ProvisionSpec
<1> QED BY <1>1, ProvisionSays, PTL

(* The bytes of every committed emote and avatar are there, and requests   *)
(* that all end without a failure leave no object unreferred to.           *)
THEOREM ObjectsCorrect == ObjectSpec => [](O!MediaPresent /\ O!NothingLeftBehind)
<1>1. ObjectSpec => []ObjectsInv BY ObjectsInitially, ObjectsKeep, PTL DEF ObjectSpec
<1> QED BY <1>1, ObjectsSay, PTL

(***************************************************************************)
(* The parts together: a step of one leaves the others' variables alone.   *)
(***************************************************************************)
BytesInv == ObjectsInv /\ StoreInv /\ ReaderInv /\ ProvisionInv

LEMMA PartsInitially == Init => BytesInv
BY ObjectsInitially, StoreInitially, ReaderInitially, ProvisionInitially DEF Init, BytesInv

LEMMA PartsStep ==
  [Next]_vars => /\ [O!Next]_(O!vars) /\ [B!BlobNext]_(B!blobVars)
                 /\ [B!ReaderNext]_(B!readerVars) /\ [A!ProvisionNext]_(A!provisionVars)
<1> SUFFICES ASSUME [Next]_vars
             PROVE  /\ [O!Next]_(O!vars) /\ [B!BlobNext]_(B!blobVars)
                    /\ [B!ReaderNext]_(B!readerVars) /\ [A!ProvisionNext]_(A!provisionVars)
  OBVIOUS
<1>1. /\ (UNCHANGED objectVars => UNCHANGED O!vars) /\ (UNCHANGED storeVars => UNCHANGED B!blobVars)
      /\ (UNCHANGED readerVars => UNCHANGED B!readerVars) /\ (UNCHANGED provisionVars => UNCHANGED A!provisionVars)
  BY DEF objectVars, storeVars, readerVars, provisionVars, O!vars, B!blobVars, B!readerVars, A!provisionVars
<1>2. O!Next \/ UNCHANGED objectVars
  BY DEF Next, vars, LibraryStep, ObjectStep, StoreStep, ReaderStep, TabStep, AuditStep, ProvisionStep, QuotaStep, Only
<1>3. B!BlobNext \/ UNCHANGED storeVars
  BY DEF Next, vars, LibraryStep, ObjectStep, StoreStep, ReaderStep, TabStep, AuditStep, ProvisionStep, QuotaStep, Only
<1>4. B!ReaderNext \/ UNCHANGED readerVars
  BY DEF Next, vars, LibraryStep, ObjectStep, StoreStep, ReaderStep, TabStep, AuditStep, ProvisionStep, QuotaStep, Only
<1>5. A!ProvisionNext \/ UNCHANGED provisionVars
  BY DEF Next, vars, LibraryStep, ObjectStep, StoreStep, ReaderStep, TabStep, AuditStep, ProvisionStep, QuotaStep, Only
<1> QED BY <1>1, <1>2, <1>3, <1>4, <1>5

(* Bytes behind a row are there and whole, and a bucket reported ready is. *)
THEOREM BytesKeptCorrect == Spec => []BytesKept
<1>1. BytesInv /\ [Next]_vars => BytesInv'
  BY PartsStep, ObjectsKeep, StoreKeeps, ReaderKeeps, ProvisionKeeps DEF BytesInv
<1>2. Spec => []BytesInv BY <1>1, PartsInitially, PTL DEF Spec
<1>3. BytesInv => BytesKept BY ObjectsSay, StoreSays, ReaderSays, ProvisionSays DEF BytesInv, BytesKept
<1> QED BY <1>2, <1>3, PTL
-----------------------------------------------------------------------------
(***************************************************************************)
(* Emotes.  The rows of a collection are its owner's, no row is in use     *)
(* before it was inserted, and a row never changes hands: so what the      *)
(* owner's transaction saw of the fan stays the fan's.                     *)
(***************************************************************************)
EmoteIds == 1 .. MaxRows
AnyPic == Pics \cup {CHOOSE p \in Pics : TRUE}
EmoteRows == [state : {"free", "live", "removed", "gone"}, user : {"owner", "fan"}, pic : AnyPic,
              label : {0, 1}, from : Nat]
SubMaps == UNION {[S -> Nat] : S \in SUBSET Nat}
Subscriptions == [status : {"none", "active", "off", "detached"}, rev : Nat, map : SubMaps]
EmoteTables ==
  [emote : [EmoteIds -> EmoteRows], next : Nat, exists : SUBSET E!Colls, items : [E!Colls -> SUBSET Nat],
   library : SUBSET Nat, rev : Nat, sub : Subscriptions, share : SUBSET Nat, shared : BOOLEAN, sent : SUBSET Nat,
   edits : Nat]

Unused(f, n) == \A e \in EmoteIds : e >= n => f[e].state = "free"
OwnersOnly(f, n, S) == \A e \in S : e \in EmoteIds /\ e < n /\ f[e].user = "owner"
Owned(d) == /\ d \in EmoteTables /\ Unused(d.emote, d.next)
            /\ OwnersOnly(d.emote, d.next, d.items["src"]) /\ OwnersOnly(d.emote, d.next, d.items["alt"])
(* Rows stay with their users.                                             *)
Grows(d, z) == d.next <= z.next /\ \A e \in EmoteIds : e < d.next => z.emote[e].user = d.emote[e].user

LEMMA EmoteNames == E!Ids = EmoteIds /\ E!Colls = {"src", "alt", "copy", "own"}
BY DEF E!Ids, EmoteIds, E!Colls

LEMMA InUse == ASSUME NEW d, Owned(d) PROVE E!Rows(d) \subseteq {e \in EmoteIds : e < d.next}
<1>1. d.next \in Nat /\ EmoteIds \subseteq Nat BY MediaAssumption DEF Owned, EmoteTables, EmoteIds
<1>2. \A e \in EmoteIds : e < d.next \/ e >= d.next BY <1>1
<1> QED BY <1>2, EmoteNames DEF E!Rows, Owned, Unused

LEMMA GrowsOn == ASSUME NEW d, NEW z, NEW y, Owned(d), Owned(z), Owned(y), Grows(d, z), Grows(z, y) PROVE Grows(d, y)
<1>1. d.next \in Nat /\ z.next \in Nat /\ y.next \in Nat /\ EmoteIds \subseteq Nat
  BY MediaAssumption DEF Owned, EmoteTables, EmoteIds
<1> QED BY <1>1 DEF Grows

(* Only the rows change, each keeping its user, and none begins.           *)
SameButRows(d, z) ==
  /\ z.next = d.next /\ z.exists = d.exists /\ z.items = d.items /\ z.library = d.library /\ z.rev = d.rev
  /\ z.sub = d.sub
LEMMA RowsSet ==
  ASSUME NEW d, Owned(d), NEW f \in [EmoteIds -> EmoteRows], NEW z, z = [d EXCEPT !.emote = f],
         \A e \in EmoteIds : f[e].user = d.emote[e].user /\ (e \notin E!Rows(d) => f[e] = d.emote[e])
  PROVE  Owned(z) /\ Grows(d, z) /\ SameButRows(d, z) /\ z.emote = f
<1>1. d \in EmoteTables BY DEF Owned
<1>2. z \in EmoteTables /\ z.emote = f BY <1>1 DEF EmoteTables
<1>3. SameButRows(d, z) BY <1>1 DEF EmoteTables, SameButRows
<1>4. d.next \in Nat /\ EmoteIds \subseteq Nat BY <1>1, MediaAssumption DEF EmoteTables, EmoteIds
<1>5. \A e \in EmoteIds : e >= d.next => f[e] = d.emote[e] BY <1>4, InUse
<1>6. Unused(z.emote, z.next) BY <1>2, <1>3, <1>5 DEF Owned, Unused, SameButRows
<1>7. OwnersOnly(z.emote, z.next, z.items["src"]) /\ OwnersOnly(z.emote, z.next, z.items["alt"])
  BY <1>2, <1>3 DEF Owned, OwnersOnly, SameButRows
<1>8. Grows(d, z) BY <1>2, <1>3, <1>4 DEF Grows, SameButRows
<1> QED BY <1>2, <1>3, <1>6, <1>7, <1>8 DEF Owned

LEMMA RowsTyped ==
  ASSUME NEW d, Owned(d), NEW e \in EmoteIds
  PROVE  /\ d.emote[e] \in EmoteRows
         /\ \A s \in {"live", "removed", "gone"} : /\ [d.emote[e] EXCEPT !.state = s] \in EmoteRows
                                                   /\ [d.emote[e] EXCEPT !.state = s].user = d.emote[e].user
<1>1. d.emote[e] \in EmoteRows BY DEF Owned, EmoteTables
<1> DEFINE x == d.emote[e]
<1>2. x \in EmoteRows BY <1>1
<1> HIDE DEF x
<1>3. \A s \in {"live", "removed", "gone"} : [x EXCEPT !.state = s] \in EmoteRows /\ [x EXCEPT !.state = s].user = x.user
  BY <1>2 DEF EmoteRows
<1> QED BY <1>1, <1>3 DEF x

LEMMA StateSet ==
  ASSUME NEW d, Owned(d), NEW S, NEW s \in {"live", "removed"}
  PROVE  LET z == E!SetState(d, S, s) IN
         /\ Owned(z) /\ Grows(d, z) /\ SameButRows(d, z)
         /\ \A e \in EmoteIds : e \notin S => z.emote[e] = d.emote[e]
         /\ E!Rows(z) = E!Rows(d)
<1> DEFINE f == [e \in EmoteIds |-> IF e \in S \cap E!Rows(d) THEN [d.emote[e] EXCEPT !.state = s] ELSE d.emote[e]]
           z == E!SetState(d, S, s)
<1>1. z = [d EXCEPT !.emote = f] BY EmoteNames DEF E!SetState
<1>2. f \in [EmoteIds -> EmoteRows] BY RowsTyped
<1>3. \A e \in EmoteIds : f[e].user = d.emote[e].user /\ (e \notin E!Rows(d) => f[e] = d.emote[e]) BY RowsTyped
<1>4. \A e \in EmoteIds : e \notin S => f[e] = d.emote[e] OBVIOUS
<1>5. \A e \in EmoteIds : f[e].state \in {"live", "removed"} <=> d.emote[e].state \in {"live", "removed"}
  <2> TAKE e \in EmoteIds
  <2>1. d.emote[e] \in EmoteRows BY RowsTyped
  <2>2. e \in E!Rows(d) <=> d.emote[e].state \in {"live", "removed"} BY EmoteNames DEF E!Rows
  <2>3. CASE e \in S \cap E!Rows(d)
    <3>1. f[e] = [d.emote[e] EXCEPT !.state = s] BY <2>3
    <3>2. f[e].state = s BY <2>1, <3>1 DEF EmoteRows
    <3> QED BY <2>2, <2>3, <3>2
  <2>4. CASE e \notin S \cap E!Rows(d) BY <2>4
  <2> QED BY <2>3, <2>4
<1> HIDE DEF f, z
<1>6. Owned(z) /\ Grows(d, z) /\ SameButRows(d, z) /\ z.emote = f BY <1>1, <1>2, <1>3, RowsSet
<1>7. E!Rows(z) = E!Rows(d) BY <1>5, <1>6, EmoteNames DEF E!Rows
<1> QED BY <1>4, <1>6, <1>7 DEF z

LEMMA RowsDeleted ==
  ASSUME NEW d, Owned(d), NEW S
  PROVE  LET z == E!DeleteUnreferencedEmote(d, S) IN
         /\ Owned(z) /\ Grows(d, z) /\ SameButRows(d, z)
         /\ \A e \in EmoteIds : e \notin S => z.emote[e] = d.emote[e]
<1> DEFINE f == [e \in EmoteIds |-> IF e \in S \cap E!Rows(d) /\ ~E!customEmoteReferenced(d, e)
                                      THEN [d.emote[e] EXCEPT !.state = "gone"] ELSE d.emote[e]]
           z == E!DeleteUnreferencedEmote(d, S)
<1>1. z = [d EXCEPT !.emote = f] BY EmoteNames DEF E!DeleteUnreferencedEmote
<1>2. f \in [EmoteIds -> EmoteRows] BY RowsTyped
<1>3. \A e \in EmoteIds : f[e].user = d.emote[e].user /\ (e \notin E!Rows(d) => f[e] = d.emote[e]) BY RowsTyped
<1>4. \A e \in EmoteIds : e \notin S => f[e] = d.emote[e] OBVIOUS
<1> HIDE DEF f, z
<1>5. Owned(z) /\ Grows(d, z) /\ SameButRows(d, z) /\ z.emote = f BY <1>1, <1>2, <1>3, RowsSet
<1> QED BY <1>4, <1>5 DEF z

LEMMA RowInserted ==
  ASSUME NEW d, Owned(d), d.next \in EmoteIds, NEW u \in {"owner", "fan"}, NEW p \in AnyPic, NEW l \in {0, 1}, NEW g \in Nat
  PROVE  LET z == E!InsertCustomEmote(d, d.next, u, p, l, g) IN
         /\ Owned(z) /\ Grows(d, z) /\ z.next = d.next + 1 /\ z.emote[d.next].user = u
         /\ z.exists = d.exists /\ z.items = d.items /\ z.library = d.library /\ z.rev = d.rev /\ z.sub = d.sub
         /\ \A e \in EmoteIds : e < d.next => z.emote[e] = d.emote[e]
<1> DEFINE x == [state |-> "live", user |-> u, pic |-> p, label |-> l, from |-> g]
           n == d.next
           z == E!InsertCustomEmote(d, d.next, u, p, l, g)
<1>0. d \in EmoteTables /\ n \in EmoteIds /\ n \in Nat /\ EmoteIds \subseteq Nat
  BY MediaAssumption DEF Owned, EmoteTables, EmoteIds
<1>1. x \in EmoteRows /\ x.user = u BY DEF EmoteRows
<1> DEFINE f == [d.emote EXCEPT ![n] = x]
           m == d.next + 1
<1>2. z = [d EXCEPT !.emote = f, !.next = m] BY DEF E!InsertCustomEmote
<1> HIDE DEF x, z
<1>3. d.emote \in [EmoteIds -> EmoteRows] BY <1>0 DEF EmoteTables
<1>4. /\ f \in [EmoteIds -> EmoteRows] /\ f[n] = x /\ \A e \in EmoteIds : e # n => f[e] = d.emote[e]
  BY <1>0, <1>1, <1>3
<1>5. m \in Nat /\ n < m BY <1>0
<1> HIDE DEF f, m, n
<1>6. /\ z \in EmoteTables /\ z.emote = f /\ z.next = m /\ z.exists = d.exists /\ z.items = d.items
      /\ z.library = d.library /\ z.rev = d.rev /\ z.sub = d.sub
  BY <1>0, <1>2, <1>4, <1>5 DEF EmoteTables
<1>7. \A e \in EmoteIds : e < n => f[e] = d.emote[e] BY <1>0, <1>4
<1>8. \A e \in EmoteIds : e >= m => e # n /\ e >= n BY <1>0, <1>5
<1>9. Unused(z.emote, z.next) BY <1>4, <1>6, <1>8 DEF Owned, Unused, n
<1>10. \A e \in EmoteIds : e < n => e < m BY <1>0, <1>5
<1>11. OwnersOnly(z.emote, z.next, z.items["src"]) /\ OwnersOnly(z.emote, z.next, z.items["alt"])
  BY <1>6, <1>7, <1>10 DEF Owned, OwnersOnly, n
<1>12. Owned(z) BY <1>6, <1>9, <1>11 DEF Owned
<1>13. d.next <= z.next BY <1>0, <1>5, <1>6 DEF n
<1>14. Grows(d, z) BY <1>6, <1>7, <1>13 DEF Grows, n
<1> QED BY <1>1, <1>4, <1>6, <1>7, <1>12, <1>14 DEF z, m, n
-----------------------------------------------------------------------------
LEMMA EmoteCardinality == ASSUME NEW Z PROVE E!Cardinality(Z) = Cardinality(Z)
BY DEF E!Cardinality, Cardinality, E!IsFiniteSet, IsFiniteSet

(* The numbers handed out to new rows are below the new next one.          *)
LEMMA RankBelow ==
  ASSUME NEW Z \in SUBSET EmoteIds
  PROVE  E!Cardinality(Z) \in Nat /\ \A s \in Z : E!Rank(Z, s) \in Nat /\ E!Rank(Z, s) < E!Cardinality(Z)
<1>1. IsFiniteSet(EmoteIds) BY FS_Interval, MediaAssumption DEF EmoteIds
<1>2. IsFiniteSet(Z) BY <1>1, FS_Subset
<1>3. Cardinality(Z) \in Nat BY <1>2, FS_CardinalityType
<1>4. ASSUME NEW s \in Z PROVE E!Rank(Z, s) \in Nat /\ E!Rank(Z, s) < Cardinality(Z)
  <2> DEFINE Y == {x \in Z : x < s}
  <2>1. E!Rank(Z, s) = Cardinality(Y) BY EmoteCardinality DEF E!Rank
  <2>2. s \in Nat BY <1>4 DEF EmoteIds
  <2>3. Y \in SUBSET Z /\ s \notin Y BY <2>2
  <2> HIDE DEF Y
  <2>4. IsFiniteSet(Y) /\ Cardinality(Y) <= Cardinality(Z) /\ (Cardinality(Z) = Cardinality(Y) => Z = Y)
    BY <1>2, <2>3, FS_Subset
  <2>5. Cardinality(Y) \in Nat BY <2>4, FS_CardinalityType
  <2> QED BY <1>3, <2>1, <2>3, <2>4, <2>5
<1> QED BY <1>3, <1>4, EmoteCardinality

LEMMA TablesTyped ==
  ASSUME NEW d, Owned(d)
  PROVE  /\ d \in EmoteTables /\ d.next \in Nat /\ d.rev \in Nat /\ EmoteIds \subseteq Nat
         /\ d.items \in [E!Colls -> SUBSET Nat] /\ d.library \in SUBSET Nat /\ d.exists \in SUBSET E!Colls
         /\ d.sub \in Subscriptions /\ d.emote \in [EmoteIds -> EmoteRows]
         /\ DOMAIN d.sub.map \in SUBSET Nat /\ d.sub.map \in [DOMAIN d.sub.map -> Nat]
<1>1. /\ d \in EmoteTables /\ d.next \in Nat /\ d.rev \in Nat /\ EmoteIds \subseteq Nat
      /\ d.items \in [E!Colls -> SUBSET Nat] /\ d.library \in SUBSET Nat /\ d.exists \in SUBSET E!Colls
      /\ d.sub \in Subscriptions /\ d.emote \in [EmoteIds -> EmoteRows]
  BY MediaAssumption DEF Owned, EmoteTables, EmoteIds
<1>2. d.sub.map \in SubMaps BY <1>1 DEF Subscriptions
<1>3. DOMAIN d.sub.map \in SUBSET Nat /\ d.sub.map \in [DOMAIN d.sub.map -> Nat] BY <1>2 DEF SubMaps
<1> QED BY <1>1, <1>3

LEMMA LiveIds == ASSUME NEW d PROVE E!Live(d) \subseteq EmoteIds /\ E!Rows(d) \subseteq EmoteIds
BY EmoteNames DEF E!Live, E!Rows

(* Where the items of the source go: rows in use that the owner did not    *)
(* see placed, and new ones.                                               *)
NewRows(d, seen) == E!sourceItems(d) \ E!ReusableTargets(d, seen, E!sourceItems(d))
LEMMA MappingFits ==
  ASSUME NEW d, Owned(d), NEW seen
  PROVE  LET srcs == E!sourceItems(d)
             map == E!Mapping(d, seen, srcs)
             m == d.next + E!Cardinality(NewRows(d, seen)) IN
         /\ srcs \in SUBSET EmoteIds /\ map \in [srcs -> Nat] /\ m \in Nat /\ d.next <= m
         /\ \A s \in srcs : /\ map[s] < m
                            /\ map[s] < d.next => map[s] \notin seen
<1> DEFINE srcs == E!sourceItems(d)
           keep == E!ReusableTargets(d, seen, srcs)
           new == NewRows(d, seen)
           map == E!Mapping(d, seen, srcs)
           m == d.next + E!Cardinality(new)
<1>1. srcs \in SUBSET EmoteIds BY LiveIds DEF E!sourceItems
<1>2. new = srcs \ keep /\ new \in SUBSET EmoteIds BY <1>1 DEF NewRows
<1>3. map = [s \in srcs |-> IF s \in keep THEN d.sub.map[s] ELSE d.next + E!Rank(new, s)]
  BY <1>2 DEF E!Mapping
<1>4. \A s \in keep : d.sub.map[s] \in E!Rows(d) /\ d.sub.map[s] \notin seen BY DEF E!ReusableTargets
<1>5. d.next \in Nat /\ EmoteIds \subseteq Nat BY TablesTyped
<1>6. E!Cardinality(new) \in Nat /\ \A s \in new : E!Rank(new, s) \in Nat /\ E!Rank(new, s) < E!Cardinality(new)
  BY <1>2, RankBelow
<1>7. m \in Nat /\ d.next <= m BY <1>5, <1>6
<1>8. ASSUME NEW s \in srcs PROVE map[s] \in Nat /\ map[s] < m /\ (map[s] < d.next => map[s] \notin seen)
  <2> HIDE DEF srcs, keep, new
  <2>1. CASE s \in keep
    <3>1. map[s] = d.sub.map[s] BY <1>3, <2>1
    <3>2. map[s] \in EmoteIds /\ map[s] < d.next BY <1>4, <2>1, <3>1, InUse
    <3>3. map[s] \in Nat /\ map[s] \notin seen BY <1>4, <1>5, <2>1, <3>1, <3>2
    <3> HIDE DEF map, m
    <3> QED BY <1>5, <1>7, <3>2, <3>3
  <2>2. CASE s \notin keep
    <3>1. map[s] = d.next + E!Rank(new, s) /\ s \in new BY <1>2, <1>3, <2>2
    <3> HIDE DEF map
    <3> QED BY <1>5, <1>6, <3>1
  <2> QED BY <2>1, <2>2
<1>9. map \in [srcs -> Nat]
  <2> HIDE DEF srcs, keep, new
  <2> QED BY <1>3, <1>8
<1> QED BY <1>1, <1>7, <1>8, <1>9

LEMMA TargetsTyped ==
  ASSUME NEW d, Owned(d), NEW seen
  PROVE  LET srcs == E!sourceItems(d)
             map == E!Mapping(d, seen, srcs)
             m == d.next + E!Cardinality(NewRows(d, seen))
             f == E!createSubscriptionTarget(d, map, srcs) IN
         /\ f \in [EmoteIds -> EmoteRows]
         /\ \A e \in EmoteIds : /\ e < d.next => f[e].user = d.emote[e].user
                                /\ e < d.next /\ e \in seen => f[e] = d.emote[e]
                                /\ e >= m => f[e] = d.emote[e]
<1> DEFINE srcs == E!sourceItems(d)
           map == E!Mapping(d, seen, srcs)
           m == d.next + E!Cardinality(NewRows(d, seen))
           f == E!createSubscriptionTarget(d, map, srcs)
<1>1. /\ srcs \in SUBSET EmoteIds /\ map \in [srcs -> Nat] /\ m \in Nat /\ d.next <= m
      /\ \A s \in srcs : map[s] < m /\ (map[s] < d.next => map[s] \notin seen)
  BY MappingFits
<1>2. d.next \in Nat /\ EmoteIds \subseteq Nat BY TablesTyped
<1> HIDE DEF map, m
<1> DEFINE who(e) == CHOOSE x \in srcs : map[x] = e
           old(e) == [d.emote[e] EXCEPT !.state = "live", !.label = d.emote[who(e)].label]
           new(e) == [state |-> "live", user |-> "fan", pic |-> d.emote[who(e)].pic,
                      label |-> d.emote[who(e)].label, from |-> who(e)]
<1>3. f = [e \in EmoteIds |-> IF \E s \in srcs : map[s] = e THEN IF e < d.next THEN old(e) ELSE new(e) ELSE d.emote[e]]
  BY EmoteNames DEF E!createSubscriptionTarget
<1>4. ASSUME NEW e \in EmoteIds, \E s \in srcs : map[s] = e PROVE who(e) \in srcs /\ map[who(e)] = e BY <1>4
<1> HIDE DEF who, srcs
<1>5. ASSUME NEW e \in EmoteIds, NEW s \in EmoteIds, NEW y, y = [d.emote[e] EXCEPT !.state = "live", !.label = d.emote[s].label]
      PROVE  y \in EmoteRows /\ y.user = d.emote[e].user
  <2> DEFINE a == d.emote[e]
             l == d.emote[s].label
  <2>1. a \in EmoteRows /\ l \in {0, 1}
    <3>1. d.emote[e] \in EmoteRows /\ d.emote[s] \in EmoteRows BY RowsTyped
    <3> QED BY <3>1 DEF EmoteRows
  <2> HIDE DEF a, l
  <2>2. y = [a EXCEPT !.state = "live", !.label = l] BY <1>5 DEF a, l
  <2>3. y \in EmoteRows /\ y.user = a.user BY <2>1, <2>2 DEF EmoteRows
  <2> QED BY <2>3 DEF a
<1>6. ASSUME NEW s \in EmoteIds, NEW y, y = [state |-> "live", user |-> "fan", pic |-> d.emote[s].pic,
                                              label |-> d.emote[s].label, from |-> s]
      PROVE  y \in EmoteRows
  <2>1. d.emote[s] \in EmoteRows /\ s \in Nat BY RowsTyped, <1>2
  <2> QED BY <1>6, <2>1 DEF EmoteRows
<1>7. ASSUME NEW e \in EmoteIds
      PROVE  /\ f[e] \in EmoteRows /\ (e < d.next => f[e].user = d.emote[e].user)
             /\ (e < d.next /\ e \in seen => f[e] = d.emote[e]) /\ (e >= m => f[e] = d.emote[e])
  <2>1. CASE ~\E s \in srcs : map[s] = e BY <1>3, <2>1, RowsTyped
  <2>2. CASE (\E s \in srcs : map[s] = e) /\ e < d.next
    <3>1. who(e) \in EmoteIds /\ map[who(e)] = e /\ who(e) \in srcs BY <1>1, <1>4, <2>2
    <3>2. f[e] = old(e) BY <1>3, <2>2
    <3>3. f[e] \in EmoteRows /\ f[e].user = d.emote[e].user BY <1>5, <3>1, <3>2
    <3>4. e \notin seen /\ ~(e >= m) BY <1>1, <1>2, <2>2, <3>1
    <3> QED BY <3>3, <3>4
  <2>3. CASE (\E s \in srcs : map[s] = e) /\ ~(e < d.next)
    <3>1. who(e) \in EmoteIds /\ map[who(e)] = e /\ who(e) \in srcs BY <1>1, <1>4, <2>3
    <3>2. f[e] = new(e) BY <1>3, <2>3
    <3>3. f[e] \in EmoteRows BY <1>6, <3>1, <3>2
    <3>4. e < m /\ e \in Nat BY <1>1, <1>2, <3>1
    <3> QED BY <1>1, <2>3, <3>3, <3>4
  <2> QED BY <2>1, <2>2, <2>3
<1>8. f \in [EmoteIds -> EmoteRows] BY <1>3, <1>7
<1> QED BY <1>7, <1>8 DEF m, map, srcs
-----------------------------------------------------------------------------
(* A synchronisation: rows keep their users, and what the owner's          *)
(* transaction saw placed is left alone.                                   *)
LEMMA Below == ASSUME NEW a \in Nat, NEW b \in Nat, a <= b PROVE \A e \in Nat : (e < a => e < b) /\ (e >= b => e >= a)
OBVIOUS

CopyTo(d, f, m, T, s) == [d EXCEPT !.emote = f, !.next = m, !.items["copy"] = T, !.sub = s]
LEMMA CopyReplaced ==
  ASSUME NEW d, Owned(d), NEW f \in [EmoteIds -> EmoteRows], NEW m \in Nat, d.next <= m, NEW T \in SUBSET Nat,
         NEW s \in Subscriptions,
         \A e \in EmoteIds : /\ e < d.next => f[e].user = d.emote[e].user
                             /\ e >= m => f[e] = d.emote[e]
  PROVE  LET z == CopyTo(d, f, m, T, s) IN
         /\ Owned(z) /\ Grows(d, z) /\ z.emote = f /\ z.library = d.library /\ z.items["own"] = d.items["own"] /\ z.sub = s
         /\ z.exists = d.exists /\ z.next = m /\ z.rev = d.rev
<1>0. d \in EmoteTables /\ d.next \in Nat /\ EmoteIds \subseteq Nat /\ d.items \in [E!Colls -> SUBSET Nat] BY TablesTyped
<1> DEFINE g == [d.items EXCEPT !["copy"] = T]
           z == CopyTo(d, f, m, T, s)
<1>1. z = [d EXCEPT !.emote = f, !.next = m, !.items = g, !.sub = s] BY DEF CopyTo
<1>2. /\ g \in [E!Colls -> SUBSET Nat] /\ g["src"] = d.items["src"] /\ g["alt"] = d.items["alt"]
      /\ g["own"] = d.items["own"]
  BY <1>0, EmoteNames
<1> HIDE DEF g, z
<1>3. /\ z \in EmoteTables /\ z.emote = f /\ z.next = m /\ z.items = g /\ z.sub = s /\ z.library = d.library
      /\ z.exists = d.exists /\ z.rev = d.rev
  BY <1>0, <1>1, <1>2 DEF EmoteTables
<1>4. \A e \in EmoteIds : (e < d.next => e < m) /\ (e >= m => e >= d.next) BY <1>0, Below
<1>5. Unused(z.emote, z.next) BY <1>3, <1>4 DEF Owned, Unused
<1>7. OwnersOnly(z.emote, z.next, z.items["src"]) /\ OwnersOnly(z.emote, z.next, z.items["alt"])
  BY <1>2, <1>3, <1>4 DEF Owned, OwnersOnly
<1>8. Grows(d, z) BY <1>3 DEF Grows
<1> QED BY <1>2, <1>3, <1>5, <1>7, <1>8 DEF Owned, z

LEMMA SyncKeeps ==
  ASSUME NEW d, Owned(d), NEW seen
  PROVE  LET z == E!SyncFromScratch(d, seen) IN
         /\ Owned(z) /\ Grows(d, z) /\ z.sub.status = "active" /\ z.library = d.library /\ z.items["own"] = d.items["own"]
         /\ \A e \in seen : e \in EmoteIds /\ e < d.next /\ d.emote[e].state = "live" => z.emote[e] = d.emote[e]
<1> DEFINE srcs == E!sourceItems(d)
           map == E!Mapping(d, seen, srcs)
           m == d.next + E!Cardinality(NewRows(d, seen))
           f == E!createSubscriptionTarget(d, map, srcs)
           s == [status |-> "active", rev |-> d.rev, map |-> map]
           T == E!Range(map)
           old == (E!Targets(d) \cup d.items["copy"]) \ T
           synced == CopyTo(d, f, m, T, s)
           retired == E!SetState(synced, old \ seen, "removed")
           sources == {x \in DOMAIN d.sub.map \ srcs : d.emote[x].state = "removed"}
           z == E!DeleteUnreferencedEmote(retired, (old \ seen) \cup sources)
<1>0. d.next \in Nat /\ EmoteIds \subseteq Nat /\ d.rev \in Nat BY TablesTyped
<1>1. srcs \in SUBSET EmoteIds /\ map \in [srcs -> Nat] /\ m \in Nat /\ d.next <= m BY MappingFits
<1>2. /\ f \in [EmoteIds -> EmoteRows]
      /\ \A e \in EmoteIds : /\ e < d.next => f[e].user = d.emote[e].user
                             /\ e < d.next /\ e \in seen => f[e] = d.emote[e]
                             /\ e >= m => f[e] = d.emote[e]
  BY TargetsTyped
<1>3. z = E!SyncFromScratch(d, seen) BY DEF E!SyncFromScratch, NewRows, CopyTo
<1> HIDE DEF srcs, map, m, f
<1>4. T \in SUBSET Nat BY <1>1 DEF E!Range
<1>5. s \in Subscriptions /\ s.status = "active"
  <2>1. map \in SubMaps BY <1>0, <1>1 DEF SubMaps
  <2> QED BY <1>0, <2>1 DEF Subscriptions
<1> HIDE DEF s, T
<1> HIDE DEF synced, retired, z
<1>7. /\ Owned(synced) /\ Grows(d, synced) /\ synced.emote = f /\ synced.library = d.library
      /\ synced.items["own"] = d.items["own"] /\ synced.sub = s /\ synced.next = m
  BY <1>1, <1>2, <1>4, <1>5, CopyReplaced DEF synced
<1>8. /\ Owned(retired) /\ Grows(synced, retired) /\ SameButRows(synced, retired)
      /\ \A e \in EmoteIds : e \notin old \ seen => retired.emote[e] = synced.emote[e]
  BY <1>7, StateSet DEF retired
<1>9. /\ Owned(z) /\ Grows(retired, z) /\ SameButRows(retired, z)
      /\ \A e \in EmoteIds : e \notin (old \ seen) \cup sources => z.emote[e] = retired.emote[e]
  BY <1>8, RowsDeleted DEF z
<1>10. Grows(d, z) BY <1>7, <1>8, <1>9, GrowsOn
<1>11. z.sub.status = "active" /\ z.library = d.library /\ z.items["own"] = d.items["own"]
  BY <1>5, <1>7, <1>8, <1>9 DEF SameButRows
<1>12. ASSUME NEW e \in seen, e \in EmoteIds, e < d.next, d.emote[e].state = "live" PROVE z.emote[e] = d.emote[e]
  <2>1. e \notin sources /\ e \notin old \ seen BY <1>12
  <2>2. synced.emote[e] = d.emote[e] BY <1>2, <1>7, <1>12
  <2> QED BY <1>8, <1>9, <1>12, <2>1, <2>2
<1> QED BY <1>3, <1>9, <1>10, <1>11, <1>12
-----------------------------------------------------------------------------
(* What a mutation by u makes of the tables: the fan's rows and placements *)
(* are as they were, or the subscription runs and what was seen is spared. *)
Fans(d) == {e \in EmoteIds : e < d.next /\ d.emote[e].user = "fan"}
Spared(d, z, e) == /\ z.emote[e] = d.emote[e] /\ (e \in z.library) = (e \in d.library)
                   /\ (e \in z.items["own"]) = (e \in d.items["own"])
FanSame(d, z) == z.items["copy"] = d.items["copy"] /\ \A e \in Fans(d) : Spared(d, z, e)
SeenSame(d, z, seen) == z.sub.status = "active" /\ \A e \in seen : d.emote[e].state = "live" => Spared(d, z, e)
Edit(u, d, z) == Owned(z) /\ Grows(d, z) /\ (u = "owner" => FanSame(d, z))
Carried(u, d, z, seen) == Owned(z) /\ Grows(d, z) /\ (u = "owner" => FanSame(d, z) \/ SeenSame(d, z, seen))

LEMMA FansStay == ASSUME NEW d, NEW z, Owned(d), Owned(z), Grows(d, z) PROVE Fans(d) \subseteq Fans(z)
<1>1. d.next \in Nat /\ z.next \in Nat /\ d.next <= z.next /\ EmoteIds \subseteq Nat BY TablesTyped DEF Grows
<1>2. \A e \in EmoteIds : e < d.next => e < z.next BY <1>1, Below
<1> QED BY <1>2 DEF Fans, Grows

LEMMA EditCarries == ASSUME NEW u, NEW d, NEW z, NEW seen, Edit(u, d, z) PROVE Carried(u, d, z, seen)
BY DEF Edit, Carried

LEMMA EditOn ==
  ASSUME NEW u, NEW d, NEW y, NEW z, Owned(d), Edit(u, d, y), Edit(u, y, z) PROVE Edit(u, d, z)
<1>1. Owned(y) /\ Owned(z) /\ Grows(d, y) /\ Grows(y, z) BY DEF Edit
<1>2. Grows(d, z) /\ Fans(d) \subseteq Fans(y) BY <1>1, GrowsOn, FansStay
<1>3. u = "owner" => FanSame(d, z) BY <1>2 DEF Edit, FanSame, Spared
<1> QED BY <1>1, <1>2, <1>3 DEF Edit

LEMMA CarriedOn ==
  ASSUME NEW u, NEW d, NEW y, NEW z, Owned(d), NEW seen \in SUBSET Fans(d), Edit(u, d, y), Carried(u, y, z, seen)
  PROVE  Carried(u, d, z, seen)
<1>1. Owned(y) /\ Owned(z) /\ Grows(d, y) /\ Grows(y, z) BY DEF Edit, Carried
<1>2. Grows(d, z) /\ Fans(d) \subseteq Fans(y) BY <1>1, GrowsOn, FansStay
<1>3. ASSUME u = "owner", FanSame(y, z) PROVE FanSame(d, z) BY <1>2, <1>3 DEF Edit, FanSame, Spared
<1>4. ASSUME u = "owner", SeenSame(y, z, seen) PROVE SeenSame(d, z, seen)
  BY <1>4 DEF Edit, FanSame, SeenSame, Spared
<1> QED BY <1>1, <1>2, <1>3, <1>4 DEF Carried

(* Deletions of rows that are not the fan's come after.                    *)
LEMMA CarriedEnds ==
  ASSUME NEW u, NEW d, NEW y, NEW z, Owned(d), NEW seen \in SUBSET Fans(d), Carried(u, d, y, seen),
         Owned(z), Grows(y, z), SameButRows(y, z), u = "owner" => \A e \in Fans(d) : z.emote[e] = y.emote[e]
  PROVE  Carried(u, d, z, seen)
<1>1. Owned(y) /\ Grows(d, y) BY DEF Carried
<1>2. Grows(d, z) BY <1>1, GrowsOn
<1>3. ASSUME u = "owner", FanSame(d, y) PROVE FanSame(d, z) BY <1>3 DEF FanSame, Spared, SameButRows
<1>4. ASSUME u = "owner", SeenSame(d, y, seen) PROVE SeenSame(d, z, seen) BY <1>4 DEF SeenSame, Spared, SameButRows
<1> QED BY <1>2, <1>3, <1>4 DEF Carried

LEMMA OfUser ==
  ASSUME NEW d, Owned(d), NEW u, NEW e \in E!Of(d, u)
  PROVE  e \in EmoteIds /\ e < d.next /\ d.emote[e].user = u /\ e \in Nat /\ (u = "owner" => e \notin Fans(d))
<1>1. e \in E!Rows(d) /\ d.emote[e].user = u BY DEF E!Of
<1>2. e \in EmoteIds /\ e < d.next /\ e \in Nat BY <1>1, InUse, TablesTyped
<1> QED BY <1>1, <1>2 DEF Fans

LEMMA RowsEdit ==
  ASSUME NEW u, NEW d, NEW z, NEW Z, Owned(z), Grows(d, z), SameButRows(d, z),
         \A e \in EmoteIds : e \notin Z => z.emote[e] = d.emote[e], u = "owner" => \A e \in Z : e \notin Fans(d)
  PROVE  Edit(u, d, z)
<1>1. u = "owner" => FanSame(d, z) BY DEF FanSame, Spared, Fans, SameButRows
<1> QED BY <1>1 DEF Edit

LEMMA Placement ==
  ASSUME NEW u, NEW d, Owned(d), NEW z \in EmoteTables, z.emote = d.emote, z.next = d.next,
         OwnersOnly(d.emote, d.next, z.items["src"]), OwnersOnly(d.emote, d.next, z.items["alt"]),
         u = "owner" => /\ z.items["copy"] = d.items["copy"] /\ z.items["own"] = d.items["own"]
                        /\ \A e \in Fans(d) : (e \in z.library) = (e \in d.library)
  PROVE  Edit(u, d, z)
<1>1. Owned(z) BY DEF Owned
<1>2. Grows(d, z) BY TablesTyped DEF Grows
<1>3. u = "owner" => FanSame(d, z) BY DEF FanSame, Spared
<1> QED BY <1>1, <1>2, <1>3 DEF Edit

Bumped(d) == [d EXCEPT !.rev = @ + 1]
LEMMA BumpEdits == ASSUME NEW u, NEW d, Owned(d) PROVE Edit(u, d, Bumped(d))
<1> DEFINE z == Bumped(d)
           r == d.rev + 1
<1>1. d \in EmoteTables /\ r \in Nat BY TablesTyped
<1>2. z = [d EXCEPT !.rev = r] BY DEF Bumped
<1> HIDE DEF z, r
<1>3. z \in EmoteTables /\ z.emote = d.emote /\ z.next = d.next /\ z.items = d.items /\ z.library = d.library
  BY <1>1, <1>2 DEF EmoteTables
<1>4. Edit(u, d, z) BY <1>3, Placement DEF Owned
<1> QED BY <1>4 DEF z

(* The synchronisation that follows a change of the source.                *)
LEMMA TouchedKeeps ==
  ASSUME NEW u, NEW d, Owned(d), NEW seen \in SUBSET Fans(d), NEW c
  PROVE  Carried(u, d, E!Touched(d, c, seen), seen)
<1> DEFINE y == Bumped(d)
           z == E!SyncFromScratch(y, seen)
<1>1. Edit(u, d, y) BY BumpEdits
<1>2. E!Touched(d, c, seen) \in {d, y, z} BY DEF E!Touched, E!syncSubscriptionRecord, Bumped
<1> HIDE DEF y, z
<1>3. Owned(y) /\ Fans(d) \subseteq Fans(y) BY <1>1, FansStay DEF Edit
<1>4. /\ Owned(z) /\ Grows(y, z) /\ z.sub.status = "active" /\ z.library = y.library /\ z.items["own"] = y.items["own"]
      /\ \A e \in seen : e \in EmoteIds /\ e < y.next /\ y.emote[e].state = "live" => z.emote[e] = y.emote[e]
  BY <1>3, SyncKeeps DEF z
<1>5. SeenSame(y, z, seen) BY <1>3, <1>4 DEF SeenSame, Spared, Fans
<1>6. Carried(u, y, z, seen) BY <1>4, <1>5 DEF Carried
<1>7. Carried(u, d, z, seen) BY <1>1, <1>6, CarriedOn
<1>8. Carried(u, d, y, seen) BY <1>1, EditCarries
<1>9. Carried(u, d, d, seen)
  <2>1. Grows(d, d) BY TablesTyped DEF Grows
  <2> QED BY <2>1 DEF Carried, FanSame, Spared
<1> QED BY <1>2, <1>7, <1>8, <1>9
-----------------------------------------------------------------------------
ItemsTo(d, c, Z) == [d EXCEPT !.items[c] = Z]
LEMMA ItemsEdited ==
  ASSUME NEW u \in {"owner", "fan"}, NEW d, Owned(d), NEW c \in E!Colls, E!OwnerOf(c) = u, NEW Z \in SUBSET Nat,
         u = "owner" => OwnersOnly(d.emote, d.next, Z)
  PROVE  Edit(u, d, ItemsTo(d, c, Z))
<1> DEFINE z == ItemsTo(d, c, Z)
           g == [d.items EXCEPT ![c] = Z]
<1>1. d \in EmoteTables /\ d.items \in [E!Colls -> SUBSET Nat] BY TablesTyped
<1>2. g \in [E!Colls -> SUBSET Nat] /\ g[c] = Z /\ \A x \in E!Colls : x # c => g[x] = d.items[x] BY <1>1
<1>3. z = [d EXCEPT !.items = g] BY DEF ItemsTo
<1> HIDE DEF z, g
<1>4. z \in EmoteTables /\ z.emote = d.emote /\ z.next = d.next /\ z.items = g /\ z.library = d.library
  BY <1>1, <1>2, <1>3 DEF EmoteTables
<1>5. (u = "owner" => c \in {"src", "alt"}) /\ (u = "fan" => c \in {"copy", "own"}) BY EmoteNames DEF E!OwnerOf
<1>6. OwnersOnly(d.emote, d.next, z.items["src"]) /\ OwnersOnly(d.emote, d.next, z.items["alt"])
  BY <1>2, <1>4, <1>5, EmoteNames DEF Owned
<1>7. u = "owner" => z.items["copy"] = d.items["copy"] /\ z.items["own"] = d.items["own"] BY <1>2, <1>4, <1>5, EmoteNames
<1>8. Edit(u, d, z) BY <1>4, <1>6, <1>7, Placement
<1> QED BY <1>8 DEF z

LibraryTo(d, Z) == [d EXCEPT !.library = Z]
LEMMA LibraryEdited ==
  ASSUME NEW u, NEW d, Owned(d), NEW Z \in SUBSET Nat, u = "owner" => \A e \in Fans(d) : (e \in Z) = (e \in d.library)
  PROVE  Edit(u, d, LibraryTo(d, Z))
<1> DEFINE z == LibraryTo(d, Z)
<1>1. d \in EmoteTables BY TablesTyped
<1>2. z \in EmoteTables /\ z.emote = d.emote /\ z.next = d.next /\ z.items = d.items /\ z.library = Z
  BY <1>1 DEF EmoteTables, LibraryTo
<1> HIDE DEF z
<1>3. Edit(u, d, z) BY <1>2, Placement DEF Owned
<1> QED BY <1>3 DEF z

ExistsTo(d, Z) == [d EXCEPT !.exists = Z]
LEMMA ExistsEdited == ASSUME NEW u, NEW d, Owned(d), NEW Z \in SUBSET E!Colls PROVE Edit(u, d, ExistsTo(d, Z))
<1> DEFINE z == ExistsTo(d, Z)
<1>1. d \in EmoteTables BY TablesTyped
<1>2. z \in EmoteTables /\ z.emote = d.emote /\ z.next = d.next /\ z.items = d.items /\ z.library = d.library
  BY <1>1 DEF EmoteTables, ExistsTo
<1> HIDE DEF z
<1>3. Edit(u, d, z) BY <1>2, Placement DEF Owned
<1> QED BY <1>3 DEF z

SubTo(d, s) == [d EXCEPT !.sub = s]
LEMMA SubEdited == ASSUME NEW u, NEW d, Owned(d), NEW s \in Subscriptions PROVE Edit(u, d, SubTo(d, s))
<1> DEFINE z == SubTo(d, s)
<1>1. d \in EmoteTables BY TablesTyped
<1>2. z \in EmoteTables /\ z.emote = d.emote /\ z.next = d.next /\ z.items = d.items /\ z.library = d.library
  BY <1>1 DEF EmoteTables, SubTo
<1> HIDE DEF z
<1>3. Edit(u, d, z) BY <1>2, Placement DEF Owned
<1> QED BY <1>3 DEF z

LEMMA NoSubTyped ==
  /\ E!NoSub \in Subscriptions /\ [E!NoSub EXCEPT !.status = "active"] \in Subscriptions
  /\ \A s \in Subscriptions : \A x \in {"active", "off", "detached"} : [s EXCEPT !.status = x] \in Subscriptions
<1>1. <<>> \in [{} -> Nat] /\ {} \in SUBSET Nat OBVIOUS
<1>2. <<>> \in SubMaps BY <1>1 DEF SubMaps
<1>3. E!NoSub \in Subscriptions BY <1>2 DEF Subscriptions, E!NoSub
<1>4. \A s \in Subscriptions : \A x \in {"active", "off", "detached"} : [s EXCEPT !.status = x] \in Subscriptions
  BY DEF Subscriptions
<1> QED BY <1>3, <1>4

(* The picture or the message's reference is placed, and followed.         *)
LEMMA PlacementKeeps ==
  ASSUME NEW u \in {"owner", "fan"}, NEW d, Owned(d), tx.seen \in SUBSET Fans(d), NEW e \in EmoteIds, e < d.next,
         d.emote[e].user = u, NEW c \in E!Colls \cup {"none"}, c # "none" => E!OwnerOf(c) = u
  PROVE  Carried(u, d, E!ensurePlacement(d, u, e, c), tx.seen)
<1>1. e \in Nat /\ d.items \in [E!Colls -> SUBSET Nat] /\ d.library \in SUBSET Nat /\ d.next \in Nat BY TablesTyped
<1>2. u = "owner" => e \notin Fans(d) BY DEF Fans
<1>3. CASE c = "none"
  <2>1. E!ensurePlacement(d, u, e, c) = LibraryTo(d, d.library \cup {e}) BY <1>3 DEF E!ensurePlacement, LibraryTo
  <2>2. Edit(u, d, LibraryTo(d, d.library \cup {e})) BY <1>1, <1>2, LibraryEdited
  <2> QED BY <2>1, <2>2, EditCarries
<1>4. CASE c # "none" /\ e \in d.items[c]
  <2>1. E!ensurePlacement(d, u, e, c) = d BY <1>4 DEF E!ensurePlacement
  <2>2. Grows(d, d) BY <1>1 DEF Grows
  <2> QED BY <2>1, <2>2 DEF Carried, FanSame, Spared
<1>5. CASE c # "none" /\ e \notin d.items[c]
  <2> DEFINE Z == d.items[c] \cup {e}
             y == ItemsTo(d, c, Z)
  <2>1. E!ensurePlacement(d, u, e, c) = E!Touched(y, c, tx.seen) BY <1>5 DEF E!ensurePlacement, ItemsTo
  <2>2. c \in E!Colls /\ Z \in SUBSET Nat BY <1>1, <1>5
  <2>3. u = "owner" => OwnersOnly(d.emote, d.next, Z) BY <1>5, EmoteNames DEF Owned, OwnersOnly, E!OwnerOf
  <2> HIDE DEF y, Z
  <2>4. Edit(u, d, y) BY <1>5, <2>2, <2>3, ItemsEdited DEF y
  <2>5. Owned(y) /\ tx.seen \in SUBSET Fans(y) BY <2>4, FansStay DEF Edit
  <2>6. Carried(u, y, E!Touched(y, c, tx.seen), tx.seen) BY <2>5, TouchedKeeps
  <2> QED BY <2>1, <2>4, <2>6, CarriedOn
<1> QED BY <1>3, <1>4, <1>5
-----------------------------------------------------------------------------
(* The rows are their users', and the owner's transaction saw only rows of *)
(* the fan.                                                                *)
EmotesInv == Owned(db) /\ tx.seen \in SUBSET Fans(db)
OwnerSpares == tx.on /\ ~tx'.on => FanSame(db, db') \/ SeenSame(db, db', tx.seen)

LEMMA Committed ==
  ASSUME EmotesInv, NEW u, NEW d, Carried(u, db, d, tx.seen), E!Commit(u, d) PROVE EmotesInv' /\ OwnerSpares
<1> DEFINE z == E!Edited(d)
           n == d.edits + 1
<1>1. db' = z /\ tx' \in {tx, E!Idle} /\ (u # "owner" => tx' = tx) BY DEF E!Commit
<1>2. Owned(d) /\ Owned(db) /\ Grows(db, d) BY DEF Carried, EmotesInv
<1>3. d \in EmoteTables /\ n \in Nat BY <1>2, TablesTyped DEF EmoteTables
<1>4. z = [d EXCEPT !.edits = n] BY DEF E!Edited
<1> HIDE DEF z, n
<1>5. z \in EmoteTables /\ z.emote = d.emote /\ z.next = d.next /\ z.items = d.items /\ z.library = d.library
      /\ z.exists = d.exists /\ z.rev = d.rev /\ z.sub = d.sub
  BY <1>3, <1>4 DEF EmoteTables
<1>6. Owned(z) /\ Grows(d, z) BY <1>2, <1>5, Placement DEF Owned, Edit
<1>7. SameButRows(d, z) BY <1>5 DEF SameButRows
<1>8. Carried(u, db, z, tx.seen) BY <1>2, <1>5, <1>6, <1>7, CarriedEnds DEF EmotesInv
<1>9. Owned(z) /\ Fans(db) \subseteq Fans(z) BY <1>2, <1>8, FansStay DEF Carried
<1>11. tx'.seen \in SUBSET Fans(z) BY <1>1, <1>9 DEF EmotesInv, E!Idle
<1>12. EmotesInv' BY <1>1, <1>9, <1>11 DEF EmotesInv
<1>13. OwnerSpares BY <1>1, <1>8 DEF OwnerSpares, Carried
<1> QED BY <1>12, <1>13

LEMMA FoundMine ==
  ASSUME NEW d, Owned(d), NEW u, NEW p, NEW e, e \in E!FindReusableLocalEmote(d, u, p) \/ e \in E!FindCustomEmoteByDigest(d, u, p)
  PROVE  e \in E!Of(d, u)
BY DEF E!FindReusableLocalEmote, E!FindCustomEmoteByDigest, E!Duplicates

LEMMA FreshKeeps ==
  ASSUME EmotesInv, NEW u \in {"owner", "fan"}, db.next \in EmoteIds, NEW p \in AnyPic, NEW l \in {0, 1}, NEW g \in Nat,
         NEW c \in E!Colls \cup {"none"}, c # "none" => E!OwnerOf(c) = u
  PROVE  Carried(u, db, E!ensurePlacement(E!InsertCustomEmote(db, db.next, u, p, l, g), u, db.next, c), tx.seen)
<1> DEFINE y == E!InsertCustomEmote(db, db.next, u, p, l, g)
<1>1. Owned(db) /\ db.next \in Nat /\ EmoteIds \subseteq Nat BY TablesTyped DEF EmotesInv
<1>2. /\ Owned(y) /\ Grows(db, y) /\ y.next = db.next + 1 /\ y.emote[db.next].user = u
      /\ y.items = db.items /\ y.library = db.library /\ \A e \in EmoteIds : e < db.next => y.emote[e] = db.emote[e]
  BY <1>1, RowInserted
<1> HIDE DEF y
<1>3. Edit(u, db, y) BY <1>2 DEF Edit, FanSame, Spared, Fans
<1>4. tx.seen \in SUBSET Fans(y) BY <1>1, <1>2, FansStay DEF EmotesInv
<1>5. db.next < y.next BY <1>1, <1>2
<1>6. Carried(u, y, E!ensurePlacement(y, u, db.next, c), tx.seen) BY <1>2, <1>4, <1>5, PlacementKeeps
<1>7. Carried(u, db, E!ensurePlacement(y, u, db.next, c), tx.seen) BY <1>1, <1>3, <1>6, CarriedOn DEF EmotesInv
<1> QED BY <1>7 DEF y

LEMMA RevivedKeeps ==
  ASSUME EmotesInv, NEW u \in {"owner", "fan"}, NEW e \in E!Of(db, u),
         NEW c \in E!Colls \cup {"none"}, c # "none" => E!OwnerOf(c) = u
  PROVE  Carried(u, db, E!ensurePlacement(E!SetState(db, {e}, "live"), u, e, c), tx.seen)
<1> DEFINE y == E!SetState(db, {e}, "live")
<1>1. Owned(db) BY DEF EmotesInv
<1>2. e \in EmoteIds /\ e < db.next /\ db.emote[e].user = u /\ (u = "owner" => e \notin Fans(db)) BY <1>1, OfUser
<1>3. /\ Owned(y) /\ Grows(db, y) /\ SameButRows(db, y)
      /\ \A x \in EmoteIds : x \notin {e} => y.emote[x] = db.emote[x]
  BY <1>1, StateSet
<1> HIDE DEF y
<1>4. Edit(u, db, y) BY <1>2, <1>3, RowsEdit
<1>5. tx.seen \in SUBSET Fans(y) BY <1>1, <1>3, FansStay DEF EmotesInv
<1>6. e < y.next /\ y.emote[e].user = u BY <1>2, <1>3 DEF Grows, SameButRows
<1>7. Carried(u, y, E!ensurePlacement(y, u, e, c), tx.seen) BY <1>2, <1>3, <1>5, <1>6, PlacementKeeps
<1>8. Carried(u, db, E!ensurePlacement(y, u, e, c), tx.seen) BY <1>1, <1>4, <1>7, CarriedOn DEF EmotesInv
<1> QED BY <1>8 DEF y

LEMMA UploadStep ==
  ASSUME EmotesInv, NEW u \in {"owner", "fan"}, NEW p \in Pics, NEW c \in {"src", "alt", "none"}, u = "fan" => c = "none",
         E!StoreProcessed(u, p, c)
  PROVE  EmotesInv' /\ OwnerSpares
<1>1. c \in E!Colls \cup {"none"} /\ (c # "none" => E!OwnerOf(c) = u) BY EmoteNames DEF E!OwnerOf
<1>2. Owned(db) /\ p \in AnyPic BY DEF EmotesInv, AnyPic
<1>3. \/ \E e \in E!FindReusableLocalEmote(db, u, p) : E!Commit(u, E!ensurePlacement(E!SetState(db, {e}, "live"), u, e, c))
      \/ /\ db.next \in E!Ids
         /\ E!Commit(u, E!ensurePlacement(E!InsertCustomEmote(db, db.next, u, p, 0, 0), u, db.next, c))
  BY DEF E!StoreProcessed
<1>4. CASE \E e \in E!FindReusableLocalEmote(db, u, p) : E!Commit(u, E!ensurePlacement(E!SetState(db, {e}, "live"), u, e, c))
  <2> PICK e \in E!FindReusableLocalEmote(db, u, p) : E!Commit(u, E!ensurePlacement(E!SetState(db, {e}, "live"), u, e, c))
    BY <1>4
  <2>1. e \in E!Of(db, u) BY <1>2, FoundMine
  <2> QED BY <1>1, <2>1, RevivedKeeps, Committed
<1>5. CASE /\ db.next \in E!Ids
           /\ E!Commit(u, E!ensurePlacement(E!InsertCustomEmote(db, db.next, u, p, 0, 0), u, db.next, c))
  <2>1. Carried(u, db, E!ensurePlacement(E!InsertCustomEmote(db, db.next, u, p, 0, 0), u, db.next, c), tx.seen)
    BY <1>1, <1>2, <1>5, EmoteNames, FreshKeeps
  <2> QED BY <1>5, <2>1, Committed
<1> QED BY <1>3, <1>4, <1>5

LEMMA FavoriteStep ==
  ASSUME EmotesInv, NEW e \in EmoteIds, E!FavoriteFromMessage(e) PROVE EmotesInv' /\ OwnerSpares
<1> DEFINE p == db.emote[e].pic
           l == db.emote[e].label
<1>1. Owned(db) /\ "none" \in E!Colls \cup {"none"} /\ e \in Nat BY TablesTyped DEF EmotesInv
<1>2. db.emote[e] \in EmoteRows BY <1>1, RowsTyped
<1>3. p \in AnyPic /\ l \in {0, 1} BY <1>2 DEF EmoteRows
<1>4. \/ \E x \in E!FindReusableLocalEmote(db, "fan", p) :
           E!Commit("fan", E!ensurePlacement(E!SetState(db, {x}, "live"), "fan", x, "none"))
      \/ /\ db.next \in E!Ids
         /\ E!Commit("fan", E!ensurePlacement(E!InsertCustomEmote(db, db.next, "fan", p, l, e), "fan", db.next, "none"))
  BY DEF E!FavoriteFromMessage
<1> HIDE DEF p, l
<1>5. ASSUME NEW x \in E!FindReusableLocalEmote(db, "fan", p),
             E!Commit("fan", E!ensurePlacement(E!SetState(db, {x}, "live"), "fan", x, "none"))
      PROVE  EmotesInv' /\ OwnerSpares
  <2>1. x \in E!Of(db, "fan") BY <1>1, <1>5, FoundMine
  <2>2. Carried("fan", db, E!ensurePlacement(E!SetState(db, {x}, "live"), "fan", x, "none"), tx.seen)
    BY <1>1, <2>1, RevivedKeeps
  <2> QED BY <1>5, <2>2, Committed
<1>6. CASE /\ db.next \in E!Ids
           /\ E!Commit("fan", E!ensurePlacement(E!InsertCustomEmote(db, db.next, "fan", p, l, e), "fan", db.next, "none"))
  <2>1. Carried("fan", db, E!ensurePlacement(E!InsertCustomEmote(db, db.next, "fan", p, l, e), "fan", db.next, "none"), tx.seen)
    BY <1>1, <1>3, <1>6, EmoteNames, FreshKeeps
  <2> QED BY <1>6, <2>1, Committed
<1> QED BY <1>4, <1>5, <1>6
-----------------------------------------------------------------------------
LEMMA CreateStep ==
  ASSUME EmotesInv, NEW u \in {"owner", "fan"}, NEW c \in E!Colls, NEW Z, E!CreateCollection(u, c, Z)
  PROVE  EmotesInv' /\ OwnerSpares
<1> DEFINE y == ExistsTo(db, db.exists \cup {c})
           z == ItemsTo(y, c, Z)
<1>1. Owned(db) /\ db \in EmoteTables /\ db.exists \in SUBSET E!Colls BY TablesTyped DEF EmotesInv
<1>2. E!OwnerOf(c) = u /\ Z \subseteq E!Of(db, u) /\ E!Commit(u, [db EXCEPT !.exists = @ \cup {c}, !.items[c] = Z])
  BY DEF E!CreateCollection
<1>3. z = [db EXCEPT !.exists = @ \cup {c}, !.items[c] = Z] BY <1>1 DEF ItemsTo, ExistsTo, EmoteTables
<1>4. Edit(u, db, y) BY <1>1, ExistsEdited
<1>5. y.emote = db.emote /\ y.next = db.next BY <1>1 DEF ExistsTo, EmoteTables
<1> HIDE DEF y, z
<1>6. Z \in SUBSET Nat /\ (u = "owner" => OwnersOnly(y.emote, y.next, Z)) BY <1>1, <1>2, <1>5, OfUser DEF OwnersOnly
<1>7. Edit(u, y, z) BY <1>2, <1>4, <1>6, ItemsEdited DEF Edit, z
<1>8. Carried(u, db, z, tx.seen) BY <1>1, <1>4, <1>7, EditOn, EditCarries
<1>9. E!Commit(u, z) BY <1>2, <1>3
<1> QED BY <1>8, <1>9, Committed

LEMMA TouchedAfter ==
  ASSUME EmotesInv, NEW u, NEW y, Edit(u, db, y), NEW c PROVE Carried(u, db, E!Touched(y, c, tx.seen), tx.seen)
<1>1. Owned(db) /\ Owned(y) /\ tx.seen \in SUBSET Fans(db) /\ tx.seen \in SUBSET Fans(y)
  BY FansStay DEF EmotesInv, Edit
<1>2. Carried(u, y, E!Touched(y, c, tx.seen), tx.seen) BY <1>1, TouchedKeeps
<1> QED BY <1>1, <1>2, CarriedOn

LEMMA SameEdits == ASSUME NEW u, NEW d, Owned(d) PROVE Edit(u, d, d)
<1>1. Grows(d, d) BY TablesTyped DEF Grows
<1> QED BY <1>1 DEF Edit, FanSame, Spared

(* Items added and removed, a new order, a new name.                       *)
LEMMA CollectionStep ==
  ASSUME EmotesInv, NEW u \in {"owner", "fan"}, NEW c \in E!Colls, NEW e \in EmoteIds,
         \/ E!AddCollectionItems(u, c, e) \/ E!RemoveCollectionItem(u, c, e)
         \/ E!ReorderCollection(u, c) \/ E!UpdateCollection(u, c)
  PROVE  EmotesInv' /\ OwnerSpares
<1>1. Owned(db) /\ db.items \in [E!Colls -> SUBSET Nat] BY TablesTyped DEF EmotesInv
<1>2. E!OwnerOf(c) = u
  BY DEF E!AddCollectionItems, E!RemoveCollectionItem, E!ReorderCollection, E!UpdateCollection, E!Mutable
<1>3. u = "owner" => OwnersOnly(db.emote, db.next, db.items[c]) BY <1>1, <1>2, EmoteNames DEF Owned, E!OwnerOf
<1>4. CASE E!AddCollectionItems(u, c, e)
  <2> DEFINE Z == db.items[c] \cup {e}
  <2>1. e \in E!Of(db, u) /\ E!Commit(u, E!Touched(ItemsTo(db, c, Z), c, tx.seen))
    BY <1>4 DEF E!AddCollectionItems, ItemsTo
  <2>2. Z \in SUBSET Nat /\ (u = "owner" => OwnersOnly(db.emote, db.next, Z)) BY <1>1, <1>3, <2>1, OfUser DEF OwnersOnly
  <2> HIDE DEF Z
  <2>3. Edit(u, db, ItemsTo(db, c, Z)) BY <1>1, <1>2, <2>2, ItemsEdited
  <2> QED BY <2>1, <2>3, TouchedAfter, Committed
<1>5. CASE E!RemoveCollectionItem(u, c, e)
  <2> DEFINE Z == db.items[c] \ {e}
  <2>1. E!Commit(u, E!Touched(ItemsTo(db, c, Z), c, tx.seen)) BY <1>5 DEF E!RemoveCollectionItem, ItemsTo
  <2>2. Z \in SUBSET Nat /\ (u = "owner" => OwnersOnly(db.emote, db.next, Z)) BY <1>1, <1>3 DEF OwnersOnly
  <2> HIDE DEF Z
  <2>3. Edit(u, db, ItemsTo(db, c, Z)) BY <1>1, <1>2, <2>2, ItemsEdited
  <2> QED BY <2>1, <2>3, TouchedAfter, Committed
<1>6. CASE E!ReorderCollection(u, c) \/ E!UpdateCollection(u, c)
  <2>1. E!Commit(u, E!Touched(db, c, tx.seen)) BY <1>6 DEF E!ReorderCollection, E!UpdateCollection
  <2> QED BY <1>1, <2>1, SameEdits, TouchedAfter, Committed
<1> QED BY <1>4, <1>5, <1>6

LEMMA TouchedForAfter ==
  ASSUME EmotesInv, NEW u, NEW y, Edit(u, db, y), NEW e PROVE Carried(u, db, E!TouchedFor(db, y, e), tx.seen)
<1>1. E!TouchedFor(db, y, e) \in {y, E!Touched(y, "src", tx.seen)} BY DEF E!TouchedFor
<1> QED BY <1>1, TouchedAfter, EditCarries

LEMMA UpdateStep ==
  ASSUME EmotesInv, NEW u \in {"owner", "fan"}, NEW e \in EmoteIds, E!Update(u, e) PROVE EmotesInv' /\ OwnerSpares
<1> DEFINE x == db.emote[e]
           w == [x EXCEPT !.label = 1 - x.label]
           f == [db.emote EXCEPT ![e] = w]
           y == [db EXCEPT !.emote = f]
<1>1. Owned(db) /\ db \in EmoteTables /\ db.emote \in [EmoteIds -> EmoteRows] BY TablesTyped DEF EmotesInv
<1>2. e \in E!Of(db, u) BY DEF E!Update
<1>3. e \in EmoteIds /\ e < db.next /\ x.user = u /\ e \in Nat /\ (u = "owner" => e \notin Fans(db)) BY <1>1, <1>2, OfUser
<1>4. E!Commit(u, E!TouchedFor(db, y, e)) BY DEF E!Update
<1>5. x \in EmoteRows BY <1>1
<1> HIDE DEF x
<1>6. w \in EmoteRows /\ w.user = x.user
  <2>1. x.label \in {0, 1} BY <1>5 DEF EmoteRows
  <2>2. 1 - x.label \in {0, 1} BY <2>1
  <2> QED BY <1>5, <2>2 DEF EmoteRows
<1> HIDE DEF w
<1>7. /\ f \in [EmoteIds -> EmoteRows] /\ f[e] = w /\ \A i \in EmoteIds : i # e => f[i] = db.emote[i] BY <1>1, <1>3, <1>6
<1>8. e \in E!Rows(db) BY <1>2 DEF E!Of
<1>9. \A i \in EmoteIds : f[i].user = db.emote[i].user /\ (i \notin E!Rows(db) => f[i] = db.emote[i])
  BY <1>6, <1>7, <1>8 DEF x
<1> HIDE DEF f
<1>10. y = [db EXCEPT !.emote = f] OBVIOUS
<1> HIDE DEF y
<1>11. Owned(y) /\ Grows(db, y) /\ SameButRows(db, y) /\ y.emote = f BY <1>1, <1>7, <1>9, <1>10, RowsSet
<1>12. \A i \in EmoteIds : i \notin {e} => y.emote[i] = db.emote[i] BY <1>7, <1>11
<1>13. Edit(u, db, y) BY <1>3, <1>11, <1>12, RowsEdit
<1> QED BY <1>4, <1>13, TouchedForAfter, Committed

LEMMA RemoveStep ==
  ASSUME EmotesInv, NEW u \in {"owner", "fan"}, NEW e \in EmoteIds, E!Remove(u, e) PROVE EmotesInv' /\ OwnerSpares
<1> DEFINE g == [c \in E!Colls |-> IF E!OwnerOf(c) = u THEN db.items[c] \ {e} ELSE db.items[c]]
           l == db.library \ {e}
           y == [db EXCEPT !.library = l, !.items = g]
           x == E!SetState(y, {e}, "removed")
           w == E!WithoutEmote(u, e)
           z == E!DeleteUnreferencedEmote(w, {e})
<1>1. /\ Owned(db) /\ db \in EmoteTables /\ db.items \in [E!Colls -> SUBSET Nat] /\ db.library \in SUBSET Nat
      /\ tx.seen \in SUBSET Fans(db)
  BY TablesTyped DEF EmotesInv
<1>2. e \in E!Of(db, u) /\ E!Commit(u, z) BY DEF E!Remove
<1>3. e < db.next /\ db.emote[e].user = u /\ (u = "owner" => e \notin Fans(db)) BY <1>1, <1>2, OfUser
<1>4. y = [db EXCEPT !.library = @ \ {e}, !.items = [c \in E!Colls |-> IF E!OwnerOf(c) = u THEN @[c] \ {e} ELSE @[c]]]
  BY <1>1 DEF EmoteTables
<1>5. w = E!TouchedFor(db, x, e) BY <1>4 DEF E!WithoutEmote
<1>6. /\ g \in [E!Colls -> SUBSET Nat] /\ g["src"] \subseteq db.items["src"] /\ g["alt"] \subseteq db.items["alt"]
      /\ (u = "owner" => g["copy"] = db.items["copy"] /\ g["own"] = db.items["own"])
  BY <1>1, EmoteNames DEF E!OwnerOf
<1>7. l \in SUBSET Nat /\ (u = "owner" => \A i \in Fans(db) : (i \in l) = (i \in db.library)) BY <1>1, <1>3
<1> HIDE DEF g, l
<1>8. y \in EmoteTables /\ y.emote = db.emote /\ y.next = db.next /\ y.items = g /\ y.library = l
  BY <1>1, <1>6, <1>7 DEF EmoteTables
<1> HIDE DEF y, x, w, z
<1>9. OwnersOnly(db.emote, db.next, y.items["src"]) /\ OwnersOnly(db.emote, db.next, y.items["alt"])
  BY <1>1, <1>6, <1>8 DEF Owned, OwnersOnly
<1>10. Edit(u, db, y) BY <1>1, <1>6, <1>7, <1>8, <1>9, Placement
<1>11. Owned(y) /\ Fans(y) = Fans(db) BY <1>8, <1>10 DEF Edit, Fans
<1>12. /\ Owned(x) /\ Grows(y, x) /\ SameButRows(y, x) /\ \A i \in EmoteIds : i \notin {e} => x.emote[i] = y.emote[i]
  BY <1>11, StateSet DEF x
<1>13. Edit(u, y, x) BY <1>3, <1>11, <1>12, RowsEdit
<1>14. Edit(u, db, x) BY <1>1, <1>10, <1>13, EditOn
<1>15. Carried(u, db, w, tx.seen) BY <1>5, <1>14, TouchedForAfter
<1>16. /\ Owned(z) /\ Grows(w, z) /\ SameButRows(w, z) /\ \A i \in EmoteIds : i \notin {e} => z.emote[i] = w.emote[i]
  BY <1>15, RowsDeleted DEF z, Carried
<1>17. u = "owner" => \A i \in Fans(db) : z.emote[i] = w.emote[i] BY <1>3, <1>16 DEF Fans
<1>18. Carried(u, db, z, tx.seen) BY <1>1, <1>15, <1>16, <1>17, CarriedEnds
<1> QED BY <1>2, <1>18, Committed
-----------------------------------------------------------------------------
LEMMA DetachEdits ==
  ASSUME NEW u, NEW d, Owned(d), NEW c PROVE Edit(u, d, E!detachSubscribersForDeletedSource(d, c))
<1>1. d.sub \in Subscriptions /\ d \in EmoteTables BY TablesTyped
<1>2. [d.sub EXCEPT !.status = "detached"] \in Subscriptions /\ E!NoSub \in Subscriptions BY <1>1, NoSubTyped
<1>3. E!detachSubscribersForDeletedSource(d, c) \in {d, SubTo(d, [d.sub EXCEPT !.status = "detached"]), SubTo(d, E!NoSub)}
  BY DEF E!detachSubscribersForDeletedSource, SubTo
<1> QED BY <1>2, <1>3, SubEdited, SameEdits

LEMMA DeleteStep ==
  ASSUME EmotesInv, NEW u \in {"owner", "fan"}, NEW c \in E!Colls, NEW keep \in BOOLEAN, E!DeleteCollection(u, c, keep)
  PROVE  EmotesInv' /\ OwnerSpares
<1> DEFINE kept == db.items[c] \cap E!Rows(db)
           placed == IF keep THEN LibraryTo(db, db.library \cup kept) ELSE E!SetState(db, kept, "removed")
           left == E!detachSubscribersForDeletedSource(placed, c)
           y == ExistsTo(left, left.exists \ {c})
           gone == ItemsTo(y, c, {})
           z == IF keep THEN gone ELSE E!DeleteUnreferencedEmote(gone, kept)
<1>1. Owned(db) /\ db.items \in [E!Colls -> SUBSET Nat] /\ db.library \in SUBSET Nat BY TablesTyped DEF EmotesInv
<1>2. E!OwnerOf(c) = u BY DEF E!DeleteCollection, E!Mutable
<1>3. kept \in SUBSET Nat /\ (u = "owner" => \A e \in kept : e \in EmoteIds /\ e < db.next /\ db.emote[e].user = "owner")
  BY <1>1, <1>2, EmoteNames DEF Owned, OwnersOnly, E!OwnerOf
<1> HIDE DEF kept
<1>4. u = "owner" => \A e \in kept : e \notin Fans(db) BY <1>3 DEF Fans
<1>5. Edit(u, db, placed)
  <2>1. Edit(u, db, LibraryTo(db, db.library \cup kept))
    <3> DEFINE Z == db.library \cup kept
    <3>1. Z \in SUBSET Nat BY <1>1, <1>3
    <3>3. ASSUME u = "owner", NEW e \in Fans(db) PROVE (e \in Z) = (e \in db.library)
      <4>1. e \notin kept BY <1>4, <3>3
      <4> QED BY <4>1
    <3> HIDE DEF Z
    <3>2. Edit(u, db, LibraryTo(db, Z)) BY <1>1, <3>1, <3>3, LibraryEdited
    <3> QED BY <3>2 DEF Z
  <2>2. Edit(u, db, E!SetState(db, kept, "removed"))
    <3> DEFINE x == E!SetState(db, kept, "removed")
    <3>1. /\ Owned(x) /\ Grows(db, x) /\ SameButRows(db, x) /\ \A e \in EmoteIds : e \notin kept => x.emote[e] = db.emote[e]
      BY <1>1, StateSet
    <3> HIDE DEF x
    <3>2. Edit(u, db, x) BY <1>4, <3>1, RowsEdit
    <3> QED BY <3>2 DEF x
  <2> QED BY <2>1, <2>2
<1> HIDE DEF placed
<1>6. Edit(u, placed, left) BY <1>5, DetachEdits DEF Edit
<1> HIDE DEF left
<1>7. Edit(u, left, y) BY <1>6, ExistsEdited, TablesTyped DEF Edit
<1>8. E!Commit(u, z)
  <2>1. left \in EmoteTables BY <1>6, TablesTyped DEF Edit
  <2>2. gone = [left EXCEPT !.exists = @ \ {c}, !.items[c] = {}] BY <2>1 DEF ItemsTo, ExistsTo, EmoteTables
  <2>3. E!Commit(u, IF keep THEN [left EXCEPT !.exists = @ \ {c}, !.items[c] = {}]
                    ELSE E!DeleteUnreferencedEmote([left EXCEPT !.exists = @ \ {c}, !.items[c] = {}], kept))
    BY DEF E!DeleteCollection, left, placed, kept, LibraryTo
  <2> QED BY <2>2, <2>3
<1> HIDE DEF y
<1>9. Edit(u, y, gone) BY <1>2, <1>7, ItemsEdited DEF Edit, OwnersOnly
<1> HIDE DEF gone
<1>10. Edit(u, db, gone) BY <1>1, <1>5, <1>6, <1>7, <1>9, EditOn
<1>11. Edit(u, gone, E!DeleteUnreferencedEmote(gone, kept))
  <2> DEFINE x == E!DeleteUnreferencedEmote(gone, kept)
  <2>1. Owned(gone) /\ Grows(db, gone) BY <1>10 DEF Edit
  <2>2. /\ Owned(x) /\ Grows(gone, x) /\ SameButRows(gone, x) /\ \A e \in EmoteIds : e \notin kept => x.emote[e] = gone.emote[e]
    BY <2>1, RowsDeleted
  <2> HIDE DEF x
  <2>3. u = "owner" => \A e \in kept : e \notin Fans(gone) BY <1>3, <2>1 DEF Grows, Fans
  <2>4. Edit(u, gone, x) BY <2>2, <2>3, RowsEdit
  <2> QED BY <2>4 DEF x
<1>12. Edit(u, db, z) BY <1>1, <1>10, <1>11, EditOn
<1> HIDE DEF z
<1> QED BY <1>8, <1>12, EditCarries, Committed

(* Steps that change neither rows nor placements.                          *)
LEMMA ShareSteps ==
  ASSUME EmotesInv, E!CreateShare \/ E!RevokeShare \/ (\E u, e : E!Send(u, e)) PROVE EmotesInv' /\ OwnerSpares
<1>1. Owned(db) /\ db \in EmoteTables BY TablesTyped DEF EmotesInv
<1>2. CASE E!CreateShare
  <2> DEFINE h == db.share \cup db.items["src"]
             z == [db EXCEPT !.shared = TRUE, !.share = h]
  <2>1. E!Commit("owner", z) BY <1>1, <1>2 DEF E!CreateShare, EmoteTables
  <2>2. h \in SUBSET Nat BY <1>1, EmoteNames DEF EmoteTables
  <2> HIDE DEF h
  <2>3. z \in EmoteTables /\ z.emote = db.emote /\ z.next = db.next /\ z.items = db.items /\ z.library = db.library
    BY <1>1, <2>2 DEF EmoteTables
  <2> HIDE DEF z
  <2>4. Edit("owner", db, z) BY <1>1, <2>3, Placement DEF Owned
  <2> QED BY <2>1, <2>4, EditCarries, Committed
<1>3. ASSUME db' \in EmoteTables, db'.emote = db.emote, db'.next = db.next, db'.items = db.items, db'.library = db.library,
             tx' = tx
      PROVE  EmotesInv' /\ OwnerSpares
  <2>1. Owned(db') BY <1>1, <1>3 DEF Owned
  <2>2. Fans(db') = Fans(db) BY <1>3 DEF Fans
  <2> QED BY <1>3, <2>1, <2>2 DEF EmotesInv, OwnerSpares
<1>4. CASE E!RevokeShare
  <2>1. db' = [db EXCEPT !.shared = FALSE, !.share = {}] /\ tx' = tx BY <1>4 DEF E!RevokeShare
  <2>2. db' \in EmoteTables /\ db'.emote = db.emote /\ db'.next = db.next /\ db'.items = db.items /\ db'.library = db.library
    BY <1>1, <2>1 DEF EmoteTables
  <2> QED BY <1>3, <2>1, <2>2
<1>5. ASSUME NEW u, NEW e, E!Send(u, e) PROVE EmotesInv' /\ OwnerSpares
  <2> DEFINE h == db.sent \cup {e}
  <2>1. db' = [db EXCEPT !.sent = h] /\ tx' = tx /\ e \in E!Of(db, u) BY <1>5 DEF E!Send
  <2>2. h \in SUBSET Nat BY <1>1, <2>1, OfUser DEF EmoteTables
  <2> HIDE DEF h
  <2>3. db' \in EmoteTables /\ db'.emote = db.emote /\ db'.next = db.next /\ db'.items = db.items /\ db'.library = db.library
    BY <1>1, <2>1, <2>2 DEF EmoteTables
  <2> QED BY <1>3, <2>1, <2>3
<1> QED BY <1>2, <1>4, <1>5

LEMMA QuietSteps ==
  ASSUME EmotesInv, E!OwnerBegins \/ E!ImportReads \/ E!ImportRejected \/ UNCHANGED E!vars PROVE EmotesInv' /\ OwnerSpares
<1>1. db' = db /\ Owned(db) BY DEF E!OwnerBegins, E!ImportReads, E!ImportRejected, E!vars, EmotesInv
<1>2. CASE E!OwnerBegins
  <2>1. ~tx.on /\ tx'.seen = E!Placed(db, "fan") BY <1>2 DEF E!OwnerBegins
  <2>2. E!Placed(db, "fan") \subseteq Fans(db) BY <1>1, OfUser DEF E!Placed, Fans
  <2> QED BY <1>1, <2>1, <2>2 DEF EmotesInv, OwnerSpares
<1>3. CASE tx' = tx BY <1>1, <1>3 DEF EmotesInv, OwnerSpares
<1> QED BY <1>2, <1>3 DEF E!ImportReads, E!ImportRejected, E!vars
-----------------------------------------------------------------------------
LEMMA ImportedKeeps ==
  ASSUME EmotesInv, NEW d, Owned(d), Grows(db, d), E!Imported(d) PROVE EmotesInv' /\ OwnerSpares
<1> DEFINE z == E!Edited(d)
           n == d.edits + 1
<1>1. db' = z /\ tx' = tx /\ Owned(db) BY DEF E!Imported, EmotesInv
<1>2. d \in EmoteTables /\ n \in Nat BY TablesTyped DEF EmoteTables
<1>3. z = [d EXCEPT !.edits = n] BY DEF E!Edited
<1> HIDE DEF z, n
<1>4. z \in EmoteTables /\ z.emote = d.emote /\ z.next = d.next /\ z.items = d.items /\ z.library = d.library
  BY <1>2, <1>3 DEF EmoteTables
<1>5. Owned(z) /\ Grows(d, z) BY <1>4, Placement DEF Owned, Edit
<1>6. Owned(z) /\ Fans(db) \subseteq Fans(z) BY <1>1, <1>5, GrowsOn, FansStay
<1> QED BY <1>1, <1>6 DEF EmotesInv, OwnerSpares

LEMMA SubscribeStep == ASSUME EmotesInv, E!ImportSubscribe PROVE EmotesInv' /\ OwnerSpares
<1> DEFINE x == ExistsTo(db, db.exists \cup {"copy"})
           s == [E!NoSub EXCEPT !.status = "active"]
           y == SubTo(x, s)
           z == E!SyncFromScratch(y, {})
<1>1. Owned(db) /\ db \in EmoteTables /\ db.exists \in SUBSET E!Colls BY TablesTyped DEF EmotesInv
<1>2. db.exists \cup {"copy"} \in SUBSET E!Colls /\ s \in Subscriptions BY <1>1, EmoteNames, NoSubTyped
<1>3. y = [db EXCEPT !.exists = @ \cup {"copy"}, !.sub = s] BY <1>1 DEF SubTo, ExistsTo, EmoteTables
<1>4. E!Imported(z) BY <1>3 DEF E!ImportSubscribe
<1> HIDE DEF s
<1>5. Edit("fan", db, x) BY <1>1, <1>2, ExistsEdited
<1> HIDE DEF x
<1>6. Edit("fan", x, y) BY <1>2, <1>5, SubEdited DEF Edit
<1> HIDE DEF y
<1>7. Owned(y) /\ Grows(db, y) BY <1>1, <1>5, <1>6, EditOn DEF Edit
<1>8. Owned(z) /\ Grows(y, z) BY <1>7, SyncKeeps
<1> HIDE DEF z
<1> QED BY <1>1, <1>4, <1>7, <1>8, GrowsOn, ImportedKeeps

LEMMA SwitchSteps ==
  ASSUME EmotesInv, E!DisableSubscription \/ E!EnableSubscription PROVE EmotesInv' /\ OwnerSpares
<1>1. Owned(db) /\ db \in EmoteTables /\ db.sub \in Subscriptions BY TablesTyped DEF EmotesInv
<1>2. CASE E!DisableSubscription
  <2> DEFINE s == [db.sub EXCEPT !.status = "off"]
  <2>1. s \in Subscriptions BY <1>1, NoSubTyped
  <2>2. E!Commit("fan", SubTo(db, s)) BY <1>2 DEF E!DisableSubscription, SubTo
  <2> HIDE DEF s
  <2> QED BY <1>1, <2>1, <2>2, SubEdited, EditCarries, Committed
<1>3. CASE E!EnableSubscription
  <2> DEFINE s == [db.sub EXCEPT !.status = "active", !.rev = 0]
             y == SubTo(db, s)
             seen == E!Placed(y, "fan")
             z == E!syncSubscriptionRecord(y, seen)
  <2>1. s \in Subscriptions BY <1>1 DEF Subscriptions
  <2>2. y = [db EXCEPT !.sub.status = "active", !.sub.rev = 0] BY <1>1 DEF SubTo, EmoteTables
  <2>3. E!Commit("fan", z) BY <1>3, <2>2 DEF E!EnableSubscription
  <2> HIDE DEF s
  <2>4. Edit("fan", db, y) BY <1>1, <2>1, SubEdited
  <2>5. z \in {y, E!SyncFromScratch(y, seen)} BY DEF E!syncSubscriptionRecord
  <2> HIDE DEF y, seen, z
  <2>6. Owned(y) /\ Grows(db, y) BY <2>4 DEF Edit
  <2>7. Owned(E!SyncFromScratch(y, seen)) /\ Grows(y, E!SyncFromScratch(y, seen)) BY <2>6, SyncKeeps
  <2>8. Owned(z) /\ Grows(db, z) BY <1>1, <2>5, <2>6, <2>7, GrowsOn
  <2> QED BY <2>3, <2>8, Committed DEF Carried
<1> QED BY <1>2, <1>3

(* A snapshot: the fan's rows of the same contents are used again, the     *)
(* others are new.                                                         *)
Found(s) == E!FindCustomEmoteByDigest(db, "fan", db.emote[s].pic)
ToInsert == {s \in visit.seen : Found(s) = {}}
SnapshotOf == [s \in visit.seen |-> IF s \in ToInsert THEN db.next + E!Rank(ToInsert, s) ELSE CHOOSE e \in Found(s) : TRUE]
SnapshotRows ==
  [e \in EmoteIds |-> IF \E s \in visit.seen : SnapshotOf[s] = e
      THEN LET s == CHOOSE x \in visit.seen : SnapshotOf[x] = e
           IN IF s \in ToInsert THEN [state |-> "live", user |-> "fan", from |-> s, pic |-> db.emote[s].pic,
                                      label |-> db.emote[s].label]
              ELSE [db.emote[e] EXCEPT !.state = "live"]
      ELSE db.emote[e]]

LEMMA SnapshotStep == ASSUME EmotesInv, E!ImportSnapshot PROVE EmotesInv' /\ OwnerSpares
<1> DEFINE y == ExistsTo(db, db.exists \cup {"copy"})
           m == db.next + E!Cardinality(ToInsert)
           T == E!Range(SnapshotOf)
           z == CopyTo(y, SnapshotRows, m, T, y.sub)
<1>1. /\ Owned(db) /\ db \in EmoteTables /\ db.exists \in SUBSET E!Colls /\ db.next \in Nat /\ EmoteIds \subseteq Nat
      /\ db.sub \in Subscriptions
  BY TablesTyped DEF EmotesInv
<1>2. visit.seen \subseteq EmoteIds BY LiveIds DEF E!ImportSnapshot
<1>3. ToInsert \in SUBSET EmoteIds BY <1>2 DEF ToInsert
<1>4. E!Cardinality(ToInsert) \in Nat /\ \A s \in ToInsert : E!Rank(ToInsert, s) \in Nat /\ E!Rank(ToInsert, s) < E!Cardinality(ToInsert)
  BY <1>3, RankBelow
<1>5. m \in Nat /\ db.next <= m BY <1>1, <1>4
<1>6. E!Imported(z)
  <2>1. E!Imported([db EXCEPT !.emote = SnapshotRows, !.next = @ + E!Cardinality(ToInsert),
                              !.exists = @ \cup {"copy"}, !.items["copy"] = T])
    BY EmoteNames DEF E!ImportSnapshot, SnapshotRows, SnapshotOf, ToInsert, Found
  <2>2. [db EXCEPT !.emote = SnapshotRows, !.next = @ + E!Cardinality(ToInsert),
                   !.exists = @ \cup {"copy"}, !.items["copy"] = T] = z
    BY <1>1 DEF CopyTo, ExistsTo, EmoteTables
  <2> QED BY <2>1, <2>2
<1>7. ASSUME NEW s \in visit.seen
      PROVE  /\ SnapshotOf[s] \in Nat /\ SnapshotOf[s] < m /\ (SnapshotOf[s] < db.next => s \notin ToInsert)
  <2>1. CASE s \in ToInsert
    <3>1. SnapshotOf[s] = db.next + E!Rank(ToInsert, s) BY <2>1 DEF SnapshotOf
    <3> QED BY <1>1, <1>4, <2>1, <3>1
  <2>2. CASE s \notin ToInsert
    <3>1. SnapshotOf[s] \in Found(s) BY <2>2 DEF SnapshotOf, ToInsert
    <3>2. SnapshotOf[s] \in E!Of(db, "fan") BY <1>1, <3>1, FoundMine DEF Found
    <3>3. SnapshotOf[s] \in Nat /\ SnapshotOf[s] < db.next BY <1>1, <3>2, OfUser
    <3> HIDE DEF m
    <3> QED BY <1>1, <1>5, <2>2, <3>3
  <2> QED BY <2>1, <2>2
<1> HIDE DEF m, z
<1> DEFINE who(e) == CHOOSE x \in visit.seen : SnapshotOf[x] = e
           new(e) == [state |-> "live", user |-> "fan", from |-> who(e), pic |-> db.emote[who(e)].pic,
                      label |-> db.emote[who(e)].label]
           old(e) == [db.emote[e] EXCEPT !.state = "live"]
<1>8. SnapshotRows = [e \in EmoteIds |-> IF \E s \in visit.seen : SnapshotOf[s] = e
                                           THEN IF who(e) \in ToInsert THEN new(e) ELSE old(e) ELSE db.emote[e]]
  BY DEF SnapshotRows
<1>9. ASSUME NEW e \in EmoteIds, \E s \in visit.seen : SnapshotOf[s] = e
      PROVE  who(e) \in visit.seen /\ SnapshotOf[who(e)] = e
  BY <1>9
<1> HIDE DEF who
<1>10. ASSUME NEW s \in EmoteIds
       PROVE  [state |-> "live", user |-> "fan", from |-> s, pic |-> db.emote[s].pic, label |-> db.emote[s].label] \in EmoteRows
  <2>1. db.emote[s] \in EmoteRows /\ s \in Nat BY <1>1, RowsTyped
  <2> QED BY <2>1 DEF EmoteRows
<1>11. ASSUME NEW e \in EmoteIds
       PROVE  /\ SnapshotRows[e] \in EmoteRows /\ (e < db.next => SnapshotRows[e].user = db.emote[e].user)
              /\ (e >= m => SnapshotRows[e] = db.emote[e])
  <2>1. CASE ~\E s \in visit.seen : SnapshotOf[s] = e BY <1>1, <1>8, <2>1, RowsTyped
  <2>2. CASE \E s \in visit.seen : SnapshotOf[s] = e
    <3>1. who(e) \in visit.seen /\ who(e) \in EmoteIds /\ SnapshotOf[who(e)] = e BY <1>2, <1>9, <2>2
    <3>2. e \in Nat /\ e < m /\ (e < db.next => who(e) \notin ToInsert) BY <1>7, <3>1
    <3>5. ~(e >= m) BY ONLY <1>5, <3>2
    <3>3. CASE who(e) \in ToInsert
      <4>1. SnapshotRows[e] = new(e) BY <1>8, <2>2, <3>3
      <4>2. new(e) \in EmoteRows BY <1>10, <3>1
      <4> QED BY <3>2, <3>3, <3>5, <4>1, <4>2
    <3>4. CASE who(e) \notin ToInsert
      <4>1. SnapshotRows[e] = old(e) BY <1>8, <2>2, <3>4
      <4>2. old(e) \in EmoteRows /\ old(e).user = db.emote[e].user BY <1>1, RowsTyped
      <4> QED BY <3>5, <4>1, <4>2
    <3> QED BY <3>3, <3>4
  <2> QED BY <2>1, <2>2
<1>12. SnapshotRows \in [EmoteIds -> EmoteRows] BY <1>8, <1>11
<1>13. T \in SUBSET Nat BY <1>7 DEF E!Range, SnapshotOf
<1> HIDE DEF T
<1>14. db.exists \cup {"copy"} \in SUBSET E!Colls BY <1>1, EmoteNames
<1>15. Owned(y) /\ Grows(db, y) BY <1>1, <1>14, ExistsEdited DEF Edit
<1>16. y.emote = db.emote /\ y.next = db.next /\ y.sub \in Subscriptions BY <1>1 DEF ExistsTo, EmoteTables
<1> HIDE DEF y
<1>17. Owned(z) /\ Grows(y, z)
  <2>1. \A e \in EmoteIds : /\ e < y.next => SnapshotRows[e].user = y.emote[e].user
                            /\ e >= m => SnapshotRows[e] = y.emote[e]
    BY <1>11, <1>16
  <2> QED BY <1>5, <1>12, <1>13, <1>15, <1>16, <2>1, CopyReplaced DEF z
<1> QED BY <1>1, <1>6, <1>15, <1>17, GrowsOn, ImportedKeeps
-----------------------------------------------------------------------------
LEMMA EmotesInitially == E!Init => EmotesInv
<1> SUFFICES ASSUME E!Init PROVE EmotesInv OBVIOUS
<1> DEFINE x == E!NoRow
           w == [x EXCEPT !.state = "live"]
           f == [[e \in EmoteIds |-> x] EXCEPT ![1] = w]
           g == [c \in E!Colls |-> IF c = "src" THEN {1} ELSE {}]
<1>1. db = [emote |-> f, next |-> 2, exists |-> {"src"}, items |-> g, library |-> {}, rev |-> 1, sub |-> E!NoSub,
            share |-> {1}, shared |-> TRUE, sent |-> {}, edits |-> 0]
  <2>1. 1 \in EmoteIds BY MediaAssumption DEF EmoteIds
  <2>2. [[e \in E!Ids |-> E!NoRow] EXCEPT ![1].state = "live"] = f BY <2>1, EmoteNames
  <2> HIDE DEF f
  <2> QED BY <2>2 DEF E!Init
<1>2. x \in EmoteRows /\ x.state = "free" /\ x.user = "owner" BY DEF E!NoRow, EmoteRows, AnyPic
<1> HIDE DEF x
<1>3. w \in EmoteRows /\ w.user = "owner" BY <1>2 DEF EmoteRows
<1> HIDE DEF w
<1>4. 1 \in EmoteIds /\ EmoteIds \subseteq Nat BY MediaAssumption DEF EmoteIds
<1>5. f \in [EmoteIds -> EmoteRows] /\ f[1] = w /\ \A e \in EmoteIds : e # 1 => f[e] = x BY <1>2, <1>3, <1>4
<1>6. g \in [E!Colls -> SUBSET Nat] /\ g["src"] = {1} /\ g["alt"] = {} BY EmoteNames
<1> HIDE DEF f, g
<1>7. E!NoSub \in Subscriptions /\ {"src"} \in SUBSET E!Colls BY NoSubTyped, EmoteNames
<1>8. db \in EmoteTables BY <1>1, <1>5, <1>6, <1>7 DEF EmoteTables
<1>9. db.emote = f /\ db.next = 2 /\ db.items = g BY <1>1
<1>10. Unused(f, 2) BY <1>2, <1>4, <1>5 DEF Unused
<1>11. OwnersOnly(f, 2, {1}) /\ OwnersOnly(f, 2, {}) BY <1>3, <1>4, <1>5 DEF OwnersOnly
<1>12. Owned(db) BY <1>6, <1>8, <1>9, <1>10, <1>11 DEF Owned
<1>13. tx.seen = {} BY DEF E!Init, E!Idle
<1> QED BY <1>12, <1>13 DEF EmotesInv

LEMMA MutationSteps ==
  ASSUME EmotesInv, NEW u \in {"owner", "fan"}, E!Mutations(u) PROVE EmotesInv' /\ OwnerSpares
<1>0. 1 \in EmoteIds BY MediaAssumption DEF EmoteIds
<1>1. ASSUME NEW c \in E!Colls, NEW Z, E!CreateCollection(u, c, Z) PROVE EmotesInv' /\ OwnerSpares BY <1>1, CreateStep
<1>2. ASSUME NEW c \in E!Colls, NEW e \in EmoteIds, E!AddCollectionItems(u, c, e) \/ E!RemoveCollectionItem(u, c, e)
      PROVE  EmotesInv' /\ OwnerSpares
  BY <1>2, CollectionStep
<1>3. ASSUME NEW c \in E!Colls, E!ReorderCollection(u, c) \/ E!UpdateCollection(u, c) PROVE EmotesInv' /\ OwnerSpares
  BY <1>0, <1>3, CollectionStep
<1>4. ASSUME NEW e \in EmoteIds, E!Update(u, e) \/ E!Remove(u, e) PROVE EmotesInv' /\ OwnerSpares
  BY <1>4, UpdateStep, RemoveStep
<1>5. ASSUME NEW c \in E!Colls, NEW keep \in BOOLEAN, E!DeleteCollection(u, c, keep) PROVE EmotesInv' /\ OwnerSpares
  BY <1>5, DeleteStep
<1> QED BY <1>1, <1>2, <1>3, <1>4, <1>5, EmoteNames DEF E!Mutations

LEMMA EmotesKeep == EmotesInv /\ [E!Next]_(E!vars) => EmotesInv' /\ OwnerSpares
<1> SUFFICES ASSUME EmotesInv, [E!Next]_(E!vars) PROVE EmotesInv' /\ OwnerSpares OBVIOUS
<1>1. CASE UNCHANGED E!vars BY <1>1, QuietSteps
<1>2. CASE E!OwnerNext
  <2>1. ASSUME NEW p \in Pics, NEW c \in {"src", "alt", "none"}, E!StoreProcessed("owner", p, c)
        PROVE  EmotesInv' /\ OwnerSpares
    BY <2>1, UploadStep
  <2>2. ASSUME NEW e, E!Send("owner", e) PROVE EmotesInv' /\ OwnerSpares BY <2>2, ShareSteps
  <2> QED BY <1>2, <2>1, <2>2, QuietSteps, MutationSteps, ShareSteps DEF E!OwnerNext
<1>3. CASE E!FanNext
  <2>1. ASSUME NEW e \in EmoteIds, E!FavoriteFromMessage(e) PROVE EmotesInv' /\ OwnerSpares BY <2>1, FavoriteStep
  <2>2. ASSUME NEW p \in Pics, E!favoriteAttachmentFromMessage(p) PROVE EmotesInv' /\ OwnerSpares
    BY <2>2, UploadStep DEF E!favoriteAttachmentFromMessage
  <2> QED BY <1>3, <2>1, <2>2, EmoteNames, QuietSteps, MutationSteps, SnapshotStep, SubscribeStep, SwitchSteps DEF E!FanNext
<1> QED BY <1>1, <1>2, <1>3 DEF E!Next

LocalKept == tx.on /\ ~tx'.on => \A e \in tx.seen : db.emote[e].state = "live" =>
  db'.emote[e] = db.emote[e] /\ ((e \in db'.library) = (e \in db.library))
  /\ ((e \in db'.items["own"]) = (e \in db.items["own"]))
CopyKept == tx.on /\ ~tx'.on /\ db'.sub.status # "active" =>
  /\ db'.items["copy"] = db.items["copy"]
  /\ \A e \in E!Of(db, "fan") : db'.emote[e] = db.emote[e]
LEMMA OwnerSparesSays == EmotesInv /\ OwnerSpares => LocalKept /\ CopyKept
<1> SUFFICES ASSUME EmotesInv, tx.on, ~tx'.on, FanSame(db, db') \/ SeenSame(db, db', tx.seen) PROVE LocalKept /\ CopyKept
  BY DEF OwnerSpares, LocalKept, CopyKept
<1>1. LocalKept BY DEF LocalKept, FanSame, SeenSame, Spared, EmotesInv
<1>2. E!Of(db, "fan") \subseteq Fans(db) BY OfUser DEF Fans, EmotesInv
<1>3. CopyKept BY <1>2 DEF CopyKept, FanSame, SeenSame, Spared
<1> QED BY <1>1, <1>3

LEMMA EmotesStep ==
  EmotesInv /\ [E!Next]_(E!vars) => [LocalKept]_(E!vars) /\ [CopyKept]_(E!vars)
BY EmotesKeep, OwnerSparesSays

(* Whatever the owner's transactions interleave with, what the fan placed  *)
(* stays as it was, and a snapshot does not follow its source.             *)
THEOREM EmotesCorrect == E!Spec => E!LocalIsYours /\ E!SnapshotKept
<1>1. EmotesInv /\ [E!Next]_(E!vars) => EmotesInv' BY EmotesKeep
<1>2. E!Spec => []EmotesInv BY <1>1, EmotesInitially, PTL DEF E!Spec
<1> QED BY <1>2, EmotesStep, PTL DEF E!Spec, E!LocalIsYours, E!SnapshotKept, LocalKept, CopyKept

LEMMA EmotePart == [Next]_vars => [E!Next]_(E!vars)
<1> SUFFICES ASSUME [Next]_vars PROVE [E!Next]_(E!vars) OBVIOUS
<1>1. UNCHANGED emoteVars => UNCHANGED E!vars BY DEF emoteVars, E!vars
<1>2. E!Next \/ UNCHANGED emoteVars
  BY DEF Next, vars, LibraryStep, ObjectStep, StoreStep, ReaderStep, TabStep, AuditStep, ProvisionStep, QuotaStep, Only
<1> QED BY <1>1, <1>2

(* No synchronisation touches emotes of one's own, none edits a snapshot,  *)
(* and no reader changes its verdict.                                      *)
THEOREM SettledStaysCorrect == Spec => SettledStays
<1>1. EmotesInv /\ [Next]_vars => EmotesInv' BY EmotePart, EmotesKeep
<1>2. Init => EmotesInv BY EmotesInitially DEF Init
<1>3. Spec => []EmotesInv BY <1>1, <1>2, PTL DEF Spec
<1>4. EmotesInv /\ [Next]_vars => [LocalKept]_(E!vars) /\ [CopyKept]_(E!vars) BY EmotePart, EmotesStep
<1>5. [Next]_vars => [terminal # "nil" => terminal' = terminal]_(B!readerVars) BY PartsStep, VerdictKept
<1> QED BY <1>3, <1>4, <1>5, PTL DEF Spec, SettledStays, E!LocalIsYours, E!SnapshotKept, B!VerdictStands, LocalKept, CopyKept
=============================================================================
