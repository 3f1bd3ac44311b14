------------------------------- MODULE Emotes -------------------------------
(***************************************************************************)
(* Personal emote libraries (workspace/emotes): an owner with two          *)
(* collections, one of them shared, and a fan who imports the share as a   *)
(* snapshot or as a subscription that follows the source.                  *)
(*                                                                         *)
(* The tables are one record.  A mutation is one transaction; the owner's  *)
(* transactions synchronise the fan's rows without the fan's library lock, *)
(* so the placements they consult are read when the transaction starts     *)
(* (OwnerBegins) and may be out of date when it commits.  An import reads  *)
(* the share before its transaction (ImportReads).  Order, names and sizes *)
(* are left out: every emote counts one byte.                              *)
(***************************************************************************)
EXTENDS Naturals, FiniteSets, Functions

CONSTANTS Pics,         \* picture digests
          MaxRows,      \* bound on the emote rows ever inserted
          MaxRevision,  \* bound on the revision of the source collection
          MaxSent,      \* bound on the emotes used in messages
          MaxEdits,     \* bound on the mutations
          Limit         \* MaxTotalBytes

VARIABLES db,      \* the tables
          tx,      \* the owner's running transaction: placements of the fan it saw
          visit    \* the fan's running import: the share items it read

vars == <<db, tx, visit>>

Users == {"owner", "fan"}
Colls == {"src", "alt", "copy", "own"}
OwnerOf(c) == IF c \in {"src", "alt"} THEN "owner" ELSE "fan"
Ids == 1 .. MaxRows
NoRow == [state |-> "free", user |-> "owner", pic |-> CHOOSE p \in Pics : TRUE,
          label |-> 0, from |-> 0]
NoSub == [status |-> "none", rev |-> 0, map |-> <<>>]
Idle == [on |-> FALSE, seen |-> {}]
-----------------------------------------------------------------------------
Rows(d) == {e \in Ids : d.emote[e].state \in {"live", "removed"}}
Of(d, u) == {e \in Rows(d) : d.emote[e].user = u}
Live(d) == {e \in Ids : d.emote[e].state = "live"}
Targets(d) == Range(d.sub.map)

SubscriptionActive(d, c) == c = "copy" /\ d.sub.status = "active"
IsEmoteSubscriptionReadOnly(d, e) == d.sub.status = "active" /\ e \in Targets(d)
IsEmoteLocallyPlaced(d, e) ==
  \/ e \in d.library
  \/ \E c \in d.exists : /\ OwnerOf(c) = d.emote[e].user
                         /\ e \in d.items[c]
                         /\ ~SubscriptionActive(d, c)
Placed(d, u) == {e \in Of(d, u) : IsEmoteLocallyPlaced(d, e)}

\* emoteUsage: what a running subscription alone keeps is not counted.
Metered(d, u) == {e \in Of(d, u) \cap Live(d) :
                    ~IsEmoteSubscriptionReadOnly(d, e) \/ IsEmoteLocallyPlaced(d, e)}
EmoteUsage(d, u) == Cardinality(Metered(d, u))

\* Rows that still need e; a message keeps the emotes it uses.
customEmoteReferenced(d, e) ==
  \/ e \in d.library \cup d.sent \cup d.share \cup DOMAIN d.sub.map
  \/ \E c \in d.exists : e \in d.items[c]
  \/ \E r \in Rows(d) : d.emote[r].from = e
DeleteUnreferencedEmote(d, S) ==
  [d EXCEPT !.emote = [e \in Ids |-> IF e \in S \cap Rows(d) /\ ~customEmoteReferenced(d, e)
                                       THEN [@[e] EXCEPT !.state = "gone"] ELSE @[e]]]
\* The foreign key of a subscription's mapping refuses the deletion of a target.
Deletable(d, e) == customEmoteReferenced(d, e) \/ e \notin Targets(d)

SetState(d, S, s) ==
  [d EXCEPT !.emote = [e \in Ids |-> IF e \in S \cap Rows(d)
                                       THEN [@[e] EXCEPT !.state = s] ELSE @[e]]]
InsertCustomEmote(d, e, u, p, l, f) ==
  [d EXCEPT !.emote[e] = [state |-> "live", user |-> u, pic |-> p, label |-> l, from |-> f],
            !.next = @ + 1]
Rank(S, e) == Cardinality({x \in S : x < e})

\* findCustomEmoteByDigest: a live row first, then the oldest.
Duplicates(d, u, p) == {e \in Of(d, u) : d.emote[e].pic = p}
FindCustomEmoteByDigest(d, u, p) ==
  LET all == Duplicates(d, u, p)
      best == IF all \cap Live(d) # {} THEN all \cap Live(d) ELSE all
  IN {e \in best : \A x \in best : e <= x}
FindReusableLocalEmote(d, u, p) ==
  {e \in FindCustomEmoteByDigest(d, u, p) :
     ~IsEmoteSubscriptionReadOnly(d, e) \/ IsEmoteLocallyPlaced(d, e)}
-----------------------------------------------------------------------------
\* One target per live item of the source: the mapped one unless the fan
\* placed it somewhere of their own, else a new row.
ReusedEvenIfPlaced(d, seen, srcs) == {s \in srcs \cap DOMAIN d.sub.map : d.sub.map[s] \in Rows(d)}
ReusableTargets(d, seen, srcs) == {s \in srcs \cap DOMAIN d.sub.map :
                                     d.sub.map[s] \in Rows(d) /\ d.sub.map[s] \notin seen}

Mapping(d, seen, srcs) ==
  LET keep == ReusableTargets(d, seen, srcs)
  IN [s \in srcs |-> IF s \in keep THEN d.sub.map[s] ELSE d.next + Rank(srcs \ keep, s)]

createSubscriptionTarget(d, map, srcs) ==
  [e \in Ids |-> IF \E s \in srcs : map[s] = e
                 THEN LET s == CHOOSE x \in srcs : map[x] = e
                      IN IF e < d.next
                           THEN [d.emote[e] EXCEPT !.state = "live", !.label = d.emote[s].label]
                           ELSE [state |-> "live", user |-> "fan", pic |-> d.emote[s].pic,
                                 label |-> d.emote[s].label, from |-> s]
                 ELSE d.emote[e]]

StaleRevision(d) == d.sub.rev # d.rev
sourceItems(d) == d.items["src"] \cap Live(d)

\* The copy becomes what the source is now; what the source no longer has is
\* removed from the fan unless it is placed elsewhere; then orphans go.
SyncFromScratch(d, seen) ==
  LET srcs == sourceItems(d)
      map == Mapping(d, seen, srcs)
      old == (Targets(d) \cup d.items["copy"]) \ Range(map)
      synced == [d EXCEPT !.emote = createSubscriptionTarget(d, map, srcs),
                          !.next = @ + Cardinality(srcs \ ReusableTargets(d, seen, srcs)),
                          !.items["copy"] = Range(map),
                          !.sub = [status |-> "active", rev |-> d.rev, map |-> map]]
      retired == SetState(synced, old \ seen, "removed")
      sources == {s \in DOMAIN d.sub.map \ srcs : d.emote[s].state = "removed"}
  IN DeleteUnreferencedEmote(retired, (old \ seen) \cup sources)
syncSubscriptionRecord(d, seen) ==
  IF d.sub.status = "active" /\ StaleRevision(d) THEN SyncFromScratch(d, seen) ELSE d

BumpWithoutSync(d, c, seen) == IF c = "src" THEN [d EXCEPT !.rev = @ + 1] ELSE d
\* UpdateCollectionRevision and syncSubscribersForSourceInTransaction.
Touched(d, c, seen) ==
  IF c = "src" THEN syncSubscriptionRecord([d EXCEPT !.rev = @ + 1], seen) ELSE d

Fits(d) == d.next <= MaxRows + 1 /\ d.rev <= MaxRevision /\ d.edits < MaxEdits
Edited(d) == [d EXCEPT !.edits = @ + 1]
Commit(u, d) == /\ u = "owner" => tx.on
                /\ Fits(d)
                /\ db' = Edited(d)
                /\ tx' = IF u = "owner" THEN Idle ELSE tx
                /\ UNCHANGED visit
Mutable(u, c) == c \in db.exists /\ OwnerOf(c) = u /\ ~SubscriptionActive(db, c)
-----------------------------------------------------------------------------
Init == /\ db = [emote |-> [[e \in Ids |-> NoRow] EXCEPT ![1].state = "live"],
                 next |-> 2, exists |-> {"src"},
                 items |-> [c \in Colls |-> IF c = "src" THEN {1} ELSE {}],
                 library |-> {}, rev |-> 1, sub |-> NoSub, share |-> {1}, shared |-> TRUE,
                 sent |-> {}, edits |-> 0]
        /\ tx = Idle
        /\ visit = Idle

OwnerBegins == /\ ~tx.on
               /\ tx' = [on |-> TRUE, seen |-> Placed(db, "fan")]
               /\ UNCHANGED <<db, visit>>

\* ensurePlacement, and the synchronisation that follows an upload.
ensurePlacement(d, u, e, c) ==
  IF c = "none" THEN [d EXCEPT !.library = @ \cup {e}]
  ELSE IF e \in d.items[c] THEN d
  ELSE Touched([d EXCEPT !.items[c] = @ \cup {e}], c, tx.seen)

StoreProcessed(u, p, c) ==
  /\ c # "none" => Mutable(u, c)
  /\ LET same == FindReusableLocalEmote(db, u, p)
     IN \/ \E e \in same : Commit(u, ensurePlacement(SetState(db, {e}, "live"), u, e, c))
        \/ /\ same = {}
           /\ EmoteUsage(db, u) + 1 <= Limit
           /\ db.next \in Ids
           /\ Commit(u, ensurePlacement(InsertCustomEmote(db, db.next, u, p, 0, 0), u, db.next, c))

CreateCollection(u, c, S) ==
  /\ c \in {"alt", "own"} \ db.exists
  /\ OwnerOf(c) = u
  /\ S \subseteq Of(db, u) \cap Live(db)
  /\ Commit(u, [db EXCEPT !.exists = @ \cup {c}, !.items[c] = S])

AddCollectionItems(u, c, e) ==
  /\ Mutable(u, c)
  /\ e \in (Of(db, u) \cap Live(db)) \ db.items[c]
  /\ Commit(u, Touched([db EXCEPT !.items[c] = @ \cup {e}], c, tx.seen))

RemoveCollectionItem(u, c, e) ==
  /\ Mutable(u, c)
  /\ e \in db.items[c]
  /\ Commit(u, Touched([db EXCEPT !.items[c] = @ \ {e}], c, tx.seen))

ReorderCollection(u, c) == Mutable(u, c) /\ Commit(u, Touched(db, c, tx.seen))
\* A new name counts as a new revision too.
UpdateCollection(u, c) == Mutable(u, c) /\ Commit(u, Touched(db, c, tx.seen))

\* The sources to synchronise when an emote changes.
mutableCollectionIDsForEmote(d, e) == {c \in {"src"} : e \in d.items[c]}
TouchedFor(before, d, e) == IF mutableCollectionIDsForEmote(before, e) # {} THEN Touched(d, "src", tx.seen) ELSE d

Update(u, e) ==
  /\ e \in Of(db, u) \cap Live(db)
  /\ ~IsEmoteSubscriptionReadOnly(db, e)
  /\ LET d == [db EXCEPT !.emote[e].label = 1 - @]
     IN Commit(u, TouchedFor(db, d, e))

WithoutEmote(u, e) ==
  LET d == SetState([db EXCEPT !.library = @ \ {e},
                               !.items = [c \in Colls |-> IF OwnerOf(c) = u THEN @[c] \ {e}
                                                                            ELSE @[c]]],
                    {e}, "removed")
  IN TouchedFor(db, d, e)
Remove(u, e) ==
  /\ e \in Of(db, u)
  /\ ~IsEmoteSubscriptionReadOnly(db, e)
  /\ Deletable(WithoutEmote(u, e), e)
  /\ Commit(u, DeleteUnreferencedEmote(WithoutEmote(u, e), {e}))

\* The subscribers of a deleted source keep what they have.
detachSubscribersForDeletedSource(d, c) ==
  IF c = "src" /\ d.sub.status \in {"active", "off"} THEN [d EXCEPT !.sub.status = "detached"]
  ELSE IF c = "copy" THEN [d EXCEPT !.sub = NoSub] ELSE d

DeleteCollection(u, c, keep) ==
  /\ Mutable(u, c)
  /\ LET held == db.items[c] \cap Rows(db)
         placed == IF keep THEN [db EXCEPT !.library = @ \cup held]
                           ELSE SetState(db, held, "removed")
         gone == [detachSubscribersForDeletedSource(placed, c)
                    EXCEPT !.exists = @ \ {c}, !.items[c] = {}]
     IN /\ ~keep => \A e \in held : Deletable(gone, e)
        /\ Commit(u, IF keep THEN gone ELSE DeleteUnreferencedEmote(gone, held))

CreateShare == /\ "src" \in db.exists /\ db.items["src"] # {} /\ ~db.shared
               /\ Commit("owner", [db EXCEPT !.shared = TRUE, !.share = @ \cup db.items["src"]])
\* Takes no lock.
RevokeShare == /\ db.shared
               /\ db' = [db EXCEPT !.shared = FALSE, !.share = {}]
               /\ UNCHANGED <<tx, visit>>

\* A message block with one's own available emote.
Send(u, e) == /\ e \in (Of(db, u) \cap Live(db)) \ db.sent
              /\ Cardinality(db.sent) < MaxSent
              /\ db' = [db EXCEPT !.sent = @ \cup {e}]
              /\ UNCHANGED <<tx, visit>>
-----------------------------------------------------------------------------
ImportReads == /\ db.shared /\ ~visit.on /\ "copy" \notin db.exists
               /\ visit' = [on |-> TRUE, seen |-> db.share]
               /\ UNCHANGED <<db, tx>>

Imported(d) == /\ Fits(d) /\ db' = Edited(d) /\ visit' = Idle /\ UNCHANGED tx

\* Every item becomes a row of the fan: one with the same contents, whatever
\* it is used for, or a new one within the allowance.
ImportSnapshot ==
  LET own(s) == FindCustomEmoteByDigest(db, "fan", db.emote[s].pic)
      fresh == {s \in visit.seen : own(s) = {}}
      target == [s \in visit.seen |-> IF s \in fresh THEN db.next + Rank(fresh, s)
                                                     ELSE CHOOSE e \in own(s) : TRUE]
      bytes(s) == EmoteUsage(db, "fan") +
                  Cardinality({t \in visit.seen : t <= s /\ target[t] \notin Metered(db, "fan")})
  IN /\ visit.on /\ "copy" \notin db.exists
     /\ visit.seen \subseteq Live(db)
     /\ \A s \in fresh : bytes(s) <= Limit
     /\ db.next + Cardinality(fresh) <= MaxRows + 1
     /\ Imported([db EXCEPT
           !.emote = [e \in Ids |-> IF \E s \in visit.seen : target[s] = e
                        THEN LET s == CHOOSE x \in visit.seen : target[x] = e
                             IN IF s \in fresh
                                  THEN [state |-> "live", user |-> "fan", from |-> s,
                                        pic |-> db.emote[s].pic, label |-> db.emote[s].label]
                                  ELSE [@[e] EXCEPT !.state = "live"]
                        ELSE @[e]],
           !.next = @ + Cardinality(fresh),
           !.exists = @ \cup {"copy"}, !.items["copy"] = Range(target)])

\* Under the source's lock, which the owner's transaction holds while it runs.
ImportSubscribe ==
  /\ visit.on /\ ~tx.on /\ "src" \in db.exists /\ "copy" \notin db.exists
  /\ db.next + Cardinality(sourceItems(db)) <= MaxRows + 1
  /\ Imported(SyncFromScratch([db EXCEPT !.exists = @ \cup {"copy"},
                                         !.sub = [NoSub EXCEPT !.status = "active"]], {}))

ImportRejected == /\ visit.on /\ visit' = Idle /\ UNCHANGED <<db, tx>>

\* What is kept when the subscription stops becomes the fan's own.
DisableSubscription ==
  /\ db.sub.status = "active" /\ ~tx.on
  /\ EmoteUsage([db EXCEPT !.sub.status = "off"], "fan") <= Limit
  /\ Commit("fan", [db EXCEPT !.sub.status = "off"])
EnableSubscription ==
  /\ "copy" \in db.exists /\ "src" \in db.exists /\ ~tx.on
  /\ db.sub.status # "detached"
  /\ LET d == [db EXCEPT !.sub.status = "active", !.sub.rev = 0]
     IN /\ d.next + Cardinality(sourceItems(d)) <= MaxRows + 1
        /\ Commit("fan", syncSubscriptionRecord(d, Placed(d, "fan")))

\* A picture attached to a message is uploaded like any other.
favoriteAttachmentFromMessage(p) == StoreProcessed("fan", p, "none")
\* favoriteCustomReference: also of an emote its owner has removed.
FavoriteFromMessage(e) ==
  /\ e \in db.sent \cap Of(db, "owner")
  /\ LET same == FindReusableLocalEmote(db, "fan", db.emote[e].pic)
     IN \/ \E x \in same : Commit("fan", ensurePlacement(SetState(db, {x}, "live"), "fan", x, "none"))
        \/ /\ same = {}
           /\ EmoteUsage(db, "fan") + 1 <= Limit
           /\ db.next \in Ids
           /\ Commit("fan", ensurePlacement(InsertCustomEmote(db, db.next, "fan", db.emote[e].pic,
                                                              db.emote[e].label, e),
                                            "fan", db.next, "none"))
-----------------------------------------------------------------------------
Mutations(u) ==
  \/ \E c \in Colls, S \in SUBSET db.library : CreateCollection(u, c, S)
  \/ \E c \in Colls, e \in Ids : AddCollectionItems(u, c, e) \/ RemoveCollectionItem(u, c, e)
  \/ \E c \in Colls : ReorderCollection(u, c) \/ UpdateCollection(u, c)
  \/ \E e \in Ids : Update(u, e) \/ Remove(u, e)
  \/ \E c \in Colls, keep \in BOOLEAN : DeleteCollection(u, c, keep)

OwnerNext == OwnerBegins \/ Mutations("owner") \/ CreateShare \/ RevokeShare
             \/ \E p \in Pics, c \in {"src", "alt", "none"} : StoreProcessed("owner", p, c)
             \/ \E e \in Ids : Send("owner", e)
FanNext == Mutations("fan") \/ ImportReads \/ ImportSnapshot \/ ImportSubscribe \/ ImportRejected
           \/ DisableSubscription \/ EnableSubscription
           \/ \E e \in Ids : FavoriteFromMessage(e)
           \/ \E p \in Pics : favoriteAttachmentFromMessage(p)

Next == OwnerNext \/ FanNext
Spec == Init /\ [][Next]_vars
-----------------------------------------------------------------------------
\* A running subscription is at the revision of its source, its collection
\* holds exactly the mapped targets, and every mapped source emote is an item
\* of the source with the target's picture and label: each of the owner's
\* mutations synchronises in its own transaction (syncSubscriptionRecord).
SubscriptionInStep ==
  db.sub.status = "active" =>
    /\ db.sub.rev = db.rev
    /\ db.items["copy"] = Targets(db)
    /\ \A s \in DOMAIN db.sub.map :
         /\ s \in db.items["src"] /\ db.sub.map[s] \in Of(db, "fan")
         /\ db.emote[db.sub.map[s]].pic = db.emote[s].pic
         /\ db.emote[s].state = "live" => db.emote[db.sub.map[s]].label = db.emote[s].label

\* What the fan had placed in a library or an editable collection when the
\* owner's transaction looked stays as it is, whatever the owner does.
LocalIsYours ==
  [][tx.on /\ ~tx'.on => \A e \in tx.seen : db.emote[e].state = "live" =>
       db'.emote[e] = db.emote[e] /\ ((e \in db'.library) = (e \in db.library))
       /\ ((e \in db'.items["own"]) = (e \in db.items["own"]))]_vars

\* A subscription that is off or detached is a snapshot: no later step of the
\* owner changes the fan's collection or its rows, and the deletion of the
\* source changes nothing but the status.
SnapshotKept ==
  [][tx.on /\ ~tx'.on /\ db'.sub.status # "active" =>
       /\ db'.items["copy"] = db.items["copy"]
       /\ \A e \in Of(db, "fan") : db'.emote[e] = db.emote[e]]_vars

\* An emote used in a message keeps its row whoever removes it.
SentSurvives == db.sent \cup db.share \subseteq Rows(db)

TypeOK == /\ db.next \in 1 .. MaxRows + 1
          /\ db.sub.status \in {"none", "active", "off", "detached"}
          /\ DOMAIN db.sub.map \subseteq Ids /\ Targets(db) \subseteq Ids
          /\ \A c \in Colls : db.items[c] \subseteq Rows(db)
=============================================================================
