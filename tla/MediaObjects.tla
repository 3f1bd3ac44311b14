---------------------------- MODULE MediaObjects ----------------------------
(***************************************************************************)
(* Content-addressed objects under emotes (workspace/emotes) and avatars   *)
(* (workspace/avatars): one blob and one registry row per picture, shared  *)
(* by every row that refers to it, deleted with the last reference.        *)
(*                                                                         *)
(* A request holds its advisory locks until its transaction ends.  The     *)
(* bytes are written inside the transaction, before the row that needs     *)
(* them; a transaction that fails or a reference that goes is followed by  *)
(* a cleanup in a transaction of its own.  An import refers to the bytes   *)
(* of another user's emote without the object's lock: the foreign key on   *)
(* the source row keeps that row, and with it the bytes, until the import  *)
(* ends.                                                                   *)
(***************************************************************************)
EXTENDS Naturals, FiniteSets

CONSTANTS Users, Pics, Requests, NoPic, NoUser,
          MaxMishaps   \* bound on crashes and failing storage or database calls

VARIABLES blob,     \* pictures whose bytes are stored
          object,   \* workspace_storage_objects: none, live, deleted (tombstone)
          emote,    \* user and picture of the custom emote rows -> user of the source row
          avatar,   \* users.avatar_storage_object_id
          req,      \* the requests
          mishaps

vars == <<blob, object, emote, avatar, req, mishaps>>

Free == [op |-> "idle", user |-> NoUser, pic |-> NoPic, old |-> NoPic, src |-> NoUser,
         known |-> FALSE]
Rows == DOMAIN emote
References(p) == Cardinality({r \in Rows : r[2] = p}) + Cardinality({u \in Users : avatar[u] = p})

libraryLock(u) == <<"workspace-emote-library", u>>
avatarResourceLock(u) == <<"workspace-avatar", u>>
storageObjectLock(p) == <<"workspace-storage-object", p>>

storeLocksWithoutObject(j) == {libraryLock(j.user)}
storeLocks(j) == {libraryLock(j.user), storageObjectLock(j.pic)}
avatarLocks(j) == {avatarResourceLock(j.user)} \cup
                  {storageObjectLock(p) : p \in {j.pic, j.old} \ {NoPic}}
Held(j) ==
  CASE j.op = "store" -> storeLocks(j)
    [] j.op = "avatar" -> avatarLocks(j)
    [] j.op \in {"import", "imported", "favorite"} -> {libraryLock(j.user)}
    [] OTHER -> {}
Grab(r, ks) == \A q \in Requests \ {r} : ks \cap Held(req[q]) = {}

Become(r, j) == req' = [req EXCEPT ![r] = j]
End(r) == Become(r, Free)
CleanupOf(op, p, known) == [Free EXCEPT !.op = op, !.pic = p, !.known = known]
Trouble == mishaps < MaxMishaps /\ mishaps' = mishaps + 1
Fine == UNCHANGED mishaps
-----------------------------------------------------------------------------
Init == /\ blob = {} /\ object = [p \in Pics |-> "none"]
        /\ emote = << >> /\ avatar = [u \in Users |-> NoPic]
        /\ req = [r \in Requests |-> Free] /\ mishaps = 0

\* The locks and the bytes; a Put that fails leaves what was there.
StorePut(r, u, p) ==
  LET j == [Free EXCEPT !.op = "store", !.user = u, !.pic = p]
  IN /\ req[r] = Free /\ Grab(r, storeLocks(j))
     /\ \/ Become(r, j) /\ blob' = blob \cup {p} /\ Fine
        \/ Become(r, CleanupOf("cleanup_emote", p, TRUE)) /\ Trouble /\ UNCHANGED blob
     /\ UNCHANGED <<object, emote, avatar>>

\* AcquireStorageObject revives a tombstone; one row per user and contents.
StoreCommit(r) ==
  LET j == req[r]
  IN /\ j.op = "store"
     /\ object' = [object EXCEPT ![j.pic] = "live"]
     /\ emote' = IF <<j.user, j.pic>> \in Rows THEN emote
                 ELSE [x \in Rows \cup {<<j.user, j.pic>>} |->
                         IF x \in Rows THEN emote[x] ELSE NoUser]
     /\ End(r) /\ Fine /\ UNCHANGED <<blob, avatar>>

\* The allowance is exhausted, the collection is read-only or gone, or the
\* database fails: everything but the bytes is undone.
StoreRefused(r) ==
  /\ req[r].op = "store"
  /\ Become(r, CleanupOf("cleanup_emote", req[r].pic, TRUE))
  /\ Fine /\ UNCHANGED <<blob, object, emote, avatar>>

\* The row goes if nothing refers to it; FOR UPDATE waits for an import that
\* has inserted its own reference.
AwaitImports(u, p) == \A q \in Requests : ~(req[q].op = "imported" /\ req[q].src = u /\ req[q].pic = p)
RemoveEmote(r, u, p) ==
  /\ req[r] = Free /\ Grab(r, {libraryLock(u)})
  /\ <<u, p>> \in Rows
  /\ AwaitImports(u, p)
  /\ \A x \in Rows : ~(emote[x] = u /\ x[2] = p)
  /\ emote' = [x \in Rows \ {<<u, p>>} |-> emote[x]]
  /\ Become(r, CleanupOf("cleanup_emote", p, FALSE))
  /\ Fine /\ UNCHANGED <<blob, object, avatar>>

\* ImportShare and createSubscriptionTarget: read the source row, insert the
\* copy with its key, commit.
ImportReads(r, u, s, p) ==
  /\ req[r] = Free /\ u # s /\ Grab(r, {libraryLock(u)})
  /\ <<s, p>> \in Rows /\ <<u, p>> \notin Rows
  /\ Become(r, [Free EXCEPT !.op = "import", !.user = u, !.src = s, !.pic = p])
  /\ Fine /\ UNCHANGED <<blob, object, emote, avatar>>
ImportInserts(r) ==
  LET j == req[r]
  IN /\ j.op = "import"
     /\ IF <<j.src, j.pic>> \in Rows THEN Become(r, [j EXCEPT !.op = "imported"]) ELSE End(r)
     /\ Fine /\ UNCHANGED <<blob, object, emote, avatar>>
ImportCommits(r) ==
  LET j == req[r]
  IN /\ j.op = "imported"
     /\ emote' = [x \in Rows \cup {<<j.user, j.pic>>} |-> IF x \in Rows THEN emote[x] ELSE j.src]
     /\ End(r) /\ Fine /\ UNCHANGED <<blob, object, avatar>>

\* favoriteCustomReference: the source row, then the object's lock and row.
FavoriteReads(r, u, s, p) ==
  /\ req[r] = Free /\ u # s /\ Grab(r, {libraryLock(u)})
  /\ <<s, p>> \in Rows /\ <<u, p>> \notin Rows
  /\ Become(r, [Free EXCEPT !.op = "favorite", !.user = u, !.src = s, !.pic = p])
  /\ Fine /\ UNCHANGED <<blob, object, emote, avatar>>
FavoriteCommits(r) ==
  LET j == req[r]
      accepted == object[j.pic] = "live" /\ <<j.src, j.pic>> \in Rows
  IN /\ j.op = "favorite" /\ Grab(r, {storageObjectLock(j.pic)})
     /\ emote' = IF accepted
                   THEN [x \in Rows \cup {<<j.user, j.pic>>} |->
                           IF x \in Rows THEN emote[x] ELSE j.src]
                   ELSE emote
     /\ End(r) /\ Fine /\ UNCHANGED <<blob, object, avatar>>
-----------------------------------------------------------------------------
\* SetOwnAvatar locks the old and the new object in the order of their keys.
AvatarPut(r, u, p) ==
  LET j == [Free EXCEPT !.op = "avatar", !.user = u, !.pic = p, !.old = avatar[u]]
  IN /\ req[r] = Free /\ Grab(r, avatarLocks(j))
     /\ \/ Become(r, j) /\ blob' = blob \cup {p} /\ Fine
        \/ Become(r, CleanupOf("cleanup_avatar", p, TRUE)) /\ Trouble /\ UNCHANGED blob
     /\ UNCHANGED <<object, emote, avatar>>
AvatarCommit(r) ==
  LET j == req[r]
  IN /\ j.op = "avatar"
     /\ object' = [object EXCEPT ![j.pic] = "live"]
     /\ avatar' = [avatar EXCEPT ![j.user] = j.pic]
     /\ IF j.old \in {NoPic, j.pic} THEN End(r)
        ELSE Become(r, CleanupOf("cleanup_avatar", j.old, TRUE))
     /\ Fine /\ UNCHANGED <<blob, emote>>
AvatarFails(r) ==
  /\ req[r].op = "avatar" /\ Trouble
  /\ Become(r, CleanupOf("cleanup_avatar", req[r].pic, TRUE))
  /\ UNCHANGED <<blob, object, emote, avatar>>
RemoveOwnAvatar(r, u) ==
  /\ req[r] = Free /\ avatar[u] # NoPic
  /\ Grab(r, {avatarResourceLock(u), storageObjectLock(avatar[u])})
  /\ avatar' = [avatar EXCEPT ![u] = NoPic]
  /\ Become(r, CleanupOf("cleanup_avatar", avatar[u], TRUE))
  /\ Fine /\ UNCHANGED <<blob, object, emote>>
-----------------------------------------------------------------------------
\* What a cleanup may delete: nothing is registered and the caller knows the
\* key, or the registered object has no reference left.
Unregistered(r, p) == object[p] = "none" /\ req[r].known
Unreferenced(p) == object[p] # "none" /\ References(p) = 0

\* Emotes leave a tombstoned object alone; the bytes go before the tombstone
\* is written, so a failing database call leaves a row without bytes.
emoteMayDelete(r, p) == Unregistered(r, p) \/ (object[p] = "live" /\ Unreferenced(p))
CleanupEmoteObject(r) ==
  LET p == req[r].pic
      delete == emoteMayDelete(r, p)
  IN /\ req[r].op = "cleanup_emote" /\ Grab(r, {storageObjectLock(p)})
     /\ blob' = IF delete THEN blob \ {p} ELSE blob
     /\ \/ /\ object' = IF delete /\ object[p] = "live" THEN [object EXCEPT ![p] = "deleted"] ELSE object
           /\ Fine
        \/ UNCHANGED object /\ delete /\ Trouble
     /\ End(r) /\ UNCHANGED <<emote, avatar>>

\* Avatars tombstone first; a Delete that fails undoes the tombstone, a
\* commit that fails after it leaves a row without bytes.
avatarMayDelete(r, p) == Unregistered(r, p) \/ Unreferenced(p)
CleanupAvatarObject(r) ==
  LET p == req[r].pic
      delete == avatarMayDelete(r, p)
  IN /\ req[r].op = "cleanup_avatar" /\ Grab(r, {storageObjectLock(p)})
     /\ \/ /\ object' = IF delete /\ object[p] = "live" THEN [object EXCEPT ![p] = "deleted"] ELSE object
           /\ blob' = IF delete THEN blob \ {p} ELSE blob
           /\ Fine
        \/ delete /\ Trouble /\ UNCHANGED object /\ blob' \in {blob, blob \ {p}}
     /\ End(r) /\ UNCHANGED <<emote, avatar>>

\* The process dies: its transaction is rolled back, its cleanup never runs.
Crash(r) == /\ req[r] # Free /\ Trouble /\ End(r)
            /\ UNCHANGED <<blob, object, emote, avatar>>

Next ==
  \E r \in Requests :
    \/ \E u \in Users, p \in Pics :
         StorePut(r, u, p) \/ RemoveEmote(r, u, p) \/ AvatarPut(r, u, p)
    \/ \E u, s \in Users, p \in Pics : ImportReads(r, u, s, p) \/ FavoriteReads(r, u, s, p)
    \/ \E u \in Users : RemoveOwnAvatar(r, u)
    \/ StoreCommit(r) \/ StoreRefused(r) \/ ImportInserts(r) \/ ImportCommits(r)
    \/ FavoriteCommits(r) \/ AvatarCommit(r) \/ AvatarFails(r)
    \/ CleanupEmoteObject(r) \/ CleanupAvatarObject(r) \/ Crash(r)
Spec == Init /\ [][Next]_vars
-----------------------------------------------------------------------------
\* Every committed emote and avatar has its bytes in the store and a live
\* registry row, whatever uploads, removals, imports, cleanups and faults run
\* at the same time (the locks of storeLocks and avatarLocks, the foreign key
\* of AwaitImports, the reference count of a cleanup).
MediaPresent ==
  /\ \A x \in Rows : x[2] \in blob /\ object[x[2]] = "live"
  /\ \A u \in Users : avatar[u] # NoPic => avatar[u] \in blob /\ object[avatar[u]] = "live"

\* When nothing failed and nothing runs, stored bytes are either referred to
\* or those of a tombstone: a refused upload and a lost last reference leave
\* no live or unknown object behind.
NothingLeftBehind ==
  mishaps = 0 /\ (\A r \in Requests : req[r] = Free) =>
    \A p \in Pics : References(p) = 0 => object[p] # "live" /\ (object[p] = "none" => p \notin blob)
=============================================================================
