---------------------------- MODULE EmoteLibrary ----------------------------
(***************************************************************************)
(* One person's emote library as several of their tabs use it at once:     *)
(* the ordered list of entries (emotes and collections), built-in          *)
(* favourites, the emote settings, and the library view, which is put      *)
(* together from several statements.  Module Emotes has the collections'   *)
(* contents, shares and subscriptions; here a collection is empty.         *)
(*                                                                         *)
(* Mutations hold an advisory lock until they commit.  A reorder of the    *)
(* emotes reads the entries before its transaction, so its order may be    *)
(* out of date when it gets the lock.  A restart may hide packs.           *)
(***************************************************************************)
EXTENDS Integers, Sequences, FiniteSets, FiniteSetsExt, SequencesExt

CONSTANTS Requests,      \* tabs, each making one request
          Keys,          \* built-in pictures that can be favourites
          MaxRows,       \* bound on the emote rows ever inserted
          MaxEntries,    \* bound on the library entries ever inserted
          Packs,         \* packs of the catalogue
          DefaultPacks,  \* packs enabled by default
          Patches,       \* settings patches, see NoPatch
          Absent         \* a field that a patch leaves out

VARIABLES emote,     \* emote rows: state and picture
          colls,     \* the person's collections
          entry,     \* library entries: id, type, what they place, sort_order
          next,      \* the next entry id
          held,      \* who holds each advisory lock
          req,       \* the requests
          stored,    \* the preferences row
          chosen,    \* what the person last asked for, field by field
          visible,   \* packs not hidden by this process's configuration
          restarts,  \* restarts so far
          read       \* a running view of the library

emoteLibraryVars == <<emote, colls, entry, next, held, req, stored, chosen,
                      visible, restarts, read>>
libraryVars == <<emote, colls, entry, next>>
settingsVars == <<stored, chosen>>

Free == "free"
Collections == {"c1", "c2"}
Types == {"image", "emote"}
NoPatch == [packs |-> {Absent}, click |-> {Absent}, types |-> {Absent}]
NoRequest == [op |-> "none", at |-> "new", order |-> <<>>, row |-> 0, key |-> Absent,
              patch |-> NoPatch, seen |-> [packs |-> {}, click |-> FALSE, types |-> Types],
              result |-> <<>>]
NoRead == [at |-> "new", emotes |-> {}, colls |-> {}, shown |-> <<>>, steady |-> {}, ever |-> {}]

Rows == 1 .. MaxRows
Orders(S) == UNION {SetToSeqs(T) : T \in SUBSET S}
-----------------------------------------------------------------------------
Live == {e \in Rows : emote[e].state = "live"}
listLibraryEntries == SetToSortSeq(entry, LAMBDA a, b : a.pos < b.pos \/ (a.pos = b.pos /\ a.id < b.id))
Ids(s) == [i \in DOMAIN s |-> s[i].id]
LockFree(name) == held[name] = Free

\* EnsureLibraryEntry: in front of all others, unless the thing is placed already.
EnsureLibraryEntry(kind, of) ==
  IF \E n \in entry : n.kind = kind /\ n.of = of
  THEN UNCHANGED <<entry, next>>
  ELSE /\ next <= MaxEntries
       /\ entry' = entry \cup
            {[id |-> next, kind |-> kind, of |-> of,
              pos |-> Min({n.pos : n \in entry} \cup {0}) - 1]}
       /\ next' = next + 1
DeleteLibraryEntry(kind, of) == entry' = {n \in entry : ~(n.kind = kind /\ n.of = of)}

EmoteLibraryInit ==
  /\ \E k \in Keys, placed \in BOOLEAN :
       /\ emote = [e \in Rows |-> IF e = 1 THEN [state |-> IF placed THEN "live" ELSE "removed", key |-> k]
                                ELSE [state |-> "free", key |-> Absent]]
       /\ entry = {[id |-> 1, kind |-> "collection", of |-> "c1", pos |-> -1]} \cup
                  (IF placed THEN {[id |-> 2, kind |-> "emote", of |-> 1, pos |-> -2]} ELSE {})
  /\ colls = {"c1"}
  /\ next = 3
  /\ held = [name \in {"library", "settings"} |-> Free]
  /\ req = [r \in Requests |-> NoRequest]
  /\ stored = [saved |-> FALSE, packs |-> {}, click |-> FALSE, types |-> {}]
  /\ chosen = NoPatch
  /\ visible = Packs
  /\ restarts = 0
  /\ read = NoRead
-----------------------------------------------------------------------------
\* Order.  ReorderEmotes reads the entries without a lock, lets the collections
\* keep their places and hands the order of all entries to ReorderLibrary.
Permutes(s, S) == Len(s) = Cardinality(S) /\ Range(s) \subseteq S
EntryOf(lib, e) == CHOOSE i \in DOMAIN lib : lib[i].kind = "emote" /\ lib[i].of = e
OrderedEntryIDs(lib, wanted) ==
  [i \in DOMAIN lib |->
     IF lib[i].kind = "collection" THEN lib[i].id
     ELSE lib[EntryOf(lib, wanted[Cardinality({j \in 1 .. i : lib[j].kind = "emote"})])].id]
ReorderEmotes(r) ==
  /\ req[r].at = "new"
  /\ \E wanted \in Orders(Rows) :
       LET lib == listLibraryEntries
           mine == {n.of : n \in {m \in entry : m.kind = "emote"}}
       IN req' = [req EXCEPT ![r] =
                   IF Permutes(wanted, mine)
                   THEN [@ EXCEPT !.op = "reorder", !.at = "asked",
                                  !.order = OrderedEntryIDs(lib, wanted)]
                   ELSE [@ EXCEPT !.op = "reorder", !.at = "refused"]]
  /\ UNCHANGED <<libraryVars, settingsVars, held, visible, restarts>>
ReorderAsked(r) ==
  /\ req[r].at = "new"
  /\ \E ids \in Orders(1 .. next) :
       req' = [req EXCEPT ![r] = [@ EXCEPT !.op = "reorder", !.at = "asked", !.order = ids]]
  /\ UNCHANGED <<libraryVars, settingsVars, held, visible, restarts>>

SameEntries(ids) == Len(ids) = Cardinality(entry) /\ Range(ids) \subseteq {n.id : n \in entry}
Index(s, x) == CHOOSE i \in DOMAIN s : s[i] = x
ReorderLibrary(r) ==
  /\ req[r].op = "reorder" /\ req[r].at = "asked" /\ LockFree("library")
  /\ LET ids == req[r].order
         moved == {IF n.id \in Range(ids) THEN [n EXCEPT !.pos = Index(ids, n.id) - 1] ELSE n
                     : n \in entry}
         sorted == SetToSortSeq(moved, LAMBDA a, b : a.pos < b.pos \/ (a.pos = b.pos /\ a.id < b.id))
     IN IF SameEntries(ids)
        THEN /\ entry' = moved
             /\ req' = [req EXCEPT ![r] = [@ EXCEPT !.at = "done", !.result = Ids(sorted)]]
        ELSE /\ req' = [req EXCEPT ![r].at = "refused"]
             /\ UNCHANGED entry
  /\ UNCHANGED <<emote, colls, next, settingsVars, held, visible, restarts>>
-----------------------------------------------------------------------------
\* Favourites and removals.
FindBuiltinEmote(k) == {e \in Rows : emote[e].key = k /\ emote[e].state \in {"live", "removed"}}
FavoriteBegins(r) ==
  /\ req[r].at = "new" /\ LockFree("library")
  /\ held' = [held EXCEPT !["library"] = r]
  /\ \E k \in Keys :
       req' = [req EXCEPT ![r] =
                 [@ EXCEPT !.op = "favorite", !.at = "locked", !.key = k,
                           !.row = IF FindBuiltinEmote(k) = {} THEN 0
                                   ELSE CHOOSE e \in FindBuiltinEmote(k) : TRUE]]
  /\ UNCHANGED <<libraryVars, settingsVars, visible, restarts>>
CreateBuiltinFavorite(r) ==
  /\ req[r].op = "favorite" /\ req[r].at = "locked"
  /\ \/ /\ req[r].row # 0
        /\ emote' = [emote EXCEPT ![req[r].row].state = "live"]
        /\ EnsureLibraryEntry("emote", req[r].row)
     \/ /\ req[r].row = 0
        /\ \E e \in {f \in Rows : \A g \in Rows : emote[g].state = "free" <=> g >= f} :
             /\ emote' = [emote EXCEPT ![e] = [state |-> "live", key |-> req[r].key]]
             /\ EnsureLibraryEntry("emote", e)
  /\ held' = [held EXCEPT !["library"] = IF @ = r THEN Free ELSE @]
  /\ req' = [req EXCEPT ![r].at = "done"]
  /\ UNCHANGED <<colls, settingsVars, visible, restarts>>

\* RemoveEmote: the row stays behind, marked, when a message or a share uses it.
RemoveEmote(r) ==
  /\ req[r].at = "new" /\ LockFree("library")
  /\ \E e \in Live, kept \in BOOLEAN :
       /\ DeleteLibraryEntry("emote", e)
       /\ emote' = [emote EXCEPT ![e].state = IF kept THEN "removed" ELSE "deleted"]
  /\ req' = [req EXCEPT ![r] = [@ EXCEPT !.op = "remove", !.at = "done"]]
  /\ UNCHANGED <<colls, next, settingsVars, held, visible, restarts>>
CreateCollection(r) ==
  /\ req[r].at = "new" /\ LockFree("library")
  /\ \E c \in Collections \ colls : colls' = colls \cup {c} /\ EnsureLibraryEntry("collection", c)
  /\ req' = [req EXCEPT ![r] = [@ EXCEPT !.op = "create", !.at = "done"]]
  /\ UNCHANGED <<emote, settingsVars, held, visible, restarts>>
DeleteCollection(r) ==
  /\ req[r].at = "new" /\ LockFree("library")
  /\ \E c \in colls : colls' = colls \ {c} /\ DeleteLibraryEntry("collection", c)
  /\ req' = [req EXCEPT ![r] = [@ EXCEPT !.op = "delete", !.at = "done"]]
  /\ UNCHANGED <<emote, next, settingsVars, held, visible, restarts>>
-----------------------------------------------------------------------------
\* Settings: what a stored row means depends on the packs that are visible now.
FallbackPacks == IF DefaultPacks \cap visible # {} THEN DefaultPacks \cap visible
                 ELSE {CHOOSE p \in visible : TRUE}
settingsFromRecord(row) ==
  [packs |-> IF row.packs \cap visible = {} THEN FallbackPacks ELSE row.packs \cap visible,
   click |-> row.click, types |-> IF row.saved THEN row.types ELSE Types]

SettingsBegin(r) ==
  /\ req[r].at = "new" /\ LockFree("settings")
  /\ held' = [held EXCEPT !["settings"] = r]
  /\ \E p \in Patches :
       req' = [req EXCEPT ![r] = [@ EXCEPT !.op = "settings", !.at = "locked", !.patch = p,
                                           !.seen = settingsFromRecord(stored)]]
  /\ UNCHANGED <<libraryVars, settingsVars, visible, restarts>>
AutoHideTypesKnown(p) == p.types \subseteq Types
PacksUsable(p) == p.packs # {} /\ p.packs \subseteq visible
UpdateSettings(r) ==
  /\ req[r].op = "settings" /\ req[r].at = "locked"
  /\ LET p == req[r].patch
         seen == req[r].seen
         refused == \/ p.packs # {Absent} /\ ~PacksUsable(p)
                    \/ p.types # {Absent} /\ ~AutoHideTypesKnown(p)
     IN IF refused
        THEN /\ req' = [req EXCEPT ![r].at = "refused"]
             /\ UNCHANGED settingsVars
        ELSE /\ stored' = [saved |-> TRUE,
                           packs |-> IF p.packs # {Absent} THEN p.packs ELSE seen.packs,
                           click |-> IF p.click # {Absent} THEN p.click = {"on"} ELSE seen.click,
                           types |-> IF p.types # {Absent} THEN p.types ELSE seen.types]
             /\ chosen' = [f \in DOMAIN p |-> IF p[f] # {Absent} THEN p[f] ELSE chosen[f]]
             /\ req' = [req EXCEPT ![r].at = "done"]
  /\ held' = [held EXCEPT !["settings"] = IF @ = r THEN Free ELSE @]
  /\ UNCHANGED <<libraryVars, visible, restarts>>

\* The connection is lost: the transaction is rolled back, its lock released.
RollBack(r) ==
  /\ req[r].at = "locked"
  /\ held' = [name \in DOMAIN held |-> IF held[name] = r THEN Free ELSE held[name]]
  /\ req' = [req EXCEPT ![r].at = "failed"]
  /\ UNCHANGED <<libraryVars, settingsVars, visible, restarts>>
\* A restart ends what runs and may hide packs (not all of them).
Restart(v) ==
  /\ restarts = 0 /\ restarts' = 1
  /\ visible' = v
  /\ read' = IF read.at = "done" THEN read ELSE NoRead
  /\ held' = [name \in DOMAIN held |-> Free]
  /\ req' = [r \in Requests |-> IF req[r].at \in {"asked", "locked"}
                                THEN [req[r] EXCEPT !.at = "failed"] ELSE req[r]]
  /\ UNCHANGED <<libraryVars, settingsVars>>
-----------------------------------------------------------------------------
\* buildLibrary: one statement each for the emotes, the collections, the entries.
Placed == {n \in entry : IF n.kind = "emote" THEN n.of \in Live ELSE n.of \in colls}
Watched ==
  IF read.at \in {"new", "done"} THEN read
  ELSE [read EXCEPT !.steady = @ \cap {n.id : n \in Placed'}, !.ever = @ \cup Live']

WithRemoved == {e \in Rows : emote[e].state \in {"live", "removed"}}
listCustomEmotes == Live
ReadEmotes ==
  /\ read.at = "new"
  /\ read' = [read EXCEPT !.at = "emotes", !.emotes = listCustomEmotes,
                          !.steady = {n.id : n \in Placed}, !.ever = Live]
ReadCollections ==
  /\ read.at = "emotes"
  /\ read' = [read EXCEPT !.at = "collections", !.colls = colls]
Resolved(n) == \/ n.kind = "emote" /\ n.of \in read.emotes
               \/ n.kind = "collection" /\ n.of \in read.colls
buildLibrary ==
  /\ read.at = "collections"
  /\ read' = [read EXCEPT !.at = "done", !.shown = SelectSeq(listLibraryEntries, Resolved)]
Reads ==
  /\ ReadEmotes \/ ReadCollections \/ buildLibrary
  /\ UNCHANGED <<libraryVars, held, req, settingsVars, visible, restarts>>
-----------------------------------------------------------------------------
EmoteLibraryNext ==
  \/ \E r \in Requests :
       /\ \/ ReorderEmotes(r) \/ ReorderAsked(r) \/ ReorderLibrary(r)
          \/ FavoriteBegins(r) \/ CreateBuiltinFavorite(r) \/ RemoveEmote(r)
          \/ CreateCollection(r) \/ DeleteCollection(r)
          \/ SettingsBegin(r) \/ UpdateSettings(r) \/ RollBack(r)
       /\ read' = Watched
  \/ \E v \in SUBSET visible \ {{}} : Restart(v)
  \/ Reads
-----------------------------------------------------------------------------
\* Types of the state; an advisory lock is held by a request that waits to commit.
EmoteLibraryTypeOK ==
  /\ \A n \in entry : /\ n.id \in 1 .. next - 1
                      /\ n.pos \in -MaxEntries .. MaxEntries
                      /\ n.of \in (IF n.kind = "emote" THEN Rows ELSE Collections)
  /\ \A name \in DOMAIN held : held[name] # Free => req[held[name]].at = "locked"

\* A reorder that is answered with success left the library in exactly the order
\* that was asked for: an entry another tab added or removed after the order was
\* read makes it refuse, instead of leaving that entry at a place nobody chose.
OrderIsAsked ==
  \A r \in Requests : req[r].op = "reorder" /\ req[r].at = "done" => req[r].result = req[r].order

\* Two tabs that favour one built-in picture at the same time, or favour it again
\* after its removal, end up with one row and one entry for it.  No unique key
\* says so: the search must happen under the library's lock.
FavoriteOnce ==
  /\ \A e, f \in WithRemoved : emote[e].key = emote[f].key => e = f
  /\ \A m, n \in entry : m.kind = n.kind /\ m.of = n.of => m = n

\* Settings patches of two tabs compose: each field is what was last asked for it,
\* though every save writes the whole row.
SettingsCompose ==
  LET shown == settingsFromRecord(stored) IN
  /\ chosen.click # {Absent} => shown.click = (chosen.click = {"on"})
  /\ chosen.types # {Absent} => shown.types = chosen.types
  /\ chosen.packs # {Absent} /\ restarts = 0 => shown.packs = chosen.packs

\* Whatever was saved before packs were hidden, the person is shown at least one
\* enabled pack, and only packs that exist for them.
UsablePacks ==
  LET shown == settingsFromRecord(stored) IN shown.packs # {} /\ shown.packs \subseteq visible

\* A library view put together while other tabs work shows every entry that was
\* there all along, in the stored order, and no emote that was removed before the
\* view began.
LibraryViewSound ==
  read.at = "done" => /\ read.steady \subseteq Range(Ids(read.shown))
                      /\ read.emotes \subseteq read.ever
=============================================================================
