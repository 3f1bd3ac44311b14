---------------------------- MODULE GroupSettings ----------------------------
(***************************************************************************)
(* The settings of one group (title, avatar), of its members (level of     *)
(* notification) and of a person (profile), the system messages that       *)
(* announce a change, and what a viewer is shown of the group and of who   *)
(* is visible: reads of several statements beside the writes. Who is in    *)
(* the group, who is an admin and who hides a message is decided elsewhere *)
(* (Conversations, Membership, Messages) and changes here freely. A patch  *)
(* leaves a field out with Absent; every transaction is numbered by the    *)
(* time it began.                                                          *)
(***************************************************************************)
EXTENDS Naturals, FiniteSets, Sequences

CONSTANTS Users, Requests, Viewer,
          Patches,            \* of a group: [title, avatar]
          ProfilePatches,     \* [nickname, discoverable]
          Levels, Absent, NoName, RetentionCount,
          MaxOps, MaxChanges  \* bounds

VARIABLES role, inGroup, group, level, profile,
          message,            \* in the order of insertion: [at, what, deleted]
          hidden,             \* messages the viewer hides
          direct, grants,     \* who the viewer sees by conversation and by grant
          events,             \* conversation.updated, by sequence number
          clock, changes,
          request,            \* transactions waiting for their locks
          wanted,             \* ghost: the last value a committed patch gave each field
          announced,          \* ghost: changes that took effect
          view, rule          \* reads under way

groupVars == <<role, inGroup, group, level, profile, message, hidden, direct, grants, events, clock, changes, request,
               wanted, announced, view, rule>>
writeVars == <<role, inGroup, group, level, profile, message, hidden, direct, grants, events, clock, changes, request, wanted, announced>>

NoRequest == [op |-> "none", user |-> Viewer, patch |-> [title |-> Absent, avatar |-> Absent], level |-> "all", at |-> 0]
NoView == [pc |-> "none", title |-> "", members |-> {}, latest |-> {}, before |-> {}, preview |-> 0]
NoRule == [pc |-> "none", automatic |-> {}, granted |-> {}, possible |-> {}]

(* The shape of every variable.                                            *)
GroupTypeOK ==
  /\ role \in [Users -> {"admin", "member"}] /\ inGroup \subseteq Users /\ level \in [Users -> Levels]
  /\ hidden \subseteq DOMAIN message /\ direct \subseteq Users /\ grants \subseteq Users
  /\ clock \in 0..MaxOps /\ changes \in 0..MaxChanges
  /\ view.pc \in {"none", "record", "members", "latest", "shown"} /\ rule.pc \in {"none", "automatic", "always", "read"}

GroupInit ==
  /\ role = [u \in Users |-> "admin"] /\ inGroup = Users /\ group = [title |-> "t0", avatar |-> "none"]
  /\ level = [u \in Users |-> "all"] /\ profile = [u \in Users |-> [nickname |-> NoName, discoverable |-> "yes"]]
  /\ message = <<>> /\ hidden = {} /\ direct = {} /\ grants = {} /\ events = <<>> /\ clock = 0 /\ changes = 0
  /\ request = [q \in Requests |-> NoRequest] /\ wanted = group /\ announced = 0 /\ view = NoView /\ rule = NoRule
-----------------------------------------------------------------------------
(* inTransaction: the actor is read and the time is taken before any lock. *)
inTransaction(q, u, op, patch, lvl) ==
  /\ request[q].op = "none" /\ clock < MaxOps /\ clock' = clock + 1
  /\ op = "group" => role[u] = "admin"
  /\ request' = [request EXCEPT ![q] = [op |-> op, user |-> u, patch |-> patch, level |-> lvl, at |-> clock + 1]]
  /\ UNCHANGED <<role, inGroup, group, level, profile, message, hidden, direct, grants, events, changes, wanted, announced, view, rule>>

Patched(old, new) == IF new = Absent THEN old ELSE new
(* A row read before the lock: the title that was there at the start.      *)
Merge(patch) == [title |-> Patched(group.title, patch.title), avatar |-> Patched(group.avatar, patch.avatar)]

(* createSystemMessage, for a field that changed: insert, keep the newest  *)
(* RetentionCount; a message that its own retention deletes fails the      *)
(* transaction.                                                            *)
Newer(all, i) == {j \in DOMAIN all : ~all[j].deleted /\ (all[j].at > all[i].at \/ (all[j].at = all[i].at /\ j > i))}
CreateSystemMessage(all, what, at) ==
  LET inserted == Append(all, [at |-> at, what |-> what, deleted |-> FALSE])
  IN [i \in DOMAIN inserted |-> [inserted[i] EXCEPT !.deleted = @ \/ Cardinality(Newer(inserted, i)) >= RetentionCount]]
createSystemMessage(all, field, old, new, at) ==
  IF old = new THEN all ELSE CreateSystemMessage(all, [field |-> field, value |-> new], at)

End(q) == request' = [request EXCEPT ![q] = NoRequest]
(* UpdateGroup from its locks to the commit. An admin outside the group    *)
(* cannot be shown the result, which fails the whole update.               *)
UpdateGroup(q) ==
  LET r == request[q]
      new == Merge(r.patch)
      titled == createSystemMessage(message, "title", group.title, new.title, r.at)
      after == createSystemMessage(titled, "avatar", group.avatar, new.avatar, r.at)
      allowed == role[r.user] = "admin" /\ new.title # "" /\ r.user \in inGroup
      kept == \A i \in Len(message) + 1..Len(after) : ~after[i].deleted
  IN /\ r.op = "group" /\ End(q)
     /\ IF allowed /\ kept
        THEN /\ group' = new /\ message' = after /\ events' = Append(events, new)
             /\ wanted' = [title |-> Patched(wanted.title, r.patch.title), avatar |-> Patched(wanted.avatar, r.patch.avatar)]
             /\ announced' = announced + (IF group.title # new.title THEN 1 ELSE 0) + (IF group.avatar # new.avatar THEN 1 ELSE 0)
        ELSE UNCHANGED <<group, message, events, wanted, announced>>
     /\ UNCHANGED <<role, inGroup, level, profile, hidden, direct, grants, clock, changes, view, rule>>

UpdateNotificationLevel(u, l) == IF u \in inGroup THEN [level EXCEPT ![u] = l] ELSE level
UpdateNotification(q) ==
  /\ request[q].op = "level" /\ End(q)
  /\ level' = UpdateNotificationLevel(request[q].user, request[q].level)
  /\ UNCHANGED <<role, inGroup, group, profile, message, hidden, direct, grants, events, clock, changes, wanted, announced, view, rule>>

(* One UPDATE with a CASE per field.                                       *)
UpdateOwnProfile(u, p) ==
  /\ changes < MaxChanges /\ changes' = changes + 1
  /\ profile' = [profile EXCEPT ![u] = [nickname |-> Patched(@.nickname, p.nickname),
                                            discoverable |-> Patched(@.discoverable, p.discoverable)]]
  /\ UNCHANGED <<role, inGroup, group, level, message, hidden, direct, grants, events, clock, request, wanted, announced, view, rule>>
-----------------------------------------------------------------------------
(* What goes on around: at any time, MaxChanges times. Whoever leaves      *)
(* loses the level with the membership (UpsertConversationMember keeps it).*)
Around ==
  /\ changes < MaxChanges /\ changes' = changes + 1
  /\ \/ \E u \in Users : role' = [role EXCEPT ![u] = IF @ = "admin" THEN "member" ELSE "admin"]
           /\ UNCHANGED <<inGroup, message, hidden, direct, grants>>
     \/ \E u \in Users : inGroup' = (IF u \in inGroup THEN inGroup \ {u} ELSE inGroup \union {u})
           /\ UNCHANGED <<role, message, hidden, direct, grants>>
     \/ \E i \in DOMAIN message \ hidden : hidden' = hidden \union {i}
           /\ UNCHANGED <<role, inGroup, message, direct, grants>>
     \/ \E u \in Users \ {Viewer} : direct' = (IF u \in direct THEN direct \ {u} ELSE direct \union {u})
           /\ UNCHANGED <<role, inGroup, message, hidden, grants>>
     \/ \E u \in Users \ {Viewer} : grants' = (IF u \in grants THEN grants \ {u} ELSE grants \union {u})
           /\ UNCHANGED <<role, inGroup, message, hidden, direct>>
  /\ rule' = [rule EXCEPT !.possible = IF rule.pc = "none" THEN @ ELSE @ \union direct' \union grants']
  /\ UNCHANGED <<group, level, profile, events, clock, request, wanted, announced, view>>
-----------------------------------------------------------------------------
(* GetConversation for the viewer: the record, the members, the newest     *)
(* messages, what of them is hidden; each statement sees what is committed *)
(* by then. projectMember names a member. One read is enough: a bound.     *)
GetVisibleConversationRecord ==
  /\ view.pc = "none" /\ rule.pc = "none" /\ Viewer \in inGroup
  /\ view' = [NoView EXCEPT !.pc = "record", !.title = group.title, !.before = hidden]
  /\ UNCHANGED <<writeVars, rule>>
projectMember(u) == [id |-> u, name |-> IF profile[u].nickname = NoName THEN u ELSE profile[u].nickname]
ListConversationMembers ==
  /\ view.pc = "record"
  /\ view' = [view EXCEPT !.pc = "members", !.members = {projectMember(u) : u \in inGroup}]
  /\ UNCHANGED <<writeVars, rule>>
ListLatestMessages ==
  /\ view.pc = "members"
  /\ view' = [view EXCEPT !.pc = "latest", !.latest = {i \in DOMAIN message : ~message[i].deleted}]
  /\ UNCHANGED <<writeVars, rule>>
NewestOf(ids) == CHOOSE i \in ids : \A j \in ids : message[j].at < message[i].at \/ (message[j].at = message[i].at /\ j <= i)
LastMessagePlainText(shown) == IF shown = {} THEN 0 ELSE NewestOf(shown)
hydrateMessageRecords ==
  /\ view.pc = "latest"
  /\ view' = [view EXCEPT !.pc = "shown", !.preview = LastMessagePlainText(view.latest \ hidden)]
  /\ UNCHANGED <<writeVars, rule>>

(* getVisibilityRule: by conversation, the robots, by grant.               *)
AutomaticRows ==
  /\ rule.pc = "none" /\ view.pc = "none"
  /\ rule' = [pc |-> "automatic", automatic |-> direct, granted |-> {}, possible |-> direct \union grants]
  /\ UNCHANGED <<writeVars, view>>
AlwaysRows ==
  /\ rule.pc = "automatic" /\ rule' = [rule EXCEPT !.pc = "always", !.automatic = @ \union {"echo"}]
  /\ UNCHANGED <<writeVars, view>>
GrantedRows == grants
getVisibilityRule ==
  /\ rule.pc = "always" /\ rule' = [rule EXCEPT !.pc = "read", !.granted = GrantedRows]
  /\ UNCHANGED <<writeVars, view>>
-----------------------------------------------------------------------------
GroupNext ==
  \/ \E q \in Requests, u \in Users :
       \/ \E patch \in Patches : inTransaction(q, u, "group", patch, "all")
       \/ \E l \in Levels : inTransaction(q, u, "level", NoRequest.patch, l)
  \/ \E q \in Requests : UpdateGroup(q) \/ UpdateNotification(q)
  \/ \E u \in Users, p \in ProfilePatches : UpdateOwnProfile(u, p)
  \/ Around
  \/ GetVisibleConversationRecord \/ ListConversationMembers \/ ListLatestMessages \/ hydrateMessageRecords
  \/ AutomaticRows \/ AlwaysRows \/ getVisibilityRule
-----------------------------------------------------------------------------
(* Two admins who change different settings at the same time both get      *)
(* their way: each field has the value the last update gave it that named  *)
(* it, and the newest event tells every client the settings that hold.     *)
PatchesCompose ==
  /\ group = wanted
  /\ events # <<>> => events[Len(events)] = group

(* Every change that took effect was announced once and nothing else was:  *)
(* a patch that names the present value says nothing, and the last         *)
(* announcement of a field that was made names its value.                  *)
AnnouncedOnce ==
  /\ Len(message) = announced
  /\ \A f \in {"title", "avatar"} :
       LET of == {i \in DOMAIN message : message[i].what.field = f} IN
       of # {} => message[CHOOSE i \in of : \A j \in of : j <= i].what.value = group[f]

(* The line that previews the group never shows a message the viewer had   *)
(* hidden before the page was read, however the read is interleaved.       *)
PreviewNotHidden == view.preview \notin view.before

(* Who is told to be visible was visible at some moment of the read.       *)
RuleWasTrue == rule.pc = "read" => rule.automatic \union rule.granted \subseteq rule.possible \union {"echo"}

(* Nobody who left sets a level: who returns finds the one they had.       *)
LevelOfMembersOnly == [][\A u \in Users : level[u] # level'[u] => u \in inGroup]_groupVars
=============================================================================
