------------------------------- MODULE MCChat -------------------------------
(***************************************************************************)
(* The people and what they write and read: membership, conversations and  *)
(* their settings, messages, topics, and the pages of a list.  part says   *)
(* which of them a behaviour is about; the others stand still. The         *)
(* theorems about them follow, part by part, and then those about all.     *)
(***************************************************************************)
EXTENDS Membership, TLC, Sequences, FiniteSetTheorems, WellFoundedInduction, TLAPS

CONSTANTS Discoverable, Convs, Requests, NoConv,
          Admins, Keys, Contents, Creates, RetentionCount, MaxPinnedMessages, MaxMessages, Nobody,
          Visitors, MaxPosts, MaxCopies, MaxRevision,
          People, Viewer, Settings, Levels, NotGiven, NoName, KeptNotices, MaxOps, MaxChanges,
          Rows, Limit, KeptRows, MaxPins

ASSUME ChatAssumption ==
  /\ Owner \in Users /\ "owner" \in Roles /\ MaxUses \in Nat /\ MaxRemovals \in Nat
  /\ IsFiniteSet(Users) /\ IsFiniteSet(Requests) /\ Visitors \subseteq Users
  /\ Viewer \in People /\ "all" \in Levels /\ MaxOps \in Nat /\ MaxChanges \in Nat
  /\ MaxPosts \in Nat \ {0} /\ MaxCopies \in Nat /\ MaxRevision \in Nat \ {0}
  /\ IsFiniteSet(Creates) /\ MaxMessages \in Nat /\ MaxPinnedMessages \in Nat /\ Nobody \notin Users
  /\ IsFiniteSet(Rows) /\ Rows = 1..Cardinality(Rows) /\ Limit \in Nat \ {0} /\ KeptRows \in Nat

VARIABLES part,
          cRole, grant, kind, pair, in, request,
          clock, message, creating, pinning, pinnedBy, pinCount, lastRead, reaction, raced,
          status, revision, inGroup, joined, tLastRead, tClock, post, projection, copy,
          topicCard, syncCard, tRequest,
          gRole, inside, group, level, profile, notice, hidden, direct, gGrants, gEvents, gClock,
          gChanges, setting, wanted, announced, view, rule,
          table, row, pinned, everPinned, withdrawn, reader

(* What a group may be changed to: another title, another avatar, what it  *)
(* is already, what is refused.                                            *)
Patch(title, avatar) == [title |-> title, avatar |-> avatar]
Patches == {Patch("t1", NotGiven), Patch(NotGiven, "a1"), Patch("t0", NotGiven), Patch("", NotGiven)}
ProfilePatches == {[nickname |-> "nick", discoverable |-> NotGiven], [nickname |-> NotGiven, discoverable |-> "off"]}

C == INSTANCE Conversations WITH role <- cRole
G == INSTANCE Messages
T == INSTANCE Topics WITH Creator <- Owner, Managers <- Visitors, MaxMessages <- MaxPosts,
       lastRead <- tLastRead, clock <- tClock, request <- tRequest
S == INSTANCE GroupSettings WITH Absent <- NotGiven, Users <- People, Requests <- Settings,
       RetentionCount <- KeptNotices,
       role <- gRole, inGroup <- inside, message <- notice, grants <- gGrants, events <- gEvents,
       clock <- gClock, changes <- gChanges, request <- setting
P == INSTANCE Paging WITH RetentionCount <- KeptRows
conversationVars == <<cRole, grant, kind, pair, in, request>>
messageVars == <<clock, message, creating, pinning, pinnedBy, pinCount, lastRead, reaction, raced>>
topicVars == <<status, revision, inGroup, joined, tLastRead, tClock, post, projection, copy,
               topicCard, syncCard, tRequest>>
settingsVars == <<gRole, inside, group, level, profile, notice, hidden, direct, gGrants, gEvents,
                  gClock, gChanges, setting, wanted, announced, view, rule>>
pagingVars == <<table, row, pinned, everPinned, withdrawn, reader>>
vars == <<part, memberVars, conversationVars, messageVars, topicVars, settingsVars, pagingVars>>

Init == /\ part \in {"members", "conversations", "messages", "topics", "settings", "pages"}
        /\ MembershipInit /\ C!ConversationsInit /\ G!MessagesInit /\ T!TopicsInit
        /\ S!GroupInit /\ P!PagingInit
        /\ part # "pages" => table = "messages"

(* A step of part p: the other parts stand still.                          *)
Only(p) ==
  /\ part = p /\ UNCHANGED part
  /\ IF p = "members" THEN TRUE ELSE UNCHANGED memberVars
  /\ IF p = "conversations" THEN TRUE ELSE UNCHANGED conversationVars
  /\ IF p = "messages" THEN TRUE ELSE UNCHANGED messageVars
  /\ IF p = "topics" THEN TRUE ELSE UNCHANGED topicVars
  /\ IF p = "settings" THEN TRUE ELSE UNCHANGED settingsVars
  /\ IF p = "pages" THEN TRUE ELSE UNCHANGED pagingVars

MembershipStep == Only("members") /\ MembershipNext
ConversationStep == Only("conversations") /\ C!ConversationsNext
MessageStep == Only("messages") /\ G!MessagesNext
TopicStep == Only("topics") /\ T!TopicsNext
SettingsStep == Only("settings") /\ S!GroupNext
PageStep == Only("pages") /\ P!PagingNext

Next == MembershipStep \/ ConversationStep \/ MessageStep \/ TopicStep
     \/ SettingsStep \/ PageStep
ChatSpec == Init /\ [][Next]_vars

(* Requests are interchangeable.                                           *)
Interchangeable == Permutations(Requests)

TypeOK == /\ part = "members" => MembershipTypeOK
          /\ part = "conversations" => C!ConversationsTypeOK
          /\ part = "messages" => G!MessagesTypeOK
          /\ part = "topics" => T!TopicsTypeOK
          /\ part = "settings" => S!GroupTypeOK
          /\ part = "pages" => P!PagingTypeOK

(* Nothing a person left or was taken out of stays open to them, and a     *)
(* preview or a rule shows a viewer nothing the viewer may not see.        *)
AccessFollowsMembership ==
  /\ TypeOK
  /\ part = "members" => NoSessionOutlivesRemoval
  /\ part = "conversations" => C!NoMemberOutsideSpace
  /\ part = "settings" => S!PreviewNotHidden /\ S!RuleWasTrue
(* Messages, their pins, copies and cards, and the settings of a group     *)
(* tell one story, and turning pages misses nothing that was there all the *)
(* while.                                                                  *)
ContentConsistent ==
  /\ part = "messages" => G!PinCountExact /\ G!PinnedSurvives /\ G!OneMessagePerClientId /\ G!RecallErases
  /\ part = "topics" => T!CopiesBacked /\ T!CardsFollowProjections /\ T!CardsCurrent
  /\ part = "settings" => S!PatchesCompose /\ S!AnnouncedOnce
  /\ part = "pages" => P!WalkComplete /\ P!PagesInOrder /\ P!AroundContiguous /\ P!OffsetMissesNothing
(* Steps that undo what was agreed: an invite beyond its uses, a direct    *)
(* conversation opened twice, a group emptied by its members, a closed     *)
(* topic written to, a marker moved back, a level set from outside.        *)
NothingUndone == /\ InviteHonoured
                 /\ C!DirectUniqueAndFinal /\ C!GroupEmptiedByRemovalOnly
                 /\ T!ClosedIsFinal /\ T!ReadMovesForward
                 /\ S!LevelOfMembersOnly

-----------------------------------------------------------------------------

(***************************************************************************)
(* The three properties for any users, roles, invites and requests.        *)
(***************************************************************************)
MembershipSpec == MembershipInit /\ [][MembershipNext]_memberVars

AnyRole == Roles \union {"owner"} \union Absent
Typed ==
  /\ role \in [Users -> AnyRole] /\ removals \in [Users -> Nat]
  /\ invite \in [Invites -> [role : Roles \union {"none"}, uses : Nat, revoked : BOOLEAN,
                             expired : BOOLEAN]]
  /\ change \in [Changes -> [actor : Users \union {NoUser}, target : Users \union {NoUser},
                               next : AnyRole]]
  /\ login \in [Logins -> [stage : {"idle", "read", "checked", "in"}, user : Users \union {NoUser},
                           code : Invites \union {NoInvite}, read : AnyRole]]
  /\ session \in [Sessions -> [user : Users \union {NoUser}, born : Nat, revoked : BOOLEAN]]

(* A change under way is one user's about another; a login under way has   *)
(* its user and, until it is let in, the invite it came with.              *)
UnderWay ==
  /\ \A q \in Changes : change[q] # NoRequest =>
       /\ change[q].actor \in Users /\ change[q].target \in Users
       /\ change[q].actor # change[q].target
  /\ \A l \in Logins : /\ login[l].stage # "idle" => login[l].user \in Users
                       /\ login[l].stage \in {"read", "checked"} => login[l].code \in Invites

(* An unrevoked session was created after its user's last removal.         *)
Fresh == \A s \in Sessions, u \in Users :
           session[s].user = u /\ ~session[s].revoked => session[s].born = removals[u]

MemberInv == Typed /\ UnderWay /\ Fresh

LEMMA MemberInit == MembershipInit => MemberInv
<1> SUFFICES ASSUME MembershipInit PROVE MemberInv OBVIOUS
<1>1. role \in [Users -> AnyRole] BY DEF MembershipInit, AnyRole, Absent
<1> QED BY <1>1 DEF MembershipInit, MemberInv, Typed, UnderWay, Fresh, NoRow, NoRequest, NoLogin,
       NoSession, AnyRole, Absent

(* Steps of requests.                                                      *)
LEMMA RequestStep ==
  ASSUME MemberInv, NEW q \in Changes,
         \/ \E a, u \in Users, next \in Roles \union {"removed"} : ReadBeforeLock(q, a, u, next)
         \/ Refuse(q) \/ CommitRole(q)
  PROVE  MemberInv'
<1> DEFINE Ask == [actor : Users \union {NoUser}, target : Users \union {NoUser}, next : AnyRole]
<1> USE DEF MemberInv
<1>0. NoRequest \in Ask BY DEF NoRequest, AnyRole, Absent
<1>1. ASSUME NEW a \in Users, NEW u \in Users, NEW next \in Roles \union {"removed"},
             ReadBeforeLock(q, a, u, next)
      PROVE  MemberInv'
  <2> DEFINE r == [actor |-> a, target |-> u, next |-> next]
  <2>1. r \in Ask BY DEF AnyRole, Absent
  <2>2. change' = [change EXCEPT ![q] = r] /\ u # a BY <1>1 DEF ReadBeforeLock
  <2>3. change' \in [Changes -> Ask]
    <3> HIDE DEF r, Ask
    <3>1. change \in [Changes -> Ask] BY DEF Typed, Ask
    <3> QED BY <2>1, <2>2, <3>1
  <2>4. \A p \in Changes : change'[p] = IF p = q THEN r ELSE change[p] BY <2>2 DEF Typed
  <2>5. UNCHANGED <<role, removals, invite, login, session>> BY <1>1 DEF ReadBeforeLock
  <2>6. UnderWay' BY <2>2, <2>4, <2>5 DEF UnderWay
  <2> QED BY <2>3, <2>5, <2>6 DEF Typed, Fresh
<1>2. ASSUME Refuse(q) \/ CommitRole(q) PROVE MemberInv'
  <2>1. /\ change' = [change EXCEPT ![q] = NoRequest]
        /\ UNCHANGED <<removals, invite, login, session>>
        /\ role' = role \/ \E u \in Users, r \in Roles : role' = [role EXCEPT ![u] = r]
    BY <1>2 DEF Refuse, CommitRole, UpdateMemberRole, UnderWay
  <2>2. change' \in [Changes -> Ask]
    <3> HIDE DEF Ask
    <3>1. change \in [Changes -> Ask] BY DEF Typed, Ask
    <3> QED BY <1>0, <2>1, <3>1
  <2>3. role' \in [Users -> AnyRole] BY <2>1 DEF Typed, AnyRole
  <2>4. \A p \in Changes : change'[p] = IF p = q THEN NoRequest ELSE change[p] BY <2>1 DEF Typed
  <2>5. UnderWay' BY <2>1, <2>4 DEF UnderWay
  <2> QED BY <2>1, <2>2, <2>3, <2>5 DEF Typed, Fresh
<1> QED BY <1>1, <1>2

(* A removal revokes the sessions it makes stale, in one transaction.      *)
LEMMA RemovalStep ==
  ASSUME MemberInv, NEW q \in Changes, RemoveMember(q)
  PROVE  MemberInv'
<1> DEFINE Ask == [actor : Users \union {NoUser}, target : Users \union {NoUser}, next : AnyRole]
           Cookie == [user : Users \union {NoUser}, born : Nat, revoked : BOOLEAN]
           u == change[q].target
<1> USE DEF MemberInv
<1>0. NoRequest \in Ask /\ u \in Users BY DEF NoRequest, AnyRole, Absent, RemoveMember, UnderWay
<1>1. /\ change' = [change EXCEPT ![q] = NoRequest] /\ UNCHANGED <<invite, login>>
      /\ role' = [role EXCEPT ![u] = "removed"] /\ removals' = [removals EXCEPT ![u] = removals[u] + 1]
      /\ session' = [s \in Sessions |-> IF session[s].user = u
                                        THEN [session[s] EXCEPT !.revoked = TRUE] ELSE session[s]]
  BY DEF RemoveMember, SetRemoved, RevokeUserSessions
<1>2. \A s \in Sessions : session[s] \in Cookie BY DEF Typed
<1>3. ASSUME NEW s \in Sessions
      PROVE  /\ session'[s] \in Cookie /\ session'[s].user = session[s].user
             /\ session'[s].born = session[s].born
             /\ ~session'[s].revoked => ~session[s].revoked /\ session[s].user # u
  <2>1. CASE session[s].user = u
    <3>1. session'[s] = [session[s] EXCEPT !.revoked = TRUE] BY <1>1, <2>1
    <3> QED BY <1>2, <2>1, <3>1
  <2>2. CASE session[s].user # u BY <1>1, <1>2, <2>2
  <2> QED BY <2>1, <2>2
<1>4. session' \in [Sessions -> Cookie]
  <2>1. DOMAIN session' = Sessions /\ session' = [s \in Sessions |-> session'[s]] BY <1>1
  <2> HIDE DEF Cookie
  <2> QED BY <1>3, <2>1
<1>5. change' \in [Changes -> Ask]
  <2> HIDE DEF Ask
  <2>1. change \in [Changes -> Ask] BY DEF Typed, Ask
  <2> QED BY <1>0, <1>1, <2>1
<1>6. role' \in [Users -> AnyRole] /\ removals' \in [Users -> Nat]
  <2>1. "removed" \in AnyRole /\ removals[u] + 1 \in Nat BY <1>0 DEF Typed, AnyRole, Absent
  <2> HIDE DEF u
  <2> QED BY <1>1, <2>1 DEF Typed
<1>7. Typed' BY <1>1, <1>4, <1>5, <1>6 DEF Typed
<1>8. \A p \in Changes : change'[p] = IF p = q THEN NoRequest ELSE change[p] BY <1>1 DEF Typed
<1>9. UnderWay' BY <1>1, <1>8 DEF UnderWay
<1>10. \A v \in Users : v # u => removals'[v] = removals[v] BY <1>1 DEF Typed
<1>11. Fresh'
  <2> HIDE DEF u, Cookie
  <2> SUFFICES ASSUME NEW s \in Sessions, NEW v \in Users, session'[s].user = v, ~session'[s].revoked
               PROVE  session'[s].born = removals'[v]
    BY DEF Fresh
  <2> QED BY <1>3, <1>10 DEF Fresh
<1> QED BY <1>7, <1>9, <1>11

(* Steps of invites.                                                       *)
LEMMA InviteStep ==
  ASSUME MemberInv, NEW i \in Invites,
         \/ \E a \in Users, r \in Roles : Create(a, i, r)
         \/ \E a \in Users : Revoke(a, i)
         \/ InviteExpires(i)
  PROVE  MemberInv'
<1> DEFINE Row == [role : Roles \union {"none"}, uses : Nat, revoked : BOOLEAN, expired : BOOLEAN]
<1>0. UNCHANGED <<role, removals, change, login, session>> BY DEF Create, Revoke, InviteExpires
<1>1. invite[i] \in Row /\ invite \in [Invites -> Row] BY DEF MemberInv, Typed
<1>2. PICK v \in Row : invite' = [invite EXCEPT ![i] = v]
  <2>1. ASSUME NEW r \in Roles PROVE [NoRow EXCEPT !.role = r] \in Row BY DEF NoRow
  <2>2. [invite[i] EXCEPT !.revoked = TRUE] \in Row /\ [invite[i] EXCEPT !.expired = TRUE] \in Row
    BY <1>1
  <2>3. \/ \E r \in Roles : invite' = [invite EXCEPT ![i] = [NoRow EXCEPT !.role = r]]
        \/ invite' = [invite EXCEPT ![i] = [invite[i] EXCEPT !.revoked = TRUE]]
        \/ invite' = [invite EXCEPT ![i] = [invite[i] EXCEPT !.expired = TRUE]]
    BY DEF Create, Revoke, InviteExpires, InsertInvite, RevokeInvite
  <2> HIDE DEF Row
  <2> QED BY <2>1, <2>2, <2>3
<1>3. invite' \in [Invites -> Row]
  <2> HIDE DEF Row
  <2> QED BY <1>1, <1>2
<1> QED BY <1>0, <1>3 DEF MemberInv, Typed, UnderWay, Fresh

(* Steps of a login up to its session.                                     *)
LEMMA LoginStep ==
  ASSUME MemberInv, NEW l \in Logins,
         \/ \E u \in Users, i \in Invites \union {NoInvite} : AuthenticateGitHub(l, u, i)
         \/ CheckInvite(l) \/ AcceptInvite(l)
  PROVE  MemberInv'
<1> DEFINE Entry == [stage : {"idle", "read", "checked", "in"}, user : Users \union {NoUser},
                     code : Invites \union {NoInvite}, read : AnyRole]
           Row == [role : Roles \union {"none"}, uses : Nat, revoked : BOOLEAN, expired : BOOLEAN]
           Fits(t) == /\ t.stage # "idle" => t.user \in Users
                      /\ t.stage \in {"read", "checked"} => t.code \in Invites
<1> USE DEF MemberInv
<1>0. /\ NoLogin \in Entry /\ Fits(NoLogin) /\ login[l] \in Entry /\ Fits(login[l])
      /\ login \in [Logins -> Entry] /\ invite \in [Invites -> Row]
  BY DEF Typed, UnderWay, NoLogin, AnyRole, Absent
<1>1. \A u \in Users : [NoLogin EXCEPT !.stage = "in", !.user = u] \in Entry
                       /\ Fits([NoLogin EXCEPT !.stage = "in", !.user = u])
  BY DEF NoLogin, AnyRole, Absent
<1>2. \E t \in Entry : Fits(t) /\ login' = [login EXCEPT ![l] = t]
  <2>1. ASSUME NEW u \in Users, NEW i \in Invites \union {NoInvite}, AuthenticateGitHub(l, u, i)
        PROVE  \E t \in Entry : Fits(t) /\ login' = [login EXCEPT ![l] = t]
    <3> DEFINE t == [stage |-> "read", user |-> u, code |-> i, read |-> role[u]]
    <3>1. i # NoInvite => t \in Entry /\ Fits(t) BY DEF Typed
    <3>2. \/ login' = [login EXCEPT ![l] = [NoLogin EXCEPT !.stage = "in", !.user = u]]
          \/ i # NoInvite /\ login' = [login EXCEPT ![l] = t]
      BY <2>1 DEF AuthenticateGitHub
    <3> HIDE DEF Entry, Fits, t
    <3> QED BY <1>1, <3>1, <3>2
  <2>2. ASSUME CheckInvite(l) PROVE \E t \in Entry : Fits(t) /\ login' = [login EXCEPT ![l] = t]
    <3> DEFINE t == [login[l] EXCEPT !.stage = "checked"]
    <3>1. t \in Entry /\ Fits(t) BY <1>0, <2>2 DEF CheckInvite
    <3>2. login' = [login EXCEPT ![l] = NoLogin] \/ login' = [login EXCEPT ![l] = t]
      BY <2>2 DEF CheckInvite
    <3> HIDE DEF Entry, Fits, t
    <3> QED BY <1>0, <3>1, <3>2
  <2>3. ASSUME AcceptInvite(l) PROVE \E t \in Entry : Fits(t) /\ login' = [login EXCEPT ![l] = t]
    <3>1. \/ login' = [login EXCEPT ![l] = NoLogin]
          \/ login' = [login EXCEPT ![l] = [NoLogin EXCEPT !.stage = "in", !.user = login[l].user]]
      BY <2>3 DEF AcceptInvite
    <3>2. login[l].user \in Users BY <1>0, <2>3 DEF AcceptInvite
    <3> HIDE DEF Entry, Fits
    <3> QED BY <1>0, <1>1, <3>1, <3>2
  <2> QED BY <2>1, <2>2, <2>3
<1>3. PICK t \in Entry : Fits(t) /\ login' = [login EXCEPT ![l] = t] BY <1>2
<1>4. login' \in [Logins -> Entry]
  <2> HIDE DEF Entry
  <2> QED BY <1>0, <1>3
<1>5. /\ UNCHANGED <<removals, change, session>>
      /\ invite' \in [Invites -> Row] /\ role' \in [Users -> AnyRole]
  <2>1. CASE UNCHANGED <<role, invite, removals, change, session>> BY <2>1 DEF Typed
  <2>2. CASE AcceptInvite(l) /\ ~UNCHANGED <<role, invite>>
    <3> DEFINE i == login[l].code
    <3>1. /\ i \in Invites /\ login[l].user \in Users BY <1>0, <2>2 DEF AcceptInvite
    <3>2. [invite[i] EXCEPT !.uses = invite[i].uses + 1] \in Row /\ invite[i].role \in AnyRole
      BY <1>0, <3>1 DEF AnyRole, Absent
    <3>3. /\ invite' = [invite EXCEPT ![i] = [invite[i] EXCEPT !.uses = invite[i].uses + 1]]
          /\ role' = [role EXCEPT ![login[l].user] = invite[i].role]
          /\ UNCHANGED <<removals, change, session>>
      BY <1>0, <2>2, <3>1 DEF AcceptInvite, reserveInvite
    <3> HIDE DEF Row, i
    <3> QED BY <1>0, <3>1, <3>2, <3>3 DEF Typed
  <2> QED BY <2>1, <2>2 DEF AuthenticateGitHub, CheckInvite, AcceptInvite
<1>6. \A k \in Logins : login'[k] = IF k = l THEN t ELSE login[k] BY <1>0, <1>3
<1>7. UnderWay' BY <1>3, <1>5, <1>6 DEF UnderWay
<1> QED BY <1>4, <1>5, <1>7 DEF Typed, Fresh

(* Steps of sessions: a new one is born at its user's present count.       *)
LEMMA SessionStep ==
  ASSUME MemberInv, NEW s \in Sessions,
         (\E l \in Logins : CreateSession(l, s)) \/ RevokeSession(s)
  PROVE  MemberInv'
<1> DEFINE Entry == [stage : {"idle", "read", "checked", "in"}, user : Users \union {NoUser},
                     code : Invites \union {NoInvite}, read : AnyRole]
           Cookie == [user : Users \union {NoUser}, born : Nat, revoked : BOOLEAN]
           Young(c) == \A u \in Users : c.user = u /\ ~c.revoked => c.born = removals[u]
<1> USE DEF MemberInv
<1>0. /\ UNCHANGED <<role, removals, invite, change>> /\ session \in [Sessions -> Cookie]
      /\ session[s] \in Cookie /\ Young(session[s])
  BY DEF CreateSession, RevokeSession, Typed, Fresh
<1>1. login' = login \/ \E l \in Logins : login' = [login EXCEPT ![l] = NoLogin]
  BY DEF CreateSession, RevokeSession
<1>2. login' \in [Logins -> Entry]
  <2>1. NoLogin \in Entry /\ login \in [Logins -> Entry] BY DEF NoLogin, AnyRole, Absent, Typed
  <2> HIDE DEF Entry
  <2> QED BY <1>1, <2>1
<1>3. UnderWay'
  <2>1. \A k \in Logins : login'[k] = login[k] \/ login'[k] = NoLogin BY <1>1 DEF Typed
  <2>2. NoLogin.stage = "idle" BY DEF NoLogin
  <2> QED BY <1>0, <2>1, <2>2 DEF UnderWay
<1>4. \E c \in Cookie : Young(c) /\ session' = [session EXCEPT ![s] = c]
  <2>1. ASSUME NEW l \in Logins, CreateSession(l, s)
        PROVE  \E c \in Cookie : Young(c) /\ session' = [session EXCEPT ![s] = c]
    <3> DEFINE u == login[l].user
               c == [user |-> u, born |-> removals[u], revoked |-> FALSE]
    <3>1. u \in Users BY <2>1 DEF CreateSession, UnderWay
    <3>2. c \in Cookie /\ Young(c) BY <3>1 DEF Typed
    <3>3. session' = session \/ session' = [session EXCEPT ![s] = c] BY <2>1 DEF CreateSession
    <3>4. session = [session EXCEPT ![s] = session[s]] BY <1>0
    <3> HIDE DEF c, Cookie, Young
    <3> QED BY <1>0, <3>2, <3>3, <3>4
  <2>2. ASSUME RevokeSession(s)
        PROVE  \E c \in Cookie : Young(c) /\ session' = [session EXCEPT ![s] = c]
    <3> DEFINE c == [session[s] EXCEPT !.revoked = TRUE]
    <3>1. c \in Cookie /\ Young(c) BY <1>0
    <3>2. session' = [session EXCEPT ![s] = c] BY <2>2 DEF RevokeSession
    <3> HIDE DEF c, Cookie, Young
    <3> QED BY <3>1, <3>2
  <2> QED BY <2>1, <2>2
<1>5. PICK c \in Cookie : Young(c) /\ session' = [session EXCEPT ![s] = c] BY <1>4
<1>6. session' \in [Sessions -> Cookie]
  <2> HIDE DEF Cookie, Young
  <2> QED BY <1>0, <1>5
<1>7. \A x \in Sessions : session'[x] = IF x = s THEN c ELSE session[x] BY <1>0, <1>5
<1>8. Fresh' BY <1>0, <1>5, <1>7 DEF Fresh
<1> QED BY <1>0, <1>2, <1>3, <1>6, <1>8 DEF Typed

LEMMA MemberStep == MemberInv /\ [MembershipNext]_memberVars => MemberInv'
<1> SUFFICES ASSUME MemberInv, [MembershipNext]_memberVars PROVE MemberInv' OBVIOUS
<1>1. CASE UNCHANGED memberVars BY <1>1 DEF memberVars, MemberInv, Typed, UnderWay, Fresh
<1>2. CASE MembershipNext
  BY <1>2, RequestStep, RemovalStep, InviteStep, LoginStep, SessionStep DEF MembershipNext
<1> QED BY <1>1, <1>2

(* A cookie from before a removal resolves to nobody, for every user and   *)
(* session: the removal revokes what it makes stale, in one transaction.   *)
THEOREM SessionsCorrect == MembershipSpec => []NoSessionOutlivesRemoval
<1>1. MemberInv => NoSessionOutlivesRemoval
  BY DEF MemberInv, Fresh, NoSessionOutlivesRemoval, LookupSessionActor
<1> QED BY <1>1, MemberInit, MemberStep, PTL DEF MembershipSpec

(* The space keeps an owner whatever requests of owners interleave: who    *)
(* acts is looked up again under the lock, and never acts on itself.       *)
THEOREM LastOwnerCorrect == MembershipSpec => LastOwnerKept
<1> DEFINE Kept == \E u \in Users : role'[u] = "owner"
           Replaced == \E l \in Logins : login[l].stage = "checked" /\ login'[l].stage = "in"
                                         /\ role[login[l].user] = "owner"
           A == CountActiveOwners > 0 => Kept \/ Replaced
<1>1. ASSUME MemberInv, [MembershipNext]_memberVars, CountActiveOwners > 0 PROVE Kept \/ Replaced
  <2>0. Typed /\ UnderWay BY <1>1 DEF MemberInv
  <2>1. PICK o \in Users : role[o] = "owner"
    <3>1. {u \in Users : role[u] = "owner"} # {} BY <1>1, FS_EmptySet DEF CountActiveOwners
    <3> QED BY <3>1
  <2>2. CASE role' = role BY <2>1, <2>2
  <2>3. ASSUME NEW q \in Changes, CommitRole(q) \/ RemoveMember(q) PROVE Kept
    <3> DEFINE a == change[q].actor
               u == change[q].target
    <3>1. a \in Users /\ u \in Users /\ a # u /\ role[a] = "owner"
      BY <2>0, <2>3 DEF CommitRole, RemoveMember, AllowedUnderLock, hasCapability, UnderWay
    <3>2. \E r : role' = [role EXCEPT ![u] = r]
      BY <2>3 DEF CommitRole, RemoveMember, UpdateMemberRole, SetRemoved
    <3>3. role'[a] = "owner" BY <2>0, <3>1, <3>2 DEF Typed
    <3> QED BY <3>1, <3>3
  <2>4. ASSUME NEW l \in Logins, AcceptInvite(l), role' # role PROVE Kept \/ Replaced
    <3> DEFINE u == login[l].user
    <3>1. /\ login[l].stage = "checked" /\ u \in Users /\ \E r : role' = [role EXCEPT ![u] = r]
          /\ login' = [login EXCEPT ![l] = [NoLogin EXCEPT !.stage = "in", !.user = u]]
      BY <2>0, <2>4 DEF AcceptInvite, UnderWay
    <3>2. login'[l].stage = "in" BY <2>0, <3>1 DEF Typed, NoLogin
    <3>3. CASE o = u BY <2>1, <3>1, <3>2, <3>3
    <3>4. CASE o # u
      <4>1. role'[o] = "owner" BY <2>0, <2>1, <3>1, <3>4 DEF Typed
      <4> QED BY <4>1
    <3> QED BY <3>3, <3>4
  <2> QED BY <1>1, <2>2, <2>3, <2>4 DEF MembershipNext, memberVars, ReadBeforeLock, Refuse, Create, Revoke,
         InviteExpires, AuthenticateGitHub, CheckInvite, CreateSession, RevokeSession
<1>2. MemberInv /\ [MembershipNext]_memberVars => [A]_memberVars BY <1>1
<1> QED BY <1>2, MemberInit, MemberStep, PTL DEF MembershipSpec, LastOwnerKept

(* Who is let in with an invite is let in by one that could still be used  *)
(* then, and pays one use of it.                                           *)
THEOREM InvitesCorrect == MembershipSpec => InviteHonoured
<1> DEFINE Honoured(l) == LET i == login[l].code IN
                          ~inviteFailure(invite[i]) /\ invite'[i].uses = invite[i].uses + 1
           A == \A l \in Logins : (login[l].stage = "checked" /\ login'[l].stage = "in") => Honoured(l)
<1>1. ASSUME MemberInv, [MembershipNext]_memberVars, NEW l \in Logins,
             login[l].stage = "checked", login'[l].stage = "in"
      PROVE  Honoured(l)
  <2>0. Typed /\ UnderWay BY <1>1 DEF MemberInv
  <2>1. NoLogin.stage = "idle" BY DEF NoLogin
  <2>2. ASSUME NEW k \in Logins, NEW t, login' = [login EXCEPT ![k] = t], k # l \/ t.stage # "in"
        PROVE  FALSE
    BY <1>1, <2>0, <2>2 DEF Typed
  <2>3. ~UNCHANGED login BY <1>1
  <2>4. ASSUME NEW k \in Logins, NEW u \in Users, NEW i \in Invites \union {NoInvite},
               AuthenticateGitHub(k, u, i)
        PROVE  FALSE
    <3>1. k # l BY <1>1, <2>1, <2>4 DEF AuthenticateGitHub
    <3>2. \E t : login' = [login EXCEPT ![k] = t] BY <2>4 DEF AuthenticateGitHub
    <3> QED BY <2>2, <3>1, <3>2
  <2>5. ASSUME NEW k \in Logins, CheckInvite(k) PROVE FALSE
    <3>1. k # l BY <1>1, <2>5 DEF CheckInvite
    <3>2. \E t : login' = [login EXCEPT ![k] = t] BY <2>5 DEF CheckInvite
    <3> QED BY <2>2, <3>1, <3>2
  <2>6. ASSUME NEW k \in Logins, NEW s \in Sessions, CreateSession(k, s) PROVE FALSE
    <3>1. login' = [login EXCEPT ![k] = NoLogin] BY <2>6 DEF CreateSession
    <3> QED BY <2>1, <2>2, <3>1
  <2>7. ASSUME NEW k \in Logins, AcceptInvite(k) PROVE Honoured(l)
    <3> DEFINE i == login[k].code
    <3>1. \E t : login' = [login EXCEPT ![k] = t] BY <2>7 DEF AcceptInvite
    <3>2. k = l BY <2>2, <3>1
    <3>3. i \in Invites /\ invite[i].uses \in Nat BY <2>0, <2>7 DEF AcceptInvite, UnderWay, Typed
    <3>4. login' # [login EXCEPT ![k] = NoLogin] BY <2>1, <2>2
    <3>5. ~inviteFailure(invite[i]) /\ invite' = [invite EXCEPT ![i].uses = @ + 1]
      BY <2>7, <3>4 DEF AcceptInvite, CanReserve, reserveInvite
    <3>6. invite'[i].uses = invite[i].uses + 1 BY <2>0, <3>3, <3>5 DEF Typed
    <3> QED BY <3>2, <3>5, <3>6
  <2> HIDE DEF Honoured
  <2> QED BY <1>1, <2>3, <2>4, <2>5, <2>6, <2>7
       DEF MembershipNext, memberVars, ReadBeforeLock, Refuse, CommitRole, RemoveMember, Create,
           Revoke, InviteExpires, RevokeSession
<1>2. MemberInv /\ [MembershipNext]_memberVars => [A]_memberVars BY <1>1
<1> QED BY <1>2, MemberInit, MemberStep, PTL DEF MembershipSpec, InviteHonoured

(* No count passes its bound: a removal is guarded by it, and the row of   *)
(* an invite that is used up admits nobody.                                *)
Bounded ==
  /\ \A u \in Users : removals[u] <= MaxRemovals
  /\ \A i \in Invites : invite[i].uses <= MaxUses
  /\ \A s \in Sessions : session[s].born <= MaxRemovals

LEMMA MemberTypes == MemberInv /\ Bounded => MembershipTypeOK
<1> SUFFICES ASSUME MemberInv, Bounded PROVE MembershipTypeOK OBVIOUS
<1>0. Typed /\ MaxUses \in Nat /\ MaxRemovals \in Nat BY ChatAssumption DEF MemberInv
<1>1. AnyRole = Roles \union Absent BY ChatAssumption DEF AnyRole
<1>2. removals \in [Users -> 0..MaxRemovals] BY <1>0 DEF Typed, Bounded
<1>3. invite \in [Invites -> [role : Roles \union {"none"}, uses : 0..MaxUses, revoked : BOOLEAN, expired : BOOLEAN]]
  <2>1. ASSUME NEW i \in Invites PROVE invite[i] \in [role : Roles \union {"none"}, uses : 0..MaxUses, revoked : BOOLEAN, expired : BOOLEAN]
    <3>1. invite[i] \in [role : Roles \union {"none"}, uses : Nat, revoked : BOOLEAN, expired : BOOLEAN] BY <1>0 DEF Typed
    <3>2. invite[i].uses \in 0..MaxUses BY <1>0, <3>1 DEF Bounded
    <3> QED BY <3>1, <3>2
  <2> QED BY <1>0, <2>1 DEF Typed
<1>4. session \in [Sessions -> [user : Users \union {NoUser}, born : 0..MaxRemovals, revoked : BOOLEAN]]
  <2>1. ASSUME NEW i \in Sessions PROVE session[i] \in [user : Users \union {NoUser}, born : 0..MaxRemovals, revoked : BOOLEAN]
    <3>1. session[i] \in [user : Users \union {NoUser}, born : Nat, revoked : BOOLEAN] BY <1>0 DEF Typed
    <3>2. session[i].born \in 0..MaxRemovals BY <1>0, <3>1 DEF Bounded
    <3> QED BY <3>1, <3>2
  <2> QED BY <1>0, <2>1 DEF Typed
<1> QED BY <1>0, <1>1, <1>2, <1>3, <1>4 DEF Typed, MembershipTypeOK

LEMMA BoundedStep == MemberInv /\ Bounded /\ [MembershipNext]_memberVars => Bounded'
<1> SUFFICES ASSUME MemberInv, Bounded, [MembershipNext]_memberVars PROVE Bounded' OBVIOUS
<1>0. Typed /\ UnderWay /\ MaxUses \in Nat /\ MaxRemovals \in Nat BY ChatAssumption DEF MemberInv
<1> DEFINE Row == [role : Roles \union {"none"}, uses : Nat, revoked : BOOLEAN, expired : BOOLEAN]
           Cookie == [user : Users \union {NoUser}, born : Nat, revoked : BOOLEAN]
<1>00. invite \in [Invites -> Row] /\ session \in [Sessions -> Cookie] /\ removals \in [Users -> Nat] BY <1>0 DEF Typed
<1>1. \A u \in Users : removals'[u] <= MaxRemovals
  <2>1. ASSUME NEW q \in Changes, RemoveMember(q) PROVE \A u \in Users : removals'[u] <= MaxRemovals
    <3> DEFINE t == change[q].target
    <3>1. t \in Users /\ removals[t] < MaxRemovals /\ removals' = [removals EXCEPT ![t] = removals[t] + 1]
      BY <1>0, <2>1 DEF RemoveMember, SetRemoved, UnderWay
    <3> HIDE DEF t
    <3> QED BY <1>0, <1>00, <3>1 DEF Bounded
  <2>2. CASE removals' = removals BY <2>2 DEF Bounded
  <2> QED BY <2>1, <2>2 DEF MembershipNext, memberVars, ReadBeforeLock, Refuse, CommitRole, Create,
           Revoke, InviteExpires, AuthenticateGitHub, CheckInvite, AcceptInvite, CreateSession, RevokeSession
<1>2. \A i \in Invites : invite'[i].uses <= MaxUses
  <2> DEFINE Good == \A i \in Invites : invite'[i].uses <= MaxUses
  <2>0. ASSUME NEW i \in Invites, NEW v, invite' = [invite EXCEPT ![i] = v], v.uses <= MaxUses PROVE Good
    BY <1>0, <1>00, <2>0 DEF Bounded
  <2>1. ASSUME NEW i \in Invites, NEW r, InsertInvite(i, r) PROVE Good
    <3> DEFINE v == [NoRow EXCEPT !.role = r]
    <3>1. v.uses = 0 BY DEF NoRow
    <3>2. invite' = [invite EXCEPT ![i] = v] BY <2>1 DEF InsertInvite
    <3>3. v.uses <= MaxUses BY <1>0, <3>1
    <3> HIDE DEF v, Good
    <3> QED BY <2>0, <3>2, <3>3
  <2>2. ASSUME NEW i \in Invites, RevokeInvite(i) \/ invite' = [invite EXCEPT ![i].expired = TRUE] PROVE Good
    <3>1. PICK w \in {[invite[i] EXCEPT !.revoked = TRUE], [invite[i] EXCEPT !.expired = TRUE]} : invite' = [invite EXCEPT ![i] = w]
      BY <2>2 DEF RevokeInvite
    <3>2. w.uses = invite[i].uses BY <1>00
    <3> QED BY <2>0, <3>1, <3>2 DEF Bounded
  <2>3. ASSUME NEW l \in Logins, AcceptInvite(l) PROVE Good
    <3> DEFINE i == login[l].code
    <3>1. CASE invite' = invite BY <3>1 DEF Bounded
    <3>2. CASE invite' # invite
      <4>1. /\ ~inviteFailure(invite[i]) /\ i \in Invites
            /\ invite' = [invite EXCEPT ![i] = [invite[i] EXCEPT !.uses = invite[i].uses + 1]]
        BY <1>0, <2>3, <3>2 DEF AcceptInvite, CanReserve, reserveInvite, UnderWay
      <4>2. invite[i] \in Row /\ invite[i].uses < MaxUses BY <1>0, <1>00, <4>1 DEF inviteFailure
      <4>3. [invite[i] EXCEPT !.uses = invite[i].uses + 1].uses <= MaxUses BY <1>0, <4>2
      <4> HIDE DEF Good, i
      <4> QED BY <2>0, <4>1, <4>3
    <3> QED BY <3>1, <3>2
  <2>4. ASSUME invite' = invite PROVE Good BY <2>4 DEF Bounded
  <2> HIDE DEF Good
  <2>5. ASSUME NEW i \in Invites, (\E a \in Users, r \in Roles : Create(a, i, r)) \/ (\E a \in Users : Revoke(a, i)) \/ InviteExpires(i)
        PROVE  Good
    <3>1. \/ \E r : InsertInvite(i, r) \/ RevokeInvite(i) \/ invite' = [invite EXCEPT ![i].expired = TRUE]
      BY <2>5 DEF Create, Revoke, InviteExpires
    <3> QED BY <2>1, <2>2, <3>1
  <2>6. \/ invite' = invite \/ \E l \in Logins : AcceptInvite(l)
        \/ \E i \in Invites : (\E a \in Users, r \in Roles : Create(a, i, r)) \/ (\E a \in Users : Revoke(a, i)) \/ InviteExpires(i)
    BY DEF MembershipNext, memberVars, ReadBeforeLock, Refuse, CommitRole, RemoveMember,
           AuthenticateGitHub, CheckInvite, CreateSession, RevokeSession
  <2>7. Good BY <2>3, <2>4, <2>5, <2>6
  <2> QED BY <2>7 DEF Good
<1>3. \A s \in Sessions : session'[s].born <= MaxRemovals
  <2>1. ASSUME NEW q \in Changes, RemoveMember(q) PROVE \A s \in Sessions : session'[s].born <= MaxRemovals
    <3>1. session' = [s \in Sessions |-> IF session[s].user = change[q].target
                                        THEN [session[s] EXCEPT !.revoked = TRUE] ELSE session[s]]
      BY <2>1 DEF RemoveMember, RevokeUserSessions
    <3>2. ASSUME NEW s \in Sessions PROVE session'[s].born = session[s].born
      <4>1. session[s] \in Cookie BY <1>00
      <4> QED BY <3>1, <4>1
    <3> QED BY <3>2 DEF Bounded
  <2>2. ASSUME NEW l \in Logins, NEW s \in Sessions, CreateSession(l, s) PROVE \A x \in Sessions : session'[x].born <= MaxRemovals
    <3> DEFINE u == login[l].user
               c == [user |-> u, born |-> removals[u], revoked |-> FALSE]
    <3>1. u \in Users BY <1>0, <2>2 DEF CreateSession, UnderWay
    <3>2. session' = session \/ session' = [session EXCEPT ![s] = c] BY <2>2 DEF CreateSession
    <3>3. c.born <= MaxRemovals BY <3>1 DEF Bounded
    <3> HIDE DEF c
    <3> QED BY <1>00, <3>2, <3>3 DEF Bounded
  <2>3. ASSUME NEW s \in Sessions, RevokeSession(s) PROVE \A x \in Sessions : session'[x].born <= MaxRemovals
    <3> DEFINE c == [session[s] EXCEPT !.revoked = TRUE]
    <3>1. session' = [session EXCEPT ![s] = c] BY <2>3 DEF RevokeSession
    <3>2. c.born = session[s].born BY <1>00
    <3> HIDE DEF c
    <3> QED BY <1>00, <3>1, <3>2 DEF Bounded
  <2>4. CASE session' = session BY <2>4 DEF Bounded
  <2> QED BY <2>1, <2>2, <2>3, <2>4 DEF MembershipNext, memberVars, ReadBeforeLock, Refuse, CommitRole, Create,
           Revoke, InviteExpires, AuthenticateGitHub, CheckInvite, AcceptInvite
<1> QED BY <1>1, <1>2, <1>3 DEF Bounded

LEMMA MembersTyped == MembershipSpec => []MembershipTypeOK
<1>1. MembershipInit => Bounded
  BY ChatAssumption DEF MembershipInit, Bounded, NoRow, NoSession
<1> QED BY <1>1, MemberInit, MemberStep, BoundedStep, MemberTypes, PTL DEF MembershipSpec

-----------------------------------------------------------------------------

(***************************************************************************)
(* Conversations.                                                          *)
(***************************************************************************)
ConversationSpec == C!ConversationsInit /\ [][C!ConversationsNext]_(C!conversationVars)

(* A request names the users its operation is about, and its conversation. *)
Asked == [op : DOMAIN C!Capable \union {"none"}, actor : Users,
          conv : Convs \union {NoConv}, users : SUBSET Users]
Named(r) ==
  /\ r.op = "direct" => \E u \in Users : r.users = {r.actor, u}
  /\ r.op \in {"add", "remove"} => \E u \in Users : r.users = {u}
  /\ r.op \in {"add", "remove", "leave"} => r.conv \in Convs
RequestsNamed == \A q \in Requests : Named(request[q])
OneDirect == \A c, d \in Convs : (c # d /\ kind[c] = "direct" /\ kind[d] = "direct") => pair[c] # pair[d]
ConversationInv == C!ConversationsTypeOK /\ RequestsNamed /\ OneDirect /\ C!NoMemberOutsideSpace

LEMMA ConversationInitially == C!ConversationsInit => ConversationInv
<1> SUFFICES ASSUME C!ConversationsInit PROVE ConversationInv OBVIOUS
<1> USE ChatAssumption DEF C!ConversationsInit
<1>1. C!ConversationsTypeOK BY DEF C!ConversationsTypeOK, C!NoRequest
<1>2. RequestsNamed BY DEF RequestsNamed, Named, C!NoRequest
<1>3. OneDirect /\ C!NoMemberOutsideSpace BY DEF OneDirect, C!NoMemberOutsideSpace
<1> QED BY <1>1, <1>2, <1>3 DEF ConversationInv

(* A request that ends, one that begins.                                   *)
LEMMA RequestsKept ==
  ASSUME ConversationInv, NEW q \in Requests, NEW r \in Asked, Named(r),
         request' = [request EXCEPT ![q] = r]
  PROVE  RequestsNamed' /\ request' \in [Requests -> Asked]
<1>1. request \in [Requests -> Asked] /\ RequestsNamed
  BY DEF ConversationInv, C!ConversationsTypeOK, Asked
<1> HIDE DEF Asked
<1>2. request' \in [Requests -> Asked] BY <1>1
<1>3. \A p \in Requests : request'[p] = IF p = q THEN r ELSE request[p] BY <1>1
<1>4. RequestsNamed' BY <1>1, <1>3 DEF RequestsNamed
<1> QED BY <1>2, <1>4

LEMMA NoneAsked == C!NoRequest \in Asked /\ Named(C!NoRequest)
BY ChatAssumption DEF C!NoRequest, Asked, Named

(* What a commit does to the conversations, as far as the invariants and   *)
(* the two action properties see it.                                       *)
Committed(c) ==
  \/ \E us \in SUBSET Users, t \in {"direct", "group"} :
       /\ kind[c] = "none" /\ kind' = [kind EXCEPT ![c] = t]
       /\ pair' = [pair EXCEPT ![c] = IF t = "direct" THEN us ELSE {}]
       /\ t = "direct" => C!FindDirectConversation(us) = {}
       /\ \A u \in us : cRole[u] # "out"
       /\ in' = [in EXCEPT ![c] = [u \in Users |-> IF u \in us THEN "in" ELSE in[c][u]]]
  \/ \E u \in Users :
       /\ kind[c] = "group" /\ UNCHANGED <<kind, pair>> /\ cRole[u] # "out"
       /\ in' = [in EXCEPT ![c] = [in[c] EXCEPT ![u] = "in"]]
  \/ \E u, v \in Users :
       /\ kind[c] = "group" /\ UNCHANGED <<kind, pair>>
       /\ u # v /\ in[c][u] = "in" /\ in[c][v] = "in"
       /\ in' = [in EXCEPT ![c] = [in[c] EXCEPT ![u] = "out"]]

LEMMA CommitIs ==
  ASSUME ConversationInv, NEW q \in Requests, C!Commit(q)
  PROVE  \E c \in Convs : Committed(c)
<1> DEFINE r == request[q]
<1>0. r \in Asked /\ Named(r) /\ in \in [Convs -> [Users -> {"none", "in", "out"}]]
  BY DEF ConversationInv, C!ConversationsTypeOK, Asked, RequestsNamed
<1>a. C!Apply(r) BY DEF C!Commit
<1>f. r.actor \in Users /\ r.users \subseteq Users BY <1>0 DEF Asked
<1> HIDE DEF r
<1>1. CASE C!Entitled(r, "direct") /\ C!createDirect(r)
  <2>1. r.op = "direct" /\ cRole[r.actor] # "out" BY <1>1 DEF C!Entitled, C!FindMember
  <2>2. PICK u \in Users : r.users = {r.actor, u} BY <1>0, <2>1 DEF Named
  <2>3. PICK v \in r.users \ {r.actor} : cRole[v] # "out" BY <1>1 DEF C!createDirect, C!DirectAllowed, C!FindMember
  <2>4. \A w \in r.users : cRole[w] # "out" BY <2>1, <2>2, <2>3
  <2>5. PICK c \in Convs : C!CreateConversation(c, "direct", r.users) /\ C!UpsertConversationMember(c, r.users)
    BY <1>1 DEF C!createDirect
  <2>6. C!FindDirectConversation(r.users) = {} BY <1>1 DEF C!createDirect
  <2>7. Committed(c)
    BY <1>f, <2>4, <2>5, <2>6 DEF Committed, C!CreateConversation, C!UpsertConversationMember
  <2> QED BY <2>7
<1>2. CASE C!Entitled(r, "group") /\ C!createGroup(r)
  <2>1. cRole[r.actor] # "out" BY <1>2 DEF C!Entitled, C!FindMember
  <2>4. \A w \in r.users : cRole[w] # "out" BY <1>2, <2>1 DEF C!createGroup, C!FindMember
  <2>5. PICK c \in Convs : C!CreateConversation(c, "group", r.users) /\ C!UpsertConversationMember(c, r.users)
    BY <1>2 DEF C!createGroup
  <2>7. Committed(c)
    BY <1>f, <2>4, <2>5 DEF Committed, C!CreateConversation, C!UpsertConversationMember
  <2> QED BY <2>7
<1>3. CASE C!Entitled(r, "add") /\ C!AddMember(r)
  <2>1. r.op = "add" BY <1>3 DEF C!Entitled
  <2>2. r.conv \in Convs BY <1>0, <2>1 DEF Named
  <2>3. PICK u \in Users : r.users = {u} BY <1>0, <2>1 DEF Named
  <2>4. (CHOOSE v \in r.users : TRUE) = u BY <2>3
  <2>5. /\ kind[r.conv] = "group" /\ cRole[u] # "out" /\ UNCHANGED <<kind, pair>>
        /\ in' = [in EXCEPT ![r.conv] = [w \in Users |-> IF w \in r.users THEN "in" ELSE in[r.conv][w]]]
    BY <1>3, <2>4 DEF C!AddMember, C!FindMember, C!UpsertConversationMember
  <2>6. [w \in Users |-> IF w \in r.users THEN "in" ELSE in[r.conv][w]] = [in[r.conv] EXCEPT ![u] = "in"]
    BY <1>0, <2>2, <2>3
  <2>7. Committed(r.conv) BY <2>5, <2>6 DEF Committed
  <2> QED BY <2>2, <2>7
<1>4. CASE C!Entitled(r, "remove") /\ C!RemoveMember(r)
  <2>1. r.op = "remove" BY <1>4 DEF C!Entitled
  <2>2. r.conv \in Convs BY <1>0, <2>1 DEF Named
  <2>3. PICK u \in Users : r.users = {u} BY <1>0, <2>1 DEF Named
  <2>4. (CHOOSE v \in r.users : TRUE) = u BY <2>3
  <2>5. /\ kind[r.conv] = "group" /\ UNCHANGED <<kind, pair>> /\ u # r.actor
        /\ in[r.conv][u] = "in" /\ in[r.conv][r.actor] = "in"
        /\ in' = [in EXCEPT ![r.conv] = [in[r.conv] EXCEPT ![u] = "out"]]
    BY <1>4, <2>4 DEF C!RemoveMember, C!ConversationMemberActive, C!RemoveConversationMember
  <2>7. Committed(r.conv) BY <1>f, <2>5 DEF Committed
  <2> QED BY <2>2, <2>7
<1>5. CASE C!Entitled(r, "leave") /\ C!Leave(r)
  <2> DEFINE there == {u \in Users : in[r.conv][u] = "in"}
  <2>1. r.op = "leave" BY <1>5 DEF C!Entitled
  <2>2. r.conv \in Convs BY <1>0, <2>1 DEF Named
  <2>5. /\ kind[r.conv] = "group" /\ UNCHANGED <<kind, pair>> /\ r.actor \in there
        /\ in' = [in EXCEPT ![r.conv] = [in[r.conv] EXCEPT ![r.actor] = "out"]]
    BY <1>5, <1>f DEF C!Leave, C!ConversationMemberActive, C!RemoveConversationMember
  <2>6. Cardinality(there) > 1
    BY <1>5 DEF C!Leave, C!CountActiveConversationMembers, C!Cardinality, Cardinality, C!IsFiniteSet, IsFiniteSet
  <2>7. there # {r.actor}
    <3>1. Cardinality({r.actor}) = 1 BY FS_Singleton
    <3> HIDE DEF there
    <3> QED BY <2>6, <3>1
  <2>8. PICK v \in there : v # r.actor BY <2>5, <2>7
  <2>9. Committed(r.conv) BY <1>f, <2>5, <2>8 DEF Committed
  <2> QED BY <2>2, <2>9
<1> QED BY <1>1, <1>2, <1>3, <1>4, <1>5, <1>a DEF C!Apply

LEMMA CommittedKeeps ==
  ASSUME ConversationInv, NEW c \in Convs, Committed(c), cRole' = cRole, grant' = grant,
         RequestsNamed', request' \in [Requests -> Asked]
  PROVE  ConversationInv'
<1>0. /\ C!ConversationsTypeOK /\ OneDirect /\ C!NoMemberOutsideSpace
      /\ in \in [Convs -> [Users -> {"none", "in", "out"}]]
  BY DEF ConversationInv, C!ConversationsTypeOK
<1>1. ASSUME NEW us \in SUBSET Users, NEW t \in {"direct", "group"},
             kind[c] = "none", kind' = [kind EXCEPT ![c] = t],
             pair' = [pair EXCEPT ![c] = IF t = "direct" THEN us ELSE {}],
             t = "direct" => C!FindDirectConversation(us) = {},
             \A u \in us : cRole[u] # "out",
             in' = [in EXCEPT ![c] = [u \in Users |-> IF u \in us THEN "in" ELSE in[c][u]]]
      PROVE  ConversationInv'
  <2> DEFINE row1 == [u \in Users |-> IF u \in us THEN "in" ELSE in[c][u]]
  <2>1. row1 \in [Users -> {"none", "in", "out"}] BY <1>0
  <2>2. in' \in [Convs -> [Users -> {"none", "in", "out"}]] BY <1>0, <1>1, <2>1
  <2>3. \A d \in Convs, u \in Users : in'[d][u] = "in" => in[d][u] = "in" \/ u \in us
    BY <1>0, <1>1
  <2>4. C!ConversationsTypeOK' BY <1>0, <1>1, <2>2 DEF C!ConversationsTypeOK, Asked
  <2>5. C!NoMemberOutsideSpace' BY <1>0, <1>1, <2>3 DEF C!NoMemberOutsideSpace
  <2>6. /\ \A d \in Convs : kind'[d] = IF d = c THEN t ELSE kind[d]
        /\ \A d \in Convs : d # c => pair'[d] = pair[d]
        /\ t = "direct" => pair'[c] = us
    BY <1>0, <1>1 DEF C!ConversationsTypeOK
  <2>7. t = "direct" => \A d \in Convs : kind[d] = "direct" => pair[d] # us
    BY <1>1 DEF C!FindDirectConversation
  <2>8. OneDirect' BY <1>0, <1>1, <2>6, <2>7 DEF OneDirect
  <2> QED BY <2>4, <2>5, <2>8 DEF ConversationInv
<1>2. ASSUME NEW u \in Users, NEW x \in {"in", "out"}, UNCHANGED <<kind, pair>>, x = "in" => cRole[u] # "out",
             in' = [in EXCEPT ![c] = [in[c] EXCEPT ![u] = x]]
      PROVE  ConversationInv'
  <2>1. [in[c] EXCEPT ![u] = x] \in [Users -> {"none", "in", "out"}] BY <1>0
  <2>2. in' \in [Convs -> [Users -> {"none", "in", "out"}]] BY <1>0, <1>2, <2>1
  <2>3. \A d \in Convs, v \in Users : in'[d][v] = "in" => in[d][v] = "in" \/ (v = u /\ x = "in")
    BY <1>0, <1>2
  <2>4. C!ConversationsTypeOK' BY <1>0, <1>2, <2>2 DEF C!ConversationsTypeOK, Asked
  <2>5. C!NoMemberOutsideSpace' BY <1>0, <1>2, <2>3 DEF C!NoMemberOutsideSpace
  <2>6. OneDirect' BY <1>0, <1>2 DEF OneDirect
  <2> QED BY <2>4, <2>5, <2>6 DEF ConversationInv
<1> QED BY <1>1, <1>2 DEF Committed

(* Every step keeps the invariant: a removal from the space takes its user *)
(* out of every conversation in the same transaction.                      *)
LEMMA ConversationStepInv ==
  ConversationInv /\ [C!ConversationsNext]_(C!conversationVars) => ConversationInv'
<1> SUFFICES ASSUME ConversationInv, [C!ConversationsNext]_(C!conversationVars) PROVE ConversationInv' OBVIOUS
<1>0. /\ C!ConversationsTypeOK /\ RequestsNamed /\ OneDirect /\ C!NoMemberOutsideSpace
      /\ request \in [Requests -> Asked]
  BY DEF ConversationInv, C!ConversationsTypeOK, Asked
<1>1. ASSUME NEW q \in Requests, NEW r \in Asked, Named(r), request' = [request EXCEPT ![q] = r],
             UNCHANGED <<cRole, grant, kind, pair, in>>
      PROVE  ConversationInv'
  <2>1. RequestsNamed' /\ request' \in [Requests -> Asked] BY <1>1, RequestsKept
  <2> QED BY <1>0, <1>1, <2>1 DEF ConversationInv, C!ConversationsTypeOK, Asked, OneDirect, C!NoMemberOutsideSpace
<1>2. ASSUME NEW q \in Requests, NEW a \in Users,
             \/ \E u \in Users \ {a} : C!Begin(q, "direct", a, NoConv, {a, u})
             \/ \E us \in SUBSET (Users \ {a}) \ {{}} : C!Begin(q, "group", a, NoConv, us \union {a})
             \/ \E op \in {"add", "remove"}, c \in Convs, u \in Users : C!Begin(q, op, a, c, {u})
             \/ \E c \in Convs : C!Begin(q, "leave", a, c, {a})
      PROVE  ConversationInv'
  <2>1. ASSUME NEW op \in DOMAIN C!Capable, NEW c \in Convs \union {NoConv}, NEW us \in SUBSET Users,
               C!Begin(q, op, a, c, us), Named([op |-> op, actor |-> a, conv |-> c, users |-> us])
        PROVE  ConversationInv'
    <3> DEFINE r == [op |-> op, actor |-> a, conv |-> c, users |-> us]
    <3>1. r \in Asked /\ Named(r) BY <2>1 DEF Asked
    <3>2. request' = [request EXCEPT ![q] = r] /\ UNCHANGED <<cRole, grant, kind, pair, in>>
      BY <2>1 DEF C!Begin
    <3> HIDE DEF r
    <3> QED BY <1>1, <3>1, <3>2
  <2>2. {"direct", "group", "add", "remove", "leave"} \subseteq DOMAIN C!Capable BY DEF C!Capable
  <2>3. ASSUME NEW u \in Users \ {a}, C!Begin(q, "direct", a, NoConv, {a, u}) PROVE ConversationInv'
    <3>1. Named([op |-> "direct", actor |-> a, conv |-> NoConv, users |-> {a, u}]) BY DEF Named
    <3> QED BY <2>1, <2>2, <2>3, <3>1
  <2>4. ASSUME NEW us \in SUBSET (Users \ {a}), C!Begin(q, "group", a, NoConv, us \union {a})
        PROVE  ConversationInv'
    <3> DEFINE all == us \union {a}
    <3>1. Named([op |-> "group", actor |-> a, conv |-> NoConv, users |-> all]) BY DEF Named
    <3>2. all \in SUBSET Users OBVIOUS
    <3>3. C!Begin(q, "group", a, NoConv, all) BY <2>4
    <3> HIDE DEF all
    <3> QED BY <2>1, <2>2, <3>1, <3>2, <3>3
  <2>5. ASSUME NEW op \in {"add", "remove"}, NEW c \in Convs, NEW u \in Users, C!Begin(q, op, a, c, {u})
        PROVE  ConversationInv'
    <3>1. Named([op |-> op, actor |-> a, conv |-> c, users |-> {u}]) BY DEF Named
    <3> QED BY <2>1, <2>2, <2>5, <3>1
  <2>6. ASSUME NEW c \in Convs, C!Begin(q, "leave", a, c, {a}) PROVE ConversationInv'
    <3>1. Named([op |-> "leave", actor |-> a, conv |-> c, users |-> {a}]) BY DEF Named
    <3> QED BY <2>1, <2>2, <2>6, <3>1
  <2> QED BY <1>2, <2>3, <2>4, <2>5, <2>6
<1>3. ASSUME NEW q \in Requests, C!Refuse(q) PROVE ConversationInv'
  BY <1>1, <1>3, NoneAsked DEF C!Refuse
<1>4. ASSUME NEW q \in Requests, C!Commit(q) PROVE ConversationInv'
  <2>1. RequestsNamed' /\ request' \in [Requests -> Asked] BY <1>4, NoneAsked, RequestsKept DEF C!Commit
  <2>2. UNCHANGED <<cRole, grant>> BY <1>4 DEF C!Commit
  <2> QED BY <1>4, <2>1, <2>2, CommitIs, CommittedKeeps
<1>5. ASSUME NEW u \in Users, C!RemoveSpaceMember(u) PROVE ConversationInv'
  <2>1. /\ cRole' = [cRole EXCEPT ![u] = "out"] /\ UNCHANGED <<grant, kind, pair, request>>
        /\ in' = [c \in Convs |-> [in[c] EXCEPT ![u] = IF in[c][u] = "in" THEN "out" ELSE in[c][u]]]
    BY <1>5 DEF C!RemoveSpaceMember
  <2>2. in \in [Convs -> [Users -> {"none", "in", "out"}]] BY <1>0 DEF C!ConversationsTypeOK
  <2>3. ASSUME NEW c \in Convs
        PROVE  /\ in'[c] \in [Users -> {"none", "in", "out"}]
               /\ \A v \in Users : in'[c][v] = "in" => in[c][v] = "in" /\ v # u
    BY <2>1, <2>2
  <2>4. in' \in [Convs -> [Users -> {"none", "in", "out"}]]
    <3>1. in' = [c \in Convs |-> in'[c]] BY <2>1
    <3> QED BY <2>3, <3>1
  <2>5. C!ConversationsTypeOK' BY <1>0, <2>1, <2>4 DEF C!ConversationsTypeOK
  <2>6. C!NoMemberOutsideSpace' BY <1>0, <2>1, <2>3 DEF C!NoMemberOutsideSpace, C!ConversationsTypeOK
  <2> QED BY <1>0, <2>1, <2>5, <2>6 DEF ConversationInv, OneDirect, RequestsNamed
<1>6. ASSUME NEW u \in Users, C!AcceptInvite(u) \/ C!UpdateMemberRole(u) PROVE ConversationInv'
  <2>1. /\ UNCHANGED <<grant, kind, pair, in, request>>
        /\ \E x \in {"admin", "member"} : cRole' = [cRole EXCEPT ![u] = x]
    BY <1>6 DEF C!AcceptInvite, C!UpdateMemberRole
  <2>2. C!ConversationsTypeOK' BY <1>0, <2>1 DEF C!ConversationsTypeOK
  <2>3. C!NoMemberOutsideSpace' BY <1>0, <2>1 DEF C!NoMemberOutsideSpace, C!ConversationsTypeOK
  <2> QED BY <1>0, <2>1, <2>2, <2>3 DEF ConversationInv, OneDirect, RequestsNamed
<1>7. ASSUME NEW a \in Users, NEW u \in Users, C!UpdateVisibility(a, u) PROVE ConversationInv'
  <2>1. UNCHANGED <<cRole, kind, pair, in, request>> BY <1>7 DEF C!UpdateVisibility
  <2>2. grant' \subseteq Users \X Users BY <1>0, <1>7 DEF C!UpdateVisibility, C!ConversationsTypeOK
  <2> QED BY <1>0, <2>1, <2>2 DEF ConversationInv, C!ConversationsTypeOK, OneDirect, C!NoMemberOutsideSpace, RequestsNamed
<1>8. CASE UNCHANGED C!conversationVars
  BY <1>0, <1>8 DEF C!conversationVars, ConversationInv, C!ConversationsTypeOK, OneDirect, C!NoMemberOutsideSpace, RequestsNamed
<1> QED BY <1>2, <1>3, <1>4, <1>5, <1>6, <1>7, <1>8 DEF C!ConversationsNext

LEMMA ConversationSteps ==
  ASSUME ConversationInv, ConversationInv', [C!ConversationsNext]_(C!conversationVars)
  PROVE  /\ \A c, d \in Convs : (c # d /\ kind'[c] = "direct" /\ kind'[d] = "direct") => pair'[c] # pair'[d]
         /\ \A c \in Convs, u \in Users : (kind[c] = "direct" /\ in[c][u] = "out") => in'[c][u] = "out"
         /\ \A c \in Convs : (kind[c] = "group" /\ \A u \in Users : in'[c][u] # "in")
              => \A u \in Users : in[c][u] = "in" => cRole'[u] = "out"
<1> DEFINE Final == \A c \in Convs, u \in Users : (kind[c] = "direct" /\ in[c][u] = "out") => in'[c][u] = "out"
           Emptied == \A c \in Convs : (kind[c] = "group" /\ \A u \in Users : in'[c][u] # "in")
                        => \A u \in Users : in[c][u] = "in" => cRole'[u] = "out"
<1>0. /\ OneDirect' /\ in \in [Convs -> [Users -> {"none", "in", "out"}]]
      /\ cRole \in [Users -> {"owner", "admin", "member", "out"}]
  BY DEF ConversationInv, C!ConversationsTypeOK
<1>1. ASSUME UNCHANGED in PROVE Final /\ Emptied BY <1>1
<1>2. ASSUME NEW q \in Requests, C!Commit(q) PROVE Final /\ Emptied
  <2>1. PICK c \in Convs : Committed(c) BY <1>2, CommitIs
  <2>2. \A d \in Convs : d # c => in'[d] = in[d] BY <1>0, <2>1 DEF Committed
  <2>3. kind[c] # "direct" BY <2>1 DEF Committed
  <2>4. kind[c] = "group" => \E u \in Users : in'[c][u] = "in" BY <1>0, <2>1 DEF Committed
  <2> QED BY <2>2, <2>3, <2>4
<1>3. ASSUME NEW u \in Users, C!RemoveSpaceMember(u) PROVE Final /\ Emptied
  <2>1. /\ cRole' = [cRole EXCEPT ![u] = "out"]
        /\ in' = [c \in Convs |-> [in[c] EXCEPT ![u] = IF in[c][u] = "in" THEN "out" ELSE in[c][u]]]
    BY <1>3 DEF C!RemoveSpaceMember
  <2>2. \A c \in Convs, v \in Users : in'[c][v] = IF v = u /\ in[c][v] = "in" THEN "out" ELSE in[c][v]
    BY <1>0, <2>1
  <2>3. cRole'[u] = "out" BY <1>0, <2>1
  <2> QED BY <2>2, <2>3
<1>4. Final /\ Emptied
  BY <1>1, <1>2, <1>3 DEF C!ConversationsNext, C!conversationVars, C!Begin, C!Refuse, C!AcceptInvite,
     C!UpdateMemberRole, C!UpdateVisibility
<1> QED BY <1>0, <1>4 DEF OneDirect

(* Two users have one direct conversation, nobody returns to one they were *)
(* removed from, a group is not emptied by members who leave at once, and  *)
(* nobody outside the space is in a conversation (conversations/service.go *)
(* under the lock "workspace-members"), for any number of users, requests  *)
(* and conversations.                                                      *)
THEOREM ConversationsCorrect ==
  ConversationSpec => /\ [](C!ConversationsTypeOK /\ C!NoMemberOutsideSpace)
                      /\ C!DirectUniqueAndFinal /\ C!GroupEmptiedByRemovalOnly
<1> DEFINE Unique == /\ \A c, d \in Convs : (c # d /\ kind'[c] = "direct" /\ kind'[d] = "direct") => pair'[c] # pair'[d]
                     /\ \A c \in Convs, u \in Users : (kind[c] = "direct" /\ in[c][u] = "out") => in'[c][u] = "out"
           Emptied == \A c \in Convs : (kind[c] = "group" /\ \A u \in Users : in'[c][u] # "in")
                        => \A u \in Users : in[c][u] = "in" => cRole'[u] = "out"
<1>1. ConversationInv => C!ConversationsTypeOK /\ C!NoMemberOutsideSpace BY DEF ConversationInv
<1>2. ConversationInv /\ ConversationInv' /\ [C!ConversationsNext]_(C!conversationVars)
        => [Unique]_(C!conversationVars) /\ [Emptied]_(C!conversationVars)
  BY ConversationSteps
<1> QED BY <1>1, <1>2, ConversationInitially, ConversationStepInv, PTL
        DEF ConversationSpec, C!DirectUniqueAndFinal, C!GroupEmptiedByRemovalOnly

-----------------------------------------------------------------------------

(***************************************************************************)
(* Messages.                                                               *)
(***************************************************************************)
MessageSpec == G!MessagesInit /\ [][G!MessagesNext]_(G!messageVars)

Sent == [author : Users, key : Keys, content : Contents, at : 1..MaxMessages, recalled : BOOLEAN, deleted : BOOLEAN]
Creation == [stage : {"idle", "begun", "applied"}, author : Users \union {Nobody}, key : Keys \union {Nobody},
             content : Contents \union {Nobody}, at : 0..MaxMessages, victims : SUBSET (1..MaxMessages)]
Pinning == [user : Users \union {Nobody}, m : 0..MaxMessages]
MessagesShaped ==
  /\ clock \in 0..MaxMessages /\ message \in Seq(Sent) /\ creating \in [Creates -> Creation] /\ pinning \in Pinning
  /\ pinnedBy \in [1..MaxMessages -> Users \union {Nobody}] /\ pinCount \in [Users -> 0..MaxPinnedMessages]
  /\ lastRead \in [Users -> 0..MaxMessages] /\ reaction \subseteq (1..MaxMessages) \X Users /\ raced \subseteq 1..MaxMessages

(* A message or a creation under way has a time of its own, so there are   *)
(* no more of them than times.                                             *)
Busy == {r \in Creates : creating[r].stage # "idle"}
TimesTaken == Len(message) + Cardinality(Busy) <= clock

(* A creation under way has an author, a key and a time; what it chose to  *)
(* prune was not pinned when it chose.                                     *)
Fits(t) == t.stage # "idle" => t.author \in Users /\ t.key \in Keys /\ t.content \in Contents /\ t.at \in 1..MaxMessages
Spared(t) == \A m \in t.victims : m \in 1..Len(message) /\ (pinnedBy[m] # Nobody => m \in raced)
CreationsFit == \A r \in Creates : Fits(creating[r]) /\ Spared(creating[r])

(* One creation at a time holds the lock, and no message has its key.      *)
Unsent(t) == \A m \in 1..Len(message) : ~(message[m].author = t.author /\ message[m].key = t.key)
OneApplied ==
  /\ \A r, s \in Creates : creating[r].stage = "applied" /\ creating[s].stage = "applied" => r = s
  /\ \A r \in Creates : creating[r].stage = "applied" => Unsent(creating[r])

(* A pin under way is of a message nobody has pinned.                      *)
PinFits ==
  pinning = G!NotPinning \/ (pinning.user \in Users /\ pinning.m \in 1..Len(message) /\ pinnedBy[pinning.m] = Nobody)

MessageInv ==
  /\ MessagesShaped /\ TimesTaken /\ CreationsFit /\ OneApplied /\ PinFits
  /\ G!PinCountExact /\ G!PinnedSurvives /\ G!OneMessagePerClientId /\ G!RecallErases

LEMMA PinCardinality == ASSUME NEW Z PROVE G!Cardinality(Z) = Cardinality(Z)
BY DEF G!Cardinality, Cardinality, G!IsFiniteSet, IsFiniteSet

LEMMA MessageIds ==
  ASSUME MessagesShaped
  PROVE  /\ Len(message) \in Nat /\ G!Ids = 1..Len(message) /\ \A m \in 1..Len(message) : message[m] \in Sent
<1>1. message \in Seq(Sent) BY DEF MessagesShaped
<1> HIDE DEF Sent
<1> QED BY <1>1 DEF G!Ids

LEMMA IdsBounded ==
  ASSUME MessagesShaped, TimesTaken
  PROVE  Len(message) <= MaxMessages /\ 1..Len(message) \subseteq 1..MaxMessages /\ IsFiniteSet(Busy) /\ Cardinality(Busy) \in Nat
<1>1. Len(message) \in Nat /\ clock \in 0..MaxMessages /\ MaxMessages \in Nat BY MessageIds, ChatAssumption DEF MessagesShaped
<1>2. IsFiniteSet(Busy) /\ Cardinality(Busy) \in Nat
  <2>1. IsFiniteSet(Creates) /\ Busy \subseteq Creates BY ChatAssumption DEF Busy
  <2> QED BY <2>1, FS_Subset, FS_CardinalityType
<1> QED BY <1>1, <1>2 DEF TimesTaken

LEMMA NotCreatingShape == G!NotCreating \in Creation /\ G!NotCreating.stage = "idle" /\ G!NotCreating.victims = {}
BY ChatAssumption DEF G!NotCreating, Creation

LEMMA MessagesInitially == G!MessagesInit => MessageInv
<1> SUFFICES ASSUME G!MessagesInit PROVE MessageInv OBVIOUS
<1>1. MessagesShaped
  <2>1. message = <<>> /\ message \in Seq(Sent)
    <3> HIDE DEF Sent
    <3> QED BY DEF G!MessagesInit
  <2>2. creating \in [Creates -> Creation] BY NotCreatingShape DEF G!MessagesInit
  <2>3. pinning \in Pinning BY ChatAssumption DEF G!MessagesInit, G!NotPinning, Pinning
  <2> HIDE DEF Sent, Creation, Pinning
  <2> QED BY <2>1, <2>2, <2>3, ChatAssumption DEF G!MessagesInit, MessagesShaped
<1>2. TimesTaken
  <2>1. Busy = {} BY NotCreatingShape DEF G!MessagesInit, Busy
  <2>2. Cardinality(Busy) = 0 BY <2>1, FS_EmptySet
  <2>3. Len(message) = 0 /\ clock = 0 BY DEF G!MessagesInit
  <2> QED BY <2>2, <2>3 DEF TimesTaken
<1>3. CreationsFit BY NotCreatingShape DEF G!MessagesInit, CreationsFit, Fits, Spared
<1>4. OneApplied BY NotCreatingShape DEF G!MessagesInit, OneApplied
<1>5. PinFits BY DEF G!MessagesInit, PinFits
<1>6. G!PinCountExact
  <2>1. ASSUME NEW u \in Users PROVE pinCount[u] = G!Cardinality({m \in 1..MaxMessages : pinnedBy[m] = u})
    <3>1. {m \in 1..MaxMessages : pinnedBy[m] = u} = {} BY ChatAssumption DEF G!MessagesInit
    <3>2. Cardinality({}) = 0 BY FS_EmptySet
    <3>3. pinCount[u] = 0 BY DEF G!MessagesInit
    <3> QED BY <3>1, <3>2, <3>3, PinCardinality
  <2> QED BY <2>1 DEF G!PinCountExact
<1>7. G!PinnedSurvives /\ G!OneMessagePerClientId /\ G!RecallErases
  BY DEF G!MessagesInit, G!PinnedSurvives, G!OneMessagePerClientId, G!RecallErases, G!Ids
<1> QED BY <1>1, <1>2, <1>3, <1>4, <1>5, <1>6, <1>7 DEF MessageInv

LEMMA MessageTypes == MessageInv => G!MessagesTypeOK
<1> SUFFICES ASSUME MessageInv PROVE G!MessagesTypeOK OBVIOUS
<1>1. MessagesShaped /\ TimesTaken BY DEF MessageInv
<1>2. Len(message) <= MaxMessages /\ \A m \in G!Ids : message[m] \in Sent BY <1>1, MessageIds, IdsBounded
<1> QED BY <1>1, <1>2 DEF MessagesShaped, G!MessagesTypeOK, Sent, Creation, Pinning

(* A creation begins: it takes the next time.                              *)
LEMMA CreateStep ==
  ASSUME MessageInv, NEW r \in Creates, NEW u \in Users, NEW k \in Keys, NEW c \in Contents, G!CreateMessage(r, u, k, c)
  PROVE  MessageInv'
<1> DEFINE t == [stage |-> "begun", author |-> u, key |-> k, content |-> c, at |-> clock + 1, victims |-> {}]
<1>0. /\ MessagesShaped /\ TimesTaken /\ CreationsFit /\ OneApplied /\ PinFits
      /\ G!PinCountExact /\ G!PinnedSurvives /\ G!OneMessagePerClientId /\ G!RecallErases BY DEF MessageInv
<1>1. /\ creating[r] = G!NotCreating /\ clock < MaxMessages /\ clock' = clock + 1 /\ creating' = [creating EXCEPT ![r] = t]
      /\ UNCHANGED <<message, pinning, pinnedBy, pinCount, lastRead, reaction, raced>>
  BY DEF G!CreateMessage
<1>2. clock \in 0..MaxMessages /\ MaxMessages \in Nat BY <1>0, ChatAssumption DEF MessagesShaped
<1>3. clock + 1 \in 1..MaxMessages /\ clock' \in 0..MaxMessages BY <1>1, <1>2
<1>4. t \in Creation /\ t.stage = "begun" /\ t.victims = {} /\ Fits(t) BY <1>3 DEF Creation, Fits
<1> HIDE DEF t
<1>5. creating' \in [Creates -> Creation] /\ \A s \in Creates : creating'[s] = IF s = r THEN t ELSE creating[s]
  <2>1. creating \in [Creates -> Creation] BY <1>0 DEF MessagesShaped
  <2> HIDE DEF Creation
  <2> QED BY <1>1, <1>4, <2>1
<1>6. MessagesShaped'
  <2> HIDE DEF Sent, Creation, Pinning
  <2> QED BY <1>0, <1>1, <1>3, <1>5 DEF MessagesShaped
<1>7. TimesTaken'
  <2>1. Busy' = Busy \union {r} /\ r \notin Busy BY <1>1, <1>4, <1>5, NotCreatingShape DEF Busy
  <2>2. IsFiniteSet(Busy) /\ Cardinality(Busy) \in Nat /\ Len(message) \in Nat BY <1>0, IdsBounded, MessageIds
  <2>3. Cardinality(Busy') = Cardinality(Busy) + 1 BY <2>1, <2>2, FS_AddElement
  <2> QED BY <1>0, <1>1, <1>2, <2>2, <2>3 DEF TimesTaken
<1>8. CreationsFit'
  <2> SUFFICES ASSUME NEW s \in Creates PROVE Fits(creating'[s]) /\ Spared(creating[s])' BY DEF CreationsFit, Fits
  <2>1. CASE s = r BY <1>4, <1>5, <2>1 DEF Spared
  <2>2. CASE s # r BY <1>0, <1>1, <1>5, <2>2 DEF Spared, CreationsFit
  <2> QED BY <2>1, <2>2
<1>9. OneApplied'
  <2>1. \A s \in Creates : creating'[s].stage = "applied" => s # r /\ creating'[s] = creating[s] BY <1>4, <1>5
  <2> QED BY <1>0, <1>1, <2>1 DEF OneApplied, Unsent
<1>10. PinFits' BY <1>0, <1>1 DEF PinFits
<1>11. (G!PinCountExact /\ G!PinnedSurvives /\ G!OneMessagePerClientId /\ G!RecallErases)'
  BY <1>0, <1>1 DEF G!PinCountExact, G!PinnedSurvives, G!OneMessagePerClientId, G!RecallErases, G!Ids
<1> QED BY <1>6, <1>7, <1>8, <1>9, <1>10, <1>11 DEF MessageInv

(* What retention chooses is unpinned.                                     *)
LEMMA Chosen ==
  ASSUME NEW at, NEW m \in G!EnforceRetention(at), m # 0 PROVE m \in G!Ids /\ pinnedBy[m] = Nobody
BY DEF G!EnforceRetention, G!Beyond

LEMMA ApplyStep ==
  ASSUME MessageInv, NEW r \in Creates, G!createMessageInTransaction(r)
  PROVE  MessageInv'
<1> DEFINE b == creating[r]
           victims == G!EnforceRetention(b.at)
           done == G!FindMessageByClientID(b.author, b.key) # {} \/ 0 \in victims
           t == IF done THEN G!NotCreating ELSE [b EXCEPT !.stage = "applied", !.victims = victims]
<1>0. /\ MessagesShaped /\ TimesTaken /\ CreationsFit /\ OneApplied /\ PinFits
      /\ G!PinCountExact /\ G!PinnedSurvives /\ G!OneMessagePerClientId /\ G!RecallErases BY DEF MessageInv
<1>1. /\ b.stage = "begun" /\ G!lockConversation /\ creating' = [creating EXCEPT ![r] = t]
      /\ UNCHANGED <<clock, message, pinning, pinnedBy, pinCount, lastRead, reaction, raced>>
  BY DEF G!createMessageInTransaction
<1>2. b \in Creation /\ Fits(b) BY <1>0 DEF MessagesShaped, CreationsFit
<1>3. ~done => victims \subseteq 1..Len(message) /\ \A m \in victims : pinnedBy[m] = Nobody BY <1>0, Chosen, MessageIds
<1>4. ~done => Unsent(b)
  <2>1. G!Ids = 1..Len(message) BY <1>0, MessageIds
  <2> QED BY <2>1 DEF G!FindMessageByClientID, Unsent
<1> HIDE DEF b, victims, done
<1>5. /\ t \in Creation /\ Fits(t) /\ Spared(t) /\ t.stage \in {"idle", "applied"}
      /\ t.stage = "applied" => Unsent(t)
  <2>1. CASE done BY <2>1, NotCreatingShape DEF Fits, Spared
  <2>2. CASE ~done
    <3>1. t = [b EXCEPT !.stage = "applied", !.victims = victims] BY <2>2
    <3>2. victims \subseteq 1..MaxMessages BY <1>0, <1>3, <2>2, IdsBounded
    <3>3. /\ t \in Creation /\ t.author = b.author /\ t.key = b.key /\ t.content = b.content /\ t.at = b.at
          /\ t.victims = victims /\ t.stage = "applied" BY <1>2, <3>1, <3>2 DEF Creation
    <3>4. Fits(t) BY <1>1, <1>2, <3>3 DEF Fits
    <3>5. Spared(t) BY <1>1, <1>3, <2>2, <3>3 DEF Spared
    <3> QED BY <1>4, <2>2, <3>3, <3>4, <3>5 DEF Unsent
  <2> QED BY <2>1, <2>2
<1> HIDE DEF t
<1>6. creating' \in [Creates -> Creation] /\ \A s \in Creates : creating'[s] = IF s = r THEN t ELSE creating[s]
  <2>1. creating \in [Creates -> Creation] BY <1>0 DEF MessagesShaped
  <2> HIDE DEF Creation
  <2> QED BY <1>1, <1>5, <2>1
<1>7. MessagesShaped'
  <2> HIDE DEF Sent, Creation, Pinning
  <2> QED BY <1>0, <1>1, <1>6 DEF MessagesShaped
<1>8. TimesTaken'
  <2>1. Busy' \subseteq Busy BY <1>1, <1>6 DEF Busy, b
  <2>2. IsFiniteSet(Busy) /\ Cardinality(Busy) \in Nat /\ Len(message) \in Nat BY <1>0, IdsBounded, MessageIds
  <2>3. Cardinality(Busy') <= Cardinality(Busy) /\ Cardinality(Busy') \in Nat BY <2>1, <2>2, FS_Subset, FS_CardinalityType
  <2>4. clock \in Nat BY <1>0, ChatAssumption DEF MessagesShaped
  <2> QED BY <1>0, <1>1, <2>2, <2>3, <2>4 DEF TimesTaken
<1>9. CreationsFit'
  <2> SUFFICES ASSUME NEW s \in Creates PROVE Fits(creating'[s]) /\ Spared(creating[s])' BY DEF CreationsFit, Fits
  <2>1. CASE s = r
    <3>1. creating'[s] = t BY <1>6, <2>1
    <3> QED BY <1>1, <1>5, <3>1 DEF Spared
  <2>2. CASE s # r BY <1>0, <1>1, <1>6, <2>2 DEF Spared, CreationsFit
  <2> QED BY <2>1, <2>2
<1>10. OneApplied'
  <2>1. \A s \in Creates : creating[s].stage # "applied" BY <1>1 DEF G!lockConversation
  <2>2. \A s \in Creates : creating'[s].stage = "applied" => s = r /\ creating'[s] = t BY <1>6, <2>1
  <2>3. ASSUME NEW s \in Creates, creating'[s].stage = "applied" PROVE Unsent(creating[s])'
    BY <1>1, <1>5, <2>2, <2>3 DEF Unsent
  <2> QED BY <2>2, <2>3 DEF OneApplied
<1>11. PinFits' BY <1>0, <1>1 DEF PinFits
<1>12. (G!PinCountExact /\ G!PinnedSurvives /\ G!OneMessagePerClientId /\ G!RecallErases)'
  BY <1>0, <1>1 DEF G!PinCountExact, G!PinnedSurvives, G!OneMessagePerClientId, G!RecallErases, G!Ids
<1> QED BY <1>7, <1>8, <1>9, <1>10, <1>11, <1>12 DEF MessageInv

(* The commit of a creation: what it chose is pruned, its message is last. *)
LEMMA Inserted ==
  ASSUME MessagesShaped, NEW t \in Creation, t.author \in Users, t.key \in Keys, t.content \in Contents, t.at \in 1..MaxMessages,
         message' = G!InsertMessage(t)
  PROVE  /\ message' \in Seq(Sent) /\ Len(message') = Len(message) + 1
         /\ \A m \in 1..Len(message) :
              /\ message'[m].author = message[m].author /\ message'[m].key = message[m].key
              /\ message'[m].recalled = message[m].recalled
              /\ message'[m].deleted => message[m].deleted \/ m \in t.victims
         /\ message'[Len(message) + 1].author = t.author /\ message'[Len(message) + 1].key = t.key
         /\ ~message'[Len(message) + 1].recalled /\ ~message'[Len(message) + 1].deleted
<1> DEFINE n == Len(message)
           old == [m \in G!Ids |-> [message[m] EXCEPT !.deleted = @ \/ m \in t.victims]]
           new == [author |-> t.author, key |-> t.key, content |-> t.content, at |-> t.at, recalled |-> FALSE, deleted |-> FALSE]
<1>1. n \in Nat /\ G!Ids = 1..n /\ \A m \in 1..n : message[m] \in Sent BY MessageIds
<1>2. message' = Append(old, new) BY DEF G!InsertMessage
<1>3. new \in Sent /\ new.author = t.author /\ new.key = t.key /\ ~new.recalled /\ ~new.deleted BY DEF Sent
<1>4. ASSUME NEW m \in 1..n
      PROVE  /\ old[m] \in Sent /\ old[m].author = message[m].author /\ old[m].key = message[m].key
             /\ old[m].recalled = message[m].recalled /\ (old[m].deleted => message[m].deleted \/ m \in t.victims)
  <2>1. old[m] = [message[m] EXCEPT !.deleted = @ \/ m \in t.victims] BY <1>1
  <2>2. message[m] \in Sent BY <1>1
  <2> HIDE DEF old
  <2>3. (message[m].deleted \/ m \in t.victims) \in BOOLEAN OBVIOUS
  <2>4. old[m] \in Sent /\ old[m].author = message[m].author /\ old[m].key = message[m].key
             /\ old[m].recalled = message[m].recalled BY <2>1, <2>2, <2>3 DEF Sent
  <2>5. old[m].deleted = (message[m].deleted \/ m \in t.victims) BY <2>1, <2>2 DEF Sent
  <2> QED BY <2>4, <2>5
<1>5. old \in Seq(Sent) /\ Len(old) = n
  <2>1. old = [m \in 1..n |-> old[m]] BY <1>1
  <2> HIDE DEF old, Sent, n
  <2>2. old \in [1..n -> Sent] BY <1>4, <2>1
  <2> QED BY <1>1, <2>2
<1> HIDE DEF old, new, Sent
<1>6. /\ message' \in Seq(Sent) /\ Len(message') = n + 1 /\ message'[n + 1] = new
      /\ \A m \in 1..n : message'[m] = old[m]
  BY <1>1, <1>2, <1>3, <1>5
<1> QED BY <1>3, <1>4, <1>6

LEMMA CommitStep ==
  ASSUME MessageInv, NEW r \in Creates, G!CommitMessage(r)
  PROVE  MessageInv'
<1> DEFINE t == creating[r]  n == Len(message)
<1>0. /\ MessagesShaped /\ TimesTaken /\ CreationsFit /\ OneApplied /\ PinFits
      /\ G!PinCountExact /\ G!PinnedSurvives /\ G!OneMessagePerClientId /\ G!RecallErases BY DEF MessageInv
<1>1. /\ t.stage = "applied" /\ message' = G!InsertMessage(t) /\ creating' = [creating EXCEPT ![r] = G!NotCreating]
      /\ UNCHANGED <<clock, pinning, pinnedBy, pinCount, lastRead, reaction, raced>>
  BY DEF G!CommitMessage
<1>2. t \in Creation /\ Fits(t) /\ Spared(t) /\ Unsent(t) BY <1>0, <1>1 DEF MessagesShaped, CreationsFit, OneApplied
<1>3. t.author \in Users /\ t.key \in Keys /\ t.content \in Contents /\ t.at \in 1..MaxMessages BY <1>1, <1>2 DEF Fits
<1>4. /\ message' \in Seq(Sent) /\ Len(message') = n + 1
      /\ \A m \in 1..n :
              /\ message'[m].author = message[m].author /\ message'[m].key = message[m].key
              /\ message'[m].recalled = message[m].recalled
              /\ message'[m].deleted => message[m].deleted \/ m \in t.victims
      /\ message'[n + 1].author = t.author /\ message'[n + 1].key = t.key
      /\ ~message'[n + 1].recalled /\ ~message'[n + 1].deleted
  <2> HIDE DEF t, Creation
  <2> QED BY <1>0, <1>1, <1>2, <1>3, Inserted
<1>5. n \in Nat /\ G!Ids = 1..n BY <1>0, MessageIds
<1>6. G!Ids' = 1..(n + 1)
  <2> HIDE DEF Sent, n
  <2> QED BY <1>4, <1>5 DEF G!Ids
<1> HIDE DEF n
<1>7. creating' \in [Creates -> Creation] /\ \A s \in Creates : creating'[s] = IF s = r THEN G!NotCreating ELSE creating[s]
  <2>1. creating \in [Creates -> Creation] BY <1>0 DEF MessagesShaped
  <2> HIDE DEF Creation
  <2> QED BY <1>1, <2>1, NotCreatingShape
<1>8. MessagesShaped'
  <2> HIDE DEF Sent, Creation, Pinning
  <2> QED BY <1>0, <1>1, <1>4, <1>7 DEF MessagesShaped
<1>9. TimesTaken'
  <2>1. Busy' = Busy \ {r} /\ r \in Busy BY <1>1, <1>7, NotCreatingShape DEF Busy
  <2>2. IsFiniteSet(Busy) /\ Cardinality(Busy) \in Nat BY <1>0, IdsBounded
  <2>3. Cardinality(Busy') = Cardinality(Busy) - 1 BY <2>1, <2>2, FS_RemoveElement
  <2>4. clock \in Nat BY <1>0, ChatAssumption DEF MessagesShaped
  <2> QED BY <1>0, <1>1, <1>4, <1>5, <2>2, <2>3, <2>4 DEF TimesTaken, n
<1>10. CreationsFit'
  <2> SUFFICES ASSUME NEW s \in Creates PROVE Fits(creating'[s]) /\ Spared(creating[s])' BY DEF CreationsFit, Fits
  <2>1. CASE s = r
    <3>1. creating'[s] = G!NotCreating BY <1>7, <2>1
    <3> QED BY <3>1, NotCreatingShape DEF Spared, Fits
  <2>2. CASE s # r
    <3>1. creating'[s] = creating[s] /\ Spared(creating[s]) /\ Fits(creating[s]) BY <1>0, <1>7, <2>2 DEF CreationsFit
    <3>2. \A m \in creating[s].victims : m \in 1..Len(message') BY <1>4, <1>5, <3>1 DEF Spared, n
    <3> QED BY <1>1, <3>1, <3>2 DEF Spared
  <2> QED BY <2>1, <2>2
<1>11. OneApplied'
  <2>1. \A s \in Creates : creating'[s].stage # "applied"
    <3>1. \A s \in Creates : s # r => creating[s].stage # "applied" BY <1>0, <1>1 DEF OneApplied
    <3> QED BY <1>7, <3>1, NotCreatingShape
  <2> QED BY <2>1 DEF OneApplied
<1>12. PinFits'
  <2>1. \A m \in 1..Len(message) : m \in 1..Len(message') BY <1>4, <1>5 DEF n
  <2> QED BY <1>0, <1>1, <2>1 DEF PinFits
<1>13. G!PinCountExact' BY <1>0, <1>1 DEF G!PinCountExact
<1>14. ASSUME NEW m \in 1..(n + 1) PROVE m = n + 1 \/ m \in 1..n BY <1>5
<1>15. G!PinnedSurvives'
  <2> SUFFICES ASSUME NEW m \in 1..(n + 1), pinnedBy'[m] # Nobody, message'[m].deleted PROVE m \in raced'
    BY <1>6 DEF G!PinnedSurvives
  <2>1. m \in 1..n BY <1>4, <1>14
  <2>2. message[m].deleted \/ m \in t.victims BY <1>4, <2>1
  <2> HIDE DEF t
  <2> QED BY <1>0, <1>1, <1>2, <1>5, <2>1, <2>2 DEF G!PinnedSurvives, Spared
<1>16. G!OneMessagePerClientId'
  <2> SUFFICES ASSUME NEW m \in 1..(n + 1), NEW k \in 1..(n + 1), message'[m].author = message'[k].author, message'[m].key = message'[k].key
               PROVE  m = k
    BY <1>6 DEF G!OneMessagePerClientId
  <2> HIDE DEF t
  <2>0. \A i \in 1..n : ~(message[i].author = t.author /\ message[i].key = t.key) BY <1>2 DEF Unsent, n
  <2>1. CASE m \in 1..n /\ k \in 1..n BY <1>0, <1>4, <1>5, <2>1 DEF G!OneMessagePerClientId
  <2>2. CASE m = n + 1 /\ k \in 1..n BY <1>4, <2>0, <2>2
  <2>3. CASE k = n + 1 /\ m \in 1..n BY <1>4, <2>0, <2>3
  <2> QED BY <1>14, <2>1, <2>2, <2>3
<1>17. G!RecallErases'
  <2> SUFFICES ASSUME NEW m \in 1..(n + 1), message'[m].recalled, NEW u \in Users PROVE <<m, u>> \notin reaction'
    BY <1>6 DEF G!RecallErases
  <2>1. m \in 1..n BY <1>4, <1>14
  <2> QED BY <1>0, <1>1, <1>4, <1>5, <2>1 DEF G!RecallErases
<1> QED BY <1>8, <1>9, <1>10, <1>11, <1>12, <1>13, <1>15, <1>16, <1>17 DEF MessageInv

(* Dropping a pin gives its slot back to whoever had pinned.               *)
LEMMA PinDropped ==
  ASSUME MessagesShaped, G!PinCountExact, NEW m \in 1..MaxMessages, G!DropPin(m)
  PROVE  /\ pinnedBy' \in [1..MaxMessages -> Users \union {Nobody}] /\ pinCount' \in [Users -> 0..MaxPinnedMessages]
         /\ G!PinCountExact' /\ \A n \in 1..MaxMessages : pinnedBy'[n] # Nobody => pinnedBy'[n] = pinnedBy[n]
         /\ \A n \in 1..MaxMessages : pinnedBy[n] = Nobody => pinnedBy'[n] = Nobody
<1>0. /\ pinnedBy \in [1..MaxMessages -> Users \union {Nobody}] /\ pinCount \in [Users -> 0..MaxPinnedMessages]
      /\ MaxMessages \in Nat /\ MaxPinnedMessages \in Nat BY ChatAssumption DEF MessagesShaped
<1>1. /\ pinnedBy' = [pinnedBy EXCEPT ![m] = Nobody]
      /\ pinCount' = [u \in Users |-> IF u = pinnedBy[m] /\ pinCount[u] > 0 THEN pinCount[u] - 1 ELSE pinCount[u]]
  BY DEF G!DropPin
<1>2. pinCount' \in [Users -> 0..MaxPinnedMessages]
  <2>1. \A u \in Users : pinCount[u] \in 0..MaxPinnedMessages BY <1>0
  <2>2. \A u \in Users : (IF u = pinnedBy[m] /\ pinCount[u] > 0 THEN pinCount[u] - 1 ELSE pinCount[u]) \in 0..MaxPinnedMessages BY <1>0, <2>1
  <2> QED BY <1>1, <2>2
<1>3. G!PinCountExact'
  <2> SUFFICES ASSUME NEW u \in Users PROVE pinCount'[u] = G!Cardinality({x \in 1..MaxMessages : pinnedBy'[x] = u})
    BY DEF G!PinCountExact
  <2> DEFINE A == {x \in 1..MaxMessages : pinnedBy[x] = u}
             B == {x \in 1..MaxMessages : pinnedBy'[x] = u}
  <2>1. pinCount[u] = Cardinality(A) BY PinCardinality DEF G!PinCountExact
  <2>2. IsFiniteSet(A) /\ Cardinality(A) \in Nat
    <3>1. IsFiniteSet(1..MaxMessages) BY <1>0, FS_Interval
    <3>2. A \subseteq 1..MaxMessages OBVIOUS
    <3> HIDE DEF A
    <3> QED BY <3>1, <3>2, FS_Subset, FS_CardinalityType
  <2>3. B = A \ {m} BY <1>0, <1>1, ChatAssumption
  <2>4. CASE pinnedBy[m] = u
    <3>1. m \in A BY <2>4
    <3> HIDE DEF A, B
    <3>2. Cardinality(B) = Cardinality(A) - 1 BY <2>2, <2>3, <3>1, FS_RemoveElement
    <3>3. Cardinality(A) # 0 BY <2>2, <3>1, FS_EmptySet
    <3>4. pinCount'[u] = pinCount[u] - 1 BY <1>1, <2>1, <2>2, <2>4, <3>3
    <3>5. G!Cardinality(B) = Cardinality(B) BY PinCardinality
    <3>6. pinCount'[u] = G!Cardinality(B) BY <2>1, <3>2, <3>4, <3>5
    <3> QED BY <3>6 DEF B
  <2>5. CASE pinnedBy[m] # u
    <3>1. m \notin A BY <2>5
    <3>2. B = A BY <2>3, <3>1
    <3>3. pinCount'[u] = pinCount[u] BY <1>1, <2>5
    <3> HIDE DEF A, B
    <3>4. pinCount'[u] = G!Cardinality(B) BY <2>1, <3>2, <3>3, PinCardinality
    <3> QED BY <3>4 DEF B
  <2> QED BY <2>4, <2>5
<1> QED BY <1>0, <1>1, <1>2, <1>3

LEMMA RecallStep ==
  ASSUME MessageInv, NEW u \in Users, NEW m \in G!Ids, G!RecallMessage(u, m)
  PROVE  MessageInv'
<1> DEFINE n == Len(message)
           v == [message[m] EXCEPT !.recalled = TRUE]
<1>0. /\ MessagesShaped /\ TimesTaken /\ CreationsFit /\ OneApplied /\ PinFits
      /\ G!PinCountExact /\ G!PinnedSurvives /\ G!OneMessagePerClientId /\ G!RecallErases BY DEF MessageInv
<1>1. /\ message' = [message EXCEPT ![m] = v] /\ reaction' = {x \in reaction : x[1] # m} /\ G!DropPin(m)
      /\ UNCHANGED <<clock, creating, pinning, lastRead, raced>>
  BY DEF G!RecallMessage, G!DeleteMessageReactions, G!DeleteMessagePins
<1>2. n \in Nat /\ G!Ids = 1..n /\ m \in 1..n /\ message[m] \in Sent /\ message \in Seq(Sent) BY <1>0, MessageIds DEF MessagesShaped
<1>3. v \in Sent /\ v.author = message[m].author /\ v.key = message[m].key /\ v.deleted = message[m].deleted BY <1>2 DEF Sent
<1> HIDE DEF v
<1>4. /\ message' \in Seq(Sent) /\ Len(message') = n /\ G!Ids' = 1..n
      /\ \A i \in 1..n : message'[i] = IF i = m THEN v ELSE message[i]
  <2> HIDE DEF Sent
  <2> QED BY <1>1, <1>2, <1>3 DEF G!Ids
<1>5. m \in 1..MaxMessages BY <1>0, <1>2, IdsBounded
<1>6. /\ pinnedBy' \in [1..MaxMessages -> Users \union {Nobody}] /\ pinCount' \in [Users -> 0..MaxPinnedMessages]
      /\ G!PinCountExact' /\ \A i \in 1..MaxMessages : pinnedBy'[i] # Nobody => pinnedBy'[i] = pinnedBy[i]
      /\ \A i \in 1..MaxMessages : pinnedBy[i] = Nobody => pinnedBy'[i] = Nobody
  BY <1>0, <1>1, <1>5, PinDropped
<1>7. reaction' \subseteq reaction BY <1>1
<1>8. MessagesShaped'
  <2> HIDE DEF Sent, Creation, Pinning
  <2> QED BY <1>0, <1>1, <1>4, <1>6, <1>7 DEF MessagesShaped
<1>9. TimesTaken' BY <1>0, <1>1, <1>4 DEF TimesTaken, Busy
<1>10. \A i \in 1..n : i \in 1..MaxMessages BY <1>0, IdsBounded
<1>11. CreationsFit' BY <1>0, <1>1, <1>4, <1>6, <1>10 DEF CreationsFit, Fits, Spared
<1>12. \A i \in 1..n : message'[i].author = message[i].author /\ message'[i].key = message[i].key /\ message'[i].deleted = message[i].deleted
  BY <1>3, <1>4
<1>13. OneApplied' BY <1>0, <1>1, <1>4, <1>12 DEF OneApplied, Unsent
<1>14. PinFits' BY <1>0, <1>1, <1>4, <1>6, <1>10 DEF PinFits
<1>15. G!PinnedSurvives' BY <1>0, <1>1, <1>2, <1>4, <1>6, <1>10, <1>12 DEF G!PinnedSurvives
<1>16. G!OneMessagePerClientId' BY <1>0, <1>2, <1>4, <1>12 DEF G!OneMessagePerClientId
<1>17. G!RecallErases'
  <2> SUFFICES ASSUME NEW i \in 1..n, message'[i].recalled, NEW w \in Users PROVE <<i, w>> \notin reaction'
    BY <1>4 DEF G!RecallErases
  <2>1. CASE i = m BY <1>1, <2>1
  <2>2. CASE i # m BY <1>0, <1>2, <1>4, <1>7, <2>2 DEF G!RecallErases
  <2> QED BY <2>1, <2>2
<1> QED BY <1>6, <1>8, <1>9, <1>11, <1>13, <1>14, <1>15, <1>16, <1>17 DEF MessageInv

LEMMA ReactionStep ==
  ASSUME MessageInv, NEW u \in Users, NEW m \in G!Ids, G!setReaction(u, m)
  PROVE  MessageInv'
<1>0. /\ MessagesShaped /\ TimesTaken /\ CreationsFit /\ OneApplied /\ PinFits
      /\ G!PinCountExact /\ G!PinnedSurvives /\ G!OneMessagePerClientId /\ G!RecallErases BY DEF MessageInv
<1>1. /\ UNCHANGED <<clock, message, creating, pinning, pinnedBy, pinCount, lastRead, raced>>
      /\ reaction' \subseteq reaction \union {<<m, u>>} /\ (<<m, u>> \in reaction' => ~message[m].recalled)
  <2>1. UNCHANGED <<clock, message, creating, pinning, pinnedBy, pinCount, lastRead, raced>> BY DEF G!setReaction
  <2>2. CASE <<m, u>> \notin reaction /\ G!AddReaction(m) /\ reaction' = reaction \union {<<m, u>>}
    BY <2>1, <2>2 DEF G!AddReaction
  <2>3. CASE <<m, u>> \in reaction /\ reaction' = reaction \ {<<m, u>>} BY <2>1, <2>3
  <2> QED BY <2>2, <2>3 DEF G!setReaction
<1>2. m \in 1..MaxMessages BY <1>0, MessageIds, IdsBounded
<1>3. reaction' \subseteq (1..MaxMessages) \X Users BY <1>0, <1>1, <1>2 DEF MessagesShaped
<1>4. MessagesShaped'
  <2> HIDE DEF Sent, Creation, Pinning
  <2> QED BY <1>0, <1>1, <1>3 DEF MessagesShaped
<1>5. G!RecallErases'
  <2> SUFFICES ASSUME NEW i \in G!Ids, message[i].recalled, NEW w \in Users PROVE <<i, w>> \notin reaction'
    BY <1>1 DEF G!RecallErases, G!Ids
  <2>1. <<i, w>> \notin reaction BY <1>0 DEF G!RecallErases
  <2>2. CASE <<i, w>> = <<m, u>>
    <3>1. i = m BY <2>2
    <3> QED BY <1>1, <2>2, <3>1
  <2>3. CASE <<i, w>> # <<m, u>> BY <1>1, <2>1, <2>3
  <2> QED BY <2>2, <2>3
<1>6. TimesTaken' /\ CreationsFit' /\ OneApplied' /\ PinFits'
  BY <1>0, <1>1 DEF TimesTaken, Busy, CreationsFit, Fits, Spared, OneApplied, Unsent, PinFits
<1>7. (G!PinCountExact /\ G!PinnedSurvives /\ G!OneMessagePerClientId)'
  BY <1>0, <1>1 DEF G!PinCountExact, G!PinnedSurvives, G!OneMessagePerClientId, G!Ids
<1> QED BY <1>4, <1>5, <1>6, <1>7 DEF MessageInv

LEMMA PinStep ==
  ASSUME MessageInv, NEW u \in Users, NEW m \in G!Ids, G!Pin(u, m)
  PROVE  MessageInv'
<1>0. /\ MessagesShaped /\ TimesTaken /\ CreationsFit /\ OneApplied /\ PinFits
      /\ G!PinCountExact /\ G!PinnedSurvives /\ G!OneMessagePerClientId /\ G!RecallErases BY DEF MessageInv
<1>1. /\ pinning' = [user |-> u, m |-> m] /\ pinnedBy[m] = Nobody
      /\ UNCHANGED <<clock, message, creating, pinnedBy, pinCount, lastRead, reaction, raced>>
  BY DEF G!Pin
<1>2. m \in 1..Len(message) /\ m \in 1..MaxMessages /\ MaxMessages \in Nat BY <1>0, MessageIds, IdsBounded, ChatAssumption
<1>3. pinning' \in Pinning /\ pinning'.user = u /\ pinning'.m = m BY <1>1, <1>2 DEF Pinning
<1>4. MessagesShaped'
  <2> HIDE DEF Sent, Creation, Pinning
  <2> QED BY <1>0, <1>1, <1>3 DEF MessagesShaped
<1>5. PinFits' BY <1>1, <1>2, <1>3 DEF PinFits
<1>6. TimesTaken' /\ CreationsFit' /\ OneApplied'
  BY <1>0, <1>1 DEF TimesTaken, Busy, CreationsFit, Fits, Spared, OneApplied, Unsent
<1>7. (G!PinCountExact /\ G!PinnedSurvives /\ G!OneMessagePerClientId /\ G!RecallErases)'
  BY <1>0, <1>1 DEF G!PinCountExact, G!PinnedSurvives, G!OneMessagePerClientId, G!RecallErases, G!Ids
<1> QED BY <1>4, <1>5, <1>6, <1>7 DEF MessageInv

LEMMA AddPinStep == ASSUME MessageInv, G!AddPin PROVE MessageInv'
<1> DEFINE u == pinning.user  m == pinning.m
<1>0. /\ MessagesShaped /\ TimesTaken /\ CreationsFit /\ OneApplied /\ PinFits
      /\ G!PinCountExact /\ G!PinnedSurvives /\ G!OneMessagePerClientId /\ G!RecallErases BY DEF MessageInv
<1>1. /\ pinning # G!NotPinning /\ pinning' = G!NotPinning /\ UNCHANGED <<clock, message, creating, lastRead, reaction>>
      /\ \/ /\ pinCount[u] < MaxPinnedMessages /\ pinCount' = [pinCount EXCEPT ![u] = pinCount[u] + 1]
            /\ pinnedBy' = [pinnedBy EXCEPT ![m] = u]
            /\ raced' = IF ~G!Live(m) \/ \E r \in Creates : m \in creating[r].victims THEN raced \union {m} ELSE raced
         \/ UNCHANGED <<pinCount, pinnedBy, raced>>
  BY DEF G!AddPin, G!LockPins
<1>2. u \in Users /\ m \in 1..Len(message) /\ pinnedBy[m] = Nobody BY <1>0, <1>1 DEF PinFits
<1>3. m \in 1..MaxMessages BY <1>0, <1>2, IdsBounded
<1>4. pinning' \in Pinning BY <1>1, ChatAssumption DEF G!NotPinning, Pinning
<1>5. PinFits' BY <1>1 DEF PinFits
<1>6. (G!OneMessagePerClientId /\ G!RecallErases)' /\ TimesTaken' /\ OneApplied'
  BY <1>0, <1>1 DEF G!OneMessagePerClientId, G!RecallErases, G!Ids, TimesTaken, Busy, OneApplied, Unsent
<1>7. CASE UNCHANGED <<pinCount, pinnedBy, raced>>
  <2>1. MessagesShaped'
    <3> HIDE DEF Sent, Creation, Pinning
    <3> QED BY <1>0, <1>1, <1>4, <1>7 DEF MessagesShaped
  <2>2. CreationsFit' BY <1>0, <1>1, <1>7 DEF CreationsFit, Fits, Spared
  <2>3. (G!PinCountExact /\ G!PinnedSurvives)' BY <1>0, <1>1, <1>7 DEF G!PinCountExact, G!PinnedSurvives, G!Ids
  <2> QED BY <1>5, <1>6, <2>1, <2>2, <2>3 DEF MessageInv
<1>8. CASE /\ pinCount[u] < MaxPinnedMessages /\ pinCount' = [pinCount EXCEPT ![u] = pinCount[u] + 1]
           /\ pinnedBy' = [pinnedBy EXCEPT ![m] = u]
           /\ raced' = IF ~G!Live(m) \/ \E r \in Creates : m \in creating[r].victims THEN raced \union {m} ELSE raced
  <2> HIDE DEF u, m
  <2>0. /\ pinnedBy \in [1..MaxMessages -> Users \union {Nobody}] /\ pinCount \in [Users -> 0..MaxPinnedMessages]
        /\ MaxPinnedMessages \in Nat /\ MaxMessages \in Nat /\ Nobody \notin Users /\ raced \subseteq 1..MaxMessages
    BY <1>0, ChatAssumption DEF MessagesShaped
  <2>1. /\ pinnedBy' \in [1..MaxMessages -> Users \union {Nobody}]
        /\ \A i \in 1..MaxMessages : pinnedBy'[i] = IF i = m THEN u ELSE pinnedBy[i] BY <1>2, <1>3, <1>8, <2>0
  <2>2. /\ pinCount' \in [Users -> 0..MaxPinnedMessages]
        /\ \A w \in Users : pinCount'[w] = IF w = u THEN pinCount[u] + 1 ELSE pinCount[w]
    <3>1. pinCount[u] + 1 \in 0..MaxPinnedMessages BY <1>2, <1>8, <2>0
    <3> QED BY <1>2, <1>8, <2>0, <3>1
  <2>3. raced \subseteq raced' /\ raced' \subseteq 1..MaxMessages /\ raced' \subseteq raced \union {m} BY <1>3, <1>8, <2>0
  <2>4. (~G!Live(m) \/ \E r \in Creates : m \in creating[r].victims) => m \in raced' BY <1>8
  <2>5. MessagesShaped'
    <3> HIDE DEF Sent, Creation, Pinning
    <3> QED BY <1>0, <1>1, <1>4, <2>1, <2>2, <2>3 DEF MessagesShaped
  <2>6. CreationsFit'
    <3> SUFFICES ASSUME NEW r \in Creates PROVE Fits(creating[r]) /\ \A i \in creating[r].victims :
                   i \in 1..Len(message) /\ (pinnedBy'[i] # Nobody => i \in raced')
      BY <1>1 DEF CreationsFit, Fits, Spared
    <3>1. Fits(creating[r]) /\ Spared(creating[r]) BY <1>0 DEF CreationsFit
    <3>2. ASSUME NEW i \in creating[r].victims PROVE i \in 1..Len(message) /\ (pinnedBy'[i] # Nobody => i \in raced')
      <4>1. i \in 1..Len(message) /\ i \in 1..MaxMessages /\ (pinnedBy[i] # Nobody => i \in raced) BY <1>0, <3>1, IdsBounded DEF Spared
      <4>2. CASE i = m BY <2>4, <4>1, <4>2
      <4>3. CASE i # m BY <2>1, <2>3, <4>1, <4>3
      <4> QED BY <4>2, <4>3
    <3> QED BY <3>1, <3>2
  <2>7. G!PinnedSurvives'
    <3> SUFFICES ASSUME NEW i \in G!Ids, pinnedBy'[i] # Nobody, message[i].deleted PROVE i \in raced'
      BY <1>1 DEF G!PinnedSurvives, G!Ids
    <3>1. i \in 1..MaxMessages BY <1>0, MessageIds, IdsBounded
    <3>2. CASE i = m BY <2>4, <3>2 DEF G!Live
    <3>3. CASE i # m BY <1>0, <2>1, <2>3, <3>1, <3>3 DEF G!PinnedSurvives
    <3> QED BY <3>2, <3>3
  <2>8. G!PinCountExact'
    <3> SUFFICES ASSUME NEW w \in Users PROVE pinCount'[w] = G!Cardinality({x \in 1..MaxMessages : pinnedBy'[x] = w})
      BY DEF G!PinCountExact
    <3> DEFINE A == {x \in 1..MaxMessages : pinnedBy[x] = w}
               B == {x \in 1..MaxMessages : pinnedBy'[x] = w}
    <3>1. pinCount[w] = Cardinality(A) BY <1>0, PinCardinality DEF G!PinCountExact
    <3>2. IsFiniteSet(A) /\ Cardinality(A) \in Nat
      <4>1. IsFiniteSet(1..MaxMessages) BY <2>0, FS_Interval
      <4>2. A \subseteq 1..MaxMessages OBVIOUS
      <4> HIDE DEF A
      <4> QED BY <4>1, <4>2, FS_Subset, FS_CardinalityType
    <3>3. CASE w = u
      <4>1. B = A \union {m} /\ m \notin A BY <1>2, <1>3, <2>0, <2>1, <3>3
      <4> HIDE DEF A, B
      <4>2. Cardinality(B) = Cardinality(A) + 1 BY <3>2, <4>1, FS_AddElement
      <4>3. pinCount'[w] = G!Cardinality(B) BY <2>2, <3>1, <3>3, <4>2, PinCardinality
      <4> QED BY <4>3 DEF B
    <3>4. CASE w # u
      <4>1. B = A BY <1>2, <1>3, <2>0, <2>1, <3>4
      <4> HIDE DEF A, B
      <4>3. pinCount'[w] = G!Cardinality(B) BY <2>2, <3>1, <3>4, <4>1, PinCardinality
      <4> QED BY <4>3 DEF B
    <3> QED BY <3>3, <3>4
  <2> QED BY <1>5, <1>6, <2>5, <2>6, <2>7, <2>8 DEF MessageInv
<1> QED BY <1>1, <1>7, <1>8

LEMMA UnpinStep ==
  ASSUME MessageInv, NEW u \in Users, NEW m \in G!Ids, G!Unpin(u, m)
  PROVE  MessageInv'
<1>0. /\ MessagesShaped /\ TimesTaken /\ CreationsFit /\ OneApplied /\ PinFits
      /\ G!PinCountExact /\ G!PinnedSurvives /\ G!OneMessagePerClientId /\ G!RecallErases BY DEF MessageInv
<1>1. G!DropPin(m) /\ UNCHANGED <<clock, message, creating, pinning, lastRead, reaction, raced>> BY DEF G!Unpin, G!RemovePin
<1>2. G!Ids = 1..Len(message) /\ m \in 1..MaxMessages BY <1>0, MessageIds, IdsBounded
<1>3. /\ pinnedBy' \in [1..MaxMessages -> Users \union {Nobody}] /\ pinCount' \in [Users -> 0..MaxPinnedMessages]
      /\ G!PinCountExact' /\ \A i \in 1..MaxMessages : pinnedBy'[i] # Nobody => pinnedBy'[i] = pinnedBy[i]
      /\ \A i \in 1..MaxMessages : pinnedBy[i] = Nobody => pinnedBy'[i] = Nobody
  BY <1>0, <1>1, <1>2, PinDropped
<1>4. MessagesShaped'
  <2> HIDE DEF Sent, Creation, Pinning
  <2> QED BY <1>0, <1>1, <1>3 DEF MessagesShaped
<1>5. \A i \in 1..Len(message) : i \in 1..MaxMessages BY <1>0, IdsBounded
<1>6. TimesTaken' /\ OneApplied' BY <1>0, <1>1 DEF TimesTaken, Busy, OneApplied, Unsent
<1>7. CreationsFit' BY <1>0, <1>1, <1>3, <1>5 DEF CreationsFit, Fits, Spared
<1>8. PinFits' BY <1>0, <1>1, <1>3, <1>5 DEF PinFits
<1>9. G!PinnedSurvives' BY <1>0, <1>1, <1>2, <1>3, <1>5 DEF G!PinnedSurvives, G!Ids
<1>10. (G!OneMessagePerClientId /\ G!RecallErases)' BY <1>0, <1>1 DEF G!OneMessagePerClientId, G!RecallErases, G!Ids
<1> QED BY <1>3, <1>4, <1>6, <1>7, <1>8, <1>9, <1>10 DEF MessageInv

LEMMA ReadStep == ASSUME MessageInv, NEW u \in Users, G!MarkRead(u) PROVE MessageInv'
<1>0. /\ MessagesShaped /\ TimesTaken /\ CreationsFit /\ OneApplied /\ PinFits
      /\ G!PinCountExact /\ G!PinnedSurvives /\ G!OneMessagePerClientId /\ G!RecallErases BY DEF MessageInv
<1>1. /\ UNCHANGED <<clock, message, creating, pinning, pinnedBy, pinCount, reaction, raced>>
      /\ \E m \in G!Ids : lastRead' = [lastRead EXCEPT ![u] = m]
  BY DEF G!MarkRead, G!MarkConversationRead, G!Latest
<1>2. \A m \in G!Ids : m \in 0..MaxMessages BY <1>0, MessageIds, IdsBounded, ChatAssumption
<1>3. lastRead' \in [Users -> 0..MaxMessages] BY <1>0, <1>1, <1>2 DEF MessagesShaped
<1>4. MessagesShaped'
  <2> HIDE DEF Sent, Creation, Pinning
  <2> QED BY <1>0, <1>1, <1>3 DEF MessagesShaped
<1>6. TimesTaken' /\ CreationsFit' /\ OneApplied' /\ PinFits'
  BY <1>0, <1>1 DEF TimesTaken, Busy, CreationsFit, Fits, Spared, OneApplied, Unsent, PinFits
<1>7. (G!PinCountExact /\ G!PinnedSurvives /\ G!OneMessagePerClientId /\ G!RecallErases)'
  BY <1>0, <1>1 DEF G!PinCountExact, G!PinnedSurvives, G!OneMessagePerClientId, G!RecallErases, G!Ids
<1> QED BY <1>4, <1>6, <1>7 DEF MessageInv

LEMMA MessageStepInv == MessageInv /\ [G!MessagesNext]_(G!messageVars) => MessageInv'
<1> SUFFICES ASSUME MessageInv, [G!MessagesNext]_(G!messageVars) PROVE MessageInv' OBVIOUS
<1>1. CASE UNCHANGED G!messageVars
  <2>0. /\ MessagesShaped /\ TimesTaken /\ CreationsFit /\ OneApplied /\ PinFits
        /\ G!PinCountExact /\ G!PinnedSurvives /\ G!OneMessagePerClientId /\ G!RecallErases BY DEF MessageInv
  <2>1. UNCHANGED <<clock, message, creating, pinning, pinnedBy, pinCount, lastRead, reaction, raced>> BY <1>1 DEF G!messageVars
  <2>2. MessagesShaped'
    <3> HIDE DEF Sent, Creation, Pinning
    <3> QED BY <2>0, <2>1 DEF MessagesShaped
  <2>3. TimesTaken' /\ CreationsFit' /\ OneApplied' /\ PinFits'
    BY <2>0, <2>1 DEF TimesTaken, Busy, CreationsFit, Fits, Spared, OneApplied, Unsent, PinFits
  <2>4. (G!PinCountExact /\ G!PinnedSurvives /\ G!OneMessagePerClientId /\ G!RecallErases)'
    BY <2>0, <2>1 DEF G!PinCountExact, G!PinnedSurvives, G!OneMessagePerClientId, G!RecallErases, G!Ids
  <2> QED BY <2>2, <2>3, <2>4 DEF MessageInv
<1>2. CASE G!MessagesNext
  BY <1>2, CreateStep, ApplyStep, CommitStep, RecallStep, ReactionStep, PinStep, AddPinStep, UnpinStep, ReadStep DEF G!MessagesNext
<1> QED BY <1>1, <1>2

(* Pins are counted exactly, retention spares what was pinned before it    *)
(* chose, a retried creation adds nothing and a recall leaves no reaction, *)
(* for any number of members and of creations under way, though the two    *)
(* services lock the conversation under different keys.                    *)
THEOREM MessagesCorrect ==
  MessageSpec => [](G!MessagesTypeOK /\ G!PinCountExact /\ G!PinnedSurvives /\ G!OneMessagePerClientId /\ G!RecallErases)
<1>1. MessageInv => G!PinCountExact /\ G!PinnedSurvives /\ G!OneMessagePerClientId /\ G!RecallErases BY DEF MessageInv
<1> QED BY <1>1, MessageTypes, MessagesInitially, MessageStepInv, PTL DEF MessageSpec

-----------------------------------------------------------------------------

(***************************************************************************)
(* Topics.                                                                 *)
(***************************************************************************)
TopicSpec == T!TopicsInit /\ [][T!TopicsNext]_(T!topicVars)

PostIds == 1..MaxPosts
Writing == {"post", "postSync"}
Post == [author : Users, at : 1..MaxPosts, recalled : BOOLEAN, deleted : BOOLEAN]
Copy == [of : 1..MaxPosts, shown : BOOLEAN]
Projection == [copy : 0..MaxCopies, removed : BOOLEAN]
SyncCard == [state : {"none", "active", "invalidated"}, status : T!Statuses]
TopicRequest == [op : T!Ops \union {"none"}, user : Users, m : 0..MaxPosts, rev : 0..MaxRevision, at : 0..MaxPosts]
TopicsTyped ==
  /\ status \in T!Statuses /\ revision \in 1..MaxRevision /\ inGroup \subseteq Users
  /\ joined \in [Users -> {"none", "in", "left"}] /\ tLastRead \in [Users -> 0..MaxPosts]
  /\ tClock \in 1..MaxPosts /\ post \in Seq(Post) /\ copy \in Seq(Copy)
  /\ Len(post) \in 1..MaxPosts /\ Len(copy) \in 0..MaxCopies
  /\ projection \in [PostIds -> Projection] /\ syncCard \in [PostIds -> SyncCard]
  /\ tRequest \in [Requests -> TopicRequest]

(* What a request is about: a message that is there, a revision that may   *)
(* be followed by another, a time that was handed out to it.               *)
About(r) == /\ r.op \in {"sync", "unsync", "recall", "read"} => r.m \in 1..Len(post)
            /\ r.op \in {"close", "archive"} => r.rev < MaxRevision
            /\ r.op \in Writing => r.at \in 1..MaxPosts
RequestsAbout == \A q \in Requests : About(tRequest[q])
Writers == {q \in Requests : tRequest[q].op \in Writing}
(* A message has a time of its own, so there are no more than times.       *)
TimesLeft == Len(post) + Cardinality(Writers) <= tClock
CopiesOf == \A c \in DOMAIN copy : copy[c].of \in 1..Len(post)

TopicInv == /\ TopicsTyped /\ RequestsAbout /\ TimesLeft /\ CopiesOf
            /\ T!CopiesBacked /\ T!CardsFollowProjections /\ T!CardsCurrent

LEMMA SameCardinality == \A X : T!Cardinality(X) = Cardinality(X)
BY DEF T!Cardinality, Cardinality, T!IsFiniteSet, IsFiniteSet

LEMMA TopicTypes == TopicInv => T!TopicsTypeOK
<1> SUFFICES ASSUME TopicInv PROVE T!TopicsTypeOK OBVIOUS
<1>0. TopicsTyped /\ CopiesOf /\ T!CardsCurrent BY DEF TopicInv
<1>1. \A m \in DOMAIN post : post[m] \in Post BY <1>0 DEF TopicsTyped
<1>2. \A c \in DOMAIN copy : copy[c] \in [of : DOMAIN post, shown : BOOLEAN]
  <2>1. DOMAIN post = 1..Len(post) BY <1>0 DEF TopicsTyped
  <2>2. \A c \in DOMAIN copy : copy[c] \in Copy BY <1>0 DEF TopicsTyped
  <2> QED BY <1>0, <2>1, <2>2 DEF CopiesOf, Copy
<1>3. topicCard \in [count : 0..Cardinality(Users), status : T!Statuses]
  <2> DEFINE J == {u \in Users : joined[u] = "in"}
  <2>1. J \subseteq Users OBVIOUS
  <2>2. IsFiniteSet(Users) BY ChatAssumption
  <2> HIDE DEF J
  <2>3. IsFiniteSet(J) /\ Cardinality(J) <= Cardinality(Users) BY <2>1, <2>2, FS_Subset
  <2>4. Cardinality(J) \in Nat /\ Cardinality(Users) \in Nat BY <2>2, <2>3, FS_CardinalityType
  <2>5. Cardinality(J) \in 0..Cardinality(Users) BY <2>3, <2>4
  <2>6. topicCard = [count |-> Cardinality(J), status |-> status] BY <1>0, SameCardinality DEF T!CardsCurrent, T!Joined, J
  <2> QED BY <1>0, <2>5, <2>6 DEF TopicsTyped
<1>4. /\ status \in T!Statuses /\ revision \in 1..MaxRevision /\ inGroup \subseteq Users
      /\ joined \in [Users -> {"none", "in", "left"}] /\ tLastRead \in [Users -> 0..MaxPosts]
      /\ tClock \in 1..MaxPosts /\ Len(post) \in 1..MaxPosts /\ Len(copy) <= MaxCopies
      /\ projection \in [PostIds -> Projection] /\ syncCard \in [PostIds -> SyncCard]
      /\ tRequest \in [Requests -> TopicRequest]
  BY <1>0, ChatAssumption DEF TopicsTyped
<1> QED BY <1>1, <1>2, <1>3, <1>4, SameCardinality
        DEF T!TopicsTypeOK, T!Posts, PostIds, Projection, SyncCard, TopicRequest, Post

LEMMA TopicInitially == T!TopicsInit => TopicInv
<1> SUFFICES ASSUME T!TopicsInit PROVE TopicInv OBVIOUS
<1> DEFINE p == [author |-> Owner, at |-> 1, recalled |-> FALSE, deleted |-> FALSE]
<1>1. p \in Post BY ChatAssumption DEF Post
<1>2. post = <<p>> BY DEF T!TopicsInit
<1>3. post \in Seq(Post) /\ Len(post) = 1
  <2> HIDE DEF p
  <2> QED BY <1>1, <1>2
<1> USE ChatAssumption DEF T!TopicsInit
<1>4. copy \in Seq(Copy) /\ Len(copy) = 0 /\ DOMAIN copy = {} OBVIOUS
<1>5. tRequest \in [Requests -> TopicRequest] /\ \A q \in Requests : tRequest[q].op = "none"
  BY DEF T!NoRequest, TopicRequest
<1>6. projection \in [PostIds -> Projection] /\ syncCard \in [PostIds -> SyncCard]
  BY DEF PostIds, Projection, SyncCard, T!NoProjection, T!Statuses
<1>7. TopicsTyped BY <1>3, <1>4, <1>5, <1>6 DEF TopicsTyped, T!Statuses
<1>8. RequestsAbout BY <1>5 DEF RequestsAbout, About, Writing
<1>9. TimesLeft
  <2>1. Writers = {} BY <1>5 DEF Writers, Writing
  <2>2. Cardinality(Writers) = 0 BY <2>1, FS_EmptySet
  <2> QED BY <1>3, <2>2 DEF TimesLeft
<1>10. CopiesOf /\ T!CopiesBacked BY <1>4 DEF CopiesOf, T!CopiesBacked
<1>11. T!CardsFollowProjections
  BY DEF T!CardsFollowProjections, T!Active, T!NoProjection
<1>12. T!CardsCurrent
  <2>1. T!Joined = {Owner} BY DEF T!Joined
  <2>2. Cardinality(T!Joined) = 1 BY <2>1, FS_Singleton
  <2> QED BY <2>2, SameCardinality DEF T!CardsCurrent
<1> QED BY <1>7, <1>8, <1>9, <1>10, <1>11, <1>12 DEF TopicInv

(* A request under way begins, or ends with its transaction.               *)
LEMMA TopicRequestEnds ==
  ASSUME TopicInv, NEW q \in Requests, tRequest' = [tRequest EXCEPT ![q] = T!NoRequest],
         Len(post') \in Nat, Len(post') >= Len(post), tClock' = tClock
  PROVE  /\ tRequest' \in [Requests -> TopicRequest] /\ RequestsAbout'
         /\ Cardinality(Writers) \in Nat /\ Cardinality(Writers') \in Nat
         /\ Cardinality(Writers') <= Cardinality(Writers)
         /\ q \in Writers => Cardinality(Writers') = Cardinality(Writers) - 1
<1>0. tRequest \in [Requests -> TopicRequest] /\ RequestsAbout /\ Len(post) \in Nat
  BY DEF TopicInv, TopicsTyped
<1>1. T!NoRequest \in TopicRequest /\ T!NoRequest.op = "none"
  BY ChatAssumption DEF T!NoRequest, TopicRequest
<1>2. tRequest' \in [Requests -> TopicRequest]
  <2> HIDE DEF TopicRequest
  <2> QED BY <1>0, <1>1
<1>3. \A p \in Requests : tRequest'[p] = IF p = q THEN T!NoRequest ELSE tRequest[p]
  <2> HIDE DEF TopicRequest
  <2> QED BY <1>0, <1>1
<1>4. RequestsAbout'
  <2> SUFFICES ASSUME NEW p \in Requests PROVE About(tRequest[p])' BY DEF RequestsAbout
  <2>1. CASE p = q BY <1>1, <1>3, <2>1 DEF About, Writing
  <2>2. CASE p # q
    <3>1. About(tRequest[p]) /\ tRequest'[p] = tRequest[p] BY <1>0, <1>3, <2>2 DEF RequestsAbout
    <3> QED BY <1>0, <3>1 DEF About
  <2> QED BY <2>1, <2>2
<1>5. Writers' = Writers \ {q} BY <1>1, <1>3 DEF Writers, Writing
<1>6. IsFiniteSet(Writers)
  <2>1. Writers \subseteq Requests BY DEF Writers
  <2> QED BY <2>1, ChatAssumption, FS_Subset
<1>7. /\ IsFiniteSet(Writers \ {q})
      /\ Cardinality(Writers \ {q}) = IF q \in Writers THEN Cardinality(Writers) - 1 ELSE Cardinality(Writers)
  BY <1>6, FS_RemoveElement
<1>8. Cardinality(Writers) \in Nat /\ Cardinality(Writers \ {q}) \in Nat BY <1>6, <1>7, FS_CardinalityType
<1> QED BY <1>2, <1>4, <1>5, <1>7, <1>8

(* Copies are taken back and perhaps one is made: projections, copies and  *)
(* cards change together.                                                  *)
LEMMA ResyncKeeps ==
  ASSUME TopicInv, NEW ms \in SUBSET PostIds, NEW m \in 0..MaxPosts, T!Resync(ms, m),
         Len(post') \in 1..MaxPosts, Len(post') >= Len(post), post' \in Seq(Post),
         m # 0 => /\ m \in 1..Len(post') /\ ~post'[m].deleted /\ ~post'[m].recalled
                  /\ \A c \in DOMAIN copy : copy[c].shown => copy[c].of # m,
         \A n \in 1..Len(post) : n \notin ms =>
           post'[n].deleted = post[n].deleted /\ post'[n].recalled = post[n].recalled,
         UNCHANGED <<status, joined, topicCard>>
  PROVE  /\ copy' \in Seq(Copy) /\ Len(copy') \in 0..MaxCopies
         /\ projection' \in [PostIds -> Projection] /\ syncCard' \in [PostIds -> SyncCard]
         /\ CopiesOf' /\ T!CopiesBacked' /\ T!CardsFollowProjections' /\ T!CardsCurrent'
<1> DEFINE K == T!MarkGroupMessageDeleted(ms)
           new == [of |-> m, shown |-> TRUE]
<1>0. /\ TopicsTyped /\ CopiesOf /\ T!CopiesBacked /\ T!CardsFollowProjections /\ T!CardsCurrent
      /\ copy \in Seq(Copy) /\ Len(copy) \in 0..MaxCopies /\ status \in T!Statuses
      /\ projection \in [PostIds -> Projection] /\ syncCard \in [PostIds -> SyncCard]
      /\ Len(post) \in 1..MaxPosts
  BY DEF TopicInv, TopicsTyped
<1>a. MaxPosts \in Nat /\ MaxCopies \in Nat BY ChatAssumption
<1>1. /\ m # 0 => Len(copy) < MaxCopies
      /\ copy' = K \o (IF m = 0 THEN <<>> ELSE <<new>>)
      /\ projection' = [n \in PostIds |-> IF n = m THEN [copy |-> Len(copy) + 1, removed |-> FALSE]
                                                   ELSE T!UnsyncProjection(ms)[n]]
      /\ syncCard' = [n \in PostIds |-> IF n = m THEN [state |-> "active", status |-> status]
                                                 ELSE T!InvalidateCard(ms)[n]]
  BY DEF T!Resync, PostIds
<1>2. DOMAIN copy = 1..Len(copy) /\ \A c \in 1..Len(copy) : copy[c] \in Copy BY <1>0
<1>3. ASSUME NEW c \in 1..Len(copy)
      PROVE  /\ K[c] \in Copy /\ K[c].of = copy[c].of
             /\ K[c].shown => copy[c].shown /\ \A n \in ms : projection[n].copy # c
  BY <1>2 DEF T!MarkGroupMessageDeleted, Copy
<1>4. K \in Seq(Copy) /\ Len(K) = Len(copy) /\ DOMAIN K = 1..Len(copy)
  <2>1. K = [c \in 1..Len(copy) |-> K[c]] BY <1>2 DEF T!MarkGroupMessageDeleted
  <2>2. Len(copy) \in Nat BY <1>0
  <2> HIDE DEF K, Copy
  <2>3. K \in [1..Len(copy) -> Copy] BY <1>3, <2>1
  <2> QED BY <2>2, <2>3
<1>5. m # 0 => new \in Copy BY DEF Copy
<1>6. /\ copy' \in Seq(Copy)
      /\ Len(copy') = IF m = 0 THEN Len(copy) ELSE Len(copy) + 1
      /\ \A c \in 1..Len(copy) : copy'[c] = K[c]
      /\ m # 0 => copy'[Len(copy) + 1] = new
  <2> HIDE DEF K, new, Copy
  <2>1. Len(copy) \in Nat BY <1>0
  <2>2. CASE m = 0
    <3>1. copy' = K \o <<>> BY <1>1, <2>2
    <3>2. K \o <<>> = K BY <1>4
    <3> QED BY <1>4, <2>2, <3>1, <3>2
  <2>3. CASE m # 0
    <3>1. copy' = K \o <<new>> BY <1>1, <2>3
    <3>2. K \o <<new>> = Append(K, new) BY <1>4, <1>5, <2>3
    <3>3. copy' = Append(K, new) BY <3>1, <3>2
    <3> QED BY <1>4, <1>5, <2>1, <2>3, <3>3
  <2> QED BY <2>2, <2>3
<1>7. Len(copy') \in 0..MaxCopies /\ DOMAIN copy' = 1..Len(copy') BY <1>0, <1>1, <1>6, <1>a
<1>8. ASSUME NEW n \in PostIds
      PROVE  /\ projection'[n] \in Projection /\ syncCard'[n] \in SyncCard
             /\ n = m => projection'[n] = [copy |-> Len(copy) + 1, removed |-> FALSE]
                         /\ syncCard'[n] = [state |-> "active", status |-> status]
             /\ n # m /\ n \notin ms => projection'[n] = projection[n] /\ syncCard'[n] = syncCard[n]
             /\ n # m /\ n \in ms => /\ projection'[n].copy = projection[n].copy
                                     /\ projection[n].copy # 0 => projection'[n].removed
                                     /\ syncCard'[n].state # "active" /\ syncCard'[n].status = syncCard[n].status
                                     /\ syncCard'[n].state # "none" => syncCard[n].state # "none"
  <2>1. projection[n] \in Projection /\ syncCard[n] \in SyncCard BY <1>0
  <2>2. T!UnsyncProjection(ms)[n] = IF n \in ms /\ projection[n].copy # 0
                                    THEN [projection[n] EXCEPT !.removed = TRUE] ELSE projection[n]
    BY DEF T!UnsyncProjection, PostIds
  <2>3. T!InvalidateCard(ms)[n] = IF n \in ms /\ syncCard[n].state = "active"
                                  THEN [syncCard[n] EXCEPT !.state = "invalidated"] ELSE syncCard[n]
    BY DEF T!InvalidateCard, PostIds
  <2>4. n = m => Len(copy) + 1 \in 0..MaxCopies BY <1>0, <1>1, <1>a DEF PostIds
  <2>5. projection'[n] = IF n = m THEN [copy |-> Len(copy) + 1, removed |-> FALSE] ELSE T!UnsyncProjection(ms)[n]
    BY <1>1
  <2>6. syncCard'[n] = IF n = m THEN [state |-> "active", status |-> status] ELSE T!InvalidateCard(ms)[n]
    BY <1>1
  <2>7. projection'[n] \in Projection
        /\ (n # m /\ n \in ms => /\ projection'[n].copy = projection[n].copy
                                 /\ projection[n].copy # 0 => projection'[n].removed)
    <3>1. CASE n = m BY <2>4, <2>5, <3>1 DEF Projection
    <3>2. CASE n # m /\ ~(n \in ms /\ projection[n].copy # 0) BY <2>1, <2>2, <2>5, <3>2
    <3>3. CASE n # m /\ n \in ms /\ projection[n].copy # 0
      <4>1. projection'[n] = [projection[n] EXCEPT !.removed = TRUE] BY <2>2, <2>5, <3>3
      <4> QED BY <2>1, <3>3, <4>1 DEF Projection
    <3> QED BY <3>1, <3>2, <3>3
  <2>8. syncCard'[n] \in SyncCard
        /\ (n # m /\ n \in ms => /\ syncCard'[n].state # "active" /\ syncCard'[n].status = syncCard[n].status
                                 /\ syncCard'[n].state # "none" => syncCard[n].state # "none")
    BY <1>0, <2>1, <2>3, <2>6 DEF SyncCard
  <2> QED BY <2>2, <2>3, <2>5, <2>6, <2>7, <2>8
<1>9. projection' \in [PostIds -> Projection] /\ syncCard' \in [PostIds -> SyncCard]
  <2> HIDE DEF Projection, SyncCard
  <2>1. projection' = [n \in PostIds |-> projection'[n]] /\ syncCard' = [n \in PostIds |-> syncCard'[n]] BY <1>1
  <2> QED BY <1>8, <2>1
<1>10. CopiesOf'
  <2> SUFFICES ASSUME NEW c \in 1..Len(copy') PROVE copy'[c].of \in 1..Len(post') BY <1>7 DEF CopiesOf
  <2>1. CASE c \in 1..Len(copy)
    <3>1. copy'[c].of = copy[c].of BY <1>3, <1>6, <2>1
    <3>2. copy[c].of \in 1..Len(post) BY <1>0, <1>2, <2>1 DEF CopiesOf
    <3> QED BY <1>0, <3>1, <3>2
  <2>2. CASE c \notin 1..Len(copy)
    <3>1. m # 0 /\ c = Len(copy) + 1 BY <1>0, <1>6, <2>2
    <3> QED BY <1>6, <3>1
  <2> QED BY <2>1, <2>2
<1>11. T!CopiesBacked'
  <2> SUFFICES ASSUME NEW c \in 1..Len(copy'), copy'[c].shown
               PROVE  LET n == copy'[c].of IN
                      /\ projection'[n].copy # 0 /\ ~projection'[n].removed /\ projection'[n].copy = c
                      /\ ~post'[n].deleted /\ ~post'[n].recalled
    BY <1>7 DEF T!CopiesBacked, T!Active, T!Live
  <2>1. CASE c \in 1..Len(copy)
    <3> DEFINE n == copy[c].of
    <3>1. copy'[c].of = n /\ copy[c].shown /\ \A k \in ms : projection[k].copy # c
      BY <1>3, <1>6, <2>1
    <3>2. n \in 1..Len(post) BY <1>0, <1>2, <2>1 DEF CopiesOf
    <3>3. /\ projection[n].copy # 0 /\ ~projection[n].removed /\ projection[n].copy = c
          /\ ~post[n].deleted /\ ~post[n].recalled
      BY <1>0, <1>2, <2>1, <3>1 DEF T!CopiesBacked, T!Active, T!Live
    <3>4. n \notin ms /\ n # m
      <4>1. m # 0 => n # m BY <1>2, <2>1, <3>1
      <4>2. n # 0 BY <1>0, <3>2
      <4> QED BY <3>1, <3>3, <4>1, <4>2
    <3>5. n \in PostIds BY <1>0, <1>a, <3>2 DEF PostIds
    <3>6. projection'[n] = projection[n] BY <1>8, <3>4, <3>5
    <3> HIDE DEF n
    <3> QED BY <3>1, <3>2, <3>3, <3>4, <3>6
  <2>2. CASE c \notin 1..Len(copy)
    <3>1. m # 0 /\ c = Len(copy) + 1 BY <1>0, <1>6, <2>2
    <3>2. copy'[c].of = m /\ m \in PostIds BY <1>6, <1>a, <3>1 DEF PostIds
    <3>3. projection'[m] = [copy |-> c, removed |-> FALSE] BY <1>8, <3>1, <3>2
    <3>4. c # 0 BY <1>0, <3>1
    <3> QED BY <3>1, <3>2, <3>3, <3>4
  <2> QED BY <2>1, <2>2
<1>12. T!CardsFollowProjections'
  <2> SUFFICES ASSUME NEW n \in PostIds
               PROVE  (syncCard'[n].state = "active") <=> (projection'[n].copy # 0 /\ ~projection'[n].removed)
    BY DEF T!CardsFollowProjections, T!Active, PostIds
  <2>1. (syncCard[n].state = "active") <=> (projection[n].copy # 0 /\ ~projection[n].removed)
    BY <1>0 DEF T!CardsFollowProjections, T!Active, PostIds
  <2>2. CASE n = m
    <3>1. Len(copy) + 1 # 0 BY <1>0
    <3> QED BY <1>8, <2>2, <3>1
  <2>3. CASE n # m /\ n \notin ms BY <1>8, <2>1, <2>3
  <2>4. CASE n # m /\ n \in ms BY <1>8, <2>4
  <2> QED BY <2>2, <2>3, <2>4
<1>13. T!CardsCurrent'
  <2>1. \A n \in PostIds : syncCard[n].state # "none" => syncCard[n].status = status
    BY <1>0 DEF T!CardsCurrent, PostIds
  <2>2. topicCard = [count |-> T!Cardinality(T!Joined), status |-> status] BY <1>0 DEF T!CardsCurrent
  <2>3. \A n \in PostIds : syncCard'[n].state # "none" => syncCard'[n].status = status
    <3> TAKE n \in PostIds
    <3>1. CASE n = m BY <1>8, <3>1
    <3>2. CASE n # m /\ n \notin ms BY <1>8, <2>1, <3>2
    <3>3. CASE n # m /\ n \in ms BY <1>8, <2>1, <3>3
    <3> QED BY <3>1, <3>2, <3>3
  <2>4. T!Joined' = T!Joined BY DEF T!Joined
  <2> QED BY <2>2, <2>3, <2>4 DEF T!CardsCurrent, PostIds
<1> QED BY <1>6, <1>7, <1>9, <1>10, <1>11, <1>12, <1>13

(* The topic or its members change and every card is brought up to date.   *)
LEMMA RefreshKeeps ==
  ASSUME TopicInv, T!RefreshTopicCards, UNCHANGED <<post, projection, copy>>
  PROVE  /\ status' \in T!Statuses => syncCard' \in [PostIds -> SyncCard]
         /\ T!CopiesBacked' /\ T!CardsFollowProjections' /\ T!CardsCurrent' /\ CopiesOf'
<1>0. /\ CopiesOf /\ T!CopiesBacked /\ T!CardsFollowProjections /\ syncCard \in [PostIds -> SyncCard]
  BY DEF TopicInv, TopicsTyped
<1>1. syncCard' = [m \in PostIds |-> [syncCard[m] EXCEPT !.status = IF syncCard[m].state = "none"
                                                                    THEN syncCard[m].status ELSE status']]
  BY DEF T!RefreshTopicCards, PostIds
<1>2. ASSUME NEW m \in PostIds
      PROVE  /\ status' \in T!Statuses => syncCard'[m] \in SyncCard
             /\ syncCard'[m].state = syncCard[m].state
             /\ syncCard[m].state # "none" => syncCard'[m].status = status'
  <2>1. syncCard[m] \in SyncCard BY <1>0
  <2>2. syncCard'[m] = [syncCard[m] EXCEPT !.status = IF syncCard[m].state = "none"
                                                      THEN syncCard[m].status ELSE status']
    BY <1>1
  <2> QED BY <2>1, <2>2 DEF SyncCard
<1>3. status' \in T!Statuses => syncCard' \in [PostIds -> SyncCard]
  <2> HIDE DEF SyncCard
  <2>1. syncCard' = [n \in PostIds |-> syncCard'[n]] BY <1>1
  <2> QED BY <1>2, <2>1
<1>4. T!CopiesBacked' /\ CopiesOf' BY <1>0 DEF T!CopiesBacked, CopiesOf, T!Active, T!Live
<1>5. T!CardsFollowProjections'
  <2> SUFFICES ASSUME NEW n \in PostIds PROVE (syncCard'[n].state = "active") <=> T!Active(n)'
    BY DEF T!CardsFollowProjections, PostIds
  <2>1. (syncCard[n].state = "active") <=> T!Active(n) BY <1>0 DEF T!CardsFollowProjections, PostIds
  <2>2. T!Active(n)' <=> T!Active(n) BY DEF T!Active
  <2> QED BY <1>2, <2>1, <2>2
<1>6. T!CardsCurrent'
  <2>1. T!Joined' = {u \in Users : joined'[u] = "in"} BY DEF T!Joined
  <2>2. topicCard' = [count |-> T!Cardinality(T!Joined'), status |-> status']
    BY <2>1 DEF T!RefreshTopicCards
  <2>3. \A m \in PostIds : syncCard'[m].state # "none" => syncCard'[m].status = status' BY <1>2
  <2> QED BY <2>2, <2>3 DEF T!CardsCurrent, PostIds
<1> QED BY <1>3, <1>4, <1>5, <1>6

(* Commits that change the topic or its members.                           *)
LEMMA TopicCommit ==
  ASSUME TopicInv, NEW q \in Requests, tRequest' = [tRequest EXCEPT ![q] = T!NoRequest],
         T!JoinTopic(tRequest[q]) \/ T!LeaveTopic(tRequest[q]) \/ T!Transition(tRequest[q]),
         UNCHANGED <<inGroup, tClock>>
  PROVE  TopicInv'
<1> DEFINE r == tRequest[q]
<1>0. /\ TopicsTyped /\ TimesLeft /\ r \in TopicRequest /\ About(r) /\ Len(post) \in Nat
  BY DEF TopicInv, TopicsTyped, RequestsAbout
<1>1. UNCHANGED <<tLastRead, post, projection, copy>> /\ T!RefreshTopicCards
  BY DEF T!JoinTopic, T!LeaveTopic, T!Transition
<1>2. /\ status' \in T!Statuses => syncCard' \in [PostIds -> SyncCard]
      /\ T!CopiesBacked' /\ T!CardsFollowProjections' /\ T!CardsCurrent' /\ CopiesOf'
  BY <1>1, RefreshKeeps
<1>a. Len(post') \in Nat /\ Len(post') >= Len(post) /\ tClock' = tClock BY <1>0, <1>1
<1>3. /\ tRequest' \in [Requests -> TopicRequest] /\ RequestsAbout'
      /\ Cardinality(Writers) \in Nat /\ Cardinality(Writers') \in Nat
      /\ Cardinality(Writers') <= Cardinality(Writers)
  BY <1>a, TopicRequestEnds
<1>4. /\ status' \in T!Statuses /\ joined' \in [Users -> {"none", "in", "left"}]
      /\ revision' \in 1..MaxRevision
  <2>1. CASE T!JoinTopic(r) \/ T!LeaveTopic(r)
    <3>1. UNCHANGED <<status, revision>> /\ \E x \in {"in", "left"} : joined' = [joined EXCEPT ![r.user] = x]
      BY <2>1 DEF T!JoinTopic, T!LeaveTopic, T!RejoinTopicMember, T!LeaveTopicMember
    <3> QED BY <1>0, <3>1 DEF TopicsTyped
  <2>2. CASE T!Transition(r)
    <3>1. /\ joined' = joined /\ revision' = revision + 1 /\ status' \in {"closed", "archived"}
          /\ r.op \in {"close", "archive"} /\ r.rev = revision
      BY <2>2 DEF T!Transition, T!TransitionTopic
    <3>2. revision < MaxRevision BY <1>0, <3>1 DEF About
    <3>3. revision \in 1..MaxRevision /\ MaxRevision \in Nat BY <1>0, ChatAssumption DEF TopicsTyped
    <3>4. revision + 1 \in 1..MaxRevision BY <3>2, <3>3
    <3> QED BY <1>0, <3>1, <3>4 DEF TopicsTyped, T!Statuses
  <2> QED BY <2>1, <2>2
<1>5. TopicsTyped' BY <1>0, <1>1, <1>2, <1>3, <1>4 DEF TopicsTyped
<1>6. TimesLeft'
  <2>1. Len(post) + Cardinality(Writers) <= tClock /\ tClock \in Nat BY <1>0 DEF TimesLeft, TopicsTyped
  <2>2. Len(post') = Len(post) /\ tClock' = tClock BY <1>1
  <2>3. Len(post') + Cardinality(Writers') <= tClock' BY <1>0, <1>3, <2>1, <2>2
  <2> QED BY <2>3 DEF TimesLeft
<1> QED BY <1>2, <1>3, <1>5, <1>6 DEF TopicInv

(* Commits that change messages and their copies.                          *)
LEMMA CopyCommit ==
  ASSUME TopicInv, NEW q \in Requests, tRequest' = [tRequest EXCEPT ![q] = T!NoRequest],
         UNCHANGED <<inGroup, tClock, status, revision, joined, tLastRead, topicCard>>,
         NEW ms \in SUBSET PostIds, NEW m \in 0..MaxPosts, T!Resync(ms, m),
         Len(post') \in 1..MaxPosts, Len(post') >= Len(post), post' \in Seq(Post),
         Len(post') = Len(post) \/ (Len(post') = Len(post) + 1 /\ tRequest[q].op \in Writing),
         m # 0 => /\ m \in 1..Len(post') /\ ~post'[m].deleted /\ ~post'[m].recalled
                  /\ \A c \in DOMAIN copy : copy[c].shown => copy[c].of # m,
         \A n \in 1..Len(post) : n \notin ms =>
           post'[n].deleted = post[n].deleted /\ post'[n].recalled = post[n].recalled
  PROVE  TopicInv'
<1>0. TopicsTyped /\ TimesLeft BY DEF TopicInv
<1>1. /\ copy' \in Seq(Copy) /\ Len(copy') \in 0..MaxCopies
      /\ projection' \in [PostIds -> Projection] /\ syncCard' \in [PostIds -> SyncCard]
      /\ CopiesOf' /\ T!CopiesBacked' /\ T!CardsFollowProjections' /\ T!CardsCurrent'
  BY ResyncKeeps
<1>2. Len(post') \in Nat OBVIOUS
<1>3. /\ tRequest' \in [Requests -> TopicRequest] /\ RequestsAbout'
      /\ Cardinality(Writers) \in Nat /\ Cardinality(Writers') \in Nat
      /\ Cardinality(Writers') <= Cardinality(Writers)
      /\ q \in Writers => Cardinality(Writers') = Cardinality(Writers) - 1
  BY <1>2, TopicRequestEnds
<1>4. TopicsTyped' BY <1>0, <1>1, <1>3 DEF TopicsTyped
<1>5. TimesLeft'
  <2>1. Len(post) + Cardinality(Writers) <= tClock /\ tClock \in Nat /\ Len(post) \in Nat
    BY <1>0 DEF TimesLeft, TopicsTyped
  <2>2. Len(post') + Cardinality(Writers') <= tClock'
    <3>1. CASE Len(post') = Len(post) BY <1>3, <2>1, <3>1
    <3>2. CASE Len(post') = Len(post) + 1 /\ tRequest[q].op \in Writing
      <4>1. q \in Writers BY <3>2 DEF Writers
      <4> QED BY <1>3, <2>1, <3>2, <4>1
    <3> QED BY <3>1, <3>2
  <2> QED BY <2>2 DEF TimesLeft
<1> QED BY <1>1, <1>3, <1>4, <1>5 DEF TopicInv

LEMMA PostCommit ==
  ASSUME TopicInv, NEW q \in Requests, tRequest' = [tRequest EXCEPT ![q] = T!NoRequest],
         T!createSharedMessage(tRequest[q]), UNCHANGED <<inGroup, tClock>>
  PROVE  TopicInv'
<1> DEFINE r == tRequest[q]
           p == [author |-> r.user, at |-> r.at, recalled |-> FALSE, deleted |-> FALSE]
           all == Append(post, p)
           victims == T!EnforceTopicRetention(all)
           m == IF r.op = "postSync" THEN Len(all) ELSE 0
<1>0. /\ TopicsTyped /\ TimesLeft /\ CopiesOf /\ r \in TopicRequest /\ About(r) /\ post \in Seq(Post)
      /\ Len(post) \in 1..MaxPosts /\ MaxPosts \in Nat
  BY ChatAssumption DEF TopicInv, TopicsTyped, RequestsAbout
<1>1. /\ r.op \in Writing /\ Len(all) \notin victims
      /\ post' = [n \in DOMAIN all |-> [all[n] EXCEPT !.deleted = all[n].deleted \/ n \in victims]]
      /\ T!Resync(victims, m) /\ UNCHANGED <<status, revision, joined, tLastRead, topicCard>>
  BY DEF T!createSharedMessage, Writing
<1>2. p \in Post /\ ~p.recalled /\ ~p.deleted BY <1>0, <1>1 DEF TopicRequest, About, Post
<1>3. /\ all \in Seq(Post) /\ Len(all) = Len(post) + 1 /\ DOMAIN all = 1..(Len(post) + 1)
      /\ \A n \in 1..Len(post) : all[n] = post[n]
      /\ all[Len(post) + 1] = p
  <2> HIDE DEF p, Post
  <2> QED BY <1>0, <1>2
<1>4. Len(post) + 1 \in 1..MaxPosts
  <2>1. q \in Writers BY <1>1 DEF Writers
  <2>2. IsFiniteSet(Writers)
    <3>1. Writers \subseteq Requests BY DEF Writers
    <3> QED BY <3>1, ChatAssumption, FS_Subset
  <2>3. Cardinality(Writers) \in Nat /\ Cardinality(Writers) # 0
    BY <2>1, <2>2, FS_CardinalityType, FS_EmptySet
  <2>4. Len(post) + Cardinality(Writers) <= tClock /\ tClock \in 1..MaxPosts
    BY <1>0 DEF TimesLeft, TopicsTyped
  <2> QED BY <1>0, <2>3, <2>4
<1> HIDE DEF all, p
<1>5. victims \in SUBSET (1..(Len(post) + 1)) BY <1>3 DEF T!EnforceTopicRetention
<1>6. victims \in SUBSET PostIds BY <1>0, <1>4, <1>5 DEF PostIds
<1>7. m \in 0..MaxPosts BY <1>0, <1>3, <1>4
<1> HIDE DEF victims
<1>8. ASSUME NEW n \in 1..(Len(post) + 1)
      PROVE  /\ post'[n] \in Post /\ post'[n].recalled = all[n].recalled
             /\ n \notin victims => post'[n].deleted = all[n].deleted
  <2>1. all[n] \in Post BY <1>3
  <2>2. post'[n] = [all[n] EXCEPT !.deleted = all[n].deleted \/ n \in victims] BY <1>1, <1>3
  <2>3. all[n].deleted \in BOOLEAN BY <2>1 DEF Post
  <2>4. n \notin victims => (all[n].deleted \/ n \in victims) = all[n].deleted BY <2>3
  <2>5. post'[n] \in Post BY <2>1, <2>2 DEF Post
  <2>6. post'[n].recalled = all[n].recalled /\ post'[n].deleted = (all[n].deleted \/ n \in victims)
    BY <2>1, <2>2 DEF Post
  <2> QED BY <2>4, <2>5, <2>6
<1>9. post' \in Seq(Post) /\ Len(post') = Len(post) + 1
  <2> HIDE DEF Post
  <2>1. post' = [n \in 1..(Len(post) + 1) |-> post'[n]] BY <1>1, <1>3
  <2>2. post' \in [1..(Len(post) + 1) -> Post] BY <1>8, <2>1
  <2>3. Len(post) + 1 \in Nat BY <1>0
  <2> QED BY <2>2, <2>3
<1>10. Len(post') \in 1..MaxPosts /\ Len(post') >= Len(post) BY <1>0, <1>4, <1>9
<1>11. \A n \in 1..Len(post) : n \notin victims =>
         post'[n].deleted = post[n].deleted /\ post'[n].recalled = post[n].recalled
  BY <1>0, <1>3, <1>8
<1>12. m # 0 => /\ m \in 1..Len(post') /\ ~post'[m].deleted /\ ~post'[m].recalled
                /\ \A c \in DOMAIN copy : copy[c].shown => copy[c].of # m
  <2> SUFFICES ASSUME m # 0 PROVE /\ m \in 1..Len(post') /\ ~post'[m].deleted /\ ~post'[m].recalled
                                  /\ \A c \in DOMAIN copy : copy[c].shown => copy[c].of # m
    OBVIOUS
  <2>1. m = Len(post) + 1 /\ m \notin victims BY <1>1, <1>3
  <2>2. m \in 1..(Len(post) + 1) BY <1>0, <2>1
  <2>3. post'[m].recalled = p.recalled /\ post'[m].deleted = p.deleted BY <1>3, <1>8, <2>1, <2>2
  <2>4. \A c \in DOMAIN copy : copy[c].of # m BY <1>0, <2>1 DEF CopiesOf
  <2> QED BY <1>2, <1>9, <2>2, <2>3, <2>4
<1> HIDE DEF m
<1> QED BY <1>1, <1>6, <1>7, <1>9, <1>10, <1>11, <1>12, CopyCommit

LEMMA SyncCommit ==
  ASSUME TopicInv, NEW q \in Requests, tRequest' = [tRequest EXCEPT ![q] = T!NoRequest],
         T!SyncMessage(tRequest[q]) \/ T!UnsyncMessage(tRequest[q]) \/ T!RecallMessage(tRequest[q]),
         UNCHANGED <<inGroup, tClock>>
  PROVE  TopicInv'
<1> DEFINE r == tRequest[q]
           k == r.m
<1>0. /\ TopicsTyped /\ T!CopiesBacked /\ About(r) /\ post \in Seq(Post)
      /\ Len(post) \in 1..MaxPosts /\ MaxPosts \in Nat
  BY ChatAssumption DEF TopicInv, TopicsTyped, RequestsAbout
<1>1. UNCHANGED <<status, revision, joined, tLastRead, topicCard>>
  BY DEF T!SyncMessage, T!UnsyncMessage, T!RecallMessage
<1>2. k \in 1..Len(post) BY <1>0 DEF T!SyncMessage, T!UnsyncMessage, T!RecallMessage, About
<1>3. k \in PostIds /\ k \in 0..MaxPosts /\ k # 0 BY <1>0, <1>2 DEF PostIds
<1>4. CASE T!SyncMessage(r)
  <2>1. /\ post' = post /\ ~post[k].deleted /\ ~post[k].recalled /\ ~T!Active(k) /\ T!Resync({}, k)
    BY <1>4 DEF T!SyncMessage, T!Live
  <2>2. \A c \in DOMAIN copy : copy[c].shown => copy[c].of # k BY <1>0, <2>1 DEF T!CopiesBacked
  <2>3. Len(post') \in 1..MaxPosts /\ Len(post') >= Len(post) /\ post' \in Seq(Post) /\ Len(post') = Len(post)
    BY <1>0, <2>1
  <2>4. {} \in SUBSET PostIds OBVIOUS
  <2> HIDE DEF k, r
  <2> QED BY <1>1, <1>2, <1>3, <2>1, <2>2, <2>3, <2>4, CopyCommit DEF r
<1>5. CASE T!UnsyncMessage(r)
  <2>1. post' = post /\ T!Resync({k}, 0) BY <1>5 DEF T!UnsyncMessage
  <2>3. Len(post') \in 1..MaxPosts /\ Len(post') >= Len(post) /\ post' \in Seq(Post) /\ Len(post') = Len(post)
    BY <1>0, <2>1
  <2>4. {k} \in SUBSET PostIds /\ 0 \in 0..MaxPosts BY <1>0, <1>3
  <2> HIDE DEF k, r
  <2> QED BY <1>1, <2>1, <2>3, <2>4, CopyCommit DEF r
<1>6. CASE T!RecallMessage(r)
  <2>1. /\ post' = [post EXCEPT ![k] = [post[k] EXCEPT !.recalled = TRUE]] /\ T!Resync({k}, 0)
    BY <1>6 DEF T!RecallMessage, T!InvalidateMessageProjection
  <2>2. [post[k] EXCEPT !.recalled = TRUE] \in Post
    <3>1. post[k] \in Post BY <1>0, <1>2
    <3> QED BY <3>1 DEF Post
  <2>3. /\ post' \in Seq(Post) /\ Len(post') = Len(post)
        /\ \A n \in 1..Len(post) : n # k => post'[n] = post[n]
    <3> HIDE DEF k, r, Post
    <3> QED BY <1>0, <1>2, <2>1, <2>2
  <2>4. Len(post') \in 1..MaxPosts /\ Len(post') >= Len(post) BY <1>0, <2>3
  <2>5. {k} \in SUBSET PostIds /\ 0 \in 0..MaxPosts BY <1>0, <1>3
  <2> HIDE DEF k, r
  <2> QED BY <1>1, <2>1, <2>3, <2>4, <2>5, CopyCommit DEF r
<1> QED BY <1>4, <1>5, <1>6

LEMMA TopicBegins ==
  ASSUME TopicInv, NEW q \in Requests, NEW op \in T!Ops, NEW u \in Users, NEW m \in 0..MaxPosts, NEW at,
         T!Begin(q, op, u, m, at),
         op \in {"sync", "unsync", "recall", "read"} => m \in 1..Len(post),
         op \in {"close", "archive"} => revision < MaxRevision,
         op \in Writing => tClock < MaxPosts /\ at = tClock + 1,
         op \notin Writing => at = 0
  PROVE  TopicInv'
<1> DEFINE r == [op |-> op, user |-> u, m |-> m, at |-> at,
                 rev |-> IF op \in {"close", "archive"} THEN revision ELSE 0]
<1>0. /\ TopicsTyped /\ RequestsAbout /\ TimesLeft /\ CopiesOf
      /\ T!CopiesBacked /\ T!CardsFollowProjections /\ T!CardsCurrent
      /\ tRequest \in [Requests -> TopicRequest] /\ tClock \in 1..MaxPosts /\ Len(post) \in Nat
      /\ MaxPosts \in Nat /\ revision \in 1..MaxRevision /\ MaxRevision \in Nat
  BY ChatAssumption DEF TopicInv, TopicsTyped
<1>1. /\ tRequest[q] = T!NoRequest /\ tRequest' = [tRequest EXCEPT ![q] = r]
      /\ tClock' = IF at = 0 THEN tClock ELSE at
      /\ UNCHANGED <<status, revision, inGroup, joined, tLastRead, post, projection, copy, topicCard, syncCard>>
  BY DEF T!Begin
<1>2. /\ op \in Writing => at \in 1..MaxPosts /\ tClock' = tClock + 1 /\ tClock' \in 1..MaxPosts
      /\ op \notin Writing => at = 0 /\ tClock' = tClock
      /\ at \in 0..MaxPosts /\ tClock' \in 1..MaxPosts
  <2>0. tClock' = IF at = 0 THEN tClock ELSE at BY <1>1
  <2>1. CASE op \in Writing
    <3>1. tClock < MaxPosts /\ at = tClock + 1 BY <2>1
    <3>2. at \in 1..MaxPosts /\ at # 0 BY <1>0, <3>1
    <3> QED BY <1>0, <2>0, <2>1, <3>1, <3>2
  <2>2. CASE op \notin Writing BY <1>0, <2>0, <2>2
  <2> QED BY <2>1, <2>2
<1>3. r \in TopicRequest /\ About(r)
  <2>1. r.op = op /\ r.m = m /\ r.at = at /\ r.rev = (IF op \in {"close", "archive"} THEN revision ELSE 0) OBVIOUS
  <2>2. r.rev \in 0..MaxRevision /\ (op \in {"close", "archive"} => r.rev < MaxRevision)
    BY <1>0, <2>1
  <2>3. r \in TopicRequest BY <1>2, <2>2 DEF TopicRequest
  <2>4. About(r) BY <1>2, <2>1, <2>2 DEF About
  <2> QED BY <2>3, <2>4
<1> HIDE DEF r
<1>4. tRequest' \in [Requests -> TopicRequest] /\ \A p \in Requests : tRequest'[p] = IF p = q THEN r ELSE tRequest[p]
  <2> HIDE DEF TopicRequest
  <2> QED BY <1>0, <1>1, <1>3
<1>5. RequestsAbout'
  <2> SUFFICES ASSUME NEW p \in Requests PROVE About(tRequest[p])' BY DEF RequestsAbout
  <2>1. About(tRequest'[p]) BY <1>0, <1>3, <1>4 DEF RequestsAbout
  <2> QED BY <1>1, <2>1 DEF About
<1>6. TimesLeft'
  <2>1. q \notin Writers BY <1>1 DEF Writers, Writing, T!NoRequest
  <2>2. r.op = op BY DEF r
  <2>3. Writers' = IF op \in Writing THEN Writers \union {q} ELSE Writers
    BY <1>4, <2>1, <2>2 DEF Writers
  <2>4. IsFiniteSet(Writers)
    <3>1. Writers \subseteq Requests BY DEF Writers
    <3> QED BY <3>1, ChatAssumption, FS_Subset
  <2>5. Cardinality(Writers \union {q}) = Cardinality(Writers) + 1 /\ Cardinality(Writers) \in Nat
    BY <2>1, <2>4, FS_AddElement, FS_CardinalityType
  <2>6. Len(post) + Cardinality(Writers) <= tClock BY <1>0 DEF TimesLeft
  <2>7. Len(post') + Cardinality(Writers') <= tClock'
    <3>1. CASE op \in Writing
      <4>1. Cardinality(Writers') = Cardinality(Writers) + 1 /\ tClock' = tClock + 1 /\ Len(post') = Len(post)
        BY <1>1, <1>2, <2>3, <2>5, <3>1
      <4> QED BY <1>0, <2>5, <2>6, <4>1
    <3>2. CASE op \notin Writing BY <1>1, <1>2, <2>3, <2>6, <3>2
    <3> QED BY <3>1, <3>2
  <2> QED BY <2>7 DEF TimesLeft
<1>7. TopicsTyped' BY <1>0, <1>1, <1>2, <1>4 DEF TopicsTyped
<1>8. CopiesOf' /\ T!CopiesBacked' /\ T!CardsFollowProjections' /\ T!CardsCurrent'
  BY <1>0, <1>1 DEF CopiesOf, T!CopiesBacked, T!CardsFollowProjections, T!CardsCurrent, T!Active, T!Live, T!Joined
<1> QED BY <1>5, <1>6, <1>7, <1>8 DEF TopicInv

(* Steps that leave messages, projections and cards alone.                 *)
LEMMA TopicAside ==
  ASSUME TopicInv, UNCHANGED <<status, revision, joined, tClock, post, projection, topicCard, syncCard>>,
         inGroup' \subseteq Users, tLastRead' \in [Users -> 0..MaxPosts],
         \/ tRequest' = tRequest
         \/ \E q \in Requests : tRequest' = [tRequest EXCEPT ![q] = T!NoRequest],
         \/ copy' = copy
         \/ \E c \in DOMAIN copy : copy' = [copy EXCEPT ![c].shown = FALSE]
  PROVE  TopicInv'
<1>0. /\ TopicsTyped /\ RequestsAbout /\ TimesLeft /\ CopiesOf
      /\ T!CopiesBacked /\ T!CardsFollowProjections /\ T!CardsCurrent
      /\ copy \in Seq(Copy) /\ Len(copy) \in 0..MaxCopies /\ Len(post) \in Nat
  BY DEF TopicInv, TopicsTyped
<1>1. /\ tRequest' \in [Requests -> TopicRequest] /\ RequestsAbout' /\ TimesLeft'
  <2>1. CASE tRequest' = tRequest BY <1>0, <2>1 DEF TopicsTyped, RequestsAbout, About, TimesLeft, Writers
  <2>2. ASSUME NEW q \in Requests, tRequest' = [tRequest EXCEPT ![q] = T!NoRequest]
        PROVE  /\ tRequest' \in [Requests -> TopicRequest] /\ RequestsAbout' /\ TimesLeft'
    <3>1. Len(post') \in Nat /\ Len(post') >= Len(post) /\ tClock' = tClock BY <1>0
    <3>2. /\ tRequest' \in [Requests -> TopicRequest] /\ RequestsAbout'
          /\ Cardinality(Writers) \in Nat /\ Cardinality(Writers') \in Nat
          /\ Cardinality(Writers') <= Cardinality(Writers)
      BY <2>2, <3>1, TopicRequestEnds
    <3>3. Len(post) + Cardinality(Writers) <= tClock /\ tClock \in Nat BY <1>0 DEF TimesLeft, TopicsTyped
    <3>4. Len(post') + Cardinality(Writers') <= tClock'
      <4>1. Len(post') = Len(post) OBVIOUS
      <4> QED BY <1>0, <3>1, <3>2, <3>3, <4>1
    <3> QED BY <3>2, <3>4 DEF TimesLeft
  <2> QED BY <2>1, <2>2
<1>2. /\ copy' \in Seq(Copy) /\ Len(copy') = Len(copy) /\ DOMAIN copy' = DOMAIN copy
      /\ \A d \in DOMAIN copy : copy'[d].of = copy[d].of /\ (copy'[d].shown => copy[d].shown)
  <2>1. CASE copy' = copy BY <1>0, <2>1
  <2>2. ASSUME NEW c \in DOMAIN copy, copy' = [copy EXCEPT ![c].shown = FALSE]
        PROVE  /\ copy' \in Seq(Copy) /\ Len(copy') = Len(copy) /\ DOMAIN copy' = DOMAIN copy
               /\ \A d \in DOMAIN copy : copy'[d].of = copy[d].of /\ (copy'[d].shown => copy[d].shown)
    <3> DEFINE gone == [copy[c] EXCEPT !.shown = FALSE]
    <3>1. copy[c] \in Copy BY <1>0
    <3>2. gone \in Copy /\ gone.of = copy[c].of /\ ~gone.shown BY <3>1 DEF Copy
    <3>3. copy' = [copy EXCEPT ![c] = gone] BY <2>2
    <3>4. /\ copy' \in Seq(Copy) /\ Len(copy') = Len(copy) /\ DOMAIN copy' = DOMAIN copy
          /\ \A d \in DOMAIN copy : copy'[d] = IF d = c THEN gone ELSE copy[d]
      <4> HIDE DEF gone, Copy
      <4> QED BY <1>0, <3>2, <3>3
    <3> HIDE DEF gone
    <3> QED BY <3>2, <3>4
  <2> QED BY <2>1, <2>2
<1>3. TopicsTyped' BY <1>0, <1>1, <1>2 DEF TopicsTyped
<1>4. CopiesOf' /\ T!CopiesBacked' BY <1>0, <1>2 DEF CopiesOf, T!CopiesBacked, T!Active, T!Live
<1>5. T!CardsFollowProjections' /\ T!CardsCurrent'
  BY <1>0 DEF T!CardsFollowProjections, T!CardsCurrent, T!Active, T!Joined
<1> QED BY <1>1, <1>3, <1>4, <1>5 DEF TopicInv

LEMMA TopicStepInv == TopicInv /\ [T!TopicsNext]_(T!topicVars) => TopicInv'
<1> SUFFICES ASSUME TopicInv, [T!TopicsNext]_(T!topicVars) PROVE TopicInv' OBVIOUS
<1>0. /\ TopicsTyped /\ RequestsAbout /\ inGroup \subseteq Users /\ tLastRead \in [Users -> 0..MaxPosts]
      /\ DOMAIN post = 1..Len(post) /\ Len(post) \in 1..MaxPosts /\ MaxPosts \in Nat
  BY ChatAssumption DEF TopicInv, TopicsTyped
<1>1. ASSUME NEW q \in Requests, NEW u \in Users, NEW op \in {"join", "leave", "close", "archive"},
             revision < MaxRevision, T!Begin(q, op, u, 0, 0)
      PROVE  TopicInv'
  <2>1. op \in T!Ops /\ op \notin Writing /\ op \notin {"sync", "unsync", "recall", "read"}
    BY DEF T!Ops, Writing
  <2>2. 0 \in 0..MaxPosts BY <1>0
  <2> QED BY <1>1, <2>1, <2>2, TopicBegins
<1>2. ASSUME NEW q \in Requests, NEW u \in Users, NEW op \in {"post", "postSync"},
             tClock < MaxPosts, T!Begin(q, op, u, 0, tClock + 1)
      PROVE  TopicInv'
  <2>1. op \in T!Ops /\ op \in Writing /\ op \notin {"sync", "unsync", "recall", "read"}
        /\ op \notin {"close", "archive"}
    BY DEF T!Ops, Writing
  <2>2. 0 \in 0..MaxPosts BY <1>0
  <2> DEFINE at == tClock + 1
  <2>3. T!Begin(q, op, u, 0, at) /\ at = tClock + 1 BY <1>2
  <2> HIDE DEF at
  <2> QED BY <1>2, <2>1, <2>2, <2>3, TopicBegins
<1>3. ASSUME NEW q \in Requests, NEW u \in Users, NEW op \in {"sync", "unsync", "recall", "read"},
             NEW m \in DOMAIN post, T!Begin(q, op, u, m, 0)
      PROVE  TopicInv'
  <2>1. op \in T!Ops /\ op \notin Writing /\ op \notin {"close", "archive"} BY DEF T!Ops, Writing
  <2>2. m \in 0..MaxPosts /\ m \in 1..Len(post) BY <1>0
  <2> QED BY <1>3, <2>1, <2>2, TopicBegins
<1>4. ASSUME NEW q \in Requests, T!Commit(q) PROVE TopicInv'
  <2>1. tRequest' = [tRequest EXCEPT ![q] = T!NoRequest] /\ UNCHANGED <<inGroup, tClock>> BY <1>4 DEF T!Commit
  <2>2. CASE T!JoinTopic(tRequest[q]) \/ T!LeaveTopic(tRequest[q]) \/ T!Transition(tRequest[q])
    BY <2>1, <2>2, TopicCommit
  <2>3. CASE T!createSharedMessage(tRequest[q]) BY <2>1, <2>3, PostCommit
  <2>4. CASE T!SyncMessage(tRequest[q]) \/ T!UnsyncMessage(tRequest[q]) \/ T!RecallMessage(tRequest[q])
    BY <2>1, <2>4, SyncCommit
  <2>5. CASE T!MarkRead(tRequest[q])
    <3>1. /\ UNCHANGED <<status, revision, joined, post, projection, copy, topicCard, syncCard>>
          /\ tRequest[q].op = "read"
          /\ tLastRead' = [tLastRead EXCEPT ![tRequest[q].user] = tRequest[q].m]
      BY <2>5 DEF T!MarkRead, T!MarkTopicRead
    <3>2. tRequest[q].m \in 0..MaxPosts BY <1>0 DEF TopicsTyped, TopicRequest
    <3>3. tLastRead' \in [Users -> 0..MaxPosts] BY <1>0, <3>1, <3>2
    <3> QED BY <1>0, <2>1, <3>1, <3>3, TopicAside
  <2> QED BY <1>4, <2>2, <2>3, <2>4, <2>5 DEF T!Commit
<1>5. ASSUME NEW q \in Requests, T!Refuse(q) PROVE TopicInv'
  BY <1>0, <1>5, TopicAside DEF T!Refuse
<1>6. ASSUME NEW u \in Visitors, T!GroupChanges(u) PROVE TopicInv'
  <2>1. inGroup' \subseteq Users BY <1>0, <1>6, ChatAssumption DEF T!GroupChanges
  <2> QED BY <1>0, <1>6, <2>1, TopicAside DEF T!GroupChanges
<1>7. ASSUME NEW c \in DOMAIN copy, T!CopyGone(c) PROVE TopicInv'
  <2>1. /\ UNCHANGED <<status, revision, inGroup, joined, tLastRead, tClock, post, projection, topicCard, syncCard, tRequest>>
        /\ copy' = [copy EXCEPT ![c].shown = FALSE]
    BY <1>7 DEF T!CopyGone
  <2> QED BY <1>0, <2>1, TopicAside
<1>8. CASE UNCHANGED T!topicVars
  <2>1. UNCHANGED <<status, revision, inGroup, joined, tLastRead, tClock, post, projection, copy, topicCard, syncCard, tRequest>>
    BY <1>8 DEF T!topicVars
  <2> QED BY <1>0, <2>1, TopicAside
<1> QED BY <1>1, <1>2, <1>3, <1>4, <1>5, <1>6, <1>7, <1>8 DEF T!TopicsNext, T!Posts

LEMMA TopicSteps ==
  ASSUME TopicInv, [T!TopicsNext]_(T!topicVars)
  PROVE  /\ status # "open" => /\ status' # "open" /\ post' = post /\ projection' = projection
                               /\ \A u \in Users : joined'[u] = "in" => joined[u] = "in"
         /\ \A u \in Users : tLastRead'[u] >= tLastRead[u]
<1> DEFINE Final == status # "open" => /\ status' # "open" /\ post' = post /\ projection' = projection
                                       /\ \A u \in Users : joined'[u] = "in" => joined[u] = "in"
           Forward == \A u \in Users : tLastRead'[u] >= tLastRead[u]
<1>0. /\ joined \in [Users -> {"none", "in", "left"}] /\ tLastRead \in [Users -> 0..MaxPosts]
      /\ tRequest \in [Requests -> TopicRequest] /\ MaxPosts \in Nat
  BY ChatAssumption DEF TopicInv, TopicsTyped
<1>1. ASSUME UNCHANGED <<status, post, projection, joined, tLastRead>> PROVE Final /\ Forward
  BY <1>0, <1>1
<1>2. ASSUME NEW q \in Requests, T!Commit(q) PROVE Final /\ Forward
  <2> DEFINE r == tRequest[q]
  <2>0. r.user \in Users BY <1>0 DEF TopicRequest
  <2>1. CASE T!createSharedMessage(r) \/ T!SyncMessage(r) \/ T!UnsyncMessage(r) \/ T!RecallMessage(r) \/ T!JoinTopic(r)
    <3>1. status = "open" /\ UNCHANGED tLastRead
      BY <2>1 DEF T!createSharedMessage, T!SyncMessage, T!UnsyncMessage, T!RecallMessage, T!JoinTopic, T!lockWritableTopic
    <3> QED BY <1>0, <3>1
  <2>2. CASE T!LeaveTopic(r)
    <3>1. joined' = [joined EXCEPT ![r.user] = "left"] /\ UNCHANGED <<status, post, projection, tLastRead>>
      BY <2>2 DEF T!LeaveTopic, T!LeaveTopicMember
    <3> QED BY <1>0, <2>0, <3>1
  <2>3. CASE T!Transition(r)
    <3>1. status' \in {"closed", "archived"} /\ UNCHANGED <<joined, post, projection, tLastRead>>
      BY <2>3 DEF T!Transition, T!TransitionTopic
    <3> QED BY <1>0, <3>1
  <2>4. CASE T!MarkRead(r)
    <3>1. /\ UNCHANGED <<status, joined, post, projection>> /\ tLastRead[r.user] <= r.m
          /\ tLastRead' = [tLastRead EXCEPT ![r.user] = r.m]
      BY <2>4 DEF T!MarkRead, T!MarkTopicRead
    <3> QED BY <1>0, <2>0, <3>1
  <2> QED BY <1>2, <2>1, <2>2, <2>3, <2>4 DEF T!Commit
<1>3. Final /\ Forward
  BY <1>1, <1>2 DEF T!TopicsNext, T!topicVars, T!Begin, T!Refuse, T!GroupChanges, T!CopyGone
<1> QED BY <1>3

(* What the group shows of a topic is live in it, cards follow projections *)
(* and tell the present status, a closed topic stays as it is and no       *)
(* marker moves back, for any number of members, messages, copies and      *)
(* requests (topics/service.go under the topic's lock).                    *)
THEOREM TopicsCorrect ==
  TopicSpec => /\ [](T!TopicsTypeOK /\ T!CopiesBacked /\ T!CardsFollowProjections /\ T!CardsCurrent)
               /\ T!ClosedIsFinal /\ T!ReadMovesForward
<1> DEFINE Final == status # "open" => /\ status' # "open" /\ post' = post /\ projection' = projection
                                       /\ \A u \in Users : joined'[u] = "in" => joined[u] = "in"
           Forward == \A u \in Users : tLastRead'[u] >= tLastRead[u]
<1>1. TopicInv => T!TopicsTypeOK /\ T!CopiesBacked /\ T!CardsFollowProjections /\ T!CardsCurrent
  BY TopicTypes DEF TopicInv
<1>2. TopicInv /\ [T!TopicsNext]_(T!topicVars) => [Final]_(T!topicVars) /\ [Forward]_(T!topicVars)
  BY TopicSteps
<1> QED BY <1>1, <1>2, TopicInitially, TopicStepInv, PTL DEF TopicSpec, T!ClosedIsFinal, T!ReadMovesForward

-----------------------------------------------------------------------------

(***************************************************************************)
(* Naturals.                                                               *)
(***************************************************************************)
LEMMA LeastExists ==
  ASSUME NEW Z, Z \subseteq Nat, Z # {}
  PROVE  \E m \in Z : \A x \in Z : m <= x
<1> DEFINE R == OpToRel(<, Nat)
<1>1. IsWellFoundedOn(R, Nat) BY NatLessThanWellFounded
<1>2. \A x, y \in Nat : x < y => <<x, y>> \in R BY DEF OpToRel
<1> HIDE DEF R
<1>3. PICK m \in Z : \A y \in Z : ~(<<y, m>> \in R) BY <1>1, WFMin
<1>4. \A y \in Z : ~(y < m) BY <1>2, <1>3
<1> QED BY <1>4

LEMMA GreatestExists ==
  ASSUME NEW Z, NEW n \in Nat, Z \subseteq 0..n, Z # {}
  PROVE  \E m \in Z : \A x \in Z : x <= m
<1> DEFINE B == {n - x : x \in Z}
<1>1. B \subseteq Nat /\ B # {}
  <2>1. \A x \in Z : x \in Int /\ 0 <= x /\ x <= n OBVIOUS
  <2>2. \A x \in Z : n - x \in Nat BY <2>1
  <2>3. PICK s \in Z : TRUE OBVIOUS
  <2>4. n - s \in B BY <2>3
  <2> QED BY <2>2, <2>4
<1>2. PICK b \in B : \A y \in B : b <= y BY <1>1, LeastExists
<1>3. PICK m \in Z : b = n - m OBVIOUS
<1>4. ASSUME NEW x \in Z PROVE x <= m
  <2>1. n - m <= n - x BY <1>2, <1>3
  <2> QED BY <2>1
<1> QED BY <1>4

(***************************************************************************)
(* Settings of a group.                                                    *)
(***************************************************************************)
SettingsSpec == S!GroupInit /\ [][S!GroupNext]_(S!groupVars)

Texts == {"t0", "none", NotGiven} \union {p.title : p \in Patches} \union {p.avatar : p \in Patches}
Settled == [title : Texts, avatar : Texts]
Note == [at : 0..MaxOps, what : [field : {"title", "avatar"}, value : Texts], deleted : BOOLEAN]
SettingRequest == [op : {"none", "group", "level"}, user : People, patch : Settled, level : Levels, at : 0..MaxOps]
SettingsTyped ==
  /\ gRole \in [People -> {"admin", "member"}] /\ inside \subseteq People /\ level \in [People -> Levels]
  /\ group \in Settled /\ notice \in Seq(Note) /\ gEvents \in Seq(Settled)
  /\ hidden \subseteq DOMAIN notice /\ direct \subseteq People /\ gGrants \subseteq People
  /\ gClock \in 0..MaxOps /\ gChanges \in 0..MaxChanges /\ announced \in Nat
  /\ setting \in [Settings -> SettingRequest]

(* The last announcement of a field names its value, and there are as many *)
(* as changes.                                                             *)
LastOf(f, i) == /\ i \in DOMAIN notice /\ notice[i].what.field = f
                /\ \A j \in DOMAIN notice : notice[j].what.field = f => j <= i
LastSays == \A f \in {"title", "avatar"}, i \in DOMAIN notice : LastOf(f, i) => notice[i].what.value = group[f]
Story == S!PatchesCompose /\ Len(notice) = announced /\ LastSays

(* What the viewer had hidden before the page was read is still hidden.    *)
ViewSound ==
  /\ DOMAIN view = {"pc", "title", "members", "latest", "before", "preview"}
  /\ view.pc \in {"none", "record", "members", "latest", "shown"}
  /\ view.latest \subseteq DOMAIN notice /\ view.before \subseteq hidden /\ view.preview \notin view.before
(* Whom the viewer sees at this moment counts as possible.                 *)
RuleSound ==
  /\ DOMAIN rule = {"pc", "automatic", "granted", "possible"}
  /\ rule.pc \in {"none", "automatic", "always", "read"}
  /\ rule.pc # "none" => direct \union gGrants \subseteq rule.possible
  /\ rule.automatic \subseteq rule.possible \union {"echo"} /\ rule.granted \subseteq rule.possible
SettingsInv == SettingsTyped /\ Story /\ ViewSound /\ RuleSound

LEMMA PatchShape == /\ Patches \subseteq Settled /\ [title |-> NotGiven, avatar |-> NotGiven] \in Settled
                    /\ [title |-> "t0", avatar |-> "none"] \in Settled
<1>1. ASSUME NEW p \in Patches PROVE p \in Settled
  <2>1. p.title \in Texts /\ p.avatar \in Texts BY DEF Texts
  <2>2. p = [title |-> p.title, avatar |-> p.avatar] BY DEF Patches, Patch
  <2> QED BY <2>1, <2>2 DEF Settled
<1>2. NotGiven \in Texts /\ "t0" \in Texts /\ "none" \in Texts BY DEF Texts
<1> QED BY <1>1, <1>2 DEF Settled

LEMMA NoSetting == S!NoRequest \in SettingRequest
BY PatchShape, ChatAssumption DEF S!NoRequest, SettingRequest

LEMMA SettingsInitially == S!GroupInit => SettingsInv
<1> SUFFICES ASSUME S!GroupInit PROVE SettingsInv OBVIOUS
<1>1. SettingsTyped
  <2>1. notice = <<>> /\ gEvents = <<>> /\ group \in Settled BY PatchShape DEF S!GroupInit
  <2>2. notice \in Seq(Note) /\ gEvents \in Seq(Settled) BY <2>1
  <2>3. setting \in [Settings -> SettingRequest] BY NoSetting DEF S!GroupInit
  <2>4. /\ gRole \in [People -> {"admin", "member"}] /\ inside \subseteq People /\ level \in [People -> Levels]
        /\ hidden \subseteq DOMAIN notice /\ direct \subseteq People /\ gGrants \subseteq People
        /\ gClock \in 0..MaxOps /\ gChanges \in 0..MaxChanges /\ announced \in Nat
    BY ChatAssumption DEF S!GroupInit
  <2> QED BY <2>1, <2>2, <2>3, <2>4 DEF SettingsTyped
<1>2. Story BY DEF S!GroupInit, Story, S!PatchesCompose, LastSays
<1>3. ViewSound BY DEF S!GroupInit, ViewSound, S!NoView
<1>4. RuleSound BY DEF S!GroupInit, RuleSound, S!NoRule
<1> QED BY <1>1, <1>2, <1>3, <1>4 DEF SettingsInv

LEMMA SettingsSafe ==
  SettingsInv => /\ S!GroupTypeOK /\ S!PatchesCompose /\ S!AnnouncedOnce /\ S!PreviewNotHidden /\ S!RuleWasTrue
<1> SUFFICES ASSUME SettingsInv
             PROVE  S!GroupTypeOK /\ S!PatchesCompose /\ S!AnnouncedOnce /\ S!PreviewNotHidden /\ S!RuleWasTrue
  OBVIOUS
<1>0. SettingsTyped /\ Story /\ ViewSound /\ RuleSound BY DEF SettingsInv
<1>1. S!GroupTypeOK BY <1>0 DEF SettingsTyped, ViewSound, RuleSound, S!GroupTypeOK
<1>2. S!PatchesCompose BY <1>0 DEF Story
<1>3. S!PreviewNotHidden BY <1>0 DEF ViewSound, S!PreviewNotHidden
<1>4. S!RuleWasTrue BY <1>0 DEF RuleSound, S!RuleWasTrue
<1>5. S!AnnouncedOnce
  <2>1. Len(notice) = announced /\ LastSays /\ notice \in Seq(Note) BY <1>0 DEF Story, SettingsTyped
  <2>2. Len(notice) \in Nat /\ DOMAIN notice = 1..Len(notice) BY <2>1
  <2>3. ASSUME NEW f \in {"title", "avatar"}, {i \in DOMAIN notice : notice[i].what.field = f} # {}
        PROVE  notice[CHOOSE i \in {k \in DOMAIN notice : notice[k].what.field = f} :
                        \A j \in {k \in DOMAIN notice : notice[k].what.field = f} : j <= i].what.value = group[f]
    <3> DEFINE of == {i \in DOMAIN notice : notice[i].what.field = f}
               last == CHOOSE i \in of : \A j \in of : j <= i
    <3>1. of \subseteq 0..Len(notice) /\ of # {} BY <2>2, <2>3
    <3>2. \E i \in of : \A j \in of : j <= i
      <4> HIDE DEF of
      <4> QED BY <2>2, <3>1, GreatestExists
    <3>3. last \in of /\ \A j \in of : j <= last
      <4> HIDE DEF of
      <4> QED BY <3>2
    <3>4. LastOf(f, last)
      <4> HIDE DEF last
      <4> QED BY <3>3 DEF LastOf
    <3>5. last \in DOMAIN notice BY <3>3
    <3> HIDE DEF last
    <3>6. notice[last].what.value = group[f] BY <2>1, <3>4, <3>5 DEF LastSays
    <3> QED BY <3>6 DEF last
  <2> QED BY <2>1, <2>3 DEF S!AnnouncedOnce
<1> QED BY <1>1, <1>2, <1>3, <1>4, <1>5

Said == [field : {"title", "avatar"}, value : Texts]

LEMMA NoticeInserted ==
  ASSUME NEW all \in Seq(Note), NEW what \in Said, NEW at \in 0..MaxOps, NEW after, after = S!CreateSystemMessage(all, what, at)
  PROVE  /\ after \in Seq(Note) /\ Len(after) = Len(all) + 1 /\ after[Len(all) + 1].what = what
         /\ \A i \in 1..Len(all) : after[i].what = all[i].what
<1> DEFINE new == [at |-> at, what |-> what, deleted |-> FALSE]
           inserted == Append(all, new)
           n == Len(all) + 1
           D(i) == inserted[i].deleted \/ S!Cardinality(S!Newer(inserted, i)) >= KeptNotices
<1>1. new \in Note BY DEF Note, Said
<1>2. Len(all) \in Nat /\ n \in Nat OBVIOUS
<1> HIDE DEF Note
<1>3. /\ inserted \in Seq(Note) /\ Len(inserted) = n /\ DOMAIN inserted = 1..n
      /\ inserted[n] = new /\ \A i \in 1..Len(all) : inserted[i] = all[i]
  <2> HIDE DEF new
  <2> QED BY <1>1
<1>4. after = [i \in DOMAIN inserted |-> [inserted[i] EXCEPT !.deleted = D(i)]] BY DEF S!CreateSystemMessage
<1>5. ASSUME NEW i \in 1..n PROVE after[i] \in Note /\ after[i].what = inserted[i].what
  <2>1. inserted[i] \in Note
    <3> HIDE DEF inserted, n
    <3> QED BY <1>3
  <2>2. D(i) \in BOOLEAN OBVIOUS
  <2>3. after[i] = [inserted[i] EXCEPT !.deleted = D(i)] 
    <3> HIDE DEF inserted, n, D
    <3> QED BY <1>3, <1>4
  <2> HIDE DEF inserted, D
  <2> QED BY <2>1, <2>2, <2>3 DEF Note
<1>6. after \in [1..n -> Note] 
  <2> HIDE DEF inserted, n, D
  <2>1. DOMAIN after = 1..n BY <1>3, <1>4
  <2>2. after = [i \in 1..n |-> after[i]] BY <1>3, <1>4
  <2> QED BY <1>5, <2>2
<1>7. after \in Seq(Note) /\ Len(after) = n
  <2> HIDE DEF n
  <2> QED BY <1>2, <1>6
<1>8. after[n].what = what BY <1>2, <1>3, <1>5
<1>9. \A i \in 1..Len(all) : after[i].what = all[i].what
  <2> SUFFICES ASSUME NEW i \in 1..Len(all) PROVE after[i].what = all[i].what OBVIOUS
  <2>1. i \in 1..n BY <1>2
  <2> QED BY <1>3, <1>5, <2>1
<1> QED BY <1>7, <1>8, <1>9

(* A call announces a change of its field, or nothing.                     *)
LEMMA NoticeCalled ==
  ASSUME NEW all \in Seq(Note), NEW f \in {"title", "avatar"}, NEW old, NEW new \in Texts, NEW at \in 0..MaxOps, NEW after,
         after = S!createSystemMessage(all, f, old, new, at)
  PROVE  /\ after \in Seq(Note) /\ Len(after) = Len(all) + (IF old # new THEN 1 ELSE 0)
         /\ \A i \in 1..Len(all) : after[i].what = all[i].what
         /\ old # new => after[Len(all) + 1].what.field = f /\ after[Len(all) + 1].what.value = new
<1> DEFINE what == [field |-> f, value |-> new]
<1>1. what \in Said BY DEF Said
<1>2. CASE old = new BY <1>2 DEF S!createSystemMessage
<1>3. CASE old # new
  <2>1. after = S!CreateSystemMessage(all, what, at) BY <1>3 DEF S!createSystemMessage
  <2>2. what.field = f /\ what.value = new OBVIOUS
  <2> HIDE DEF what
  <2>3. /\ after \in Seq(Note) /\ Len(after) = Len(all) + 1 /\ after[Len(all) + 1].what = what
        /\ \A i \in 1..Len(all) : after[i].what = all[i].what BY <1>1, <2>1, NoticeInserted
  <2> QED BY <1>3, <2>2, <2>3
<1> QED BY <1>2, <1>3

(* The last announcement of each field in a sequence names its value.      *)
Says(all, g) == \A f \in {"title", "avatar"}, i \in DOMAIN all :
  (all[i].what.field = f /\ \A j \in DOMAIN all : all[j].what.field = f => j <= i) => all[i].what.value = g[f]

(* What the two calls of an update leave.                                  *)
LEMMA NoticesOfUpdate ==
  ASSUME SettingsTyped, Story, NEW nw \in Settled, NEW at \in 0..MaxOps, NEW titled, NEW after,
         titled = S!createSystemMessage(notice, "title", group.title, nw.title, at),
         after = S!createSystemMessage(titled, "avatar", group.avatar, nw.avatar, at)
  PROVE  /\ after \in Seq(Note) /\ DOMAIN notice \subseteq DOMAIN after
         /\ Len(after) = announced + (IF group.title # nw.title THEN 1 ELSE 0)
                                   + (IF group.avatar # nw.avatar THEN 1 ELSE 0)
         /\ Says(after, nw)
<1>0. /\ notice \in Seq(Note) /\ group \in Settled /\ Len(notice) = announced /\ LastSays
      /\ nw.title \in Texts /\ nw.avatar \in Texts BY DEF SettingsTyped, Story, Settled
<1> HIDE DEF Note, Settled
<1> DEFINE n == Len(notice)  m == Len(titled)
           a == group.title # nw.title  b == group.avatar # nw.avatar
<1>1. /\ titled \in Seq(Note) /\ m = n + (IF a THEN 1 ELSE 0)
      /\ \A i \in 1..n : titled[i].what = notice[i].what
      /\ a => titled[n + 1].what.field = "title" /\ titled[n + 1].what.value = nw.title
  BY <1>0, NoticeCalled
<1>2. /\ after \in Seq(Note) /\ Len(after) = m + (IF b THEN 1 ELSE 0)
      /\ \A i \in 1..m : after[i].what = titled[i].what
      /\ b => after[m + 1].what.field = "avatar" /\ after[m + 1].what.value = nw.avatar
  BY <1>0, <1>1, NoticeCalled
<1>3. n \in Nat /\ m \in Nat /\ DOMAIN notice = 1..n /\ DOMAIN titled = 1..m /\ DOMAIN after = 1..Len(after) /\ Len(after) \in Nat
  BY <1>0, <1>1, <1>2
<1> HIDE DEF n, m, a, b
<1>4. Len(after) = n + (IF a THEN 1 ELSE 0) + (IF b THEN 1 ELSE 0) BY <1>1, <1>2, <1>3
<1>5. ASSUME NEW i \in 1..n PROVE i \in 1..m /\ i \in 1..Len(after) /\ after[i].what = notice[i].what
  BY <1>1, <1>2, <1>3, <1>4
<1>6. ASSUME NEW f \in {"title", "avatar"}, NEW i \in DOMAIN after, after[i].what.field = f,
             \A j \in DOMAIN after : after[j].what.field = f => j <= i
      PROVE  after[i].what.value = nw[f]
  <2>1. CASE i \in 1..n
    <3>1. notice[i].what.field = f /\ i \in DOMAIN notice BY <1>3, <1>5, <1>6, <2>1
    <3>2. ASSUME NEW j \in DOMAIN notice, notice[j].what.field = f PROVE j <= i
      BY <1>3, <1>5, <1>6, <3>2
    <3>3. LastOf(f, i) BY <3>1, <3>2 DEF LastOf
    <3>4. notice[i].what.value = group[f] BY <1>0, <3>1, <3>3 DEF LastSays
    <3>5. CASE f = "title"
      <4>1. ~a
        <5> SUFFICES ASSUME a PROVE FALSE OBVIOUS
        <5>1. n + 1 \in 1..m /\ n + 1 \in 1..Len(after) BY <1>1, <1>2, <1>3, <1>4
        <5>2. after[n + 1].what.field = "title" BY <1>1, <1>2, <5>1
        <5>3. n + 1 <= i BY <1>3, <1>6, <3>5, <5>1, <5>2
        <5> QED BY <1>3, <2>1, <5>3
      <4> QED BY <1>5, <2>1, <3>4, <3>5, <4>1 DEF a
    <3>6. CASE f = "avatar"
      <4>1. ~b
        <5> SUFFICES ASSUME b PROVE FALSE OBVIOUS
        <5>1. m + 1 \in 1..Len(after) BY <1>2, <1>3
        <5>2. after[m + 1].what.field = "avatar" BY <1>2
        <5>3. m + 1 <= i BY <1>3, <1>6, <3>6, <5>1, <5>2
        <5> QED BY <1>1, <1>3, <2>1, <5>3
      <4> QED BY <1>5, <2>1, <3>4, <3>6, <4>1 DEF b
    <3> QED BY <3>5, <3>6
  <2>2. CASE i \notin 1..n
    <3>1. CASE a /\ i = n + 1
      <4>1. i \in 1..m BY <1>1, <1>3, <3>1
      <4>2. after[i].what.field = "title" /\ after[i].what.value = nw.title BY <1>1, <1>2, <3>1, <4>1
      <4> QED BY <1>6, <4>2
    <3>2. CASE b /\ i = m + 1 BY <1>2, <1>6, <3>2
    <3> QED BY <1>1, <1>2, <1>3, <1>4, <2>2, <3>1, <3>2
  <2> QED BY <2>1, <2>2
<1>7. DOMAIN notice \subseteq DOMAIN after BY <1>3, <1>5
<1>8. Len(after) = announced + (IF group.title # nw.title THEN 1 ELSE 0) + (IF group.avatar # nw.avatar THEN 1 ELSE 0)
  BY <1>0, <1>4 DEF n, a, b
<1>9. Says(after, nw) BY <1>6 DEF Says
<1> QED BY <1>2, <1>7, <1>8, <1>9

(* What a merge and a patch of what was wanted come to.                    *)
LEMMA Merged ==
  ASSUME SettingsTyped, NEW p \in Settled
  PROVE  /\ S!Merge(p) \in Settled
         /\ S!Merge(p) = [title |-> S!Patched(group.title, p.title), avatar |-> S!Patched(group.avatar, p.avatar)]
BY DEF SettingsTyped, S!Merge, S!Patched, Settled

LEMMA UpdateGroupStep ==
  ASSUME SettingsInv, NEW q \in Settings, S!UpdateGroup(q) PROVE SettingsInv'
<1> DEFINE r == setting[q]
           new == S!Merge(r.patch)
           titled == S!createSystemMessage(notice, "title", group.title, new.title, r.at)
           after == S!createSystemMessage(titled, "avatar", group.avatar, new.avatar, r.at)
           allowed == gRole[r.user] = "admin" /\ new.title # "" /\ r.user \in inside
           kept == \A i \in Len(notice) + 1..Len(after) : ~after[i].deleted
<1>0. SettingsTyped /\ Story /\ ViewSound /\ RuleSound BY DEF SettingsInv
<1>1. /\ setting' = [setting EXCEPT ![q] = S!NoRequest]
      /\ UNCHANGED <<gRole, inside, level, profile, hidden, direct, gGrants, gClock, gChanges, view, rule>>
  BY DEF S!UpdateGroup, S!End
<1>2. IF allowed /\ kept
        THEN /\ group' = new /\ notice' = after /\ gEvents' = Append(gEvents, new)
             /\ wanted' = [title |-> S!Patched(wanted.title, r.patch.title), avatar |-> S!Patched(wanted.avatar, r.patch.avatar)]
             /\ announced' = announced + (IF group.title # new.title THEN 1 ELSE 0) + (IF group.avatar # new.avatar THEN 1 ELSE 0)
        ELSE UNCHANGED <<group, notice, gEvents, wanted, announced>>
  BY DEF S!UpdateGroup
<1>3. setting' \in [Settings -> SettingRequest] BY <1>0, <1>1, NoSetting DEF SettingsTyped
<1>4. r \in SettingRequest /\ r.patch \in Settled /\ r.at \in 0..MaxOps BY <1>0 DEF SettingsTyped, SettingRequest
<1> HIDE DEF r
<1>5. new \in Settled /\ new = [title |-> S!Patched(group.title, r.patch.title), avatar |-> S!Patched(group.avatar, r.patch.avatar)]
  BY <1>0, <1>4, Merged
<1> HIDE DEF allowed, kept, new
<1>6. CASE ~(allowed /\ kept)
  <2>1. UNCHANGED <<group, notice, gEvents, wanted, announced>> BY <1>2, <1>6
  <2>2. SettingsTyped' BY <1>0, <1>1, <1>3, <2>1 DEF SettingsTyped
  <2>3. Story' BY <1>0, <2>1 DEF Story, LastSays, LastOf, S!PatchesCompose
  <2>4. ViewSound' /\ RuleSound' BY <1>0, <1>1, <2>1 DEF ViewSound, RuleSound
  <2> QED BY <2>2, <2>3, <2>4 DEF SettingsInv
<1>7. CASE allowed /\ kept
  <2>1. /\ group' = new /\ notice' = after /\ gEvents' = Append(gEvents, new)
        /\ wanted' = [title |-> S!Patched(wanted.title, r.patch.title), avatar |-> S!Patched(wanted.avatar, r.patch.avatar)]
        /\ announced' = announced + (IF group.title # new.title THEN 1 ELSE 0) + (IF group.avatar # new.avatar THEN 1 ELSE 0)
    BY <1>2, <1>7
  <2>2. /\ after \in Seq(Note) /\ DOMAIN notice \subseteq DOMAIN after
        /\ Len(after) = announced + (IF group.title # new.title THEN 1 ELSE 0)
                                  + (IF group.avatar # new.avatar THEN 1 ELSE 0)
        /\ Says(after, new)
    <3>1. PICK n0 \in Settled : n0 = new BY <1>5
    <3>2. PICK at \in 0..MaxOps : at = r.at BY <1>4
    <3>3. PICK t0 : t0 = S!createSystemMessage(notice, "title", group.title, n0.title, at) OBVIOUS
    <3>4. PICK a0 : a0 = S!createSystemMessage(t0, "avatar", group.avatar, n0.avatar, at) OBVIOUS
    <3>5. /\ a0 \in Seq(Note) /\ DOMAIN notice \subseteq DOMAIN a0
          /\ Len(a0) = announced + (IF group.title # n0.title THEN 1 ELSE 0)
                                    + (IF group.avatar # n0.avatar THEN 1 ELSE 0)
          /\ Says(a0, n0)
      BY <1>0, <3>3, <3>4, NoticesOfUpdate
    <3>6. after = a0 BY <3>1, <3>2, <3>3, <3>4
    <3> HIDE DEF after, titled
    <3> QED BY <3>1, <3>5, <3>6
  <2> HIDE DEF after, titled
  <2>3. gEvents' \in Seq(Settled) /\ gEvents'[Len(gEvents')] = new
    <3>1. gEvents \in Seq(Settled) BY <1>0 DEF SettingsTyped
    <3> HIDE DEF Settled
    <3> QED BY <1>5, <2>1, <3>1
  <2>4. announced' \in Nat /\ Len(notice') = announced'
    <3>1. announced \in Nat BY <1>0 DEF SettingsTyped
    <3> QED BY <2>1, <2>2, <3>1
  <2>5. hidden' \subseteq DOMAIN notice' BY <1>0, <1>1, <2>1, <2>2 DEF SettingsTyped
  <2>6. SettingsTyped'
    <3> HIDE DEF Note, Settled, SettingRequest
    <3> QED BY <1>0, <1>1, <1>3, <1>5, <2>1, <2>2, <2>3, <2>4, <2>5 DEF SettingsTyped
  <2>7. group' = wanted' 
    <3>1. group = wanted BY <1>0 DEF Story, S!PatchesCompose
    <3> QED BY <1>5, <2>1, <3>1
  <2>8. LastSays' BY <2>1, <2>2 DEF Says, LastSays, LastOf
  <2>9. Story' BY <2>1, <2>3, <2>4, <2>7, <2>8 DEF Story, S!PatchesCompose
  <2>10. ViewSound' BY <1>0, <1>1, <2>1, <2>2 DEF ViewSound
  <2>11. RuleSound' BY <1>0, <1>1 DEF RuleSound
  <2> QED BY <2>6, <2>9, <2>10, <2>11 DEF SettingsInv
<1> QED BY <1>6, <1>7

LEMMA SettingBegun ==
  ASSUME SettingsInv, NEW q \in Settings, NEW u \in People, NEW op \in {"group", "level"}, NEW p \in Settled, NEW l \in Levels,
         S!inTransaction(q, u, op, p, l)
  PROVE  SettingsInv'
<1> DEFINE r == [op |-> op, user |-> u, patch |-> p, level |-> l, at |-> gClock + 1]
<1>0. SettingsTyped /\ Story /\ ViewSound /\ RuleSound BY DEF SettingsInv
<1>1. /\ gClock < MaxOps /\ gClock' = gClock + 1 /\ setting' = [setting EXCEPT ![q] = r]
      /\ UNCHANGED <<gRole, inside, group, level, profile, notice, hidden, direct, gGrants, gEvents, gChanges, wanted, announced, view, rule>>
  BY DEF S!inTransaction
<1>2. gClock' \in 0..MaxOps /\ gClock + 1 \in 0..MaxOps BY <1>0, <1>1, ChatAssumption DEF SettingsTyped
<1>3. r \in SettingRequest BY <1>2 DEF SettingRequest
<1>4. setting' \in [Settings -> SettingRequest]
  <2> HIDE DEF r, SettingRequest
  <2> QED BY <1>0, <1>1, <1>3 DEF SettingsTyped
<1>5. SettingsTyped'
  <2> HIDE DEF Note, Settled, SettingRequest
  <2> QED BY <1>0, <1>1, <1>2, <1>4 DEF SettingsTyped
<1>6. Story' BY <1>0, <1>1 DEF Story, LastSays, LastOf, S!PatchesCompose
<1>7. ViewSound' /\ RuleSound' BY <1>0, <1>1 DEF ViewSound, RuleSound
<1> QED BY <1>5, <1>6, <1>7 DEF SettingsInv

LEMMA LevelUpdated ==
  ASSUME SettingsInv, NEW q \in Settings, S!UpdateNotification(q) PROVE SettingsInv'
<1>0. SettingsTyped /\ Story /\ ViewSound /\ RuleSound BY DEF SettingsInv
<1>1. /\ setting' = [setting EXCEPT ![q] = S!NoRequest] /\ level' = S!UpdateNotificationLevel(setting[q].user, setting[q].level)
      /\ UNCHANGED <<gRole, inside, group, profile, notice, hidden, direct, gGrants, gEvents, gClock, gChanges, wanted, announced, view, rule>>
  BY DEF S!UpdateNotification, S!End
<1>2. setting' \in [Settings -> SettingRequest] BY <1>0, <1>1, NoSetting DEF SettingsTyped
<1>3. setting[q].user \in People /\ setting[q].level \in Levels BY <1>0 DEF SettingsTyped, SettingRequest
<1>4. level' \in [People -> Levels] BY <1>0, <1>1, <1>3 DEF SettingsTyped, S!UpdateNotificationLevel
<1>5. SettingsTyped'
  <2> HIDE DEF Note, Settled, SettingRequest
  <2> QED BY <1>0, <1>1, <1>2, <1>4 DEF SettingsTyped
<1>6. Story' BY <1>0, <1>1 DEF Story, LastSays, LastOf, S!PatchesCompose
<1>7. ViewSound' /\ RuleSound' BY <1>0, <1>1 DEF ViewSound, RuleSound
<1> QED BY <1>5, <1>6, <1>7 DEF SettingsInv

LEMMA ProfileUpdated ==
  ASSUME SettingsInv, NEW u, NEW p, S!UpdateOwnProfile(u, p) PROVE SettingsInv'
<1>0. SettingsTyped /\ Story /\ ViewSound /\ RuleSound BY DEF SettingsInv
<1>1. /\ gChanges < MaxChanges /\ gChanges' = gChanges + 1
      /\ UNCHANGED <<gRole, inside, group, level, notice, hidden, direct, gGrants, gEvents, gClock, setting, wanted, announced, view, rule>>
  BY DEF S!UpdateOwnProfile
<1>2. gChanges' \in 0..MaxChanges
  <2>1. gChanges \in 0..MaxChanges BY <1>0 DEF SettingsTyped
  <2>2. MaxChanges \in Nat BY ChatAssumption
  <2> QED BY <1>1, <2>1, <2>2
<1>5. SettingsTyped'
  <2> HIDE DEF Note, Settled, SettingRequest
  <2> QED BY <1>0, <1>1, <1>2 DEF SettingsTyped
<1>6. Story' BY <1>0, <1>1 DEF Story, LastSays, LastOf, S!PatchesCompose
<1>7. ViewSound' /\ RuleSound' BY <1>0, <1>1 DEF ViewSound, RuleSound
<1> QED BY <1>5, <1>6, <1>7 DEF SettingsInv

LEMMA AroundStep == ASSUME SettingsInv, S!Around PROVE SettingsInv'
<1>0. SettingsTyped /\ Story /\ ViewSound /\ RuleSound BY DEF SettingsInv
<1>1. /\ gChanges < MaxChanges /\ gChanges' = gChanges + 1
      /\ rule' = [rule EXCEPT !.possible = IF rule.pc = "none" THEN @ ELSE @ \union direct' \union gGrants']
      /\ UNCHANGED <<group, level, profile, gEvents, gClock, setting, wanted, announced, view>>
  BY DEF S!Around
<1>2. gChanges' \in 0..MaxChanges
  <2>1. gChanges \in 0..MaxChanges BY <1>0 DEF SettingsTyped
  <2>2. MaxChanges \in Nat BY ChatAssumption
  <2> QED BY <1>1, <2>1, <2>2
<1> DEFINE Y == /\ gRole' \in [People -> {"admin", "member"}] /\ inside' \subseteq People
                /\ notice' = notice /\ hidden \subseteq hidden' /\ hidden' \subseteq DOMAIN notice
                /\ direct' \subseteq People /\ gGrants' \subseteq People
<1>3. Y
  <2>0. /\ gRole \in [People -> {"admin", "member"}] /\ inside \subseteq People
        /\ hidden \subseteq DOMAIN notice /\ direct \subseteq People /\ gGrants \subseteq People BY <1>0 DEF SettingsTyped
  <2>1. CASE \E u \in People : gRole' = [gRole EXCEPT ![u] = IF @ = "admin" THEN "member" ELSE "admin"]
           /\ UNCHANGED <<inside, notice, hidden, direct, gGrants>>
    BY <2>0, <2>1
  <2>2. CASE \E u \in People : inside' = (IF u \in inside THEN inside \ {u} ELSE inside \union {u})
           /\ UNCHANGED <<gRole, notice, hidden, direct, gGrants>>
    BY <2>0, <2>2
  <2>3. CASE \E i \in DOMAIN notice \ hidden : hidden' = hidden \union {i}
           /\ UNCHANGED <<gRole, inside, notice, direct, gGrants>>
    BY <2>0, <2>3
  <2>4. CASE \E u \in People \ {Viewer} : direct' = (IF u \in direct THEN direct \ {u} ELSE direct \union {u})
           /\ UNCHANGED <<gRole, inside, notice, hidden, gGrants>>
    BY <2>0, <2>4
  <2>5. CASE \E u \in People \ {Viewer} : gGrants' = (IF u \in gGrants THEN gGrants \ {u} ELSE gGrants \union {u})
           /\ UNCHANGED <<gRole, inside, notice, hidden, direct>>
    BY <2>0, <2>5
  <2> HIDE DEF Y
  <2> QED BY <2>1, <2>2, <2>3, <2>4, <2>5 DEF S!Around
<1>5. SettingsTyped'
  <2> HIDE DEF Note, Settled, SettingRequest
  <2> QED BY <1>0, <1>1, <1>2, <1>3 DEF SettingsTyped
<1>6. Story' BY <1>0, <1>1, <1>3 DEF Story, LastSays, LastOf, S!PatchesCompose
<1>7. ViewSound'
  <2>1. view' = view /\ notice' = notice /\ hidden \subseteq hidden' BY <1>1, <1>3
  <2> QED BY <1>0, <2>1 DEF ViewSound
<1>8. RuleSound'
  <2> HIDE DEF Y
  <2>1. CASE rule.pc = "none"
    <3>1. rule'.pc = "none" /\ rule'.possible = rule.possible /\ rule'.automatic = rule.automatic /\ rule'.granted = rule.granted
          /\ DOMAIN rule' = DOMAIN rule
      BY <1>0, <1>1, <2>1 DEF RuleSound
    <3> QED BY <1>0, <3>1 DEF RuleSound
  <2>2. CASE rule.pc # "none"
    <3>1. rule'.pc = rule.pc /\ rule'.possible = rule.possible \union direct' \union gGrants' /\ rule'.automatic = rule.automatic
          /\ rule'.granted = rule.granted /\ DOMAIN rule' = DOMAIN rule
      BY <1>0, <1>1, <2>2 DEF RuleSound
    <3> QED BY <1>0, <3>1 DEF RuleSound
  <2> QED BY <2>1, <2>2
<1> QED BY <1>5, <1>6, <1>7, <1>8 DEF SettingsInv

(* There is a newest message among any.                                    *)
LEMMA NewestExists ==
  ASSUME SettingsTyped, NEW ids, ids \subseteq DOMAIN notice, ids # {}
  PROVE  S!NewestOf(ids) \in ids
<1>1. notice \in Seq(Note) BY DEF SettingsTyped
<1>2. MaxOps \in Nat /\ Len(notice) \in Nat /\ DOMAIN notice = 1..Len(notice) BY <1>1, ChatAssumption
<1>3. \A i \in ids : notice[i].at \in 0..MaxOps
  <2>1. \A i \in ids : notice[i] \in Note
    <3> HIDE DEF Note
    <3> QED BY <1>1, <1>2
  <2> QED BY <2>1 DEF Note
<1> DEFINE times == {notice[i].at : i \in ids}
<1>4. times \subseteq 0..MaxOps /\ times # {} BY <1>3
<1>5. PICK t \in times : \A x \in times : x <= t
  <2> HIDE DEF times
  <2> QED BY <1>2, <1>4, GreatestExists
<1> DEFINE last == {i \in ids : notice[i].at = t}
<1>6. last \subseteq 0..Len(notice) /\ last # {} BY <1>2
<1>7. PICK m \in last : \A x \in last : x <= m
  <2> HIDE DEF last
  <2> QED BY <1>2, <1>6, GreatestExists
<1> DEFINE Q(i) == \A j \in ids : notice[j].at < notice[i].at \/ (notice[j].at = notice[i].at /\ j <= i)
<1>8. Q(m)
  <2> SUFFICES ASSUME NEW j \in ids PROVE notice[j].at < notice[m].at \/ (notice[j].at = notice[m].at /\ j <= m) OBVIOUS
  <2>1. notice[m].at = t /\ notice[j].at <= t /\ notice[j].at \in 0..MaxOps /\ t \in 0..MaxOps BY <1>3, <1>4, <1>5
  <2>2. CASE notice[j].at = t BY <1>7, <2>1, <2>2
  <2>3. CASE notice[j].at # t BY <2>1, <2>3
  <2> QED BY <2>2, <2>3
<1>9. m \in ids OBVIOUS
<1>10. S!NewestOf(ids) = CHOOSE i \in ids : Q(i) BY DEF S!NewestOf
<1> HIDE DEF Q
<1> QED BY <1>8, <1>9, <1>10

LEMMA ViewStep ==
  ASSUME SettingsInv, S!GetVisibleConversationRecord \/ S!ListConversationMembers \/ S!ListLatestMessages \/ S!hydrateMessageRecords
  PROVE  SettingsInv'
<1>0. SettingsTyped /\ Story /\ ViewSound /\ RuleSound BY DEF SettingsInv
<1>1. UNCHANGED <<gRole, inside, group, level, profile, notice, hidden, direct, gGrants, gEvents, gClock, gChanges, setting, wanted, announced, rule>>
  BY DEF S!GetVisibleConversationRecord, S!ListConversationMembers, S!ListLatestMessages, S!hydrateMessageRecords, S!writeVars
<1>2. SettingsTyped'
  <2> HIDE DEF Note, Settled, SettingRequest
  <2> QED BY <1>0, <1>1 DEF SettingsTyped
<1>3. Story' BY <1>0, <1>1 DEF Story, LastSays, LastOf, S!PatchesCompose
<1>4. RuleSound' BY <1>0, <1>1 DEF RuleSound
<1>5. 0 \notin hidden /\ hidden \subseteq DOMAIN notice
  <2>1. notice \in Seq(Note) /\ hidden \subseteq DOMAIN notice BY <1>0 DEF SettingsTyped
  <2> QED BY <2>1
<1>6. ViewSound'
  <2>1. CASE S!GetVisibleConversationRecord
    <3>1. view' = [S!NoView EXCEPT !.pc = "record", !.title = group.title, !.before = hidden]
      BY <2>1 DEF S!GetVisibleConversationRecord
    <3>2. /\ DOMAIN view' = {"pc", "title", "members", "latest", "before", "preview"} /\ view'.pc = "record" /\ view'.latest = {}
          /\ view'.before = hidden /\ view'.preview = 0 BY <3>1 DEF S!NoView
    <3> QED BY <1>1, <1>5, <3>2 DEF ViewSound
  <2>2. CASE S!ListConversationMembers
    <3>1. /\ DOMAIN view' = DOMAIN view /\ view'.pc = "members" /\ view'.latest = view.latest
          /\ view'.before = view.before /\ view'.preview = view.preview BY <1>0, <2>2 DEF S!ListConversationMembers, ViewSound
    <3> QED BY <1>0, <1>1, <3>1 DEF ViewSound
  <2>3. CASE S!ListLatestMessages
    <3>1. /\ DOMAIN view' = DOMAIN view /\ view'.pc = "latest" /\ view'.latest = {i \in DOMAIN notice : ~notice[i].deleted}
          /\ view'.before = view.before /\ view'.preview = view.preview BY <1>0, <2>3 DEF S!ListLatestMessages, ViewSound
    <3> QED BY <1>0, <1>1, <3>1 DEF ViewSound
  <2>4. CASE S!hydrateMessageRecords
    <3> DEFINE shown == view.latest \ hidden
    <3>1. /\ DOMAIN view' = DOMAIN view /\ view'.pc = "shown" /\ view'.latest = view.latest
          /\ view'.before = view.before /\ view'.preview = S!LastMessagePlainText(shown)
      BY <1>0, <2>4 DEF S!hydrateMessageRecords, ViewSound
    <3>2. shown \subseteq DOMAIN notice BY <1>0 DEF ViewSound
    <3>3. view'.preview \notin hidden
      <4>1. CASE shown = {} BY <1>5, <3>1, <4>1 DEF S!LastMessagePlainText
      <4>2. CASE shown # {}
        <5>1. S!NewestOf(shown) \in shown
          <6> HIDE DEF shown
          <6> QED BY <1>0, <3>2, <4>2, NewestExists
        <5>2. view'.preview = S!NewestOf(shown) BY <3>1, <4>2 DEF S!LastMessagePlainText
        <5> QED BY <5>1, <5>2
      <4> QED BY <4>1, <4>2
    <3> HIDE DEF shown
    <3> QED BY <1>0, <1>1, <3>1, <3>3 DEF ViewSound
  <2> QED BY <2>1, <2>2, <2>3, <2>4
<1> QED BY <1>2, <1>3, <1>4, <1>6 DEF SettingsInv

LEMMA RuleStep ==
  ASSUME SettingsInv, S!AutomaticRows \/ S!AlwaysRows \/ S!getVisibilityRule
  PROVE  SettingsInv'
<1>0. SettingsTyped /\ Story /\ ViewSound /\ RuleSound BY DEF SettingsInv
<1>1. UNCHANGED <<gRole, inside, group, level, profile, notice, hidden, direct, gGrants, gEvents, gClock, gChanges, setting, wanted, announced, view>>
  BY DEF S!AutomaticRows, S!AlwaysRows, S!getVisibilityRule, S!writeVars
<1>2. SettingsTyped'
  <2> HIDE DEF Note, Settled, SettingRequest
  <2> QED BY <1>0, <1>1 DEF SettingsTyped
<1>3. Story' BY <1>0, <1>1 DEF Story, LastSays, LastOf, S!PatchesCompose
<1>4. ViewSound' BY <1>0, <1>1 DEF ViewSound
<1>5. RuleSound'
  <2>1. CASE S!AutomaticRows BY <1>0, <1>1, <2>1 DEF RuleSound, S!AutomaticRows
  <2>2. CASE S!AlwaysRows
    <3>1. /\ rule'.pc = "always" /\ rule'.possible = rule.possible /\ rule'.automatic = rule.automatic \union {"echo"}
          /\ rule'.granted = rule.granted /\ DOMAIN rule' = DOMAIN rule /\ rule.pc = "automatic"
      BY <1>0, <2>2 DEF RuleSound, S!AlwaysRows
    <3> QED BY <1>0, <1>1, <3>1 DEF RuleSound
  <2>3. CASE S!getVisibilityRule
    <3>1. /\ rule'.pc = "read" /\ rule'.possible = rule.possible /\ rule'.automatic = rule.automatic
          /\ rule'.granted = gGrants /\ DOMAIN rule' = DOMAIN rule /\ rule.pc = "always"
      BY <1>0, <2>3 DEF RuleSound, S!getVisibilityRule, S!GrantedRows
    <3> QED BY <1>0, <1>1, <3>1 DEF RuleSound
  <2> QED BY <2>1, <2>2, <2>3
<1> QED BY <1>2, <1>3, <1>4, <1>5 DEF SettingsInv

LEMMA SettingsStepInv == SettingsInv /\ [S!GroupNext]_(S!groupVars) => SettingsInv'
<1> SUFFICES ASSUME SettingsInv, [S!GroupNext]_(S!groupVars) PROVE SettingsInv' OBVIOUS
<1>1. CASE UNCHANGED S!groupVars
  <2>1. UNCHANGED settingsVars BY <1>1 DEF S!groupVars, settingsVars
  <2> HIDE DEF Note, Settled, SettingRequest
  <2> QED BY <2>1 DEF settingsVars, SettingsInv, SettingsTyped, Story, LastSays, LastOf, S!PatchesCompose, ViewSound, RuleSound
<1>2. ASSUME NEW q \in Settings, NEW u \in People, NEW p \in Patches, S!inTransaction(q, u, "group", p, "all") PROVE SettingsInv'
  BY <1>2, SettingBegun, PatchShape, ChatAssumption
<1>3. ASSUME NEW q \in Settings, NEW u \in People, NEW l \in Levels, S!inTransaction(q, u, "level", S!NoRequest.patch, l) PROVE SettingsInv'
  <2>1. S!NoRequest.patch \in Settled BY NoSetting DEF SettingRequest
  <2> QED BY <1>3, <2>1, SettingBegun
<1>4. ASSUME NEW q \in Settings, S!UpdateGroup(q) \/ S!UpdateNotification(q) PROVE SettingsInv'
  BY <1>4, UpdateGroupStep, LevelUpdated
<1>5. ASSUME NEW u \in People, NEW p \in ProfilePatches, S!UpdateOwnProfile(u, p) PROVE SettingsInv'
  BY <1>5, ProfileUpdated
<1>6. CASE S!Around BY <1>6, AroundStep
<1>7. CASE S!GetVisibleConversationRecord \/ S!ListConversationMembers \/ S!ListLatestMessages \/ S!hydrateMessageRecords
  BY <1>7, ViewStep
<1>8. CASE S!AutomaticRows \/ S!AlwaysRows \/ S!getVisibilityRule BY <1>8, RuleStep
<1> QED BY <1>1, <1>2, <1>3, <1>4, <1>5, <1>6, <1>7, <1>8 DEF S!GroupNext

(* Nobody outside the group sets a level.                                  *)
LEMMA LevelStep ==
  SettingsInv /\ [S!GroupNext]_(S!groupVars) => [\A u \in People : level[u] # level'[u] => u \in inside]_(S!groupVars)
<1> DEFINE A == \A u \in People : level[u] # level'[u] => u \in inside
<1> SUFFICES ASSUME SettingsInv, S!GroupNext PROVE A BY DEF S!groupVars
<1>1. ASSUME NEW q \in Settings, S!UpdateNotification(q) PROVE A
  <2>1. level' = S!UpdateNotificationLevel(setting[q].user, setting[q].level) BY <1>1 DEF S!UpdateNotification
  <2>2. level \in [People -> Levels] BY DEF SettingsInv, SettingsTyped
  <2> QED BY <2>1, <2>2 DEF S!UpdateNotificationLevel
<1>2. CASE level' = level BY <1>2
<1>3. level' = level \/ \E q \in Settings : S!UpdateNotification(q)
  BY DEF S!GroupNext, S!inTransaction, S!UpdateGroup, S!UpdateOwnProfile, S!Around, S!GetVisibleConversationRecord,
     S!ListConversationMembers, S!ListLatestMessages, S!hydrateMessageRecords, S!AutomaticRows, S!AlwaysRows,
     S!getVisibilityRule, S!writeVars
<1> QED BY <1>1, <1>2, <1>3

(* The settings of a group: patches compose, every change is announced     *)
(* once, a preview shows nothing hidden, and whoever is told to be visible *)
(* was, for any number of concurrent patches and reads.                    *)
THEOREM SettingsCorrect ==
  SettingsSpec => /\ [](S!GroupTypeOK /\ S!PatchesCompose /\ S!AnnouncedOnce /\ S!PreviewNotHidden /\ S!RuleWasTrue)
                  /\ S!LevelOfMembersOnly
<1>1. SettingsSpec => []SettingsInv BY SettingsInitially, SettingsStepInv, PTL DEF SettingsSpec
<1>2. SettingsSpec => [](S!GroupTypeOK /\ S!PatchesCompose /\ S!AnnouncedOnce /\ S!PreviewNotHidden /\ S!RuleWasTrue)
  BY <1>1, SettingsSafe, PTL
<1>3. SettingsSpec => S!LevelOfMembersOnly BY <1>1, LevelStep, PTL DEF SettingsSpec, S!LevelOfMembersOnly
<1> QED BY <1>2, <1>3

PageSpec == P!PagingInit /\ [][P!PagingNext]_(P!pagingVars)

Rising(p) == \A i, j \in DOMAIN p : i < j => p[i] < p[j]
Falling(p) == \A i, j \in DOMAIN p : i < j => p[i] > p[j]

Reading == [kind : {"none", "before", "after", "around", "offset"}, pc : P!Steps, cursor : Rows \union {0}, at : Rows \union {0},
            found : BOOLEAN, page : Seq(Rows), pages : Seq(Seq(Rows)), base : SUBSET Rows, lost : BOOLEAN,
            offset : Nat, hasNext : BOOLEAN]
PagesTyped ==
  /\ table \in {"messages", "topic", "requirements"} /\ row \in [Rows -> {"none", "drawn", "live", "gone"}]
  /\ pinned \subseteq everPinned /\ everPinned \subseteq Rows /\ withdrawn \in BOOLEAN /\ reader \in Reading
  /\ \A r \in reader.base : row[r] \in {"live", "gone"}

(* Which kind of read is at which step, and how long a page may be.        *)
Stages ==
  /\ reader.kind = "none" => reader = P!Idle
  /\ reader.kind = "before" => reader.pc \in {"latest", "lookup", "window", "answer", "done"}
  /\ reader.kind = "after" => reader.pc \in {"lookup", "window", "answer", "done"}
  /\ reader.kind = "around" => reader.pc \in {"anchor", "older", "newer", "done"}
  /\ reader.kind = "offset" => reader.pc \in {"select", "count", "answer", "done"}
  /\ reader.kind # "none" => ((reader.kind = "offset") <=> (table = "requirements"))
  /\ reader.kind # "around" => Len(reader.page) <= Limit

(* The rows that were there from the beginning, and those a walk owes.     *)
Stayed == {r \in reader.base : row[r] = "live"}
Owed == {r \in Stayed : reader.kind = "after" => r > reader.at}
Shown == P!Seen \union P!Range(reader.page)

(* Whoever prunes a row prunes what is older, unless it was pinned.        *)
PrunedInOrder(c) ==
  /\ row[c] \in {"live", "gone"}
  /\ (row[c] = "gone" /\ ~withdrawn) => \A r \in Stayed : r < c => r \in everPinned

(* A walk before it looks its cursor up or reads on from it.               *)
AtCursor ==
  /\ ~reader.lost /\ reader.cursor \in Rows /\ PrunedInOrder(reader.cursor)
  /\ reader.pages = <<>> => reader.kind = "after"
  /\ \A r \in Owed : r \in P!Seen \/ P!Beyond(reader.kind, r, reader.cursor)
  /\ \A a \in P!Seen : a = reader.cursor \/ P!Beyond(reader.kind, reader.cursor, a)
(* A walk that has a page to hand out.                                     *)
AtAnswer ==
  /\ IF reader.kind = "before" /\ table = "topic" /\ reader.pages = <<>> THEN Falling(reader.page) ELSE Rising(reader.page)
  /\ \A a \in P!Seen, b \in P!Range(reader.page) : P!Beyond(reader.kind, b, a)
  /\ \A c \in P!Range(reader.page) : PrunedInOrder(c)
  /\ ~reader.lost => \A r \in Owed : r \in Shown \/ (/\ Len(reader.page) >= Limit
                                                       /\ \A b \in P!Range(reader.page) : P!Beyond(reader.kind, r, b))
  /\ reader.lost => reader.page = <<>>
  /\ (reader.lost /\ reader.kind = "before" /\ ~withdrawn) => Owed \subseteq P!Seen \union everPinned
AtEnd ==
  /\ ~reader.lost => Owed \subseteq P!Seen
  /\ (reader.lost /\ reader.kind = "before" /\ ~withdrawn) => Owed \subseteq P!Seen \union everPinned
Walk ==
  reader.kind \in {"before", "after"} =>
    /\ reader.pc = "latest" => reader.pages = <<>> /\ ~reader.lost
    /\ reader.pc \in {"lookup", "window"} => AtCursor
    /\ reader.pc = "answer" => AtAnswer
    /\ reader.pc = "done" => AtEnd

(* The page around an anchor, as far as it was read.                       *)
Gapless(page) ==
  /\ Rising(page) /\ page # <<>>
  /\ \A r \in Stayed : page[1] <= r /\ r <= page[Len(page)] => r \in P!Range(page)
Surroundings ==
  reader.kind = "around" =>
    /\ reader.at \in Rows
    /\ reader.pc = "anchor" => reader.page = <<>>
    /\ reader.pc = "older" => reader.page = <<reader.at>>
    /\ reader.pc = "newer" => Gapless(reader.page) /\ reader.page[Len(reader.page)] = reader.at /\ Len(reader.page) <= P!sideLimit + 1
    /\ reader.pc = "done" => (reader.page # <<>> => Gapless(reader.page)) /\ Len(reader.page) <= 2 * P!sideLimit + 1

(* What a walk by offset has not shown yet comes after its offset.         *)
RankNow(r) == P!Rank(P!Live, "latest", r)
Offsets ==
  (reader.kind = "offset" /\ ~withdrawn) =>
    /\ reader.pc = "select" => \A r \in Stayed : r \in P!Seen \/ reader.offset <= RankNow(r)
    /\ reader.pc \in {"count", "answer"} => \A r \in Stayed : r \in Shown \/ reader.offset + Len(reader.page) <= RankNow(r)
    /\ (reader.pc = "answer" /\ ~reader.hasNext) => Stayed \subseteq Shown
    /\ (reader.pc = "done" /\ ~reader.hasNext) => Stayed \subseteq P!Seen

PageInv == PagesTyped /\ Stages /\ Walk /\ P!PagesInOrder /\ Surroundings /\ Offsets

-----------------------------------------------------------------------------

(***************************************************************************)
(* Pages: what ORDER BY and LIMIT leave of a finite set of rows.           *)
(***************************************************************************)
LEMMA RowCardinality == ASSUME NEW Z PROVE P!Cardinality(Z) = Cardinality(Z)
BY DEF P!Cardinality, Cardinality, P!IsFiniteSet, IsFiniteSet

(* Both orders are strict and total.                                       *)
LEMMA PrecedesOrder ==
  ASSUME NEW dir, NEW a \in Nat, NEW b \in Nat, NEW c \in Nat
  PROVE  /\ ~P!Precedes(dir, a, a) /\ (P!Precedes(dir, a, b) /\ P!Precedes(dir, b, c) => P!Precedes(dir, a, c))
         /\ P!Precedes(dir, a, b) \/ a = b \/ P!Precedes(dir, b, a)
BY DEF P!Precedes

(* A set of rows that is not empty has a first and a last in either order. *)
LEMMA Ends ==
  ASSUME NEW dir, NEW n \in Nat, NEW Z, Z \subseteq 0..n, Z # {}
  PROVE  /\ \E m \in Z : \A x \in Z : ~P!Precedes(dir, x, m)
         /\ \E m \in Z : \A x \in Z : ~P!Precedes(dir, m, x)
<1>1. \A x \in Z : x \in Nat OBVIOUS
<1>2. PICK a \in Z : \A x \in Z : a <= x BY <1>1, LeastExists
<1>3. PICK b \in Z : \A x \in Z : x <= b BY GreatestExists
<1>4. CASE P!Ascending(dir)
  <2>1. (\A x \in Z : ~P!Precedes(dir, x, a)) /\ (\A x \in Z : ~P!Precedes(dir, b, x)) BY <1>1, <1>2, <1>3, <1>4 DEF P!Precedes
  <2> QED BY <2>1
<1>5. CASE ~P!Ascending(dir)
  <2>1. (\A x \in Z : ~P!Precedes(dir, a, x)) /\ (\A x \in Z : ~P!Precedes(dir, x, b)) BY <1>1, <1>2, <1>3, <1>5 DEF P!Precedes
  <2> QED BY <2>1
<1> QED BY <1>4, <1>5

(* The rows of Z that come before r, in one order or the other.            *)
Ahead(Z, dir, r) == {q \in Z : P!Precedes(dir, q, r)}
LEMMA Ranks ==
  ASSUME NEW n \in Nat, NEW Z, Z \subseteq 0..n, NEW dir, NEW r
  PROVE  /\ P!Rank(Z, dir, r) = Cardinality(Ahead(Z, dir, r)) /\ P!Rank(Z, dir, r) \in Nat
         /\ IsFiniteSet(Ahead(Z, dir, r)) /\ Ahead(Z, dir, r) \subseteq Z /\ Cardinality(Ahead(Z, dir, r)) \in Nat
<1>1. Ahead(Z, dir, r) \subseteq Z BY DEF Ahead
<1>2. IsFiniteSet(Z)
  <2>1. IsFiniteSet(0..n) BY FS_Interval
  <2> QED BY <2>1, FS_Subset
<1>3. IsFiniteSet(Ahead(Z, dir, r)) /\ Cardinality(Ahead(Z, dir, r)) \in Nat BY <1>1, <1>2, FS_Subset, FS_CardinalityType
<1>4. P!Rank(Z, dir, r) = Cardinality(Ahead(Z, dir, r)) BY RowCardinality DEF P!Rank, Ahead
<1> QED BY <1>1, <1>3, <1>4

(* A row before another has the smaller rank.                              *)
LEMMA RanksGrow ==
  ASSUME NEW n \in Nat, NEW Z, Z \subseteq 0..n, NEW dir, NEW q \in Z, NEW r \in Nat, P!Precedes(dir, q, r)
  PROVE  P!Rank(Z, dir, q) < P!Rank(Z, dir, r)
<1> DEFINE A == Ahead(Z, dir, q)  B == Ahead(Z, dir, r)
<1>1. A \subseteq B /\ q \in B /\ q \notin A
  <2>1. \A x \in Z : x \in Nat OBVIOUS
  <2> QED BY <2>1, PrecedesOrder DEF Ahead
<1>2. /\ P!Rank(Z, dir, q) = Cardinality(A) /\ P!Rank(Z, dir, r) = Cardinality(B) /\ IsFiniteSet(A) /\ IsFiniteSet(B)
      /\ Cardinality(A) \in Nat /\ Cardinality(B) \in Nat
  BY Ranks
<1> HIDE DEF A, B
<1>3. Cardinality(A \union {q}) = Cardinality(A) + 1 BY <1>1, <1>2, FS_AddElement
<1>4. A \union {q} \subseteq B BY <1>1
<1>5. Cardinality(A \union {q}) <= Cardinality(B) BY <1>2, <1>4, FS_Subset
<1> QED BY <1>2, <1>3, <1>5

(* What is among the first: all before a row that is, no more than the     *)
(* limit, and every row when there are fewer.                              *)
AreFirst(F, Z, dir, limit) ==
  /\ F \subseteq Z /\ IsFiniteSet(F) /\ Cardinality(F) \in Nat /\ Cardinality(F) <= limit
  /\ Cardinality(F) < limit => F = Z
  /\ \A r \in F : \A q \in Z : P!Precedes(dir, q, r) => q \in F
LEMMA Firsts ==
  ASSUME NEW n \in Nat, NEW Z, Z \subseteq 0..n, NEW dir, NEW limit \in Nat, NEW F, F = P!First(Z, dir, limit)
  PROVE  AreFirst(F, Z, dir, limit)
<1>1. F = {r \in Z : P!Rank(Z, dir, r) < limit} BY DEF P!First
<1>2. F \subseteq Z /\ IsFiniteSet(F) /\ Cardinality(F) \in Nat
  <2>1. F \subseteq Z BY <1>1
  <2>2. IsFiniteSet(0..n) BY FS_Interval
  <2>3. F \subseteq 0..n BY <2>1
  <2> QED BY <2>1, <2>2, <2>3, FS_Subset, FS_CardinalityType
<1>3. \A r \in Z : P!Rank(Z, dir, r) \in Nat BY Ranks
<1>4. ASSUME NEW r \in F, NEW q \in Z, P!Precedes(dir, q, r) PROVE q \in F
  <2>1. r \in Z /\ r \in Nat BY <1>2
  <2>2. P!Rank(Z, dir, q) < P!Rank(Z, dir, r) BY <1>4, <2>1, RanksGrow
  <2>3. P!Rank(Z, dir, r) < limit BY <1>1
  <2>4. P!Rank(Z, dir, q) < limit BY <1>3, <2>1, <2>2, <2>3
  <2> QED BY <1>1, <2>4
<1>6. Cardinality(F) <= limit
  <2>1. CASE F = {} BY <2>1, FS_EmptySet
  <2>2. CASE F # {}
    <3>00. F \subseteq 0..n BY <1>2
    <3>0. F \subseteq 0..n /\ F \subseteq Nat BY <3>00
    <3>1. PICK f \in F : \A x \in F : ~P!Precedes(dir, f, x) BY <2>2, <3>0, Ends
    <3>2. \A x \in F : x # f => P!Precedes(dir, x, f) BY <3>0, <3>1, PrecedesOrder
    <3>3. F \ {f} \subseteq Ahead(Z, dir, f) BY <1>2, <3>2 DEF Ahead
    <3>4. P!Rank(Z, dir, f) = Cardinality(Ahead(Z, dir, f)) /\ IsFiniteSet(Ahead(Z, dir, f)) /\ Cardinality(Ahead(Z, dir, f)) \in Nat
      BY Ranks
    <3>5. Cardinality(F \ {f}) <= Cardinality(Ahead(Z, dir, f)) BY <3>3, <3>4, FS_Subset
    <3>6. Cardinality(F \ {f}) = Cardinality(F) - 1 BY <1>2, FS_RemoveElement
    <3>7. P!Rank(Z, dir, f) < limit BY <1>1
    <3> QED BY <1>2, <3>4, <3>5, <3>6, <3>7
  <2> QED BY <2>1, <2>2
<1>7. ASSUME Cardinality(F) < limit PROVE F = Z
  <2> SUFFICES ASSUME Z \ F # {} PROVE FALSE BY <1>2
  <2>1. PICK r \in Z \ F : \A x \in Z \ F : ~P!Precedes(dir, x, r)
    <3>1. Z \ F \subseteq 0..n OBVIOUS
    <3> QED BY <3>1, Ends
  <2>3. Ahead(Z, dir, r) \subseteq F BY <2>1 DEF Ahead
  <2>4. P!Rank(Z, dir, r) = Cardinality(Ahead(Z, dir, r)) /\ Cardinality(Ahead(Z, dir, r)) \in Nat BY Ranks
  <2>5. Cardinality(Ahead(Z, dir, r)) <= Cardinality(F) BY <1>2, <2>3, FS_Subset
  <2>6. P!Rank(Z, dir, r) < limit BY <1>2, <1>7, <2>4, <2>5
  <2>7. r \in F BY <1>1, <2>6
  <2> QED BY <2>7
<1> QED BY <1>2, <1>4, <1>6, <1>7 DEF AreFirst


(* ORDER BY over a finite set: all of them, each once, in order.           *)
LEMMA SortedSet ==
  ASSUME NEW m \in Nat, NEW Z, Z \subseteq 0..m, NEW s, s = P!Sorted(Z)
  PROVE  /\ s \in Seq(Z) /\ Len(s) = Cardinality(Z) /\ Rising(s) /\ P!Range(s) = Z /\ IsFiniteSet(Z)
<1> DEFINE n == Cardinality(Z)
           rk == [r \in Z |-> P!Rank(Z, "after", r) + 1]
<1>00. IsFiniteSet(Z)
  <2>1. IsFiniteSet(0..m) BY FS_Interval
  <2> QED BY <2>1, FS_Subset
<1>0. n \in Nat /\ \A r \in Z : r \in Nat BY <1>00, FS_CardinalityType
<1>1. ASSUME NEW r \in Z PROVE P!Rank(Z, "after", r) + 1 \in 1..n
  <2> DEFINE A == Ahead(Z, "after", r)
  <2>1. /\ P!Rank(Z, "after", r) = Cardinality(A) /\ P!Rank(Z, "after", r) \in Nat
        /\ IsFiniteSet(A) /\ A \subseteq Z BY Ranks
  <2>2. r \notin A BY <1>0, PrecedesOrder DEF Ahead
  <2> HIDE DEF A
  <2>3. A \union {r} \subseteq Z BY <2>1
  <2>4. Cardinality(A \union {r}) = Cardinality(A) + 1 BY <2>1, <2>2, FS_AddElement
  <2>5. Cardinality(A \union {r}) <= n BY <1>00, <2>3, FS_Subset
  <2> QED BY <1>0, <2>1, <2>4, <2>5
<1>2. ASSUME NEW q \in Z, NEW r \in Z, q < r PROVE rk[q] < rk[r]
  <2>1. P!Precedes("after", q, r) BY <1>2 DEF P!Precedes, P!Ascending
  <2>2. P!Rank(Z, "after", q) < P!Rank(Z, "after", r) BY <1>0, <2>1, RanksGrow
  <2>3. P!Rank(Z, "after", q) \in Nat /\ P!Rank(Z, "after", r) \in Nat BY Ranks
  <2> QED BY <2>2, <2>3
<1>3. rk \in [Z -> 1..n] BY <1>1
<1> HIDE DEF rk
<1>4. \A q, r \in Z : rk[q] = rk[r] => q = r
  <2>1. \A r \in Z : rk[r] \in Nat BY <1>0, <1>3
  <2>2. \A q, r \in Z : q < r \/ q = r \/ r < q BY <1>0
  <2> QED BY <1>2, <2>1, <2>2
<1>5. rk \in Injection(Z, 1..n) BY <1>3, <1>4 DEF Injection, IsInjective
<1>6. IsFiniteSet(1..n) /\ Cardinality(1..n) = n BY <1>0, FS_Interval
<1>7. rk \in Surjection(Z, 1..n) BY <1>5, <1>6, FS_Injection
<1>8. \A i \in 1..n : \E r \in Z : rk[r] = i BY <1>7 DEF Surjection
<1> DEFINE p == [i \in 1..n |-> CHOOSE r \in Z : rk[r] = i]
<1>9. \A i \in 1..n : p[i] \in Z /\ rk[p[i]] = i BY <1>8
<1>10. p \in [1..n -> Z] BY <1>9
<1>11. Rising(p)
  <2> SUFFICES ASSUME NEW i \in 1..n, NEW j \in 1..n, i < j PROVE p[i] < p[j] BY DEF Rising
  <2>1. p[i] \in Z /\ p[j] \in Z /\ rk[p[i]] = i /\ rk[p[j]] = j BY <1>9
  <2> HIDE DEF p
  <2>2. p[i] \in Nat /\ p[j] \in Nat BY <1>0, <2>1
  <2>3. ASSUME p[j] < p[i] PROVE FALSE
    <3>1. rk[p[j]] < rk[p[i]] BY <1>2, <2>1, <2>3
    <3> QED BY <1>0, <2>1, <3>1
  <2>4. p[i] # p[j]
    <3>1. i # j BY <1>0
    <3> QED BY <2>1, <3>1
  <2> QED BY <2>2, <2>3, <2>4
<1>12. s = CHOOSE q \in [1..n -> Z] : Rising(q) BY RowCardinality DEF P!Sorted, Rising
<1> HIDE DEF p, n
<1>13. s \in [1..n -> Z] /\ Rising(s) BY <1>10, <1>11, <1>12
<1>14. s \in Seq(Z) /\ Len(s) = n BY <1>0, <1>13
<1>15. \A i, j \in 1..n : s[i] = s[j] => i = j
  <2>1. \A i \in 1..n : s[i] \in Nat BY <1>0, <1>13
  <2>2. \A i, j \in 1..n : i < j => s[i] < s[j] BY <1>13 DEF Rising
  <2> QED BY <1>0, <2>1, <2>2
<1>16. s \in Injection(1..n, Z) BY <1>13, <1>15 DEF Injection, IsInjective
<1>17. s \in Surjection(1..n, Z) BY <1>00, <1>6, <1>16, FS_Injection DEF n
<1>18. P!Range(s) = Z BY <1>13, <1>17 DEF Surjection, P!Range
<1> QED BY <1>00, <1>13, <1>14, <1>18 DEF n

MaxRow == Cardinality(Rows)
LEMMA RowNumbers == MaxRow \in Nat /\ Rows = 1..MaxRow /\ Rows \subseteq 0..MaxRow /\ Limit \in Nat /\ Limit >= 1 /\ KeptRows \in Nat
<1>1. MaxRow \in Nat /\ Rows = 1..MaxRow BY ChatAssumption, FS_CardinalityType DEF MaxRow
<1>2. Rows \subseteq 0..MaxRow BY <1>1
<1> QED BY <1>1, <1>2, ChatAssumption

LEMMA LiveRows == P!Live \subseteq Rows /\ P!Live \subseteq 0..MaxRow
BY RowNumbers DEF P!Live

(* A sequence turned round.                                                *)
LEMMA Reversed ==
  ASSUME NEW Z, NEW p \in Seq(Z), NEW q, q = P!Reverse(p)
  PROVE  /\ q \in Seq(Z) /\ Len(q) = Len(p) /\ P!Range(q) = P!Range(p) /\ (Rising(p) => Falling(q))
<1> DEFINE n == Len(p)
<1>1. n \in Nat /\ DOMAIN p = 1..n /\ \A i \in 1..n : p[i] \in Z OBVIOUS
<1>2. q = [i \in 1..n |-> p[(n - i) + 1]] BY DEF P!Reverse
<1> HIDE DEF n
<1>3. \A i \in 1..n : (n - i) + 1 \in 1..n /\ (n - ((n - i) + 1)) + 1 = i BY <1>1
<1>4. \A i \in 1..n : q[i] = p[(n - i) + 1] /\ q[i] \in Z BY <1>1, <1>2, <1>3
<1>5. q \in [1..n -> Z] BY <1>2, <1>4
<1>6. q \in Seq(Z) /\ Len(q) = n /\ DOMAIN q = 1..n BY <1>1, <1>5
<1>7. P!Range(q) = P!Range(p)
  <2>1. ASSUME NEW i \in 1..n PROVE p[i] = q[(n - i) + 1] BY <1>3, <1>4
  <2> QED BY <1>1, <1>3, <1>4, <1>6, <2>1 DEF P!Range
<1>8. ASSUME Rising(p) PROVE Falling(q)
  <2> SUFFICES ASSUME NEW i \in 1..n, NEW j \in 1..n, i < j PROVE q[i] > q[j] BY <1>6 DEF Falling
  <2>1. (n - j) + 1 < (n - i) + 1 BY <1>1
  <2>2. p[(n - j) + 1] < p[(n - i) + 1] BY <1>1, <1>3, <1>8, <2>1 DEF Rising
  <2> QED BY <1>4, <2>2
<1> QED BY <1>6, <1>7, <1>8 DEF n

(* What a window is: some of the rows in its range, in order, no more than *)
(* the limit; what is left out is further than all of them, and nothing is *)
(* left out when there are fewer.                                          *)
IsWindow(w, Z, dir, limit) ==
  /\ w \in Seq(Rows) /\ Len(w) <= limit /\ P!Range(w) \subseteq Z
  /\ IF dir = "latest" /\ table = "topic" THEN Falling(w) ELSE Rising(w)
  /\ \A r \in Z : r \in P!Range(w) \/ (Len(w) >= limit /\ \A b \in P!Range(w) : P!Precedes(dir, b, r))
  /\ \A b \in P!Range(w), r \in Z : P!Precedes(dir, r, b) => r \in P!Range(w)

LEMMA Windows ==
  ASSUME NEW dir, NEW c, NEW limit \in Nat, NEW Z, Z = {r \in P!Live : dir = "latest" \/ P!Beyond(dir, r, c)}
  PROVE  IsWindow(P!Window(dir, c, limit), Z, dir, limit)
<1> DEFINE F == P!First(Z, dir, limit)
           s == P!Sorted(F)
<1>0. Z \subseteq P!Live OBVIOUS
<1>1. Z \subseteq 0..MaxRow /\ MaxRow \in Nat /\ Z \subseteq Rows BY <1>0, LiveRows, RowNumbers
<1>2. /\ F \subseteq Z /\ IsFiniteSet(F) /\ Cardinality(F) \in Nat /\ Cardinality(F) <= limit
      /\ Cardinality(F) < limit => F = Z
      /\ \A r \in F : \A q \in Z : P!Precedes(dir, q, r) => q \in F
  <2>1. F = P!First(Z, dir, limit) OBVIOUS
  <2> HIDE DEF F
  <2>2. AreFirst(F, Z, dir, limit) BY <1>1, <2>1, Firsts
  <2> QED BY <2>2 DEF AreFirst
<1> HIDE DEF F
<1>3. F \subseteq 0..MaxRow BY <1>1, <1>2
<1>4. s \in Seq(F) /\ Len(s) = Cardinality(F) /\ Rising(s) /\ P!Range(s) = F BY <1>1, <1>3, SortedSet
<1>5. P!listMessageWindow(dir, c, limit) = s BY DEF P!listMessageWindow, F
<1> HIDE DEF s
<1>6. s \in Seq(Rows)
  <2>1. F \subseteq Rows BY <1>1, <1>2
  <2> QED BY <1>4, <2>1
<1> DEFINE w == P!Window(dir, c, limit)
<1>7. /\ w \in Seq(Rows) /\ Len(w) = Len(s) /\ P!Range(w) = F
      /\ IF dir = "latest" /\ table = "topic" THEN Falling(w) ELSE Rising(w)
  <2>1. CASE dir = "latest" /\ table = "topic"
    <3>1. w = P!Reverse(s) BY <1>5, <2>1 DEF P!Window, P!listTopicMessages
    <3> HIDE DEF w
    <3> QED BY <1>4, <1>6, <2>1, <3>1, Reversed
  <2>2. CASE ~(dir = "latest" /\ table = "topic")
    <3>1. w = s BY <1>5, <2>2 DEF P!Window, P!listTopicMessages
    <3> HIDE DEF w
    <3> QED BY <1>4, <1>6, <2>2, <3>1
  <2> QED BY <2>1, <2>2
<1> HIDE DEF w
<1>8. ASSUME NEW r \in Z, r \notin F PROVE Len(w) >= limit /\ \A b \in F : P!Precedes(dir, b, r)
  <2>1. ~(Cardinality(F) < limit) BY <1>2, <1>8
  <2>2. Len(w) >= limit BY <1>2, <1>4, <1>7, <2>1
  <2>3. ASSUME NEW b \in F PROVE P!Precedes(dir, b, r)
    <3>1. b \in Z /\ b \in Nat /\ r \in Nat /\ b # r BY <1>1, <1>2, <1>8
    <3>2. ~P!Precedes(dir, r, b) BY <1>2, <1>8
    <3> QED BY <3>1, <3>2, PrecedesOrder
  <2> QED BY <2>2, <2>3
<1>9. Len(w) <= limit BY <1>2, <1>4, <1>7
<1>10. IsWindow(w, Z, dir, limit) BY <1>2, <1>7, <1>8, <1>9 DEF IsWindow
<1> QED BY <1>10 DEF w

LEMMA SideLimit == P!sideLimit \in Nat /\ P!sideLimit >= 1 /\ 2 * P!sideLimit + 1 <= Limit + 2 /\ P!sideLimit + 1 <= Limit + 2
<1> DEFINE h == (Limit - 1) \div 2
<1>1. Limit - 1 \in Nat BY RowNumbers
<1>2. h \in Nat /\ 2 * h <= Limit - 1 BY <1>1
<1>3. P!sideLimit = IF h < 1 THEN 1 ELSE h BY DEF P!sideLimit
<1> HIDE DEF h
<1> QED BY <1>2, <1>3, RowNumbers

(* What is missed of what a walk owes.                                     *)
LEMMA MissedOwed == PagesTyped => P!Missed = Owed \ P!Seen /\ Stayed \subseteq Rows /\ Stayed \subseteq P!Live
<1> SUFFICES ASSUME PagesTyped PROVE P!Missed = Owed \ P!Seen /\ Stayed \subseteq Rows /\ Stayed \subseteq P!Live OBVIOUS
<1>1. reader.base \subseteq Rows BY DEF PagesTyped, Reading
<1> QED BY <1>1 DEF P!Missed, Owed, Stayed, P!Live

LEMMA PagesSafe ==
  PageInv => P!PagingTypeOK /\ P!WalkComplete /\ P!PagesInOrder /\ P!AroundContiguous /\ P!OffsetMissesNothing
<1> SUFFICES ASSUME PageInv
             PROVE  P!PagingTypeOK /\ P!WalkComplete /\ P!PagesInOrder /\ P!AroundContiguous /\ P!OffsetMissesNothing
  OBVIOUS
<1>0. PagesTyped /\ Stages /\ Walk /\ P!PagesInOrder /\ Surroundings /\ Offsets BY DEF PageInv
<1>1. P!Missed = Owed \ P!Seen BY <1>0, MissedOwed
<1>2. reader \in Reading BY <1>0 DEF PagesTyped
<1>3. reader.page \in Seq(Rows) /\ Len(reader.page) \in Nat /\ DOMAIN reader.page = 1..Len(reader.page) BY <1>2 DEF Reading
<1>4. Len(reader.page) <= Limit + 2
  <2>1. CASE reader.kind # "around" BY <1>0, <1>3, <2>1, RowNumbers DEF Stages
  <2>2. CASE reader.kind = "around"
    <3>1. reader.pc \in {"anchor", "older", "newer", "done"} BY <1>0, <2>2 DEF Stages
    <3>2. Len(reader.page) <= 1 \/ Len(reader.page) <= P!sideLimit + 1 \/ Len(reader.page) <= 2 * P!sideLimit + 1
      <4>1. CASE reader.pc \in {"anchor", "older"}
        <5>1. reader.page = <<>> \/ reader.page = <<reader.at>> BY <1>0, <2>2, <4>1 DEF Surroundings
        <5>2. CASE reader.page = <<>> BY <5>2
        <5>3. CASE reader.page = <<reader.at>>
          <6>1. Len(<<reader.at>>) = 1 OBVIOUS
          <6> QED BY <5>3, <6>1
        <5> QED BY <5>1, <5>2, <5>3
      <4>2. CASE reader.pc \in {"newer", "done"} BY <1>0, <2>2, <4>2 DEF Surroundings
      <4> QED BY <3>1, <4>1, <4>2
    <3> QED BY <1>3, <3>2, SideLimit, RowNumbers
  <2> QED BY <2>1, <2>2
<1>5. P!PagingTypeOK BY <1>0, <1>2, <1>4 DEF PagesTyped, Reading, P!PagingTypeOK
<1>6. P!WalkComplete BY <1>0, <1>1 DEF Walk, AtEnd, P!WalkComplete
<1>7. P!AroundContiguous
  <2> SUFFICES ASSUME reader.pc = "done", reader.kind = "around", reader.page # <<>>
               PROVE  /\ \A i \in 1..(Len(reader.page) - 1) : reader.page[i] < reader.page[i + 1]
                      /\ \A r \in reader.base : r \in P!Live /\ reader.page[1] <= r /\ r <= reader.page[Len(reader.page)]
                                                => r \in P!Range(reader.page)
    BY DEF P!AroundContiguous
  <2>1. Gapless(reader.page) BY <1>0 DEF Surroundings
  <2>2. ASSUME NEW i \in 1..(Len(reader.page) - 1) PROVE reader.page[i] < reader.page[i + 1]
    <3>1. i \in 1..Len(reader.page) /\ i + 1 \in 1..Len(reader.page) /\ i < i + 1 BY <1>3
    <3> QED BY <1>3, <2>1, <3>1 DEF Gapless, Rising
  <2>3. ASSUME NEW r \in reader.base, r \in P!Live PROVE r \in Stayed BY <2>3 DEF Stayed, P!Live
  <2> QED BY <2>1, <2>2, <2>3 DEF Gapless
<1>8. P!OffsetMissesNothing
  <2> SUFFICES ASSUME reader.pc = "done", reader.kind = "offset", ~withdrawn, ~reader.hasNext PROVE P!Missed = {}
    BY DEF P!OffsetMissesNothing
  <2>1. Stayed \subseteq P!Seen BY <1>0 DEF Offsets
  <2> QED BY <1>1, <2>1 DEF Owed
<1> QED BY <1>0, <1>5, <1>6, <1>7, <1>8

(* More rows, higher ranks.                                                *)
LEMMA RanksSpread ==
  ASSUME NEW n \in Nat, NEW Y, Y \subseteq 0..n, NEW Z, Z \subseteq Y, NEW dir, NEW r
  PROVE  P!Rank(Z, dir, r) <= P!Rank(Y, dir, r)
<1> DEFINE A == Ahead(Z, dir, r)  B == Ahead(Y, dir, r)
<1>1. A \subseteq B BY DEF Ahead
<1>2. Z \subseteq 0..n OBVIOUS
<1>3. P!Rank(Z, dir, r) = Cardinality(A) BY <1>2, Ranks
<1>4. P!Rank(Y, dir, r) = Cardinality(B) /\ IsFiniteSet(B) BY Ranks
<1> HIDE DEF A, B
<1>5. Cardinality(A) <= Cardinality(B) BY <1>1, <1>4, FS_Subset
<1> QED BY <1>3, <1>4, <1>5

(* The rows that were handed out.                                          *)
SeenIn(pages) == UNION {P!Range(pages[i]) : i \in DOMAIN pages}
LEMMA SeenEmpty == SeenIn(<<>>) = {} /\ P!Range(<<>>) = {}
BY DEF SeenIn, P!Range
LEMMA SeenAppend ==
  ASSUME NEW pages \in Seq(Seq(Rows)), NEW page \in Seq(Rows)
  PROVE  /\ Append(pages, page) \in Seq(Seq(Rows)) /\ SeenIn(Append(pages, page)) = SeenIn(pages) \union P!Range(page)
         /\ Append(pages, page) # <<>>
<1> DEFINE n == Len(pages)
           q == Append(pages, page)
<1>1. n \in Nat /\ DOMAIN pages = 1..n OBVIOUS
<1>2. q \in Seq(Seq(Rows)) /\ Len(q) = n + 1 /\ DOMAIN q = 1..(n + 1) OBVIOUS
<1>3. q[n + 1] = page /\ \A i \in 1..n : q[i] = pages[i] OBVIOUS
<1> HIDE DEF n, q
<1>4. 1..(n + 1) = 1..n \union {n + 1} BY <1>1
<1>5. SeenIn(q) = SeenIn(pages) \union P!Range(page) BY <1>1, <1>2, <1>3, <1>4 DEF SeenIn
<1>6. q # <<>>
  <2>1. Len(q) # 0 BY <1>1, <1>2
  <2> QED BY <2>1
<1> QED BY <1>2, <1>5, <1>6 DEF q
LEMMA SeenRows == ASSUME PagesTyped PROVE P!Seen = SeenIn(reader.pages) /\ P!Seen \subseteq Rows /\ P!Range(reader.page) \subseteq Rows
<1>1. P!Seen = SeenIn(reader.pages) BY DEF P!Seen, SeenIn
<1>2. reader.pages \in Seq(Seq(Rows)) /\ reader.page \in Seq(Rows) BY DEF PagesTyped, Reading
<1>3. P!Range(reader.page) \subseteq Rows BY <1>2 DEF P!Range
<1>4. \A i \in DOMAIN reader.pages : reader.pages[i] \in Seq(Rows)
  <2> HIDE DEF Reading
  <2>1. PICK p \in Seq(Seq(Rows)) : p = reader.pages BY <1>2
  <2>2. \A i \in DOMAIN p : p[i] \in Seq(Rows) OBVIOUS
  <2> QED BY <2>1, <2>2
<1>5. \A i \in DOMAIN reader.pages : P!Range(reader.pages[i]) \subseteq Rows
  <2> SUFFICES ASSUME NEW i \in DOMAIN reader.pages PROVE P!Range(reader.pages[i]) \subseteq Rows OBVIOUS
  <2>1. PICK p \in Seq(Rows) : p = reader.pages[i] BY <1>4
  <2>2. P!Range(p) \subseteq Rows BY DEF P!Range
  <2> QED BY <2>1, <2>2
<1>6. SeenIn(reader.pages) \subseteq Rows BY <1>5 DEF SeenIn
<1> QED BY <1>1, <1>3, <1>6

(* An idle reader owes nothing.                                            *)
AtRest ==
  /\ table \in {"messages", "topic", "requirements"} /\ row \in [Rows -> {"none", "drawn", "live", "gone"}]
  /\ pinned \subseteq everPinned /\ everPinned \subseteq Rows /\ withdrawn \in BOOLEAN /\ reader = P!Idle
LEMMA IdleReader == AtRest => PageInv
<1> SUFFICES ASSUME AtRest PROVE PageInv OBVIOUS
<1>0. reader = P!Idle BY DEF AtRest
<1>1. reader \in Reading
  <2>1. <<>> \in Seq(Rows) /\ <<>> \in Seq(Seq(Rows)) OBVIOUS
  <2>2. "idle" \in P!Steps BY DEF P!Steps
  <2> QED BY <1>0, <2>1, <2>2 DEF Reading, P!Idle
<1>2. /\ reader.kind = "none" /\ reader.pc = "idle" /\ reader.base = {} /\ reader.pages = <<>> /\ reader.page = <<>>
  BY <1>0 DEF P!Idle
<1>3. PagesTyped BY <1>1, <1>2 DEF PagesTyped, AtRest
<1>4. Stages
  <2>1. Len(reader.page) <= Limit BY <1>2, RowNumbers
  <2> QED BY <1>0, <1>2, <2>1 DEF Stages
<1>5. Walk /\ Surroundings /\ Offsets BY <1>2 DEF Walk, Surroundings, Offsets
<1>6. P!PagesInOrder
  <2>1. DOMAIN reader.pages = {} BY <1>2
  <2> QED BY <2>1 DEF P!PagesInOrder
<1> QED BY <1>3, <1>4, <1>5, <1>6 DEF PageInv

LEMMA PagesInit == P!PagingInit => PageInv
<1> SUFFICES ASSUME P!PagingInit PROVE PageInv OBVIOUS
<1>1. row \in [Rows -> {"none", "drawn", "live", "gone"}] BY DEF P!PagingInit
<1> QED BY <1>1, IdleReader DEF P!PagingInit, AtRest

(* What posting, pruning, pinning and withdrawing do to a list that is     *)
(* being read: no row comes back, and retention prunes the oldest first.   *)
Aged ==
  /\ reader' = reader /\ table' = table /\ row' \in [Rows -> {"none", "drawn", "live", "gone"}]
  /\ pinned' \subseteq everPinned' /\ everPinned' \subseteq Rows /\ withdrawn' \in BOOLEAN
  /\ everPinned \subseteq everPinned' /\ (withdrawn => withdrawn')
  /\ \A r \in Rows : /\ row[r] \in {"live", "gone"} => row'[r] \in {"live", "gone"}
                     /\ row[r] = "gone" => row'[r] = "gone"
                     /\ (table = "requirements" /\ ~withdrawn' /\ row[r] = "live") => row'[r] = "live"
  /\ \A c \in Rows : \A r \in Rows :
       (~withdrawn' /\ r < c /\ row[c] = "live" /\ row'[c] = "gone" /\ row[r] = "live" /\ row'[r] = "live") => r \in everPinned'

LEMMA DrawAges == ASSUME PagesTyped, NEW r \in Rows, P!Draw(r) PROVE Aged
BY DEF PagesTyped, P!Draw, Aged
LEMMA SetPinnedAges == ASSUME PagesTyped, NEW r \in Rows, P!SetPinned(r) PROVE Aged
BY DEF PagesTyped, P!SetPinned, Aged
LEMMA WithdrawAges == ASSUME PagesTyped, NEW r \in Rows, P!Withdraw(r) PROVE Aged
BY DEF PagesTyped, P!Withdraw, Aged
LEMMA CommitAges == ASSUME PagesTyped, NEW r \in Rows, P!Commit(r) PROVE Aged
<1> DEFINE live == P!Live \union {r}
           V == IF table = "requirements" THEN {} ELSE P!Victims(live)
<1>1. /\ row[r] = "drawn" /\ row' = [q \in Rows |-> IF q \in V THEN "gone" ELSE IF q = r THEN "live" ELSE row[q]]
      /\ table' = table /\ pinned' = pinned /\ everPinned' = everPinned /\ withdrawn' = withdrawn /\ reader' = reader
  BY DEF P!Commit
<1>2. V \subseteq live /\ (table = "requirements" => V = {}) BY DEF P!Victims
<1>3. \A q \in live : q = r \/ row[q] = "live" BY DEF P!Live
<1>4. ASSUME NEW c \in V, NEW a \in live \ pinned, a < c PROVE a \in V
  <2>1. table # "requirements" BY <1>4
  <2> DEFINE U == live \ pinned
             Ac == {q \in U : q > c}
             Aa == {q \in U : q > a}
  <2>2. V = {q \in U : Cardinality({p \in U : p > q}) >= KeptRows} BY <2>1, RowCardinality DEF P!Victims
  <2>3. U \subseteq Rows /\ U \subseteq Nat /\ IsFiniteSet(U)
    <3>1. live \subseteq Rows BY DEF P!Live
    <3>2. U \subseteq Rows BY <3>1
    <3>3. Rows \subseteq Nat BY RowNumbers
    <3>4. IsFiniteSet(Rows) BY ChatAssumption
    <3> QED BY <3>2, <3>3, <3>4, FS_Subset
  <2>4. c \in U /\ Cardinality(Ac) >= KeptRows BY <2>2
  <2>5. a \in Nat /\ c \in Nat BY <2>3, <2>4
  <2>6. Ac \subseteq Aa BY <1>4, <2>3, <2>5
  <2>7. IsFiniteSet(Aa) /\ IsFiniteSet(Ac) BY <2>3, FS_Subset
  <2> HIDE DEF Ac, Aa
  <2>8. Cardinality(Ac) <= Cardinality(Aa) /\ Cardinality(Ac) \in Nat /\ Cardinality(Aa) \in Nat BY <2>6, <2>7, FS_Subset, FS_CardinalityType
  <2>9. Cardinality(Aa) >= KeptRows BY <2>4, <2>8, RowNumbers
  <2> HIDE DEF V
  <2> QED BY <2>2, <2>9 DEF Aa
<1> HIDE DEF V
<1>5. row' \in [Rows -> {"none", "drawn", "live", "gone"}] BY <1>1 DEF PagesTyped
<1>6. ASSUME NEW q \in Rows
      PROVE  /\ row[q] \in {"live", "gone"} => row'[q] \in {"live", "gone"}
             /\ row[q] = "gone" => row'[q] = "gone"
             /\ (table = "requirements" /\ ~withdrawn' /\ row[q] = "live") => row'[q] = "live"
  BY <1>1, <1>2, <1>3
<1>7. ASSUME NEW c \in Rows, NEW a \in Rows, a < c, row[c] = "live", row'[c] = "gone", row[a] = "live", row'[a] = "live"
      PROVE  a \in everPinned'
  <2>1. c \in V /\ a \notin V BY <1>1, <1>7
  <2>2. a \in live BY <1>7 DEF P!Live
  <2>3. a \in pinned BY <1>4, <1>7, <2>1, <2>2
  <2> QED BY <1>1, <2>3 DEF PagesTyped
<1> QED BY <1>1, <1>5, <1>6, <1>7 DEF Aged, PagesTyped

(* What a reader has read stays right while the list ages.                 *)
LEMMA AgedStep == ASSUME PageInv, Aged PROVE PageInv'
<1>0. PagesTyped /\ Stages /\ Walk /\ P!PagesInOrder /\ Surroundings /\ Offsets BY DEF PageInv
<1>1. reader' = reader /\ table' = table /\ everPinned \subseteq everPinned' /\ (withdrawn => withdrawn') BY DEF Aged
<1>2. reader \in Reading /\ reader.base \subseteq Rows /\ \A r \in reader.base : row[r] \in {"live", "gone"}
  BY <1>0 DEF PagesTyped, Reading
<1>3. Reading' = Reading /\ P!Seen' = P!Seen /\ Shown' = Shown BY <1>1 DEF Reading, P!Steps, P!Seen, P!Range, Shown
<1>4. PagesTyped' BY <1>0, <1>1, <1>2, <1>3 DEF PagesTyped, Aged
<1>5. Stages' BY <1>0, <1>1 DEF Stages, P!Idle
<1>6. \A r \in Stayed' : r \in Stayed /\ r \in Rows /\ row[r] = "live" /\ row'[r] = "live" BY <1>1, <1>2 DEF Stayed, Aged
<1>7. \A r \in Owed' : r \in Owed BY <1>1, <1>6 DEF Owed
<1>8. ASSUME NEW c \in Rows, PrunedInOrder(c) PROVE PrunedInOrder(c)'
  <2>1. row[c] \in {"live", "gone"} BY <1>8 DEF PrunedInOrder
  <2>2. row'[c] \in {"live", "gone"} BY <2>1 DEF Aged
  <2>3. ASSUME row'[c] = "gone", ~withdrawn', NEW r \in Stayed', r < c PROVE r \in everPinned'
    <3>1. r \in Stayed /\ r \in Rows /\ row[r] = "live" /\ row'[r] = "live" BY <1>6
    <3>2. CASE row[c] = "gone" BY <1>1, <1>8, <2>3, <3>1, <3>2 DEF PrunedInOrder
    <3>3. CASE row[c] = "live" BY <2>3, <3>1, <3>3 DEF Aged
    <3> QED BY <2>1, <3>2, <3>3
  <2> QED BY <2>2, <2>3 DEF PrunedInOrder
<1>9. Walk'
  <2>1. ASSUME AtCursor PROVE AtCursor'
    <3>1. PrunedInOrder(reader.cursor)'
      <4>1. reader.cursor \in Rows /\ PrunedInOrder(reader.cursor) BY <2>1 DEF AtCursor
      <4>2. PICK c \in Rows : c = reader.cursor BY <4>1
      <4>3. PrunedInOrder(c)' BY <1>8, <4>1, <4>2
      <4> QED BY <1>1, <4>2, <4>3 DEF PrunedInOrder
    <3> QED BY <1>1, <1>3, <1>7, <2>1, <3>1 DEF AtCursor, P!Beyond
  <2>2. ASSUME AtAnswer PROVE AtAnswer'
    <3>1. \A c \in P!Range(reader.page) : PrunedInOrder(c)'
      <4>1. P!Range(reader.page) \subseteq Rows BY <1>0, SeenRows
      <4> QED BY <1>8, <2>2, <4>1 DEF AtAnswer
    <3>2. (IF reader.kind = "before" /\ table = "topic" /\ reader.pages = <<>> THEN Falling(reader.page) ELSE Rising(reader.page))'
      BY <1>1, <2>2 DEF AtAnswer, Falling, Rising
    <3>3. P!Range(reader.page)' = P!Range(reader.page) BY <1>1 DEF P!Range
    <3>4. \A a \in P!Seen, b \in P!Range(reader.page) : P!Beyond(reader.kind, b, a)' BY <1>1, <2>2 DEF AtAnswer, P!Beyond
    <3>5. ~reader.lost => \A r \in Owed : r \in Shown \/ (Len(reader.page) >= Limit /\ \A b \in P!Range(reader.page) : P!Beyond(reader.kind, r, b)')
      BY <1>1, <2>2 DEF AtAnswer, P!Beyond
    <3>6. (reader.lost /\ reader.kind = "before" /\ ~withdrawn') => Owed' \subseteq P!Seen \union everPinned'
      BY <1>1, <1>7, <2>2 DEF AtAnswer
    <3>7. reader.lost => reader.page = <<>> BY <2>2 DEF AtAnswer
    <3> QED BY <1>1, <1>3, <1>7, <3>1, <3>2, <3>3, <3>4, <3>5, <3>6, <3>7 DEF AtAnswer
  <2>3. ASSUME AtEnd PROVE AtEnd' BY <1>1, <1>3, <1>7, <2>3 DEF AtEnd
  <2> QED BY <1>0, <1>1, <2>1, <2>2, <2>3 DEF Walk
<1>10. P!PagesInOrder' BY <1>0, <1>1 DEF P!PagesInOrder, P!Range
<1>11. Surroundings'
  <2>1. ASSUME Gapless(reader.page) PROVE Gapless(reader.page)' BY <1>1, <1>6, <2>1 DEF Gapless, Rising, P!Range
  <2>2. P!sideLimit' = P!sideLimit BY DEF P!sideLimit
  <2> QED BY <1>0, <1>1, <2>1, <2>2 DEF Surroundings
<1>12. Offsets'
  <2> SUFFICES ASSUME reader.kind = "offset", ~withdrawn'
      PROVE  /\ reader.pc = "select" => \A r \in Stayed' : r \in P!Seen \/ reader.offset <= RankNow(r)'
             /\ reader.pc \in {"count", "answer"} => \A r \in Stayed' : r \in Shown \/ reader.offset + Len(reader.page) <= RankNow(r)'
             /\ (reader.pc = "answer" /\ ~reader.hasNext) => Stayed' \subseteq Shown
             /\ (reader.pc = "done" /\ ~reader.hasNext) => Stayed' \subseteq P!Seen
    BY <1>1, <1>3 DEF Offsets
  <2>1. table = "requirements" BY <1>0 DEF Stages
  <2>2. P!Live \subseteq P!Live' BY <2>1 DEF P!Live, Aged
  <2>3. P!Live' \subseteq 0..MaxRow /\ MaxRow \in Nat /\ P!Live \subseteq 0..MaxRow
    <3>1. P!Live' \subseteq Rows BY DEF P!Live
    <3> QED BY <3>1, RowNumbers, LiveRows
  <2>4. ASSUME NEW r PROVE RankNow(r) <= RankNow(r)' /\ RankNow(r) \in Nat /\ RankNow(r)' \in Nat
    <3> DEFINE Z == P!Live
               U == P!Live'
    <3>1. RankNow(r) = P!Rank(Z, "latest", r) /\ RankNow(r)' = P!Rank(U, "latest", r) BY DEF RankNow, P!Rank, P!Precedes, P!Ascending
    <3> HIDE DEF Z, U
    <3>2. Z \subseteq U /\ U \subseteq 0..MaxRow /\ Z \subseteq 0..MaxRow BY <2>2, <2>3 DEF Z, U
    <3>3. P!Rank(Z, "latest", r) <= P!Rank(U, "latest", r) BY <2>3, <3>2, RanksSpread
    <3>4. P!Rank(Z, "latest", r) \in Nat /\ P!Rank(U, "latest", r) \in Nat BY <2>3, <3>2, Ranks
    <3> QED BY <3>1, <3>3, <3>4
  <2>5. reader.offset \in Nat /\ Len(reader.page) \in Nat BY <1>2 DEF Reading
  <2>6. ~withdrawn BY <1>1
  <2>7. reader.pc = "select" => \A r \in Stayed' : r \in P!Seen \/ reader.offset <= RankNow(r)'
    <3>1. reader.pc = "select" => \A r \in Stayed : r \in P!Seen \/ reader.offset <= RankNow(r) BY <1>0, <2>6 DEF Offsets
    <3> QED BY <1>6, <2>4, <2>5, <3>1
  <2>8. reader.pc \in {"count", "answer"} => \A r \in Stayed' : r \in Shown \/ reader.offset + Len(reader.page) <= RankNow(r)'
    <3>1. reader.pc \in {"count", "answer"} => \A r \in Stayed : r \in Shown \/ reader.offset + Len(reader.page) <= RankNow(r)
      BY <1>0, <2>6 DEF Offsets
    <3> QED BY <1>6, <2>4, <2>5, <3>1
  <2>9. /\ (reader.pc = "answer" /\ ~reader.hasNext) => Stayed' \subseteq Shown
        /\ (reader.pc = "done" /\ ~reader.hasNext) => Stayed' \subseteq P!Seen
    BY <1>0, <1>6, <2>6 DEF Offsets
  <2> QED BY <2>7, <2>8, <2>9
<1> QED BY <1>4, <1>5, <1>9, <1>10, <1>11, <1>12 DEF PageInv

LEMMA LiveNumbers == Rows \subseteq Nat /\ P!Live \subseteq Nat
<1>1. Rows \subseteq Nat BY RowNumbers
<1> QED BY <1>1, LiveRows

(* A step of the reader leaves the rows alone.                             *)
LEMMA BesideRows ==
  ASSUME P!Beside
  PROVE  /\ table' = table /\ row' = row /\ pinned' = pinned /\ everPinned' = everPinned /\ withdrawn' = withdrawn
         /\ P!Live' = P!Live /\ Reading' = Reading /\ P!sideLimit' = P!sideLimit
BY DEF P!Beside, P!Live, Reading, P!Steps, P!sideLimit

LEMMA BeginStep == ASSUME PageInv, NEW k, NEW at, P!Begin(k, at), k \in {"before", "after", "around", "offset"} PROVE PageInv'
<1>0. PagesTyped BY DEF PageInv
<1>1. P!Beside BY DEF P!Begin
<1>2. /\ table' = table /\ row' = row /\ pinned' = pinned /\ everPinned' = everPinned /\ withdrawn' = withdrawn
      /\ P!Live' = P!Live /\ Reading' = Reading /\ P!sideLimit' = P!sideLimit
  BY <1>1, BesideRows
<1> DEFINE step == CASE k = "before" -> "latest" [] k = "after" -> "lookup" [] k = "around" -> "anchor" [] OTHER -> "select"
<1>3. /\ reader' = [P!Idle EXCEPT !.kind = k, !.cursor = at, !.at = at, !.base = P!Live, !.pc = step]
      /\ (k = "offset") = (table = "requirements") /\ (k \in {"before", "offset"}) = (at = 0) /\ at \in P!Live \union {0}
  BY DEF P!Begin
<1>4. /\ k = "before" => step = "latest"
      /\ k = "after" => step = "lookup"
      /\ k = "around" => step = "anchor"
      /\ k = "offset" => step = "select"
  OBVIOUS
<1>5. step \in P!Steps BY DEF P!Steps
<1> HIDE DEF step
<1>6. /\ reader'.kind = k /\ reader'.cursor = at /\ reader'.at = at /\ reader'.base = P!Live /\ reader'.pc = step
      /\ ~reader'.lost /\ reader'.page = <<>> /\ reader'.pages = <<>> /\ reader'.offset = 0
  BY <1>3 DEF P!Idle
<1>7. reader' \in Reading
  <2>1. <<>> \in Seq(Rows) /\ <<>> \in Seq(Seq(Rows)) OBVIOUS
  <2>2. P!Live \subseteq Rows BY LiveRows
  <2> QED BY <1>3, <1>5, <2>1, <2>2 DEF Reading, P!Idle
<1>8. PagesTyped' BY <1>0, <1>2, <1>6, <1>7 DEF PagesTyped, P!Live
<1>9. Stages'
  <2>1. Len(reader'.page) <= Limit BY <1>6, RowNumbers
  <2> QED BY <1>2, <1>3, <1>4, <1>6, <2>1 DEF Stages
<1>10. P!Seen' = {}
  <2>1. DOMAIN reader'.pages = {} BY <1>6
  <2> QED BY <2>1 DEF P!Seen
<1>11. P!PagesInOrder'
  <2>1. DOMAIN reader'.pages = {} BY <1>6
  <2> QED BY <2>1 DEF P!PagesInOrder
<1>12. (k \notin {"before", "offset"}) => at \in Rows /\ row[at] = "live" BY <1>3 DEF P!Live
<1>13. Walk'
  <2>1. CASE k = "before" BY <1>4, <1>6, <2>1 DEF Walk
  <2>2. CASE k = "after"
    <3>1. AtCursor'
      <4>1. PrunedInOrder(reader.cursor)' BY <1>2, <1>6, <1>12, <2>2 DEF PrunedInOrder
      <4>2. (\A r \in Owed : r \in P!Seen \/ P!Beyond(reader.kind, r, reader.cursor))' BY <1>6, <2>2 DEF Owed, P!Beyond
      <4> QED BY <1>6, <1>10, <1>12, <2>2, <4>1, <4>2 DEF AtCursor
    <3> QED BY <1>4, <1>6, <2>2, <3>1 DEF Walk
  <2>3. CASE k \notin {"before", "after"} BY <1>6, <2>3 DEF Walk
  <2> QED BY <2>1, <2>2, <2>3
<1>14. Surroundings' BY <1>4, <1>6, <1>12 DEF Surroundings
<1>15. Offsets'
  <2>1. ASSUME NEW r PROVE reader'.offset <= RankNow(r)'
    <3>1. RankNow(r)' = P!Rank(P!Live, "latest", r) BY <1>2 DEF RankNow, P!Rank, P!Precedes, P!Ascending
    <3>2. P!Rank(P!Live, "latest", r) \in Nat BY LiveRows, RowNumbers, Ranks
    <3> QED BY <1>6, <3>1, <3>2
  <2> QED BY <1>4, <1>6, <2>1 DEF Offsets
<1> QED BY <1>8, <1>9, <1>11, <1>13, <1>14, <1>15 DEF PageInv

LEMMA LatestStep == ASSUME PageInv, P!Latest PROVE PageInv'
<1>0. PagesTyped /\ Stages /\ Walk /\ P!PagesInOrder BY DEF PageInv
<1>1. P!Beside BY DEF P!Latest
<1>2. /\ table' = table /\ row' = row /\ pinned' = pinned /\ everPinned' = everPinned /\ withdrawn' = withdrawn
      /\ P!Live' = P!Live /\ Reading' = Reading
  BY <1>1, BesideRows
<1> DEFINE w == P!Window("latest", 0, Limit)
<1>3. reader.pc = "latest" /\ reader' = [reader EXCEPT !.pc = "answer", !.page = w] BY DEF P!Latest
<1>4. IsWindow(w, P!Live, "latest", Limit)
  <2>1. P!Live = {r \in P!Live : "latest" = "latest" \/ P!Beyond("latest", r, 0)} OBVIOUS
  <2> QED BY <2>1, RowNumbers, Windows
<1> HIDE DEF w
<1>5. reader \in Reading BY <1>0 DEF PagesTyped
<1>6. reader.kind = "before"
  <2>1. reader.kind \in {"none", "before", "after", "around", "offset"} BY <1>5 DEF Reading
  <2> QED BY <1>0, <1>3, <2>1 DEF Stages, P!Idle
<1>7. reader.pages = <<>> /\ ~reader.lost BY <1>0, <1>3, <1>6 DEF Walk
<1>8. /\ reader'.kind = "before" /\ reader'.pc = "answer" /\ reader'.page = w /\ reader'.pages = <<>> /\ ~reader'.lost
      /\ reader'.base = reader.base
  BY <1>3, <1>5, <1>6, <1>7 DEF Reading
<1>9. w \in Seq(Rows) /\ Len(w) <= Limit /\ P!Range(w) \subseteq P!Live BY <1>4 DEF IsWindow
<1>10. reader' \in Reading
  <2>1. "answer" \in P!Steps BY DEF P!Steps
  <2> QED BY <1>3, <1>5, <1>9, <2>1 DEF Reading
<1>11. PagesTyped' BY <1>0, <1>2, <1>8, <1>10 DEF PagesTyped
<1>12. Stages' BY <1>0, <1>2, <1>6, <1>8, <1>9 DEF Stages
<1>13. P!Seen' = {} /\ P!PagesInOrder'
  <2>1. DOMAIN reader'.pages = {} BY <1>8
  <2> QED BY <2>1 DEF P!Seen, P!PagesInOrder
<1>14. AtAnswer'
  <2>1. (IF reader.kind = "before" /\ table = "topic" /\ reader.pages = <<>> THEN Falling(reader.page) ELSE Rising(reader.page))'
    BY <1>2, <1>4, <1>8 DEF IsWindow, Falling, Rising
  <2>2. P!Range(reader.page)' = P!Range(w) BY <1>8 DEF P!Range
  <2>3. \A c \in P!Range(w) : PrunedInOrder(c)' BY <1>2, <1>9 DEF PrunedInOrder, P!Live
  <2>4. ASSUME NEW r \in Owed' PROVE r \in Shown' \/ (Len(reader'.page) >= Limit /\ \A b \in P!Range(w) : P!Beyond(reader'.kind, r, b))
    <3>1. r \in P!Live /\ r \in Rows BY <1>0, <1>2, <1>8 DEF Owed, Stayed, P!Live, PagesTyped, Reading
    <3>2. r \in P!Range(w) \/ (Len(w) >= Limit /\ \A b \in P!Range(w) : P!Precedes("latest", b, r)) BY <1>4, <3>1 DEF IsWindow
    <3>3. \A b \in P!Range(w) : b \in Nat BY <1>9, LiveNumbers
    <3>4. r \in Nat BY <3>1, LiveNumbers
    <3>5. \A b \in P!Range(w) : P!Precedes("latest", b, r) => P!Beyond("before", r, b)
      BY <3>3, <3>4 DEF P!Precedes, P!Ascending, P!Beyond
    <3>6. r \in P!Range(w) => r \in Shown' BY <2>2 DEF Shown
    <3> QED BY <1>8, <3>2, <3>5, <3>6
  <2>5. (\A r \in Owed : r \in Shown \/ (Len(reader.page) >= Limit /\ \A b \in P!Range(reader.page) : P!Beyond(reader.kind, r, b)))'
    BY <2>2, <2>4 DEF P!Beyond
  <2>6. (\A c \in P!Range(reader.page) : PrunedInOrder(c))' BY <2>2, <2>3
  <2> QED BY <1>8, <1>13, <2>1, <2>5, <2>6 DEF AtAnswer
<1>15. Walk' BY <1>8, <1>14 DEF Walk
<1>16. Surroundings' /\ Offsets' BY <1>8 DEF Surroundings, Offsets
<1> QED BY <1>11, <1>12, <1>13, <1>15, <1>16 DEF PageInv

(* Which direction a walk has at a step of its own.                        *)
LEMMA WalkKinds ==
  ASSUME PagesTyped, Stages, reader.pc \in {"lookup", "window"} \/ (reader.pc = "answer" /\ reader.kind \in {"before", "after"})
  PROVE  reader.kind \in {"before", "after"} /\ table # "requirements"
<1>1. reader.kind \in {"none", "before", "after", "around", "offset"} BY DEF PagesTyped, Reading
<1> QED BY <1>1 DEF Stages, P!Idle

LEMMA CursorStep == ASSUME PageInv, P!messageCursor PROVE PageInv'
<1>0. PagesTyped /\ Stages /\ Walk /\ P!PagesInOrder BY DEF PageInv
<1>1. P!Beside BY DEF P!messageCursor
<1>2. /\ table' = table /\ row' = row /\ pinned' = pinned /\ everPinned' = everPinned /\ withdrawn' = withdrawn
      /\ P!Live' = P!Live /\ Reading' = Reading
  BY <1>1, BesideRows
<1>3. /\ reader.pc = "lookup"
      /\ reader' = IF row[reader.cursor] = "live" THEN [reader EXCEPT !.pc = "window"]
                   ELSE [reader EXCEPT !.pc = "answer", !.page = <<>>, !.lost = TRUE]
  BY DEF P!messageCursor
<1>4. reader \in Reading BY <1>0 DEF PagesTyped
<1>5. reader.kind \in {"before", "after"} BY <1>0, <1>3, WalkKinds
<1>6. AtCursor BY <1>0, <1>3, <1>5 DEF Walk
<1>7. reader'.kind = reader.kind /\ reader'.pages = reader.pages /\ reader'.base = reader.base /\ reader'.at = reader.at
      /\ reader'.cursor = reader.cursor
  BY <1>3, <1>4 DEF Reading
<1>8. P!Seen' = P!Seen /\ Owed' = Owed /\ Stayed' = Stayed BY <1>2, <1>7 DEF P!Seen, Owed, Stayed, P!Range
<1>9. P!PagesInOrder' BY <1>0, <1>7 DEF P!PagesInOrder, P!Range
<1>10. CASE row[reader.cursor] = "live"
  <2>1. reader' = [reader EXCEPT !.pc = "window"] BY <1>3, <1>10
  <2>2. reader'.pc = "window" /\ reader'.page = reader.page /\ reader'.lost = reader.lost BY <1>4, <2>1 DEF Reading
  <2>3. reader' \in Reading
    <3>1. "window" \in P!Steps BY DEF P!Steps
    <3> QED BY <1>4, <2>1, <3>1 DEF Reading
  <2>4. PagesTyped' BY <1>0, <1>2, <1>7, <2>3 DEF PagesTyped
  <2>5. Stages' BY <1>0, <1>2, <1>5, <1>7, <2>2 DEF Stages
  <2>6. AtCursor' BY <1>2, <1>6, <1>7, <1>8, <2>2 DEF AtCursor, PrunedInOrder, P!Beyond
  <2>7. Walk' BY <2>2, <2>6 DEF Walk
  <2>8. Surroundings' /\ Offsets' BY <1>5, <1>7 DEF Surroundings, Offsets
  <2> QED BY <1>9, <2>4, <2>5, <2>7, <2>8 DEF PageInv
<1>11. CASE row[reader.cursor] # "live"
  <2>1. reader' = [reader EXCEPT !.pc = "answer", !.page = <<>>, !.lost = TRUE] BY <1>3, <1>11
  <2>2. reader'.pc = "answer" /\ reader'.page = <<>> /\ reader'.lost BY <1>4, <2>1 DEF Reading
  <2>3. reader' \in Reading
    <3>1. "answer" \in P!Steps BY DEF P!Steps
    <3>2. <<>> \in Seq(Rows) OBVIOUS
    <3> QED BY <1>4, <2>1, <3>1, <3>2 DEF Reading
  <2>4. PagesTyped' BY <1>0, <1>2, <1>7, <2>3 DEF PagesTyped
  <2>5. Stages'
    <3>1. Len(reader'.page) <= Limit BY <2>2, RowNumbers
    <3> QED BY <1>0, <1>2, <1>5, <1>7, <2>2, <3>1 DEF Stages
  <2>6. P!Range(reader.page)' = {} BY <2>2, SeenEmpty DEF P!Range
  <2>7. ASSUME reader.kind = "before", ~withdrawn, NEW r \in Owed PROVE r \in P!Seen \union everPinned
    <3>1. r \in P!Seen \/ r < reader.cursor BY <1>6, <2>7 DEF AtCursor, P!Beyond
    <3>2. row[reader.cursor] = "gone" BY <1>6, <1>11 DEF AtCursor, PrunedInOrder
    <3>3. r \in Stayed BY <2>7 DEF Owed
    <3> QED BY <1>6, <2>7, <3>1, <3>2, <3>3 DEF AtCursor, PrunedInOrder
  <2>8. (IF reader.kind = "before" /\ table = "topic" /\ reader.pages = <<>> THEN Falling(reader.page) ELSE Rising(reader.page))'
    <3>1. DOMAIN reader'.page = {} BY <2>2
    <3> QED BY <3>1 DEF Falling, Rising
  <2>9. AtAnswer'
    <3>1. (reader.lost /\ reader.kind = "before" /\ ~withdrawn)' => (Owed \subseteq P!Seen \union everPinned)' BY <1>2, <1>7, <1>8, <2>7
    <3>2. (\A a \in P!Seen, b \in P!Range(reader.page) : P!Beyond(reader.kind, b, a))' BY <2>6
    <3>3. (\A c \in P!Range(reader.page) : PrunedInOrder(c))' BY <2>6
    <3> QED BY <2>2, <2>8, <3>1, <3>2, <3>3 DEF AtAnswer
  <2>10. Walk' BY <2>2, <2>9 DEF Walk
  <2>11. Surroundings' /\ Offsets' BY <1>5, <1>7 DEF Surroundings, Offsets
  <2> QED BY <1>9, <2>4, <2>5, <2>10, <2>11 DEF PageInv
<1> QED BY <1>10, <1>11

LEMMA ListStep == ASSUME PageInv, P!listMessages PROVE PageInv'
<1>0. PagesTyped /\ Stages /\ Walk /\ P!PagesInOrder BY DEF PageInv
<1>1. P!Beside BY DEF P!listMessages
<1>2. /\ table' = table /\ row' = row /\ pinned' = pinned /\ everPinned' = everPinned /\ withdrawn' = withdrawn
      /\ P!Live' = P!Live /\ Reading' = Reading
  BY <1>1, BesideRows
<1> DEFINE k == reader.kind
           c == reader.cursor
           w == P!Window(k, c, Limit)
           Z == {r \in P!Live : k = "latest" \/ P!Beyond(k, r, c)}
<1>3. reader.pc = "window" /\ reader' = [reader EXCEPT !.pc = "answer", !.page = w] BY DEF P!listMessages
<1>4. IsWindow(w, Z, k, Limit)
  <2> HIDE DEF k, c
  <2> QED BY RowNumbers, Windows
<1>5. reader \in Reading BY <1>0 DEF PagesTyped
<1>6. k \in {"before", "after"} BY <1>0, <1>3, WalkKinds
<1>7. AtCursor BY <1>0, <1>3, <1>6 DEF Walk
<1>8. Z = {r \in P!Live : P!Beyond(k, r, c)} BY <1>6
<1> HIDE DEF w, Z
<1>9. /\ reader'.kind = k /\ reader'.pages = reader.pages /\ reader'.base = reader.base /\ reader'.at = reader.at
      /\ reader'.lost = reader.lost /\ reader'.pc = "answer" /\ reader'.page = w
  BY <1>3, <1>5 DEF Reading
<1>10. P!Seen' = P!Seen /\ Owed' = Owed /\ Stayed' = Stayed BY <1>2, <1>9 DEF P!Seen, Owed, Stayed, P!Range
<1>11. P!PagesInOrder' BY <1>0, <1>9 DEF P!PagesInOrder, P!Range
<1>12. w \in Seq(Rows) /\ Len(w) <= Limit /\ P!Range(w) \subseteq Z BY <1>4 DEF IsWindow
<1>13. reader' \in Reading
  <2>1. "answer" \in P!Steps BY DEF P!Steps
  <2> QED BY <1>3, <1>5, <1>12, <2>1 DEF Reading
<1>14. PagesTyped' BY <1>0, <1>2, <1>9, <1>13 DEF PagesTyped
<1>15. Stages' BY <1>0, <1>2, <1>6, <1>9, <1>12 DEF Stages
<1>16. P!Range(reader.page)' = P!Range(w) BY <1>9 DEF P!Range
<1>17. c \in Nat /\ Z \subseteq Nat /\ P!Seen \subseteq Nat /\ Z \subseteq P!Live
  <2>1. c \in Rows BY <1>7 DEF AtCursor
  <2>2. P!Seen \subseteq Rows BY <1>0, SeenRows
  <2>3. Z \subseteq P!Live BY <1>8
  <2> QED BY <2>1, <2>2, <2>3, LiveNumbers
<1>18. AtAnswer'
  <2>1. (IF reader.kind = "before" /\ table = "topic" /\ reader.pages = <<>> THEN Falling(reader.page) ELSE Rising(reader.page))'
    <3>1. ~(reader.kind = "before" /\ reader.pages = <<>>) BY <1>7 DEF AtCursor
    <3>2. Rising(w) BY <1>4, <1>6 DEF IsWindow
    <3>3. Rising(reader.page)' BY <1>9, <3>2 DEF Rising
    <3> QED BY <1>9, <3>1, <3>3
  <2>2. ASSUME NEW a \in P!Seen, NEW b \in P!Range(w) PROVE P!Beyond(k, b, a)
    <3>1. a \in Nat /\ b \in Nat /\ P!Beyond(k, b, c) BY <1>8, <1>12, <1>17
    <3>2. a = c \/ P!Beyond(k, c, a) BY <1>7 DEF AtCursor
    <3> QED BY <1>17, <3>1, <3>2 DEF P!Beyond
  <2>3. \A x \in P!Range(w) : PrunedInOrder(x)' BY <1>2, <1>12, <1>17 DEF PrunedInOrder, P!Live
  <2>4. ASSUME NEW r \in Owed PROVE r \in Shown' \/ (Len(w) >= Limit /\ \A b \in P!Range(w) : P!Beyond(k, r, b))
    <3>1. r \in P!Seen \/ P!Beyond(k, r, c) BY <1>7 DEF AtCursor
    <3>2. r \in P!Live /\ r \in Rows BY <1>0 DEF Owed, Stayed, P!Live, PagesTyped, Reading
    <3>3. CASE r \in P!Seen BY <1>10, <3>3 DEF Shown
    <3>4. CASE P!Beyond(k, r, c)
      <4>1. r \in Z BY <1>8, <3>2, <3>4
      <4>2. r \in P!Range(w) \/ (Len(w) >= Limit /\ \A b \in P!Range(w) : P!Precedes(k, b, r)) BY <1>4, <4>1 DEF IsWindow
      <4>3. \A b \in P!Range(w) : P!Precedes(k, b, r) => P!Beyond(k, r, b)
        BY <1>6, <1>12, <1>17, <4>1 DEF P!Precedes, P!Ascending, P!Beyond
      <4>4. r \in P!Range(w) => r \in Shown' BY <1>16 DEF Shown
      <4> QED BY <4>2, <4>3, <4>4
    <3> QED BY <3>1, <3>3, <3>4
  <2>5. (\A r \in Owed : r \in Shown \/ (Len(reader.page) >= Limit /\ \A b \in P!Range(reader.page) : P!Beyond(reader.kind, r, b)))'
    BY <1>9, <1>10, <1>16, <2>4 DEF P!Beyond
  <2>6. (\A a \in P!Seen, b \in P!Range(reader.page) : P!Beyond(reader.kind, b, a))' BY <1>9, <1>10, <1>16, <2>2 DEF P!Beyond
  <2>7. (\A x \in P!Range(reader.page) : PrunedInOrder(x))' BY <1>16, <2>3
  <2>8. ~reader'.lost BY <1>7, <1>9 DEF AtCursor
  <2> QED BY <2>1, <2>5, <2>6, <2>7, <2>8 DEF AtAnswer
<1>19. Walk' BY <1>9, <1>18 DEF Walk
<1>20. Surroundings' /\ Offsets' BY <1>6, <1>9 DEF Surroundings, Offsets
<1> QED BY <1>11, <1>14, <1>15, <1>19, <1>20 DEF PageInv

(* The far end of a page is beyond, or is, every row of it.                *)
LEMMA FarEnds ==
  ASSUME PagesTyped, AtAnswer, reader.kind \in {"before", "after"}, reader.page # <<>>,
         NEW e, e = P!FarEnd(reader.page)
  PROVE  e \in P!Range(reader.page) /\ \A a \in P!Range(reader.page) : a = e \/ P!Beyond(reader.kind, e, a)
<1> DEFINE p == reader.page
           n == Len(p)
<1>1. p \in Seq(Rows) BY DEF PagesTyped, Reading
<1>2. n \in Nat /\ n >= 1 /\ DOMAIN p = 1..n /\ \A i \in 1..n : p[i] \in Rows
  <2> HIDE DEF p
  <2>1. p # <<>> BY DEF p
  <2> QED BY <1>1, <2>1
<1>3. e = p[n] \/ e = p[1] BY DEF P!FarEnd
<1>4. 1 \in 1..n /\ n \in 1..n BY <1>2
<1>5. e \in P!Range(p) BY <1>2, <1>3, <1>4 DEF P!Range
<1>6. \A i \in 1..n : p[i] \in Nat BY <1>2, LiveNumbers
<1>7. ASSUME NEW i \in 1..n PROVE p[i] = e \/ P!Beyond(reader.kind, e, p[i])
  <2>0. (i = n \/ i < n) /\ (i = 1 \/ 1 < i) BY <1>2
  <2>1. CASE reader.kind = "after"
    <3>1. e = p[n] BY <2>1 DEF P!FarEnd
    <3>2. Rising(p) BY <2>1 DEF AtAnswer
    <3>3. i < n => p[i] < p[n] BY <1>2, <1>4, <3>2 DEF Rising
    <3> QED BY <1>4, <1>6, <2>0, <2>1, <3>1, <3>3 DEF P!Beyond
  <2>2. CASE reader.kind = "before" /\ table = "topic" /\ reader.pages = <<>>
    <3>1. e = p[n] BY <2>2 DEF P!FarEnd
    <3>2. Falling(p) BY <2>2 DEF AtAnswer
    <3>3. i < n => p[i] > p[n] BY <1>2, <1>4, <3>2 DEF Falling
    <3> QED BY <1>4, <1>6, <2>0, <2>2, <3>1, <3>3 DEF P!Beyond
  <2>3. CASE reader.kind = "before" /\ ~(table = "topic" /\ reader.pages = <<>>)
    <3>1. e = p[1] BY <2>3 DEF P!FarEnd
    <3>2. Rising(p) BY <2>3 DEF AtAnswer
    <3>3. 1 < i => p[1] < p[i] BY <1>2, <1>4, <3>2 DEF Rising
    <3> QED BY <1>4, <1>6, <2>0, <2>3, <3>1, <3>3 DEF P!Beyond
  <2> QED BY <2>1, <2>2, <2>3
<1> HIDE DEF n
<1>8. \A a \in P!Range(p) : \E i \in 1..n : a = p[i] BY <1>2 DEF P!Range
<1> QED BY <1>5, <1>7, <1>8

(* Handing a page out keeps the pages in order if it follows them all.     *)
LEMMA PagesFollow ==
  ASSUME PagesTyped, P!PagesInOrder, reader'.pages = Append(reader.pages, reader.page), reader'.kind = reader.kind,
         \A a \in P!Seen : \A b \in P!Range(reader.page) : (reader.kind = "before" => b < a) /\ (reader.kind = "after" => a < b)
  PROVE  P!PagesInOrder'
<1> DEFINE old == reader.pages
           n == Len(old)
           new == Append(old, reader.page)
<1>1. old \in Seq(Seq(Rows)) /\ reader.page \in Seq(Rows) BY DEF PagesTyped, Reading
<1>2. n \in Nat /\ DOMAIN old = 1..n /\ DOMAIN new = 1..(n + 1) /\ new[n + 1] = reader.page /\ \A i \in 1..n : new[i] = old[i]
  <2> HIDE DEF old
  <2> QED BY <1>1
<1> SUFFICES ASSUME NEW i \in 1..(n + 1), NEW j \in 1..(n + 1), i < j, NEW a \in P!Range(new[i]), NEW b \in P!Range(new[j])
             PROVE  /\ reader.kind = "before" => b < a
                    /\ reader.kind = "after" => a < b
  <2>1. reader'.pages = new OBVIOUS
  <2> HIDE DEF new, old, n
  <2>2. DOMAIN reader'.pages = 1..(n + 1) BY <1>2, <2>1
  <2> QED BY <2>1, <2>2 DEF P!PagesInOrder, P!Range
<1> HIDE DEF new
<1>3. i \in 1..n BY <1>2
<1>4. CASE j \in 1..n BY <1>2, <1>3, <1>4 DEF P!PagesInOrder
<1>5. CASE j = n + 1
  <2>1. b \in P!Range(reader.page) BY <1>2, <1>5
  <2>2. a \in P!Seen BY <1>2, <1>3 DEF P!Seen
  <2> QED BY <2>1, <2>2
<1> QED BY <1>2, <1>4, <1>5

LEMMA TurnStep == ASSUME PageInv, P!Turn PROVE PageInv'
<1>0. PagesTyped /\ Stages /\ Walk /\ P!PagesInOrder BY DEF PageInv
<1>1. P!Beside BY DEF P!Turn
<1>2. /\ table' = table /\ row' = row /\ pinned' = pinned /\ everPinned' = everPinned /\ withdrawn' = withdrawn
      /\ P!Live' = P!Live /\ Reading' = Reading
  BY <1>1, BesideRows
<1> DEFINE p == reader.page
           k == reader.kind
           next == IF Len(p) < Limit THEN "done" ELSE "lookup"
           far == IF p = <<>> THEN reader.cursor ELSE P!FarEnd(p)
           all == Append(reader.pages, p)
<1>3. /\ reader.pc = "answer" /\ k \in {"before", "after"}
      /\ reader' = [reader EXCEPT !.pages = all, !.page = <<>>, !.pc = next, !.cursor = far]
  BY DEF P!Turn
<1>4. reader \in Reading /\ reader.pages \in Seq(Seq(Rows)) /\ p \in Seq(Rows) /\ Len(p) \in Nat BY <1>0 DEF PagesTyped, Reading
<1>5. AtAnswer BY <1>0, <1>3 DEF Walk
<1>6. all \in Seq(Seq(Rows)) /\ SeenIn(all) = SeenIn(reader.pages) \union P!Range(p) /\ all # <<>>
  <2> HIDE DEF p
  <2> QED BY <1>4, SeenAppend
<1>7. P!Seen = SeenIn(reader.pages) /\ P!Seen \subseteq Rows /\ P!Range(p) \subseteq Rows BY <1>0, SeenRows
<1>8. p # <<>> => (far \in P!Range(p) /\ \A a \in P!Range(p) : a = far \/ P!Beyond(k, far, a)) BY <1>0, <1>3, <1>5, FarEnds
<1>9. p = <<>> => far = reader.cursor OBVIOUS
<1>10. next = "done" \/ next = "lookup" OBVIOUS
<1>11. (Len(p) < Limit => next = "done") /\ (next = "lookup" => Len(p) >= Limit) BY <1>4, RowNumbers
<1> HIDE DEF next, far, all
<1>12. /\ reader'.kind = k /\ reader'.pages = all /\ reader'.base = reader.base /\ reader'.at = reader.at
       /\ reader'.lost = reader.lost /\ reader'.pc = next /\ reader'.page = <<>> /\ reader'.cursor = far
  BY <1>3, <1>4 DEF Reading
<1>13. P!Seen' = Shown
  <2>1. P!Seen' = SeenIn(all) BY <1>12 DEF P!Seen, SeenIn, P!Range
  <2> QED BY <1>6, <1>7, <2>1 DEF Shown
<1>14. Owed' = Owed /\ Stayed' = Stayed BY <1>2, <1>12 DEF Owed, Stayed
<1>15. far \in Rows \union {0} BY <1>4, <1>7, <1>8, <1>9 DEF Reading
<1>16. reader' \in Reading
  <2>1. next \in P!Steps BY <1>10 DEF P!Steps
  <2>2. <<>> \in Seq(Rows) OBVIOUS
  <2> QED BY <1>3, <1>4, <1>6, <1>15, <2>1, <2>2 DEF Reading
<1>17. PagesTyped' BY <1>0, <1>2, <1>12, <1>16 DEF PagesTyped
<1>18. Stages'
  <2>1. Len(reader'.page) <= Limit BY <1>12, RowNumbers
  <2> QED BY <1>0, <1>2, <1>3, <1>10, <1>12, <2>1 DEF Stages
<1>19. P!PagesInOrder'
  <2>1. ASSUME NEW a \in P!Seen, NEW b \in P!Range(p) PROVE (k = "before" => b < a) /\ (k = "after" => a < b)
    <3>1. P!Beyond(k, b, a) BY <1>5 DEF AtAnswer
    <3>2. a \in Nat /\ b \in Nat BY <1>7, LiveNumbers
    <3> QED BY <3>1, <3>2 DEF P!Beyond
  <2> QED BY <1>0, <1>12, <2>1, PagesFollow DEF all
<1>20. ASSUME next = "done" PROVE AtEnd'
  <2>1. CASE next = "done" /\ Len(p) < Limit
    <3>1. ~reader.lost => Owed \subseteq Shown BY <1>4, <1>5, <2>1, RowNumbers DEF AtAnswer
    <3>2. (reader.lost /\ k = "before" /\ ~withdrawn) => Owed \subseteq P!Seen \union everPinned BY <1>5 DEF AtAnswer
    <3> QED BY <1>2, <1>12, <1>13, <1>14, <3>1, <3>2 DEF AtEnd, Shown
  <2> QED BY <1>20, <2>1 DEF next
<1>21. ASSUME next = "lookup" PROVE AtCursor'
  <2>1. Len(p) >= Limit BY <1>11, <1>21
  <2>2. p # <<>>
    <3>1. ASSUME p = <<>> PROVE FALSE
      <4>1. Len(p) = 0 BY <3>1
      <4> QED BY <2>1, <4>1, RowNumbers
    <3> QED BY <3>1
  <2>3. ~reader.lost BY <1>5, <2>2 DEF AtAnswer
  <2>4. far \in Rows /\ far \in P!Range(p) BY <1>7, <1>8, <2>2
  <2>5. PrunedInOrder(far) BY <1>5, <2>4 DEF AtAnswer
  <2>6. \A r \in Owed : r \in Shown \/ P!Beyond(k, r, far) BY <1>5, <2>3, <2>4 DEF AtAnswer
  <2>7. \A a \in Shown : a = far \/ P!Beyond(k, far, a) BY <1>5, <1>8, <2>2, <2>4 DEF AtAnswer, Shown
  <2>8. PrunedInOrder(reader.cursor)' BY <1>2, <1>12, <1>14, <2>5 DEF PrunedInOrder
  <2>9. (\A r \in Owed : r \in P!Seen \/ P!Beyond(reader.kind, r, reader.cursor))' BY <1>12, <1>13, <1>14, <2>6 DEF P!Beyond
  <2>10. (\A a \in P!Seen : a = reader.cursor \/ P!Beyond(reader.kind, reader.cursor, a))' BY <1>12, <1>13, <2>7 DEF P!Beyond
  <2> QED BY <1>6, <1>12, <2>3, <2>4, <2>8, <2>9, <2>10 DEF AtCursor
<1>22. Walk' BY <1>10, <1>12, <1>20, <1>21 DEF Walk
<1>23. Surroundings' /\ Offsets' BY <1>3, <1>12 DEF Surroundings, Offsets
<1> QED BY <1>17, <1>18, <1>19, <1>22, <1>23 DEF PageInv

(* Two pages put together, the second beyond the first.                    *)
Joins(pq, p, q) ==
  /\ pq \in Seq(Rows) /\ Len(pq) = Len(p) + Len(q) /\ P!Range(pq) = P!Range(p) \union P!Range(q)
  /\ (p # <<>> \/ q # <<>>) => pq # <<>>
  /\ pq[1] = (IF p = <<>> THEN q[1] ELSE p[1])
  /\ pq[Len(pq)] = (IF q = <<>> THEN p[Len(p)] ELSE q[Len(q)])
LEMMA Joined ==
  ASSUME NEW p \in Seq(Rows), NEW q \in Seq(Rows), NEW pq, pq = p \o q, p # <<>> \/ q # <<>>
  PROVE  Joins(pq, p, q)
<1> DEFINE m == Len(p)
           n == Len(q)
<1>1. /\ m \in Nat /\ n \in Nat /\ DOMAIN p = 1..m /\ DOMAIN q = 1..n
      /\ p = <<>> <=> m = 0
      /\ q = <<>> <=> n = 0
  OBVIOUS
<1>2. pq \in Seq(Rows) /\ Len(pq) = m + n /\ DOMAIN pq = 1..(m + n) OBVIOUS
<1>3. \A i \in 1..(m + n) : pq[i] = IF i <= m THEN p[i] ELSE q[i - m] OBVIOUS
<1> HIDE DEF m, n
<1>4. m + n >= 1 BY <1>1
<1>5. pq # <<>>
  <2>1. Len(pq) # 0 BY <1>1, <1>2, <1>4
  <2> QED BY <2>1
<1>6. pq[1] = IF p = <<>> THEN q[1] ELSE p[1]
  <2>1. 1 \in 1..(m + n) BY <1>1, <1>4
  <2>2. pq[1] = IF 1 <= m THEN p[1] ELSE q[1 - m] BY <1>3, <2>1
  <2>3. CASE m = 0 BY <1>1, <2>2, <2>3
  <2>4. CASE m # 0 BY <1>1, <2>2, <2>4
  <2> QED BY <2>3, <2>4
<1>7. pq[m + n] = IF q = <<>> THEN p[m] ELSE q[n]
  <2>1. m + n \in 1..(m + n) BY <1>1, <1>4
  <2>2. pq[m + n] = IF m + n <= m THEN p[m + n] ELSE q[(m + n) - m] BY <1>3, <2>1
  <2>3. CASE n = 0 BY <1>1, <2>2, <2>3
  <2>4. CASE n # 0
    <3>1. ~(m + n <= m) /\ (m + n) - m = n BY <1>1, <2>4
    <3> QED BY <1>1, <2>2, <2>4, <3>1
  <2> QED BY <2>3, <2>4
<1>8. P!Range(pq) = P!Range(p) \union P!Range(q)
  <2>1. \A i \in 1..(m + n) : pq[i] \in P!Range(p) \union P!Range(q)
    <3> SUFFICES ASSUME NEW i \in 1..(m + n) PROVE pq[i] \in P!Range(p) \union P!Range(q) OBVIOUS
    <3>1. CASE i <= m
      <4>1. i \in 1..m BY <1>1, <3>1
      <4> QED BY <1>1, <1>3, <3>1, <4>1 DEF P!Range
    <3>2. CASE ~(i <= m)
      <4>1. i - m \in 1..n BY <1>1, <3>2
      <4> QED BY <1>1, <1>3, <3>2, <4>1 DEF P!Range
    <3> QED BY <3>1, <3>2
  <2>2. \A i \in 1..m : i \in 1..(m + n) /\ pq[i] = p[i] BY <1>1, <1>3
  <2>3. \A i \in 1..n : m + i \in 1..(m + n) /\ pq[m + i] = q[i]
    <3>1. \A i \in 1..n : m + i \in 1..(m + n) /\ ~(m + i <= m) /\ (m + i) - m = i BY <1>1
    <3> QED BY <1>3, <3>1
  <2>4. \A a \in P!Range(p) : a \in P!Range(pq) BY <1>1, <1>2, <2>2 DEF P!Range
  <2>5. \A a \in P!Range(q) : a \in P!Range(pq)
    <3> SUFFICES ASSUME NEW i \in 1..n PROVE q[i] \in P!Range(pq) BY <1>1 DEF P!Range
    <3>1. m + i \in DOMAIN pq /\ pq[m + i] = q[i] BY <1>2, <2>3
    <3> QED BY <3>1 DEF P!Range
  <2>6. \A a \in P!Range(pq) : a \in P!Range(p) \union P!Range(q)
    <3> SUFFICES ASSUME NEW i \in 1..(m + n) PROVE pq[i] \in P!Range(p) \union P!Range(q) BY <1>2 DEF P!Range
    <3> QED BY <2>1
  <2> QED BY <2>4, <2>5, <2>6
<1> QED BY <1>2, <1>5, <1>6, <1>7, <1>8 DEF Joins, m, n

LEMMA JoinedRises ==
  ASSUME NEW p \in Seq(Rows), NEW q \in Seq(Rows), Rising(p), Rising(q), \A a \in P!Range(p) : \A b \in P!Range(q) : a < b
  PROVE  Rising(p \o q)
<1> DEFINE m == Len(p)
           n == Len(q)
           pq == p \o q
<1>1. m \in Nat /\ n \in Nat /\ DOMAIN p = 1..m /\ DOMAIN q = 1..n /\ DOMAIN pq = 1..(m + n) OBVIOUS
<1>2. \A i \in 1..(m + n) : pq[i] = IF i <= m THEN p[i] ELSE q[i - m] OBVIOUS
<1> HIDE DEF m, n, pq
<1> SUFFICES ASSUME NEW i \in 1..(m + n), NEW j \in 1..(m + n), i < j PROVE pq[i] < pq[j] BY <1>1 DEF Rising, pq
<1>3. CASE j <= m
  <2>1. i \in 1..m /\ j \in 1..m /\ i <= m BY <1>1, <1>3
  <2>2. p[i] < p[j] BY <1>1, <2>1 DEF Rising
  <2> QED BY <1>2, <1>3, <2>1, <2>2
<1>4. CASE i <= m /\ ~(j <= m)
  <2>1. i \in 1..m /\ j - m \in 1..n BY <1>1, <1>4
  <2>2. p[i] \in P!Range(p) /\ q[j - m] \in P!Range(q) BY <1>1, <2>1 DEF P!Range
  <2> QED BY <1>2, <1>4, <2>2
<1>5. CASE ~(i <= m)
  <2>1. i - m \in 1..n /\ j - m \in 1..n /\ i - m < j - m /\ ~(j <= m) BY <1>1, <1>5
  <2>2. q[i - m] < q[j - m] BY <1>1, <2>1 DEF Rising
  <2> QED BY <1>2, <1>5, <2>1, <2>2
<1> QED BY <1>1, <1>3, <1>4, <1>5

(* A page of one row.                                                      *)
LEMMA OneRow == ASSUME NEW x \in Rows, NEW p, p = <<x>>
                PROVE  p \in Seq(Rows) /\ Len(p) = 1 /\ Rising(p) /\ p # <<>> /\ p[1] = x /\ P!Range(p) = {x}
<1>1. p \in Seq(Rows) /\ Len(p) = 1 /\ DOMAIN p = {1} /\ p # <<>> /\ p[1] = x OBVIOUS
<1>2. Rising(p)
  <2> SUFFICES ASSUME NEW i \in {1}, NEW j \in {1}, i < j PROVE FALSE BY <1>1 DEF Rising
  <2> QED OBVIOUS
<1> QED BY <1>1, <1>2 DEF P!Range

(* The ends of a page in order.                                            *)
LEMMA PageEnds ==
  ASSUME NEW p \in Seq(Rows), Rising(p), p # <<>>
  PROVE  /\ p[1] \in P!Range(p) /\ p[Len(p)] \in P!Range(p) /\ P!Range(p) \subseteq Nat
         /\ \A a \in P!Range(p) : p[1] <= a /\ a <= p[Len(p)]
<1> DEFINE n == Len(p)
<1>1. n \in Nat /\ n >= 1 /\ DOMAIN p = 1..n /\ \A i \in 1..n : p[i] \in Rows OBVIOUS
<1> HIDE DEF n
<1>2. 1 \in 1..n /\ n \in 1..n BY <1>1
<1>3. \A i \in 1..n : p[i] \in Nat BY <1>1, LiveNumbers
<1>4. ASSUME NEW i \in 1..n PROVE p[1] <= p[i] /\ p[i] <= p[n]
  <2>1. 1 < i => p[1] < p[i] BY <1>1, <1>2 DEF Rising
  <2>2. i < n => p[i] < p[n] BY <1>1, <1>2 DEF Rising
  <2>3. (i = 1 \/ 1 < i) /\ (i = n \/ i < n) BY <1>1
  <2> QED BY <1>2, <1>3, <2>1, <2>2, <2>3
<1>5. \A a \in P!Range(p) : \E i \in 1..n : a = p[i] BY <1>1 DEF P!Range
<1>6. p[1] \in P!Range(p) /\ p[n] \in P!Range(p) BY <1>1, <1>2 DEF P!Range
<1>7. P!Range(p) \subseteq Nat BY <1>3, <1>5
<1> QED BY <1>4, <1>5, <1>6, <1>7 DEF n

(* A step of a read around an anchor needs no more than its page.          *)
LEMMA AroundMoves ==
  ASSUME PageInv, P!Beside, reader.kind = "around", NEW pc, pc \in {"older", "newer", "done"}, NEW found, found \in BOOLEAN,
         NEW page \in Seq(Rows), reader' = [reader EXCEPT !.pc = pc, !.found = found, !.page = page],
         pc = "older" => page = <<reader.at>>,
         pc = "newer" => Gapless(page) /\ page[Len(page)] = reader.at /\ Len(page) <= P!sideLimit + 1,
         pc = "done" => (page # <<>> => Gapless(page)) /\ Len(page) <= 2 * P!sideLimit + 1
  PROVE  PageInv'
<1>0. PagesTyped /\ Stages /\ P!PagesInOrder /\ Surroundings BY DEF PageInv
<1>1. /\ table' = table /\ row' = row /\ pinned' = pinned /\ everPinned' = everPinned /\ withdrawn' = withdrawn
      /\ P!Live' = P!Live /\ Reading' = Reading /\ P!sideLimit' = P!sideLimit
  BY BesideRows
<1>2. reader \in Reading BY <1>0 DEF PagesTyped
<1>3. /\ reader'.kind = "around" /\ reader'.pages = reader.pages /\ reader'.base = reader.base /\ reader'.at = reader.at
      /\ reader'.pc = pc /\ reader'.page = page
  BY <1>2 DEF Reading
<1>4. reader' \in Reading
  <2>1. pc \in P!Steps BY DEF P!Steps
  <2> QED BY <1>2, <2>1 DEF Reading
<1>5. PagesTyped' BY <1>0, <1>1, <1>3, <1>4 DEF PagesTyped
<1>6. Stages' BY <1>0, <1>1, <1>3 DEF Stages
<1>7. P!PagesInOrder' BY <1>0, <1>3 DEF P!PagesInOrder, P!Range
<1>8. Stayed' = Stayed BY <1>1, <1>3 DEF Stayed
<1>9. Gapless(page) => Gapless(reader.page)' BY <1>3, <1>8 DEF Gapless, Rising, P!Range
<1>10. reader.at \in Rows BY <1>0 DEF Surroundings
<1>11. Surroundings' BY <1>1, <1>3, <1>9, <1>10 DEF Surroundings
<1>12. Walk' /\ Offsets' BY <1>3 DEF Walk, Offsets
<1> QED BY <1>5, <1>6, <1>7, <1>11, <1>12 DEF PageInv

LEMMA AroundOnly == ASSUME PagesTyped, Stages, reader.pc \in {"anchor", "older", "newer"}
                    PROVE  reader.kind = "around" /\ reader \in Reading /\ reader.page \in Seq(Rows) /\ reader.found \in BOOLEAN
<1>1. reader.kind \in {"none", "before", "after", "around", "offset"} BY DEF PagesTyped, Reading
<1>2. reader.kind = "around" BY <1>1 DEF Stages, P!Idle
<1> QED BY <1>2 DEF PagesTyped, Reading

LEMMA AnchorStep == ASSUME PageInv, P!Anchor PROVE PageInv'
<1>0. PagesTyped /\ Stages /\ Surroundings BY DEF PageInv
<1>1. P!Beside /\ reader.pc = "anchor" BY DEF P!Anchor
<1>2. reader.kind = "around" /\ reader \in Reading /\ reader.page \in Seq(Rows) /\ reader.found \in BOOLEAN BY <1>0, <1>1, AroundOnly
<1>3. reader.at \in Rows /\ reader.page = <<>> BY <1>0, <1>1, <1>2 DEF Surroundings
<1>4. CASE row[reader.at] = "live"
  <2> DEFINE p == <<reader.at>>
  <2>1. reader' = [reader EXCEPT !.pc = "older", !.page = p] BY <1>4 DEF P!Anchor
  <2>2. p \in Seq(Rows) BY <1>3
  <2>3. p = <<reader.at>> OBVIOUS
  <2> HIDE DEF p
  <2>4. reader' = [reader EXCEPT !.pc = "older", !.found = reader.found, !.page = p] BY <1>2, <2>1 DEF Reading
  <2> QED BY <1>1, <1>2, <2>2, <2>3, <2>4, AroundMoves
<1>5. CASE row[reader.at] # "live"
  <2>1. reader' = [reader EXCEPT !.pc = "done"] BY <1>5 DEF P!Anchor
  <2>2. reader' = [reader EXCEPT !.pc = "done", !.found = reader.found, !.page = reader.page] BY <1>2, <2>1 DEF Reading
  <2>3. Len(reader.page) <= 2 * P!sideLimit + 1 BY <1>3, SideLimit
  <2> QED BY <1>1, <1>2, <1>3, <2>2, <2>3, AroundMoves
<1> QED BY <1>4, <1>5

LEMMA OlderStep == ASSUME PageInv, P!Older PROVE PageInv'
<1>0. PagesTyped /\ Stages /\ Surroundings BY DEF PageInv
<1> DEFINE w == P!Window("before", reader.at, P!sideLimit)
           whole == w \o reader.page
           Z == {r \in P!Live : "before" = "latest" \/ P!Beyond("before", r, reader.at)}
<1>1. /\ reader.pc = "older" /\ P!Beside
      /\ \/ ~reader.found /\ reader' = [reader EXCEPT !.pc = "newer"]
         \/ ~reader.found /\ reader' = [reader EXCEPT !.found = TRUE]
         \/ reader.found /\ reader' = [reader EXCEPT !.pc = "newer", !.found = FALSE, !.page = whole]
  BY DEF P!Older, P!Side
<1>2. reader.kind = "around" /\ reader \in Reading /\ reader.page \in Seq(Rows) /\ reader.found \in BOOLEAN BY <1>0, <1>1, AroundOnly
<1>3. reader.at \in Rows /\ reader.page = <<reader.at>> BY <1>0, <1>1, <1>2 DEF Surroundings
<1>4. IsWindow(w, Z, "before", P!sideLimit) BY SideLimit, Windows
<1>5. Z = {r \in P!Live : r < reader.at} BY DEF P!Beyond
<1> HIDE DEF w, Z
<1>6. /\ Len(reader.page) = 1 /\ Rising(reader.page) /\ reader.page # <<>> /\ reader.page[1] = reader.at /\ P!Range(reader.page) = {reader.at}
  BY <1>3, OneRow
<1>7. Stayed \subseteq P!Live /\ Stayed \subseteq Nat /\ reader.at \in Nat BY <1>0, <1>3, MissedOwed, LiveNumbers
<1>8. CASE ~reader.found /\ reader' = [reader EXCEPT !.pc = "newer"]
  <2>1. reader' = [reader EXCEPT !.pc = "newer", !.found = reader.found, !.page = reader.page] BY <1>2, <1>8 DEF Reading
  <2>2. Gapless(reader.page)
    <3>1. \A r \in Stayed : reader.page[1] <= r /\ r <= reader.page[Len(reader.page)] => r \in P!Range(reader.page)
      <4>1. \A r \in Stayed : reader.at <= r /\ r <= reader.at => r = reader.at BY <1>7
      <4> QED BY <1>6, <4>1
    <3> QED BY <1>6, <3>1 DEF Gapless
  <2>3. reader.page[Len(reader.page)] = reader.at BY <1>6
  <2>4. Len(reader.page) <= P!sideLimit + 1 BY <1>6, SideLimit
  <2> QED BY <1>1, <1>2, <2>1, <2>2, <2>3, <2>4, AroundMoves
<1>9. CASE ~reader.found /\ reader' = [reader EXCEPT !.found = TRUE]
  <2>1. reader' = [reader EXCEPT !.pc = "older", !.found = TRUE, !.page = reader.page] BY <1>1, <1>2, <1>9 DEF Reading
  <2> QED BY <1>1, <1>2, <1>3, <2>1, AroundMoves
<1>10. CASE reader.found /\ reader' = [reader EXCEPT !.pc = "newer", !.found = FALSE, !.page = whole]
  <2>1. w \in Seq(Rows) /\ Len(w) <= P!sideLimit /\ P!Range(w) \subseteq Z /\ Rising(w) BY <1>4 DEF IsWindow
  <2>2. Joins(whole, w, reader.page) BY <1>2, <1>6, <2>1, Joined
  <2>3. Rising(whole)
    <3>1. \A a \in P!Range(w) : \A b \in P!Range(reader.page) : a < b BY <1>5, <1>6, <2>1
    <3> QED BY <1>2, <1>6, <2>1, <3>1, JoinedRises
  <2> HIDE DEF whole
  <2>4. whole \in Seq(Rows) /\ whole # <<>> /\ Len(whole) = Len(w) + 1 /\ P!Range(whole) = P!Range(w) \union {reader.at} BY <1>6, <2>2 DEF Joins
  <2>5. whole[Len(whole)] = reader.at BY <1>6, <2>2 DEF Joins
  <2>6. whole[1] = IF w = <<>> THEN reader.at ELSE w[1] BY <1>6, <2>2 DEF Joins
  <2>7. Len(w) \in Nat BY <2>1
  <2>8. ASSUME NEW r \in Stayed, whole[1] <= r, r <= whole[Len(whole)] PROVE r \in P!Range(whole)
    <3>1. r <= reader.at /\ r \in Nat BY <1>7, <2>5, <2>8
    <3>2. CASE r = reader.at BY <2>4, <3>2
    <3>3. CASE r < reader.at
      <4>1. r \in Z BY <1>5, <1>7, <3>3
      <4>2. CASE r \in P!Range(w) BY <2>4, <4>2
      <4>3. CASE Len(w) >= P!sideLimit /\ \A b \in P!Range(w) : P!Precedes("before", b, r)
        <5>1. w # <<>>
          <6>1. Len(w) # 0 BY <2>7, <4>3, SideLimit
          <6> QED BY <6>1
        <5>2. w[1] \in P!Range(w) /\ w[1] \in Nat BY <2>1, <5>1, PageEnds
        <5>3. w[1] > r BY <4>3, <5>2 DEF P!Precedes, P!Ascending
        <5> QED BY <2>6, <2>8, <3>1, <5>1, <5>2, <5>3
      <4> QED BY <1>4, <4>1, <4>2, <4>3 DEF IsWindow
    <3> QED BY <1>7, <3>1, <3>2, <3>3
  <2>9. Gapless(whole) BY <2>3, <2>4, <2>8 DEF Gapless
  <2>10. Len(whole) <= P!sideLimit + 1 BY <2>1, <2>4, <2>7, SideLimit
  <2> QED BY <1>1, <1>2, <1>10, <2>4, <2>5, <2>9, <2>10, AroundMoves
<1> QED BY <1>1, <1>8, <1>9, <1>10

LEMMA NewerStep == ASSUME PageInv, P!Newer PROVE PageInv'
<1>0. PagesTyped /\ Stages /\ Surroundings BY DEF PageInv
<1> DEFINE w == P!Window("after", reader.at, P!sideLimit)
           p == reader.page
           whole == p \o w
           Z == {r \in P!Live : "after" = "latest" \/ P!Beyond("after", r, reader.at)}
<1>1. /\ reader.pc = "newer" /\ P!Beside
      /\ \/ ~reader.found /\ reader' = [reader EXCEPT !.pc = "done"]
         \/ ~reader.found /\ reader' = [reader EXCEPT !.found = TRUE]
         \/ reader.found /\ reader' = [reader EXCEPT !.pc = "done", !.found = FALSE, !.page = whole]
  BY DEF P!Newer, P!Side
<1>2. reader.kind = "around" /\ reader \in Reading /\ p \in Seq(Rows) /\ reader.found \in BOOLEAN BY <1>0, <1>1, AroundOnly
<1>3. reader.at \in Rows /\ Gapless(p) /\ p[Len(p)] = reader.at /\ Len(p) <= P!sideLimit + 1 BY <1>0, <1>1, <1>2 DEF Surroundings
<1>4. IsWindow(w, Z, "after", P!sideLimit) BY SideLimit, Windows
<1>5. Z = {r \in P!Live : r > reader.at} BY DEF P!Beyond
<1> HIDE DEF w, Z
<1>6. Rising(p) /\ p # <<>> /\ Len(p) \in Nat BY <1>2, <1>3 DEF Gapless
<1>7. /\ Stayed \subseteq P!Live /\ Stayed \subseteq Nat /\ reader.at \in Nat /\ Z \subseteq Nat
  <2>1. Z \subseteq P!Live BY <1>5
  <2> QED BY <1>0, <1>3, <2>1, MissedOwed, LiveNumbers
<1>8. CASE ~reader.found /\ reader' = [reader EXCEPT !.pc = "done"]
  <2>1. reader' = [reader EXCEPT !.pc = "done", !.found = reader.found, !.page = p] BY <1>2, <1>8 DEF Reading
  <2>2. Len(p) <= 2 * P!sideLimit + 1 BY <1>3, <1>6, SideLimit
  <2> QED BY <1>1, <1>2, <1>3, <2>1, <2>2, AroundMoves
<1>9. CASE ~reader.found /\ reader' = [reader EXCEPT !.found = TRUE]
  <2>1. reader' = [reader EXCEPT !.pc = "newer", !.found = TRUE, !.page = p] BY <1>1, <1>2, <1>9 DEF Reading
  <2> QED BY <1>1, <1>2, <1>3, <2>1, AroundMoves
<1>10. CASE reader.found /\ reader' = [reader EXCEPT !.pc = "done", !.found = FALSE, !.page = whole]
  <2>1. w \in Seq(Rows) /\ Len(w) <= P!sideLimit /\ P!Range(w) \subseteq Z /\ Rising(w) /\ Len(w) \in Nat BY <1>4 DEF IsWindow
  <2> HIDE DEF p
  <2>2. Joins(whole, p, w) BY <1>2, <1>6, <2>1, Joined
  <2>3. P!Range(p) \subseteq Nat /\ \A a \in P!Range(p) : a <= reader.at BY <1>2, <1>3, <1>6, PageEnds
  <2>4. Rising(whole)
    <3>1. \A a \in P!Range(p) : \A b \in P!Range(w) : a < b BY <1>5, <1>7, <2>1, <2>3
    <3> QED BY <1>2, <1>6, <2>1, <3>1, JoinedRises
  <2> HIDE DEF whole
  <2>5. whole \in Seq(Rows) /\ whole # <<>> /\ Len(whole) = Len(p) + Len(w) /\ P!Range(whole) = P!Range(p) \union P!Range(w)
    BY <1>6, <2>2 DEF Joins
  <2>6. whole[1] = p[1] BY <1>6, <2>2 DEF Joins
  <2>7. whole[Len(whole)] = IF w = <<>> THEN reader.at ELSE w[Len(w)] BY <1>3, <2>2 DEF Joins
  <2>8. ASSUME NEW r \in Stayed, whole[1] <= r, r <= whole[Len(whole)] PROVE r \in P!Range(whole)
    <3>1. r \in Nat BY <1>7
    <3>2. CASE r <= reader.at
      <4>1. r \in P!Range(p) BY <1>3, <2>6, <2>8, <3>2 DEF Gapless
      <4> QED BY <2>5, <4>1
    <3>3. CASE r > reader.at
      <4>1. r \in Z BY <1>5, <1>7, <3>3
      <4>2. CASE r \in P!Range(w) BY <2>5, <4>2
      <4>3. CASE Len(w) >= P!sideLimit /\ \A b \in P!Range(w) : P!Precedes("after", b, r)
        <5>1. w # <<>>
          <6>1. Len(w) # 0 BY <2>1, <4>3, SideLimit
          <6> QED BY <6>1
        <5>2. w[Len(w)] \in P!Range(w) /\ w[Len(w)] \in Nat BY <2>1, <5>1, PageEnds
        <5>3. w[Len(w)] < r BY <4>3, <5>2 DEF P!Precedes, P!Ascending
        <5> QED BY <2>7, <2>8, <3>1, <5>1, <5>2, <5>3
      <4> QED BY <1>4, <4>1, <4>2, <4>3 DEF IsWindow
    <3> QED BY <1>7, <3>1, <3>2, <3>3
  <2>9. Gapless(whole) BY <2>4, <2>5, <2>8 DEF Gapless
  <2>10. Len(whole) <= 2 * P!sideLimit + 1 BY <1>3, <1>6, <2>1, <2>5, SideLimit
  <2> QED BY <1>1, <1>2, <1>10, <2>5, <2>9, <2>10, AroundMoves DEF p
<1> QED BY <1>1, <1>8, <1>9, <1>10

(* OFFSET and LIMIT select no more rows than the limit.                    *)
OnPage(Z, dir, o, limit) == {r \in Z : o <= P!Rank(Z, dir, r) /\ P!Rank(Z, dir, r) < o + limit}
LEMMA Selected ==
  ASSUME NEW n \in Nat, NEW Z, Z \subseteq 0..n, NEW dir, NEW o \in Nat, NEW limit \in Nat, NEW F, F = OnPage(Z, dir, o, limit)
  PROVE  F \subseteq 0..n /\ IsFiniteSet(F) /\ Cardinality(F) \in Nat /\ Cardinality(F) <= limit
<1>0. F = {r \in Z : o <= P!Rank(Z, dir, r) /\ P!Rank(Z, dir, r) < o + limit} BY DEF OnPage
<1>1. F \subseteq Z /\ F \subseteq 0..n BY <1>0
<1>2. IsFiniteSet(F) /\ Cardinality(F) \in Nat
  <2>1. IsFiniteSet(0..n) BY FS_Interval
  <2> QED BY <1>1, <2>1, FS_Subset, FS_CardinalityType
<1>3. CASE F = {}
  <2>1. Cardinality(F) = 0 BY <1>3, FS_EmptySet
  <2> QED BY <1>1, <1>2, <2>1
<1>4. CASE F # {}
  <2>1. PICK e \in F : \A x \in F : ~P!Precedes(dir, x, e) BY <1>1, <1>4, Ends
  <2>2. PICK f \in F : \A x \in F : ~P!Precedes(dir, f, x) BY <1>1, <1>4, Ends
  <2> DEFINE A == Ahead(Z, dir, e)
             B == Ahead(Z, dir, f)
             D == F \ {f}
  <2>3. \A x \in Z : x \in Nat BY <1>1
  <2>4. /\ P!Rank(Z, dir, e) = Cardinality(A) /\ IsFiniteSet(A) /\ Cardinality(A) \in Nat
        /\ P!Rank(Z, dir, f) = Cardinality(B) /\ IsFiniteSet(B) /\ Cardinality(B) \in Nat
    BY Ranks
  <2>5. D \subseteq B
    <3>1. \A x \in F : x # f => P!Precedes(dir, x, f) BY <1>1, <2>2, <2>3, PrecedesOrder
    <3> QED BY <1>1, <3>1 DEF Ahead
  <2>6. A \subseteq B
    <3>1. e = f \/ P!Precedes(dir, e, f) BY <1>1, <2>2, <2>3, PrecedesOrder
    <3>2. ASSUME NEW x \in Z, P!Precedes(dir, x, e) PROVE P!Precedes(dir, x, f)
      <4>1. x \in Nat /\ e \in Nat /\ f \in Nat BY <1>1, <2>3
      <4> QED BY <3>1, <3>2, <4>1, PrecedesOrder
    <3> QED BY <3>2 DEF Ahead
  <2>7. A \cap D = {} BY <2>1 DEF Ahead
  <2> HIDE DEF A, B
  <2>8. Cardinality(D) = Cardinality(F) - 1 /\ IsFiniteSet(D) BY <1>2, FS_RemoveElement, FS_Subset
  <2> HIDE DEF D
  <2>9. Cardinality(A \union D) = Cardinality(A) + Cardinality(D) - Cardinality(A \cap D) BY <2>4, <2>8, FS_Union
  <2>10. Cardinality(A \cap D) = 0 BY <2>7, FS_EmptySet
  <2>11. A \union D \subseteq B BY <2>5, <2>6
  <2>12. Cardinality(A \union D) <= Cardinality(B) BY <2>4, <2>11, FS_Subset
  <2>13. o <= Cardinality(A) /\ Cardinality(B) < o + limit BY <1>0, <2>4
  <2>14. Cardinality(A \union D) = Cardinality(A) + (Cardinality(F) - 1) BY <1>2, <2>4, <2>8, <2>9, <2>10
  <2>15. Cardinality(F) <= limit BY <1>2, <2>4, <2>12, <2>13, <2>14
  <2> QED BY <1>1, <1>2, <2>15
<1> QED BY <1>3, <1>4

(* Every row of a set ranks below its size.                                *)
LEMMA RankBelow ==
  ASSUME NEW n \in Nat, NEW Z, Z \subseteq 0..n, NEW dir, NEW r \in Z
  PROVE  P!Rank(Z, dir, r) < Cardinality(Z) /\ Cardinality(Z) \in Nat
<1> DEFINE A == Ahead(Z, dir, r)
<1>1. P!Rank(Z, dir, r) = Cardinality(A) /\ IsFiniteSet(A) /\ A \subseteq Z /\ Cardinality(A) \in Nat BY Ranks
<1>2. r \notin A
  <2>1. r \in Nat OBVIOUS
  <2> QED BY <2>1, PrecedesOrder DEF Ahead
<1> HIDE DEF A
<1>3. IsFiniteSet(Z)
  <2>1. IsFiniteSet(0..n) BY FS_Interval
  <2> QED BY <2>1, FS_Subset
<1>4. A \union {r} \subseteq Z BY <1>1
<1>5. Cardinality(A \union {r}) = Cardinality(A) + 1 BY <1>1, <1>2, FS_AddElement
<1>6. Cardinality(A \union {r}) <= Cardinality(Z) /\ Cardinality(Z) \in Nat BY <1>3, <1>4, FS_Subset, FS_CardinalityType
<1> QED BY <1>1, <1>5, <1>6

LEMMA OffsetOnly ==
  ASSUME PagesTyped, Stages, reader.pc \in {"select", "count"} \/ (reader.pc = "answer" /\ reader.kind = "offset")
  PROVE  /\ reader.kind = "offset" /\ reader \in Reading /\ reader.page \in Seq(Rows) /\ Len(reader.page) \in Nat
         /\ reader.offset \in Nat /\ reader.pages \in Seq(Seq(Rows)) /\ Len(reader.page) <= Limit
<1>1. reader.kind \in {"none", "before", "after", "around", "offset"} BY DEF PagesTyped, Reading
<1>2. reader.kind = "offset" BY <1>1 DEF Stages, P!Idle
<1> QED BY <1>2 DEF PagesTyped, Reading, Stages

(* What the steps of a walk by offset share.                               *)
LEMMA OffsetMoves ==
  ASSUME PageInv, P!Beside, reader.kind = "offset", reader' \in Reading, reader'.kind = "offset", reader'.base = reader.base,
         reader'.pc \in {"select", "count", "answer", "done"}, Len(reader'.page) <= Limit, P!PagesInOrder', Offsets'
  PROVE  PageInv'
<1>0. PagesTyped /\ Stages BY DEF PageInv
<1>1. /\ table' = table /\ row' = row /\ pinned' = pinned /\ everPinned' = everPinned /\ withdrawn' = withdrawn
      /\ P!Live' = P!Live /\ Reading' = Reading
  BY BesideRows
<1>2. PagesTyped' BY <1>0, <1>1 DEF PagesTyped
<1>3. Stages' BY <1>0, <1>1 DEF Stages
<1>4. Walk' /\ Surroundings' BY DEF Walk, Surroundings
<1> QED BY <1>2, <1>3, <1>4 DEF PageInv

LEMMA RankUnchanged == ASSUME P!Beside, NEW r PROVE RankNow(r)' = RankNow(r) /\ RankNow(r) \in Nat
<1>1. P!Live' = P!Live BY BesideRows
<1>2. RankNow(r)' = RankNow(r) BY <1>1 DEF RankNow, P!Rank, P!Precedes, P!Ascending
<1>3. RankNow(r) \in Nat BY LiveRows, RowNumbers, Ranks DEF RankNow
<1> QED BY <1>2, <1>3

LEMMA SelectStep == ASSUME PageInv, P!listRequirements PROVE PageInv'
<1>0. PagesTyped /\ Stages /\ P!PagesInOrder /\ Offsets BY DEF PageInv
<1> DEFINE o == reader.offset
           F == OnPage(P!Live, "latest", o, Limit)
           s == P!Sorted(F)
           p == P!Reverse(s)
<1>1. reader.pc = "select" /\ P!Beside /\ reader' = [reader EXCEPT !.pc = "count", !.page = p] BY DEF P!listRequirements, OnPage
<1>2. /\ reader.kind = "offset" /\ reader \in Reading /\ o \in Nat /\ reader.pages \in Seq(Seq(Rows))
  BY <1>0, <1>1, OffsetOnly
<1>3. F \subseteq 0..MaxRow /\ Cardinality(F) \in Nat /\ Cardinality(F) <= Limit
  <2>1. F = OnPage(P!Live, "latest", o, Limit) OBVIOUS
  <2> HIDE DEF o, F
  <2> QED BY <1>2, <2>1, LiveRows, RowNumbers, Selected
<1>4. F \subseteq Rows BY LiveRows DEF OnPage
<1>5. \A r \in P!Live : r \in F \/ RankNow(r) < o \/ ~(RankNow(r) < o + Limit)
  <2>1. \A r \in P!Live : RankNow(r) \in Nat BY <1>1, RankUnchanged
  <2> QED BY <1>2, <2>1 DEF RankNow, OnPage
<1> HIDE DEF F
<1>6. s \in Seq(F) /\ Len(s) = Cardinality(F) /\ P!Range(s) = F BY <1>3, RowNumbers, SortedSet
<1> HIDE DEF s
<1>7. p \in Seq(F) /\ Len(p) = Cardinality(F) /\ P!Range(p) = F BY <1>6, Reversed
<1> HIDE DEF p
<1>8. p \in Seq(Rows) BY <1>4, <1>7
<1>9. reader' \in Reading
  <2>1. "count" \in P!Steps BY DEF P!Steps
  <2> QED BY <1>1, <1>2, <1>8, <2>1 DEF Reading
<1>10. /\ reader'.kind = "offset" /\ reader'.pc = "count" /\ reader'.page = p /\ reader'.pages = reader.pages /\ reader'.offset = o
       /\ reader'.base = reader.base
  BY <1>1, <1>2 DEF Reading
<1>11. withdrawn' = withdrawn /\ row' = row BY <1>1, BesideRows
<1>12. Stayed' = Stayed /\ Shown' = P!Seen \union F BY <1>7, <1>10, <1>11 DEF Stayed, Shown, P!Seen, P!Range
<1>13. ASSUME ~withdrawn, NEW r \in Stayed PROVE r \in Shown' \/ o + Len(p) <= RankNow(r)'
  <2>1. r \in P!Live BY <1>0, MissedOwed
  <2>2. r \in P!Seen \/ o <= RankNow(r) BY <1>0, <1>1, <1>2, <1>13 DEF Offsets
  <2>3. RankNow(r)' = RankNow(r) /\ RankNow(r) \in Nat BY <1>1, RankUnchanged
  <2>4. r \in F \/ RankNow(r) < o \/ ~(RankNow(r) < o + Limit) BY <1>5, <2>1
  <2>5. CASE r \in P!Seen \/ r \in F BY <1>12, <2>5
  <2>6. CASE o <= RankNow(r) /\ ~(RankNow(r) < o + Limit) BY <1>2, <1>3, <1>7, <2>3, <2>6, RowNumbers
  <2> QED BY <1>2, <2>2, <2>3, <2>4, <2>5, <2>6
<1>14. Offsets' BY <1>10, <1>11, <1>12, <1>13 DEF Offsets
<1>15. P!PagesInOrder' BY <1>0, <1>2, <1>10 DEF P!PagesInOrder, P!Range
<1>16. Len(reader'.page) <= Limit BY <1>3, <1>7, <1>10
<1> QED BY <1>1, <1>2, <1>9, <1>10, <1>14, <1>15, <1>16, OffsetMoves

LEMMA CountStep == ASSUME PageInv, P!CountRequirements PROVE PageInv'
<1>0. PagesTyped /\ Stages /\ P!PagesInOrder /\ Offsets BY DEF PageInv
<1> DEFINE more == P!HasNext(reader.page)
<1>1. reader.pc = "count" /\ P!Beside /\ reader' = [reader EXCEPT !.pc = "answer", !.hasNext = more] BY DEF P!CountRequirements
<1>2. /\ reader.kind = "offset" /\ reader \in Reading /\ reader.page \in Seq(Rows) /\ Len(reader.page) \in Nat
      /\ reader.offset \in Nat /\ reader.pages \in Seq(Seq(Rows)) /\ Len(reader.page) <= Limit
  BY <1>0, <1>1, OffsetOnly
<1>3. more = (reader.offset + Len(reader.page) < Cardinality(P!Live)) BY RowCardinality DEF P!HasNext
<1>4. more \in BOOLEAN BY <1>3
<1> HIDE DEF more
<1>5. reader' \in Reading
  <2>1. "answer" \in P!Steps BY DEF P!Steps
  <2> QED BY <1>1, <1>2, <1>4, <2>1 DEF Reading
<1>6. /\ reader'.kind = "offset" /\ reader'.pc = "answer" /\ reader'.page = reader.page /\ reader'.pages = reader.pages
      /\ reader'.offset = reader.offset /\ reader'.base = reader.base /\ reader'.hasNext = more
  BY <1>1, <1>2 DEF Reading
<1>7. withdrawn' = withdrawn /\ row' = row BY <1>1, BesideRows
<1>8. Stayed' = Stayed /\ Shown' = Shown BY <1>6, <1>7 DEF Stayed, Shown, P!Seen, P!Range
<1>9. ASSUME ~withdrawn, NEW r \in Stayed
      PROVE  (r \in Shown \/ reader.offset + Len(reader.page) <= RankNow(r)') /\ (~more => r \in Shown)
  <2>1. r \in Shown \/ reader.offset + Len(reader.page) <= RankNow(r) BY <1>0, <1>1, <1>2, <1>9 DEF Offsets
  <2>2. RankNow(r)' = RankNow(r) /\ RankNow(r) \in Nat BY <1>1, RankUnchanged
  <2>3. r \in P!Live BY <1>0, MissedOwed
  <2>4. RankNow(r) < Cardinality(P!Live) /\ Cardinality(P!Live) \in Nat BY <2>3, LiveRows, RowNumbers, RankBelow DEF RankNow
  <2>5. ASSUME reader.offset + Len(reader.page) <= RankNow(r) PROVE more
    <3>1. reader.offset + Len(reader.page) < Cardinality(P!Live) BY <1>2, <2>2, <2>4, <2>5
    <3> QED BY <1>3, <3>1
  <2> QED BY <2>1, <2>2, <2>5
<1>10. Offsets' BY <1>6, <1>7, <1>8, <1>9 DEF Offsets
<1>11. P!PagesInOrder' BY <1>0, <1>2, <1>6 DEF P!PagesInOrder, P!Range
<1>12. Len(reader'.page) <= Limit BY <1>2, <1>6
<1> QED BY <1>1, <1>2, <1>5, <1>6, <1>10, <1>11, <1>12, OffsetMoves

LEMMA ListPageStep == ASSUME PageInv, P!ListPage PROVE PageInv'
<1>0. PagesTyped /\ Stages /\ P!PagesInOrder /\ Offsets BY DEF PageInv
<1> DEFINE p == reader.page
           o == reader.offset + Len(p)
           all == Append(reader.pages, p)
           next == IF reader.hasNext /\ Len(reader.pages) < 3 THEN "select" ELSE "done"
<1>1. /\ reader.pc = "answer" /\ reader.kind = "offset" /\ P!Beside
      /\ reader' = [reader EXCEPT !.pages = all, !.page = <<>>, !.offset = o, !.pc = next]
  BY DEF P!ListPage, P!NextOffset
<1>2. /\ reader.kind = "offset" /\ reader \in Reading /\ p \in Seq(Rows) /\ Len(p) \in Nat
      /\ reader.offset \in Nat /\ reader.pages \in Seq(Seq(Rows)) /\ Len(p) <= Limit
  BY <1>0, <1>1, OffsetOnly
<1>3. o \in Nat BY <1>2
<1>4. next = "select" \/ next = "done" OBVIOUS
<1>5. all \in Seq(Seq(Rows)) /\ SeenIn(all) = SeenIn(reader.pages) \union P!Range(p)
  <2> HIDE DEF p
  <2> QED BY <1>2, SeenAppend
<1>6. P!Seen = SeenIn(reader.pages) BY <1>0, SeenRows
<1> HIDE DEF o, all, next
<1>7. reader' \in Reading
  <2>1. next \in P!Steps BY <1>4 DEF P!Steps
  <2>2. <<>> \in Seq(Rows) OBVIOUS
  <2> QED BY <1>1, <1>2, <1>3, <1>5, <2>1, <2>2 DEF Reading
<1>8. /\ reader'.kind = "offset" /\ reader'.pc = next /\ reader'.page = <<>> /\ reader'.pages = all
      /\ reader'.offset = o /\ reader'.base = reader.base /\ reader'.hasNext = reader.hasNext
  BY <1>1, <1>2 DEF Reading
<1>9. withdrawn' = withdrawn /\ row' = row BY <1>1, BesideRows
<1>10. Stayed' = Stayed BY <1>8, <1>9 DEF Stayed
<1>11. P!Seen' = Shown
  <2>1. P!Seen' = SeenIn(all) BY <1>8 DEF P!Seen, SeenIn, P!Range
  <2> QED BY <1>5, <1>6, <2>1 DEF Shown
<1>12. ASSUME ~withdrawn, NEW r \in Stayed PROVE r \in Shown \/ o <= RankNow(r)'
  <2>1. r \in Shown \/ o <= RankNow(r) BY <1>0, <1>1, <1>2, <1>12 DEF Offsets, o
  <2>2. RankNow(r)' = RankNow(r) BY <1>1, RankUnchanged
  <2> QED BY <2>1, <2>2
<1>13. (~withdrawn /\ ~reader.hasNext) => Stayed \subseteq Shown BY <1>0, <1>1 DEF Offsets
<1>14. Offsets' BY <1>4, <1>8, <1>9, <1>10, <1>11, <1>12, <1>13 DEF Offsets
<1>15. P!PagesInOrder' BY <1>0, <1>1, <1>8, PagesFollow DEF all
<1>16. Len(reader'.page) <= Limit BY <1>8, RowNumbers
<1>17. reader'.pc \in {"select", "count", "answer", "done"} BY <1>4, <1>8
<1> QED BY <1>1, <1>7, <1>8, <1>14, <1>15, <1>16, <1>17, OffsetMoves

LEMMA AgainStep == ASSUME PageInv, P!Again PROVE PageInv'
<1>1. PagesTyped BY DEF PageInv
<1>2. reader' = P!Idle /\ P!Beside BY DEF P!Again
<1>3. table' = table /\ row' = row /\ pinned' = pinned /\ everPinned' = everPinned /\ withdrawn' = withdrawn BY <1>2, BesideRows
<1>4. AtRest' BY <1>1, <1>2, <1>3 DEF AtRest, PagesTyped, P!Idle
<1> QED BY <1>4, IdleReader, PTL

LEMMA PagesStep == PageInv /\ [P!PagingNext]_(P!pagingVars) => PageInv'
<1> SUFFICES ASSUME PageInv, [P!PagingNext]_(P!pagingVars) PROVE PageInv' OBVIOUS
<1>0. PagesTyped BY DEF PageInv
<1>1. ASSUME NEW r \in Rows, P!Draw(r) \/ P!Commit(r) \/ P!SetPinned(r) \/ P!Withdraw(r) PROVE PageInv'
  <2>1. Aged BY <1>0, <1>1, DrawAges, CommitAges, SetPinnedAges, WithdrawAges
  <2> QED BY <2>1, AgedStep
<1>2. ASSUME NEW k \in {"before", "after", "around", "offset"}, NEW at \in Rows \union {0}, P!Begin(k, at) PROVE PageInv'
  BY <1>2, BeginStep
<1>3. ASSUME UNCHANGED P!pagingVars PROVE PageInv'
  <2>1. Aged BY <1>0, <1>3 DEF P!pagingVars, Aged, PagesTyped
  <2> QED BY <2>1, AgedStep
<1>4. ASSUME P!Latest \/ P!messageCursor \/ P!listMessages \/ P!Turn \/ P!Anchor \/ P!Older \/ P!Newer PROVE PageInv'
  BY <1>4, LatestStep, CursorStep, ListStep, TurnStep, AnchorStep, OlderStep, NewerStep
<1>5. ASSUME P!listRequirements \/ P!CountRequirements \/ P!ListPage \/ P!Again PROVE PageInv'
  BY <1>5, SelectStep, CountStep, ListPageStep, AgainStep
<1> QED BY <1>1, <1>2, <1>3, <1>4, <1>5 DEF P!PagingNext

(* Pages, however many rows there are, whatever the limit and what is      *)
(* kept: a walk shows what was there all along, in order and without a     *)
(* row twice, nothing is left out around an anchor, and pages by offset    *)
(* miss nothing while none leaves the list (listMessageWindow,             *)
(* listTopicMessages, ListMessagesAround and listRequirements).            *)
THEOREM PagesCorrect ==
  PageSpec => [](P!PagingTypeOK /\ P!WalkComplete /\ P!PagesInOrder /\ P!AroundContiguous /\ P!OffsetMissesNothing)
<1>1. P!PagingInit => PageInv BY PagesInit
<1>2. PageInv /\ [P!PagingNext]_(P!pagingVars) => PageInv' BY PagesStep
<1>3. PageInv => P!PagingTypeOK /\ P!WalkComplete /\ P!PagesInOrder /\ P!AroundContiguous /\ P!OffsetMissesNothing BY PagesSafe
<1> QED BY <1>1, <1>2, <1>3, PTL DEF PageSpec

-----------------------------------------------------------------------------
(***************************************************************************)
(* All parts together: what each promises on its own holds beside the      *)
(* others.                                                                 *)
(***************************************************************************)
LEMMA ChatParts ==
  ChatSpec => MembershipSpec /\ ConversationSpec /\ MessageSpec /\ TopicSpec /\ SettingsSpec /\ PageSpec
<1> USE DEF Next, vars, MembershipStep, ConversationStep, MessageStep, TopicStep, SettingsStep, PageStep, Only
<1>1. Init => /\ MembershipInit /\ C!ConversationsInit /\ G!MessagesInit /\ T!TopicsInit /\ S!GroupInit /\ P!PagingInit
  BY DEF Init
<1>2. [Next]_vars => [MembershipNext]_memberVars OBVIOUS
<1>3. [Next]_vars => [C!ConversationsNext]_(C!conversationVars) BY DEF conversationVars, C!conversationVars
<1>4. [Next]_vars => [G!MessagesNext]_(G!messageVars) BY DEF messageVars, G!messageVars
<1>5. [Next]_vars => [T!TopicsNext]_(T!topicVars) BY DEF topicVars, T!topicVars
<1>6. [Next]_vars => [S!GroupNext]_(S!groupVars) BY DEF settingsVars, S!groupVars
<1>7. [Next]_vars => [P!PagingNext]_(P!pagingVars) BY DEF pagingVars, P!pagingVars
<1> HIDE DEF Next, vars, MembershipStep, ConversationStep, MessageStep, TopicStep, SettingsStep, PageStep, Only
<1> QED BY <1>1, <1>2, <1>3, <1>4, <1>5, <1>6, <1>7, PTL
        DEF ChatSpec, MembershipSpec, ConversationSpec, MessageSpec, TopicSpec, SettingsSpec, PageSpec

(* Every part keeps its shape, no session outlives the removal of its      *)
(* user, nobody outside the space is a member of a conversation, and a     *)
(* preview or a rule shows a viewer nothing it may not.                    *)
THEOREM AccessFollowsMembershipCorrect == ChatSpec => []AccessFollowsMembership
BY ChatParts, MembersTyped, SessionsCorrect, ConversationsCorrect, MessagesCorrect, TopicsCorrect, SettingsCorrect, PagesCorrect, PTL
   DEF AccessFollowsMembership, TypeOK

(* Pins are counted and survive pruning, a client id makes one message, a  *)
(* recall erases; copies and cards follow their topic; patches compose and *)
(* are announced once; turning pages misses nothing.                       *)
THEOREM ContentConsistentCorrect == ChatSpec => []ContentConsistent
BY ChatParts, MessagesCorrect, TopicsCorrect, SettingsCorrect, PagesCorrect, PTL
   DEF ContentConsistent

(* No step of any part undoes what was agreed.                             *)
THEOREM NothingUndoneCorrect == ChatSpec => NothingUndone
BY ChatParts, InvitesCorrect, ConversationsCorrect, TopicsCorrect, SettingsCorrect, PTL DEF NothingUndone
=============================================================================
