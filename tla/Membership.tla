----------------------------- MODULE Membership -----------------------------
(***************************************************************************)
(* workspace/members, workspace/invites and the GitHub login of            *)
(* workspace/auth: who belongs to the space, in which role, and which web  *)
(* sessions speak for them. Role changes and removals hold the advisory    *)
(* lock "workspace-members" and look actor and target up again under it;   *)
(* a login does not take that lock, and looks its user up only once.       *)
(* Audit rows and workspace events are written in the same transactions    *)
(* and are left out here.                                                  *)
(***************************************************************************)
EXTENDS Naturals, FiniteSets

CONSTANTS Users, Owner,         \* Owner: the one the space starts with
          Roles,                \* roles that are given out, "owner" among them
          Invites, MaxUses,
          Changes,              \* role changes and removals under way
          Logins,               \* GitHub callbacks under way
          Sessions,
          MaxRemovals,          \* bound on the removals of one user
          NoUser, NoInvite

VARIABLES role,      \* space_members: role, "removed", or "none" without a user row
          removals,  \* per user: how often the user was removed
          invite,    \* invites
          change,    \* per change: what it read before the lock
          login,     \* per login: the transaction under way
          session    \* sessions: user, removals at creation, revoked

memberVars == <<role, removals, invite, change, login, session>>

Absent == {"none", "removed"}
NoRequest == [actor |-> NoUser, target |-> NoUser, next |-> "none"]
NoLogin == [stage |-> "idle", user |-> NoUser, code |-> NoInvite, read |-> "none"]
NoRow == [role |-> "none", uses |-> 0, revoked |-> FALSE, expired |-> FALSE]
NoSession == [user |-> NoUser, born |-> 0, revoked |-> FALSE]

(* The shape of every variable.                                            *)
MembershipTypeOK ==
  /\ role \in [Users -> Roles \union Absent] /\ removals \in [Users -> 0..MaxRemovals]
  /\ invite \in [Invites -> [role : Roles \union {"none"}, uses : 0..MaxUses,
                             revoked : BOOLEAN, expired : BOOLEAN]]
  /\ change \in [Changes -> [actor : Users \union {NoUser}, target : Users \union {NoUser},
                               next : Roles \union Absent]]
  /\ login \in [Logins -> [stage : {"idle", "read", "checked", "in"}, user : Users \union {NoUser},
                           code : Invites \union {NoInvite}, read : Roles \union Absent]]
  /\ session \in [Sessions -> [user : Users \union {NoUser}, born : 0..MaxRemovals, revoked : BOOLEAN]]

MembershipInit ==
  /\ role = [u \in Users |-> IF u = Owner THEN "owner" ELSE "none"]
  /\ removals = [u \in Users |-> 0]
  /\ invite = [i \in Invites |-> NoRow]
  /\ change = [q \in Changes |-> NoRequest]
  /\ login = [l \in Logins |-> NoLogin]
  /\ session = [s \in Sessions |-> NoSession]
-----------------------------------------------------------------------------
LookupActor(u) == role[u] \notin Absent
FindMemberRecord(u) == role[u] \notin Absent
CountActiveOwners == Cardinality({u \in Users : role[u] = "owner"})
hasCapability(u) == role[u] = "owner"   \* member.update_role, member.remove

UpdateMemberRole(u, next) == role' = [role EXCEPT ![u] = next]
SetRemoved(u) ==
  /\ role' = [role EXCEPT ![u] = "removed"]
  /\ removals' = [removals EXCEPT ![u] = @ + 1]
RevokeUserSessions(u) ==
  session' = [s \in Sessions |-> IF session[s].user = u
                                 THEN [session[s] EXCEPT !.revoked = TRUE] ELSE session[s]]

(* What both operations check before they wait for the lock; next is the   *)
(* role to give, or "removed".                                             *)
ReadBeforeLock(q, a, u, next) ==
  /\ change[q] = NoRequest
  /\ LookupActor(a) /\ hasCapability(a) /\ u # a /\ FindMemberRecord(u)
  /\ change' = [change EXCEPT ![q] = [actor |-> a, target |-> u, next |-> next]]
  /\ UNCHANGED <<role, removals, invite, login, session>>

(* What the lookups repeated under the lock decide.                        *)
AllowedBeforeLock(r) == FindMemberRecord(r.target)
AllowedUnderLock(r) ==
  /\ LookupActor(r.actor) /\ hasCapability(r.actor) /\ FindMemberRecord(r.target)
  /\ (role[r.target] = "owner" /\ r.next # "owner") => CountActiveOwners > 1

Refuse(q) ==
  /\ change[q] # NoRequest /\ ~AllowedUnderLock(change[q])
  /\ change' = [change EXCEPT ![q] = NoRequest]
  /\ UNCHANGED <<role, removals, invite, login, session>>

CommitRole(q) ==
  LET r == change[q] IN
  /\ r # NoRequest /\ r.next \in Roles /\ AllowedUnderLock(r)
  /\ UpdateMemberRole(r.target, r.next)
  /\ change' = [change EXCEPT ![q] = NoRequest]
  /\ UNCHANGED <<removals, invite, login, session>>

RemoveMember(q) ==
  LET r == change[q] IN
  /\ r # NoRequest /\ r.next = "removed" /\ AllowedUnderLock(r)
  /\ removals[r.target] < MaxRemovals
  /\ SetRemoved(r.target) /\ RevokeUserSessions(r.target)
  /\ change' = [change EXCEPT ![q] = NoRequest]
  /\ UNCHANGED <<invite, login>>
-----------------------------------------------------------------------------
canManageRole(a, r) == role[a] = "owner" \/ (role[a] = "admin" /\ r = "member")
InsertInvite(i, r) == invite' = [invite EXCEPT ![i] = [NoRow EXCEPT !.role = r]]
RevokeInvite(i) == invite' = [invite EXCEPT ![i].revoked = TRUE]

Create(a, i, r) ==
  /\ LookupActor(a) /\ canManageRole(a, r) /\ invite[i].role = "none"
  /\ InsertInvite(i, r)
  /\ UNCHANGED <<role, removals, change, login, session>>

Revoke(a, i) ==
  /\ LookupActor(a) /\ invite[i].role # "none" /\ canManageRole(a, invite[i].role)
  /\ RevokeInvite(i)
  /\ UNCHANGED <<role, removals, change, login, session>>

InviteExpires(i) ==
  /\ invite[i].role # "none" /\ ~invite[i].expired
  /\ invite' = [invite EXCEPT ![i].expired = TRUE]
  /\ UNCHANGED <<role, removals, change, login, session>>
-----------------------------------------------------------------------------
findIdentity(u) == role[u]
inviteFailure(v) == v.role = "none" \/ v.revoked \/ v.expired \/ v.uses >= MaxUses
reserveInvite(i) == invite' = [invite EXCEPT ![i].uses = @ + 1]

(* A member is let in at once; anybody else needs the code of an invite.   *)
AuthenticateGitHub(l, u, i) ==
  /\ login[l] = NoLogin
  /\ \/ findIdentity(u) \notin Absent /\ i = NoInvite
        /\ login' = [login EXCEPT ![l] = [NoLogin EXCEPT !.stage = "in", !.user = u]]
     \/ findIdentity(u) \in Absent /\ i # NoInvite
        /\ login' = [login EXCEPT ![l] = [stage |-> "read", user |-> u, code |-> i, read |-> role[u]]]
  /\ UNCHANGED <<role, removals, invite, change, session>>

(* findInvite, and the refusals that follow from the row it returned.      *)
CheckInvite(l) ==
  /\ login[l].stage = "read"
  /\ login' = [login EXCEPT ![l] = IF inviteFailure(invite[login[l].code]) THEN NoLogin
                                   ELSE [login[l] EXCEPT !.stage = "checked"]]
  /\ UNCHANGED <<role, removals, invite, change, session>>

(* The conditional UPDATE decides again, under the lock of the invite's    *)
(* row; a user row that another login inserted first fails the             *)
(* transaction. The membership row is inserted or overwritten.             *)
CanReserve(i) == ~inviteFailure(invite[i])
AcceptInvite(l) ==
  LET t == login[l] IN
  /\ t.stage = "checked"
  /\ IF CanReserve(t.code) /\ (t.read = "none" => role[t.user] = "none")
     THEN /\ reserveInvite(t.code)
          /\ role' = [role EXCEPT ![t.user] = invite[t.code].role]
          /\ login' = [login EXCEPT ![l] = [NoLogin EXCEPT !.stage = "in", !.user = t.user]]
     ELSE /\ login' = [login EXCEPT ![l] = NoLogin]
          /\ UNCHANGED <<role, invite>>
  /\ UNCHANGED <<removals, change, session>>

(* The callback's last step: a session, for a user who still is a member.  *)
CreateSession(l, s) ==
  LET u == login[l].user IN
  /\ login[l].stage = "in" /\ session[s] = NoSession
  /\ login' = [login EXCEPT ![l] = NoLogin]
  /\ session' = IF LookupActor(u)
                THEN [session EXCEPT ![s] = [user |-> u, born |-> removals[u], revoked |-> FALSE]]
                ELSE session
  /\ UNCHANGED <<role, removals, invite, change>>

RevokeSession(s) ==
  /\ session[s] # NoSession /\ ~session[s].revoked
  /\ session' = [session EXCEPT ![s].revoked = TRUE]
  /\ UNCHANGED <<role, removals, invite, change, login>>

(* Whom a session cookie resolves to.                                      *)
LookupSessionActor(s) ==
  {u \in Users : session[s].user = u /\ ~session[s].revoked /\ role[u] \notin Absent}
-----------------------------------------------------------------------------
MembershipNext ==
  \/ \E q \in Changes, a, u \in Users, next \in Roles \union {"removed"} : ReadBeforeLock(q, a, u, next)
  \/ \E q \in Changes : Refuse(q) \/ CommitRole(q) \/ RemoveMember(q)
  \/ \E a \in Users, i \in Invites, r \in Roles : Create(a, i, r)
  \/ \E a \in Users, i \in Invites : Revoke(a, i)
  \/ \E i \in Invites : InviteExpires(i)
  \/ \E l \in Logins, u \in Users, i \in Invites \union {NoInvite} : AuthenticateGitHub(l, u, i)
  \/ \E l \in Logins : CheckInvite(l) \/ AcceptInvite(l)
  \/ \E l \in Logins, s \in Sessions : CreateSession(l, s)
  \/ \E s \in Sessions : RevokeSession(s)
-----------------------------------------------------------------------------
(* The last owner is neither demoted nor removed by another owner, however *)
(* the requests of several owners interleave. Only an invitation accepted  *)
(* by a login that began before its user became the owner replaces that    *)
(* role.                                                                   *)
LastOwnerKept ==
  [][ CountActiveOwners > 0 =>
        \/ \E u \in Users : role'[u] = "owner"
        \/ \E l \in Logins : login[l].stage = "checked" /\ login'[l].stage = "in"
                             /\ role[login[l].user] = "owner" ]_memberVars

(* An invite that was revoked, has expired or is used up admits nobody,    *)
(* also not a login that had checked it earlier; each admission costs one  *)
(* use.                                                                    *)
InviteHonoured ==
  [][ \A l \in Logins :
        (login[l].stage = "checked" /\ login'[l].stage = "in") =>
           LET i == login[l].code IN
           ~inviteFailure(invite[i]) /\ invite'[i].uses = invite[i].uses + 1 ]_memberVars

(* A cookie from before a removal resolves to nobody, also after the user  *)
(* was invited again.                                                      *)
NoSessionOutlivesRemoval ==
  \A s \in Sessions : \A u \in LookupSessionActor(s) : session[s].born = removals[u]
=============================================================================
