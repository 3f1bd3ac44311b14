--------------------------- MODULE Conversations ---------------------------
(***************************************************************************)
(* workspace/conversations: who is in which conversation. Every operation  *)
(* here looks its actor up, waits for the advisory lock                    *)
(* "workspace-members" (and then for the conversation's), looks everything *)
(* up again and commits; the removal of a member from the space holds the  *)
(* same lock, a login that accepts an invite does not. Events, system      *)
(* messages and audit rows are written by the same transactions; messages  *)
(* are in module Messages.                                                 *)
(***************************************************************************)
EXTENDS Naturals, FiniteSets

CONSTANTS Users, Owner,
          Discoverable,     \* users who may be found by a search
          Convs,            \* ids of conversations
          Requests,         \* operations under way
          NoConv

VARIABLES role,      \* space_members: role, "out" after a removal or before a login
          grant,     \* member_visibility_grants: pairs <<viewer, visible>>
          kind,      \* conversations.type, "none" before the insert
          pair,      \* users of a direct conversation (its direct_key)
          in,        \* conversation_members: "none", "in" or "out"
          request    \* per request: operation, actor, conversation, users

conversationVars == <<role, grant, kind, pair, in, request>>

Capable == [direct |-> {"owner", "admin", "member"}, group |-> {"owner", "admin"},
            add |-> {"owner", "admin"}, remove |-> {"owner", "admin"},
            leave |-> {"owner", "admin", "member"}]
NoRequest == [op |-> "none", actor |-> Owner, conv |-> NoConv, users |-> {}]

(* The shape of every variable.                                            *)
ConversationsTypeOK ==
  /\ role \in [Users -> {"owner", "admin", "member", "out"}]
  /\ grant \subseteq Users \X Users
  /\ kind \in [Convs -> {"none", "direct", "group"}]
  /\ pair \in [Convs -> SUBSET Users]
  /\ in \in [Convs -> [Users -> {"none", "in", "out"}]]
  /\ request \in [Requests -> [op : DOMAIN Capable \union {"none"}, actor : Users,
                               conv : Convs \union {NoConv}, users : SUBSET Users]]

ConversationsInit ==
  /\ role = [u \in Users |-> IF u = Owner THEN "owner" ELSE "member"]
  /\ grant = {}
  /\ kind = [c \in Convs |-> "none"] /\ pair = [c \in Convs |-> {}]
  /\ in = [c \in Convs |-> [u \in Users |-> "none"]]
  /\ request = [q \in Requests |-> NoRequest]
-----------------------------------------------------------------------------
FindMember(u) == role[u] # "out"
hasCapability(a, op) == role[a] \in Capable[op]
ConversationMemberActive(c, u) == in[c][u] = "in"
CountActiveConversationMembers(c) == Cardinality({u \in Users : in[c][u] = "in"})
SharesActive(t, a, u) ==
  \E c \in Convs : kind[c] = t /\ ConversationMemberActive(c, a) /\ ConversationMemberActive(c, u)
SharesActiveGroup(a, u) == SharesActive("group", a, u)
MemberVisible(a, u) ==
  \/ role[a] = "owner"
  \/ FindMember(u) /\ (a = u \/ <<a, u>> \in grant \/ SharesActive("direct", a, u))
FindDirectConversation(us) == {c \in Convs : kind[c] = "direct" /\ pair[c] = us}

CreateConversation(c, t, us) ==
  kind[c] = "none" /\ kind' = [kind EXCEPT ![c] = t]
                   /\ pair' = [pair EXCEPT ![c] = IF t = "direct" THEN us ELSE {}]
UpsertConversationMember(c, us) ==
  in' = [in EXCEPT ![c] = [u \in Users |-> IF u \in us THEN "in" ELSE in[c][u]]]
RemoveConversationMember(c, u) == in' = [in EXCEPT ![c][u] = "out"]

Begin(q, op, a, c, us) ==
  /\ request[q] = NoRequest /\ FindMember(a) /\ hasCapability(a, op)
  /\ request' = [request EXCEPT ![q] = [op |-> op, actor |-> a, conv |-> c, users |-> us]]
  /\ UNCHANGED <<role, grant, kind, pair, in>>

(* The lookup and the capability check that follow the lock.               *)
Entitled(r, op) == r.op = op /\ FindMember(r.actor) /\ hasCapability(r.actor, op)
-----------------------------------------------------------------------------
(* createDirect: an existing conversation of the two is returned as it is, *)
(* to an actor who still is in it.                                         *)
DirectAllowed(r) ==
  \E u \in r.users \ {r.actor} :
     /\ FindMember(u)
     /\ MemberVisible(r.actor, u) \/ SharesActiveGroup(r.actor, u) \/ u \in Discoverable
createDirect(r) ==
  /\ DirectAllowed(r) /\ FindDirectConversation(r.users) = {}
  /\ \E c \in Convs : CreateConversation(c, "direct", r.users) /\ UpsertConversationMember(c, r.users)

createGroup(r) ==
  /\ \A u \in r.users \ {r.actor} : FindMember(u) /\ MemberVisible(r.actor, u)
  /\ \E c \in Convs : CreateConversation(c, "group", r.users) /\ UpsertConversationMember(c, r.users)

(* An actor outside the conversation gets an error and the transaction is  *)
(* rolled back, because the conversation is read as the actor sees it.     *)
AddUnchecked(r) ==
  LET u == CHOOSE v \in r.users : TRUE IN
  /\ kind[r.conv] = "group" /\ ~ConversationMemberActive(r.conv, u)
  /\ MemberVisible(r.actor, u) /\ ConversationMemberActive(r.conv, r.actor)
  /\ UpsertConversationMember(r.conv, r.users) /\ UNCHANGED <<kind, pair>>
AddMember(r) ==
  LET u == CHOOSE v \in r.users : TRUE IN
  /\ kind[r.conv] = "group" /\ FindMember(u) /\ ~ConversationMemberActive(r.conv, u)
  /\ MemberVisible(r.actor, u) /\ ConversationMemberActive(r.conv, r.actor)
  /\ UpsertConversationMember(r.conv, r.users) /\ UNCHANGED <<kind, pair>>

RemoveMember(r) ==
  LET u == CHOOSE v \in r.users : TRUE IN
  /\ kind[r.conv] = "group" /\ u # r.actor /\ FindMember(u) /\ ConversationMemberActive(r.conv, u)
  /\ ConversationMemberActive(r.conv, r.actor)
  /\ RemoveConversationMember(r.conv, u) /\ UNCHANGED <<kind, pair>>

LeaveUncounted(r) ==
  /\ kind[r.conv] = "group" /\ ConversationMemberActive(r.conv, r.actor)
  /\ RemoveConversationMember(r.conv, r.actor) /\ UNCHANGED <<kind, pair>>
Leave(r) ==
  /\ kind[r.conv] = "group" /\ ConversationMemberActive(r.conv, r.actor)
  /\ CountActiveConversationMembers(r.conv) > 1
  /\ RemoveConversationMember(r.conv, r.actor) /\ UNCHANGED <<kind, pair>>

Apply(r) ==
  \/ Entitled(r, "direct") /\ createDirect(r)
  \/ Entitled(r, "group") /\ createGroup(r)
  \/ Entitled(r, "add") /\ AddMember(r)
  \/ Entitled(r, "remove") /\ RemoveMember(r)
  \/ Entitled(r, "leave") /\ Leave(r)

(* The transaction under the locks: it commits its effect, or ends with a  *)
(* refusal, an error or nothing to change.                                 *)
Commit(q) ==
  /\ request[q] # NoRequest /\ request' = [request EXCEPT ![q] = NoRequest]
  /\ Apply(request[q]) /\ UNCHANGED <<role, grant>>
Refuse(q) ==
  /\ request[q] # NoRequest /\ request' = [request EXCEPT ![q] = NoRequest]
  /\ UNCHANGED <<role, grant, kind, pair, in>>
-----------------------------------------------------------------------------
(* The members service and the login, as far as conversations see them.    *)
RemoveSpaceMember(u) ==
  /\ u # Owner /\ FindMember(u)
  /\ role' = [role EXCEPT ![u] = "out"]
  /\ in' = [c \in Convs |-> [in[c] EXCEPT ![u] = IF @ = "in" THEN "out" ELSE @]]
  /\ UNCHANGED <<grant, kind, pair, request>>

AcceptInvite(u) ==
  /\ role[u] = "out"
  /\ role' = [role EXCEPT ![u] = "member"]
  /\ UNCHANGED <<grant, kind, pair, in, request>>

UpdateMemberRole(u) ==
  /\ u # Owner /\ FindMember(u)
  /\ role' = [role EXCEPT ![u] = IF @ = "admin" THEN "member" ELSE "admin"]
  /\ UNCHANGED <<grant, kind, pair, in, request>>

UpdateVisibility(a, u) ==
  /\ role[a] = "owner" /\ FindMember(u)
  /\ \E vs \in SUBSET {v \in Users \ {u} : FindMember(v)} :
       grant' = {g \in grant : g[1] # u} \union ({u} \X vs)
  /\ UNCHANGED <<role, kind, pair, in, request>>
-----------------------------------------------------------------------------
ConversationsNext ==
  \/ \E q \in Requests, a \in Users :
       \/ \E u \in Users \ {a} : Begin(q, "direct", a, NoConv, {a, u})
       \/ \E us \in SUBSET (Users \ {a}) \ {{}} : Begin(q, "group", a, NoConv, us \union {a})
       \/ \E op \in {"add", "remove"}, c \in Convs, u \in Users : Begin(q, op, a, c, {u})
       \/ \E c \in Convs : Begin(q, "leave", a, c, {a})
  \/ \E q \in Requests : Commit(q) \/ Refuse(q)
  \/ \E u \in Users : RemoveSpaceMember(u) \/ AcceptInvite(u) \/ UpdateMemberRole(u)
  \/ \E a, u \in Users : UpdateVisibility(a, u)
-----------------------------------------------------------------------------
(* Nobody who left the space is in a conversation, however the removal     *)
(* interleaves with the requests that add users to conversations.          *)
NoMemberOutsideSpace ==
  \A c \in Convs, u \in Users : in[c][u] = "in" => role[u] # "out"

(* Two users have one direct conversation, and who was removed from the    *)
(* space does not return to it: after a new invitation the old direct      *)
(* conversation stays closed to them.                                      *)
DirectUniqueAndFinal ==
  [][ /\ \A c, d \in Convs : (c # d /\ kind'[c] = "direct" /\ kind'[d] = "direct") => pair'[c] # pair'[d]
      /\ \A c \in Convs, u \in Users : (kind[c] = "direct" /\ in[c][u] = "out") => in'[c][u] = "out"
    ]_conversationVars

(* A group loses its last member only when that user is removed from the   *)
(* space, not by members who leave at the same time.                       *)
GroupEmptiedByRemovalOnly ==
  [][ \A c \in Convs :
        (kind[c] = "group" /\ \A u \in Users : in'[c][u] # "in")
          => \A u \in Users : in[c][u] = "in" => role'[u] = "out" ]_conversationVars
=============================================================================
