--------------------------- MODULE EventProjection ---------------------------
(***************************************************************************)
(* workspace/events: how a stored event becomes what one viewer is sent.   *)
(* A projection is a chain of statements, each on a connection of the pool *)
(* of its own: the viewer's role, the visibility of the event, then the    *)
(* rows its references point at, as they are by now. What was read passes  *)
(* an allow-list. Members leave, messages are recalled and connections are *)
(* taken by others between any two statements. One conversation, one       *)
(* message with one attachment, one topic.                                 *)
(***************************************************************************)
EXTENDS Naturals, FiniteSets

CONSTANTS Users,            \* the members, each also a viewer
          Author,           \* wrote the message and uploaded its attachment
          Roles,            \* the assignments of roles it starts with
          Kind,             \* "direct", "robot" (with a system identity) or "group"
          Events,           \* the stored events replayed: [type, topic, card, user]
          PoolSize,         \* connections of the pool
          MaxChanges        \* bound on what happens beside the projections

VARIABLES role,             \* per user: "owner", "member", "auditor", or "none" outside the space
          conv, everConv,   \* the conversation's members, and those it ever had
          joined,           \* the topic's members
          grants,           \* member_visibility_grants: <<viewer, visible>>
          message,          \* "live", "recalled" or "deleted"
          reactors,         \* who reacted to it
          file,             \* its attachment: visibility and status
          listener,         \* the PGListener holds its connection
          proj,             \* one projection per viewer
          changes           \* how much happened beside them

projectionVars == <<role, conv, everConv, joined, grants, message, reactors, file, listener, proj, changes>>
worldVars == <<role, conv, everConv, joined, grants, message, reactors, file, listener, changes>>

Nothing == [message |-> "absent", blocks |-> {}, attachments |-> {}, reactions |-> {}, pinned |-> "absent",
            conversation |-> FALSE, members |-> {}, latest |-> "absent"]
Quiet == [pc |-> "idle", event |-> [type |-> "none", topic |-> FALSE, card |-> FALSE, user |-> Author],
          actor |-> "none", conn |-> FALSE, rows |-> FALSE, todo |-> {}, payload |-> Nothing,
          start |-> [recalled |-> FALSE, member |-> FALSE, changes |-> 0]]
Ended == {"sent", "hidden", "refused", "failed"}
Held == Cardinality({p \in Users : proj[p].conn}) + Cardinality({p \in Users : proj[p].rows})
Free == PoolSize - Held - (IF listener THEN 1 ELSE 0)

(* The shape of every variable.                                            *)
ProjectionTypeOK ==
  /\ role \in [Users -> {"owner", "member", "auditor", "none"}]
  /\ conv \subseteq everConv /\ everConv \subseteq Users /\ joined \subseteq Users
  /\ grants \subseteq Users \X Users /\ message \in {"live", "recalled", "deleted"} /\ reactors \subseteq Users
  /\ file.visibility \in {"private_staging", "conversation", "space"} /\ file.status \in {"available", "removed"}
  /\ Free \in 0..PoolSize /\ changes \in 0..MaxChanges
  /\ \A p \in Users : proj[p].todo \subseteq Users /\ proj[p].payload.members \subseteq
       [id : Users, role : {"owner", "admin", "auditor", "member"}, private : BOOLEAN, canManage : BOOLEAN]

ProjectionInit ==
  /\ role \in Roles /\ conv \in {Users, {Author}} /\ everConv = Users /\ joined = conv /\ grants = {}
  /\ message = "live" /\ reactors = {Author} /\ file = [visibility |-> "conversation", status |-> "available"]
  /\ listener = FALSE /\ proj = [p \in Users |-> Quiet] /\ changes = 0
-----------------------------------------------------------------------------
(* Which events a viewer may see, by what is stored now.                   *)
conversationMemberActive(v) == v \in conv
memberVisible(v, u) ==
  \/ role[v] = "owner"
  \/ role[u] # "none" /\ (v = u \/ <<v, u>> \in grants \/ (Kind # "group" /\ {v, u} \subseteq conv))
removedMemberVisible(v, u) == <<v, u>> \in grants \/ (Kind # "group" /\ {v, u} \subseteq everConv)
participantOnlyConversation == Kind = "robot"
attachmentVisible(v, actor, type) ==
  \/ v = Author
  \/ /\ file.visibility # "private_staging"
     /\ IF file.visibility = "conversation" /\ participantOnlyConversation THEN conversationMemberActive(v)
        ELSE IF type = "attachment.created" THEN actor = "owner"
        ELSE IF file.visibility = "space" THEN actor # "auditor"
        ELSE actor = "owner" \/ (actor = "member" /\ conversationMemberActive(v))
EventVisible(v, actor, e) ==
  IF e.topic
  THEN conversationMemberActive(v) /\ actor # "auditor" /\ (e.type = "message.created" /\ ~e.card => v \in joined)
  ELSE CASE e.type \in {"card.updated"} -> conversationMemberActive(v)
         [] e.type \in {"transfer.rejected", "conversation.notification_updated"} -> e.user = v
         [] e.type = "workspace.member_visibility_updated" -> actor = "owner" \/ e.user = v
         [] e.type = "workspace.member_updated" -> memberVisible(v, e.user)
         [] e.type = "workspace.member_removed" -> actor = "owner" \/ e.user = v \/ removedMemberVisible(v, e.user)
         [] e.type \in {"attachment.created", "attachment.available"} -> attachmentVisible(v, actor, e.type)
         [] OTHER -> actor # "auditor" /\ conversationMemberActive(v)
-----------------------------------------------------------------------------
(* A statement takes a connection, and gives it back with its answer.      *)
Statements == {"actor", "visible", "message", "shares", "attachmentRows", "attachment", "reactions", "flags",
               "conversation", "count", "memberRows", "member", "latest"}
Query(p) ==
  /\ proj[p].pc \in Statements /\ ~proj[p].conn /\ Free > 0
  /\ proj' = [proj EXCEPT ![p].conn = TRUE]
  /\ UNCHANGED worldVars
KeepRows(p) == TRUE
RowsOpen(p) == FALSE
AtStatement(p, pc) == proj[p].pc = pc /\ proj[p].conn
Answer(p, next, payload, todo) ==
  /\ proj' = [proj EXCEPT ![p].pc = next, ![p].conn = FALSE, ![p].payload = payload, ![p].todo = todo]
  /\ UNCHANGED worldVars
(* The rows of a list are closed before the first nested query.            *)
AnswerRows(p, next, todo) ==
  /\ proj' = [proj EXCEPT ![p].pc = next, ![p].conn = FALSE, ![p].rows = RowsOpen(p), ![p].todo = todo]
  /\ UNCHANGED worldVars

(* One wake-up makes every connection project the same event.              *)
GetForActor(p, e) ==
  /\ proj[p].pc = "idle" /\ \A q \in Users : proj[q].pc # "idle" => proj[q].event = e
  /\ proj' = [proj EXCEPT ![p] = [Quiet EXCEPT !.pc = "actor", !.event = e,
       !.start = [recalled |-> message = "recalled", member |-> p \in conv, changes |-> changes]]]
  /\ UNCHANGED worldVars
lookupActor(p) ==
  /\ AtStatement(p, "actor")
  /\ proj' = [proj EXCEPT ![p].pc = IF role[p] = "none" THEN "refused" ELSE "visible",
                          ![p].conn = FALSE, ![p].actor = role[p]]
  /\ UNCHANGED worldVars

(* Which references of an event are refreshed, the first of them.          *)
ProjectEventPayload(e) ==
  CASE e.type = "workspace.member_updated" -> "member"
    [] e.type \in {"conversation.updated", "conversation.notification_updated"} -> "conversation"
    [] e.type = "reaction.added" -> "reactions"
    [] e.type \in {"message.created", "message.recalled"} -> "message"
    [] e.type \in {"attachment.created", "attachment.available"} -> "attachment"
    [] OTHER -> "project"
CheckVisible(p) ==
  /\ AtStatement(p, "visible")
  /\ LET e == proj[p].event
         ok == EventVisible(p, proj[p].actor, e)
     IN Answer(p, IF ok THEN ProjectEventPayload(e) ELSE "hidden", Nothing,
               IF e.type = "workspace.member_updated" THEN {e.user} ELSE {})

(* A member as the viewer may know it.                                     *)
projectedRole(r, actor, self) ==
  IF r = "owner" /\ actor # "owner" THEN "admin"
  ELSE IF r = "auditor" /\ actor # "owner" /\ ~self THEN "member"
  ELSE r
memberCapabilities(r, actor) == r # "none" /\ actor = "owner"
safeMember(v, u, actor) == [id |-> u, role |-> projectedRole(role[u], actor, u = v), private |-> u = v,
                            canManage |-> memberCapabilities(role[u], actor)]
publicMemberPayload(p) ==
  /\ AtStatement(p, "member") /\ proj[p].todo # {}
  /\ LET u == CHOOSE u \in proj[p].todo : TRUE
         rest == proj[p].todo \ {u}
         known == IF role[u] = "none" THEN {} ELSE {safeMember(p, u, proj[p].actor)}
     IN Answer(p, IF rest # {} THEN "member" ELSE IF proj[p].payload.conversation THEN "latest" ELSE "project",
               [proj[p].payload EXCEPT !.members = @ \union known], rest)

(* A message: its row decides what of it may still be told.                *)
safeContent(state) == IF state = "recalled" THEN {} ELSE {"text", "card"}
publicMessagePayload(p) ==
  /\ AtStatement(p, "message")
  /\ LET found == ~proj[p].event.topic /\ message # "deleted"
     IN Answer(p, IF found /\ message = "live" THEN "shares" ELSE "conversation",
               IF found THEN [proj[p].payload EXCEPT !.message = message, !.blocks = safeContent(message)]
               ELSE proj[p].payload, {})
ListMessageShares(p) == AtStatement(p, "shares") /\ Answer(p, "attachmentRows", proj[p].payload, {})
publicMessageAttachments(p) == AtStatement(p, "attachmentRows") /\ AnswerRows(p, "attachment", {})
publicAttachmentPayload(p) ==
  /\ AtStatement(p, "attachment")
  /\ LET canRemove == file.status = "available" /\ (p = Author \/ proj[p].actor = "owner")
     IN Answer(p, IF proj[p].payload.message = "live" THEN "reactions" ELSE "project",
               [proj[p].payload EXCEPT !.attachments = {[status |-> file.status, canRemove |-> canRemove]}], {})
publicMessageReactions(p) ==
  /\ AtStatement(p, "reactions")
  /\ Answer(p, IF proj[p].payload.message = "live" THEN "flags" ELSE "project",
            [proj[p].payload EXCEPT !.reactions = {[user |-> u, mine |-> u = p] : u \in reactors}], {})
HiddenAndPin(p) ==
  /\ AtStatement(p, "flags")
  /\ Answer(p, "conversation", [proj[p].payload EXCEPT !.pinned =
       IF proj[p].actor = "owner" \/ p = Author THEN "canUnpin" ELSE "pinned"], {})

(* A conversation is refreshed only for a viewer who still sees it.        *)
GetVisibleConversationRecord(v) == v \in conv
publicConversationPayload(p) ==
  /\ AtStatement(p, "conversation")
  /\ LET found == GetVisibleConversationRecord(p)
     IN Answer(p, IF found THEN "count" ELSE "project", [proj[p].payload EXCEPT !.conversation = found], {})
CountMembers(p) == AtStatement(p, "count") /\ Answer(p, "memberRows", proj[p].payload, {})
ListMemberRows(p) == AtStatement(p, "memberRows") /\ AnswerRows(p, IF conv = {} THEN "latest" ELSE "member", conv)
publicConversationLatestMessages(p) ==
  /\ AtStatement(p, "latest")
  /\ IF p \in conv
     THEN Answer(p, "project", [proj[p].payload EXCEPT !.latest = IF message = "deleted" THEN "absent" ELSE message], {})
     ELSE Answer(p, "failed", proj[p].payload, {})

(* The allow-list: a key of the payload an event type does not name is not *)
(* sent, and whatever mentions a topic carries references only.            *)
projectPayload(e, payload) ==
  IF e.topic THEN Nothing
  ELSE [payload EXCEPT !.conversation = @ /\ e.type \in {"conversation.updated", "conversation.notification_updated",
                                                          "message.created", "message.recalled"},
                       !.latest = IF payload.conversation THEN @ ELSE "absent"]
projectEvent(p) ==
  /\ proj[p].pc = "project"
  /\ proj' = [proj EXCEPT ![p].pc = "sent", ![p].rows = FALSE,
                          ![p].payload = projectPayload(proj[p].event, proj[p].payload)]
  /\ UNCHANGED worldVars
-----------------------------------------------------------------------------
(* What happens beside the projections.                                    *)
Change == changes < MaxChanges /\ changes' = changes + 1
Recall == Change /\ message = "live" /\ message' = "recalled"
  /\ UNCHANGED <<role, conv, everConv, joined, grants, reactors, file, listener, proj>>
Prune == Change /\ message # "deleted" /\ message' = "deleted"
  /\ UNCHANGED <<role, conv, everConv, joined, grants, reactors, file, listener, proj>>
LeaveConversation(u) == Change /\ u \in conv /\ conv' = conv \ {u} /\ joined' = joined \ {u}
  /\ UNCHANGED <<role, everConv, grants, message, reactors, file, listener, proj>>
RejoinConversation(u) == Change /\ u \notin conv /\ role[u] # "none" /\ conv' = conv \union {u}
  /\ proj' = [proj EXCEPT ![u].start.member = TRUE]
  /\ UNCHANGED <<role, everConv, joined, grants, message, reactors, file, listener>>
RemoveMember(u) == Change /\ role[u] \in {"member", "auditor"} /\ role' = [role EXCEPT ![u] = "none"]
  /\ conv' = conv \ {u} /\ joined' = joined \ {u}
  /\ UNCHANGED <<everConv, grants, message, reactors, file, listener, proj>>
GrantVisibility(v, u) == Change /\ v # u /\ grants' = grants \union {<<v, u>>} /\ grants' # grants
  /\ UNCHANGED <<role, conv, everConv, joined, message, reactors, file, listener, proj>>
RemoveFile == Change /\ file.status = "available" /\ file' = [file EXCEPT !.status = "removed"]
  /\ UNCHANGED <<role, conv, everConv, joined, grants, message, reactors, listener, proj>>
ListenerConnects == ~listener /\ Free > 0 /\ listener' = TRUE
  /\ UNCHANGED <<role, conv, everConv, joined, grants, message, reactors, file, proj, changes>>

ProjectionStep(p) ==
  \/ Query(p) \/ lookupActor(p) \/ CheckVisible(p) \/ publicMemberPayload(p) \/ publicMessagePayload(p)
  \/ ListMessageShares(p) \/ publicMessageAttachments(p) \/ publicAttachmentPayload(p) \/ publicMessageReactions(p)
  \/ HiddenAndPin(p) \/ publicConversationPayload(p) \/ CountMembers(p) \/ ListMemberRows(p)
  \/ publicConversationLatestMessages(p) \/ projectEvent(p)

ProjectionNext ==
  \/ \E p \in Users : ProjectionStep(p) \/ \E e \in Events : GetForActor(p, e)
  \/ Recall \/ Prune \/ RemoveFile \/ ListenerConnects
  \/ \E u \in Users : LeaveConversation(u) \/ RejoinConversation(u) \/ RemoveMember(u)
  \/ \E u, v \in Users : GrantVisibility(v, u)

-----------------------------------------------------------------------------
(* What a recalled message said is in no event whose projection began      *)
(* after the recall, neither as its message nor in the latest messages of  *)
(* its conversation, whichever rows were read when.                        *)
RecalledNeverSent ==
  \A p \in Users : proj[p].pc = "sent" /\ proj[p].start.recalled =>
    proj[p].payload.message # "live" /\ proj[p].payload.latest # "live" /\ proj[p].payload.blocks = {}

(* A viewer who had left the conversation before the projection began, and *)
(* has not come back since, is sent nothing of it.                         *)
NothingAfterLeaving ==
  \A p \in Users : proj[p].pc = "sent" /\ ~proj[p].start.member =>
    proj[p].payload.message = "absent" /\ ~proj[p].payload.conversation /\ proj[p].payload.reactions = {}

(* A projection fails only because something changed under it: an event of *)
(* the past never makes the replay of a viewer fail for good.              *)
FailsOnlyOnChange == \A p \in Users : proj[p].pc = "failed" => changes # proj[p].start.changes

(* The role a viewer is told, in the event or anywhere in a conversation   *)
(* it carries, never tells who owns the space or audits it to someone who  *)
(* is not the owner, and what a member keeps to itself goes only to it.    *)
MasksHold ==
  \A p \in Users : proj[p].pc = "sent" => \A m \in proj[p].payload.members :
    /\ m.role = "owner" => proj[p].actor = "owner"
    /\ m.role = "auditor" => proj[p].actor = "owner" \/ m.id = p
    /\ m.private => m.id = p

(* A topic is told by reference only: its members read it through the topic. *)
TopicsByReference == \A p \in Users : proj[p].pc = "sent" /\ proj[p].event.topic => proj[p].payload = Nothing

(* The pool has one connection for each replay and one for the listener:   *)
(* while a projection is under way one of them has the connection its next *)
(* statement needs, or can take it; none waits for the others' rows.       *)
PoolSuffices ==
  (\E p \in Users : proj[p].pc \notin Ended \union {"idle"}) => Free > 0 \/ \E p \in Users : proj[p].conn
=============================================================================
