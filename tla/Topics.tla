------------------------------- MODULE Topics -------------------------------
(***************************************************************************)
(* workspace/topics, for one topic of a group: its members, messages, the  *)
(* copies of messages synced to the group, and the cards that show them.   *)
(* Every operation reads the topic, waits for the advisory lock            *)
(* "workspace:topic:..." (writers of messages for the conversation's lock  *)
(* before it), reads again and commits. Message ids are their places in    *)
(* the event log.                                                          *)
(***************************************************************************)
EXTENDS Naturals, FiniteSets, Sequences

CONSTANTS Users, Creator,
          Managers,          \* owners and admins of the space
          Requests,          \* operations under way
          RetentionCount,
          Visitors,          \* who marks read, enters and leaves the group: a bound
          MaxMessages, MaxCopies, MaxRevision   \* bounds

VARIABLES status, revision,  \* topics
          inGroup,           \* active members of the group conversation
          joined,            \* topic_members: "none", "in" or "left"
          lastRead,          \* topic_members.last_read_seq
          clock,             \* created_at handed out so far
          post,              \* messages of the topic
          projection,        \* topic_group_projections, by topic message
          copy,              \* group messages made by syncs
          topicCard, syncCard,  \* workspace_cards
          request            \* per request: what it read before the lock

topicVars == <<status, revision, inGroup, joined, lastRead, clock, post, projection, copy,
               topicCard, syncCard, request>>

Statuses == {"open", "closed", "archived"}
Ops == {"join", "leave", "close", "archive", "post", "postSync", "sync", "unsync", "read", "recall"}
NoRequest == [op |-> "none", user |-> Creator, m |-> 0, rev |-> 0, at |-> 0]
NoProjection == [copy |-> 0, removed |-> FALSE]
Posts == DOMAIN post
Live(m) == ~post[m].deleted
Joined == {u \in Users : joined[u] = "in"}

(* The shape of every variable.                                            *)
TopicsTypeOK ==
  /\ status \in Statuses /\ revision \in 1..MaxRevision /\ inGroup \subseteq Users
  /\ joined \in [Users -> {"none", "in", "left"}] /\ lastRead \in [Users -> 0..MaxMessages]
  /\ clock \in 1..MaxMessages /\ Len(post) \in 1..MaxMessages /\ Len(copy) <= MaxCopies
  /\ \A m \in Posts : post[m] \in [author : Users, at : 1..MaxMessages, recalled : BOOLEAN, deleted : BOOLEAN]
  /\ projection \in [1..MaxMessages -> [copy : 0..MaxCopies, removed : BOOLEAN]]
  /\ \A c \in DOMAIN copy : copy[c] \in [of : Posts, shown : BOOLEAN]
  /\ topicCard \in [count : 0..Cardinality(Users), status : Statuses]
  /\ syncCard \in [1..MaxMessages -> [state : {"none", "active", "invalidated"}, status : Statuses]]
  /\ request \in [Requests -> [op : Ops \union {"none"}, user : Users, m : 0..MaxMessages,
                               rev : 0..MaxRevision, at : 0..MaxMessages]]

(* createUsing and createTopicCreationBundle: the topic with its creator,  *)
(* its first message and its card, in one transaction.                     *)
TopicsInit ==
  /\ status = "open" /\ revision = 1 /\ inGroup = Users
  /\ joined = [u \in Users |-> IF u = Creator THEN "in" ELSE "none"]
  /\ lastRead = [u \in Users |-> 0] /\ clock = 1
  /\ post = <<[author |-> Creator, at |-> 1, recalled |-> FALSE, deleted |-> FALSE]>>
  /\ projection = [m \in 1..MaxMessages |-> NoProjection] /\ copy = <<>>
  /\ topicCard = [count |-> 1, status |-> "open"]
  /\ syncCard = [m \in 1..MaxMessages |-> [state |-> "none", status |-> "open"]]
  /\ request = [q \in Requests |-> NoRequest]
-----------------------------------------------------------------------------
topicForActor(u, memberOnly) == u \in inGroup /\ (memberOnly => joined[u] = "in")

(* What is read before the lock: the topic and the membership, a message's *)
(* created_at, the revision a client saw, the newest message to mark read. *)
Begin(q, op, u, m, at) ==
  /\ request[q] = NoRequest
  /\ topicForActor(u, op \notin {"join", "leave", "close", "archive"})
  /\ op \in {"post", "postSync"} => status = "open"
  /\ request' = [request EXCEPT ![q] = [op |-> op, user |-> u, m |-> m, at |-> at,
                                        rev |-> IF op \in {"close", "archive"} THEN revision ELSE 0]]
  /\ clock' = IF at = 0 THEN clock ELSE at
  /\ UNCHANGED <<status, revision, inGroup, joined, lastRead, post, projection, copy, topicCard, syncCard>>

(* Every card that shows the topic is brought up to date.                  *)
RefreshTopicCards ==
  /\ topicCard' = [count |-> Cardinality({u \in Users : joined'[u] = "in"}), status |-> status']
  /\ syncCard' = [m \in 1..MaxMessages |-> [syncCard[m] EXCEPT !.status =
                    IF syncCard[m].state = "none" THEN @ ELSE status']]
-----------------------------------------------------------------------------
RejoinTopicMember(u) == joined' = [joined EXCEPT ![u] = "in"]
LeaveTopicMember(u) == joined' = [joined EXCEPT ![u] = "left"]

JoinTopic(r) ==
  /\ r.op = "join" /\ r.user \in inGroup /\ joined[r.user] # "in" /\ status = "open"
  /\ RejoinTopicMember(r.user) /\ UNCHANGED <<status, revision>> /\ RefreshTopicCards
  /\ UNCHANGED <<lastRead, post, projection, copy>>

LeaveTopic(r) ==
  /\ r.op = "leave" /\ r.user \in inGroup /\ joined[r.user] = "in"
  /\ ~(r.user = Creator /\ status = "open")
  /\ LeaveTopicMember(r.user) /\ UNCHANGED <<status, revision>> /\ RefreshTopicCards
  /\ UNCHANGED <<lastRead, post, projection, copy>>

canManage(u, target) == u \in Managers \/ (target = "closed" /\ u = Creator)
TransitionTopic(target) == status' = target /\ revision' = revision + 1
Transition(r) ==
  LET target == IF r.op = "close" THEN "closed" ELSE "archived" IN
  /\ r.op \in {"close", "archive"} /\ r.rev = revision /\ canManage(r.user, target)
  /\ status = "open" \/ (status = "closed" /\ target = "archived")
  /\ TransitionTopic(target) /\ UNCHANGED joined /\ RefreshTopicCards
  /\ UNCHANGED <<lastRead, post, projection, copy>>
-----------------------------------------------------------------------------
(* What is left when a set of messages loses its copies: projections       *)
(* removed, group messages deleted, cards invalidated.                     *)
UnsyncProjection(ms) ==
  [m \in 1..MaxMessages |-> IF m \in ms /\ projection[m].copy # 0
                            THEN [projection[m] EXCEPT !.removed = TRUE] ELSE projection[m]]
MarkGroupMessageDeleted(ms) ==
  [c \in DOMAIN copy |-> IF \E m \in ms : projection[m].copy = c
                         THEN [copy[c] EXCEPT !.shown = FALSE] ELSE copy[c]]
InvalidateCard(ms) ==
  [m \in 1..MaxMessages |-> IF m \in ms /\ syncCard[m].state = "active"
                            THEN [syncCard[m] EXCEPT !.state = "invalidated"] ELSE syncCard[m]]
Active(m) == projection[m].copy # 0 /\ ~projection[m].removed

(* The messages of the topic beyond the newest RetentionCount.             *)
EnforceTopicRetention(all) ==
  {m \in DOMAIN all : ~all[m].deleted
     /\ Cardinality({n \in DOMAIN all : ~all[n].deleted /\ all[n].at > all[m].at}) >= RetentionCount}

(* ms lose their copies; m, if it is not 0, gets a new copy in the group,  *)
(* with a card, under the projection it may have had before.               *)
Resync(ms, m) ==
  /\ m # 0 => Len(copy) < MaxCopies
  /\ copy' = MarkGroupMessageDeleted(ms) \o (IF m = 0 THEN <<>> ELSE <<[of |-> m, shown |-> TRUE]>>)
  /\ projection' = [n \in 1..MaxMessages |->
       IF n = m THEN [copy |-> Len(copy) + 1, removed |-> FALSE] ELSE UnsyncProjection(ms)[n]]
  /\ syncCard' = [n \in 1..MaxMessages |->
       IF n = m THEN [state |-> "active", status |-> status] ELSE InvalidateCard(ms)[n]]

createSharedMessage(r) ==
  LET all == Append(post, [author |-> r.user, at |-> r.at, recalled |-> FALSE, deleted |-> FALSE])
      victims == EnforceTopicRetention(all)
      m == Len(all) IN
  /\ r.op \in {"post", "postSync"} /\ topicForActor(r.user, TRUE) /\ status = "open"
  /\ m \notin victims
  /\ post' = [n \in DOMAIN all |-> [all[n] EXCEPT !.deleted = @ \/ n \in victims]]
  /\ Resync(victims, IF r.op = "postSync" THEN m ELSE 0)
  /\ UNCHANGED <<status, revision, joined, lastRead, topicCard>>

lockWritableTopic(u) == topicForActor(u, TRUE) /\ status = "open"

SyncMessage(r) ==
  /\ r.op = "sync" /\ lockWritableTopic(r.user) /\ Live(r.m) /\ ~post[r.m].recalled
  /\ ~Active(r.m)
  /\ Resync({}, r.m) /\ UNCHANGED <<status, revision, joined, lastRead, post, topicCard>>

UnsyncMessage(r) ==
  /\ r.op = "unsync" /\ lockWritableTopic(r.user) /\ Active(r.m)
  /\ Resync({r.m}, 0)
  /\ UNCHANGED <<status, revision, joined, lastRead, post, topicCard>>

(* messages.RecallMessage for a message of the topic.                      *)
InvalidateMessageProjection(m) == Resync({m}, 0)
RecallMessage(r) ==
  /\ r.op = "recall" /\ lockWritableTopic(r.user) /\ Live(r.m)
  /\ post[r.m].author = r.user /\ ~post[r.m].recalled
  /\ post' = [post EXCEPT ![r.m].recalled = TRUE]
  /\ InvalidateMessageProjection(r.m)
  /\ UNCHANGED <<status, revision, joined, lastRead, topicCard>>

MarkTopicRead(u, m) == lastRead[u] <= m /\ lastRead' = [lastRead EXCEPT ![u] = m]
MarkRead(r) ==
  /\ r.op = "read" /\ joined[r.user] = "in" /\ MarkTopicRead(r.user, r.m)
  /\ UNCHANGED <<status, revision, joined, post, projection, copy, topicCard, syncCard>>
-----------------------------------------------------------------------------
Commit(q) ==
  /\ request' = [request EXCEPT ![q] = NoRequest]
  /\ \/ JoinTopic(request[q]) \/ LeaveTopic(request[q]) \/ Transition(request[q])
     \/ createSharedMessage(request[q]) \/ SyncMessage(request[q]) \/ UnsyncMessage(request[q])
     \/ RecallMessage(request[q]) \/ MarkRead(request[q])
  /\ UNCHANGED <<inGroup, clock>>

(* A refusal, an error, or nothing to change.                              *)
Refuse(q) ==
  /\ request[q] # NoRequest /\ request' = [request EXCEPT ![q] = NoRequest]
  /\ UNCHANGED <<status, revision, inGroup, joined, lastRead, clock, post, projection, copy, topicCard, syncCard>>

(* Other services: group membership, and the group's own retention and     *)
(* recall, which treat a copy like any message of the group.               *)
GroupChanges(u) ==
  /\ inGroup' = IF u \in inGroup THEN inGroup \ {u} ELSE inGroup \union {u}
  /\ UNCHANGED <<status, revision, joined, lastRead, clock, post, projection, copy, topicCard, syncCard, request>>
CopyGone(c) ==
  /\ copy[c].shown /\ copy' = [copy EXCEPT ![c].shown = FALSE]
  /\ UNCHANGED <<status, revision, inGroup, joined, lastRead, clock, post, projection, topicCard, syncCard, request>>

TopicsNext ==
  \/ \E q \in Requests, u \in Users :
       \/ \E op \in {"join", "leave", "close", "archive"} : revision < MaxRevision /\ Begin(q, op, u, 0, 0)
       \/ \E op \in {"post", "postSync"} : clock < MaxMessages /\ Begin(q, op, u, 0, clock + 1)
       \/ \E op \in {"sync", "unsync", "recall", "read"}, m \in Posts :
            Live(m) /\ (op = "read" => u \in Visitors) /\ Begin(q, op, u, m, 0)
  \/ \E q \in Requests : Commit(q) \/ Refuse(q)
  \/ \E u \in Visitors : GroupChanges(u)
  \/ \E c \in DOMAIN copy : CopyGone(c)
-----------------------------------------------------------------------------
(* What the group shows of a topic message is live in the topic: a copy on *)
(* show belongs to an active projection of a message that is neither       *)
(* recalled nor pruned, and a message has one such copy at most.           *)
CopiesBacked ==
  \A c \in DOMAIN copy : copy[c].shown =>
     LET m == copy[c].of IN
     Active(m) /\ projection[m].copy = c /\ Live(m) /\ ~post[m].recalled

(* The card of a synced message is active just as long as the projection,  *)
(* through syncs, unsyncs, recalls and retention.                          *)
CardsFollowProjections ==
  \A m \in 1..MaxMessages : (syncCard[m].state = "active") <=> Active(m)

(* The cards in the group show the topic's present status and number of    *)
(* members after every commit.                                             *)
CardsCurrent ==
  /\ topicCard = [count |-> Cardinality(Joined), status |-> status]
  /\ \A m \in 1..MaxMessages : syncCard[m].state # "none" => syncCard[m].status = status

(* Nothing is posted, recalled, synced, unsynced or joined once the topic  *)
(* is closed, also not by requests that had found it open; and a topic     *)
(* never opens again.                                                      *)
ClosedIsFinal ==
  [][status # "open" => /\ status' # "open"
                        /\ post' = post /\ projection' = projection
                        /\ \A u \in Users : joined'[u] = "in" => joined[u] = "in"]_topicVars

(* A member's read position never moves back, whatever order two requests  *)
(* to mark the topic read take effect in.                                  *)
ReadMovesForward == [][\A u \in Users : lastRead'[u] >= lastRead[u]]_topicVars
=============================================================================
