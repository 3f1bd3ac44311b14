------------------------------ MODULE Messages ------------------------------
(***************************************************************************)
(* workspace/messages and the pins and read markers of                     *)
(* workspace/conversations, for one group conversation. The two services   *)
(* lock the conversation under different keys: messages are created,       *)
(* recalled and reacted to under "workspace:conversation:...", pinned,     *)
(* unpinned and marked read under "conversation:...", so a transaction of  *)
(* one service interleaves with those of the other. A message's created_at *)
(* is read from the clock when its transaction begins, its place in the    *)
(* event log is taken when the event is written.                           *)
(***************************************************************************)
EXTENDS Naturals, FiniteSets, Sequences

CONSTANTS Users,              \* members of the conversation
          Admins,             \* those of them who may unpin what others pinned
          Keys,               \* client message ids
          Contents,
          Creates,            \* creations under way
          RetentionCount, MaxPinnedMessages,
          MaxMessages,        \* bound on the creations
          Nobody

VARIABLES clock,
          message,    \* messages, by the order of their message.created events
          creating,   \* per creation: its transaction
          pinning,    \* the pin transaction under way: user and message
          pinnedBy,   \* conversation_pinned_messages
          pinCount,   \* conversation_pin_counters
          lastRead,   \* conversation_members.last_read_seq, 0 for NULL
          reaction,   \* message_reactions: pairs <<message, user>>
          raced       \* messages pinned after a creation had chosen to prune them

messageVars == <<clock, message, creating, pinning, pinnedBy, pinCount, lastRead, reaction, raced>>

NotCreating == [stage |-> "idle", author |-> Nobody, key |-> Nobody, content |-> Nobody,
                at |-> 0, victims |-> {}]
NotPinning == [user |-> Nobody, m |-> 0]
Ids == DOMAIN message
Live(m) == ~message[m].deleted

(* The shape of every variable.                                            *)
MessagesTypeOK ==
  /\ clock \in 0..MaxMessages /\ Len(message) <= MaxMessages
  /\ \A m \in Ids : message[m] \in [author : Users, key : Keys, content : Contents, at : 1..MaxMessages,
                                    recalled : BOOLEAN, deleted : BOOLEAN]
  /\ creating \in [Creates -> [stage : {"idle", "begun", "applied"}, author : Users \union {Nobody},
                               key : Keys \union {Nobody}, content : Contents \union {Nobody},
                               at : 0..MaxMessages, victims : SUBSET (1..MaxMessages)]]
  /\ pinning \in [user : Users \union {Nobody}, m : 0..MaxMessages]
  /\ pinnedBy \in [1..MaxMessages -> Users \union {Nobody}]
  /\ pinCount \in [Users -> 0..MaxPinnedMessages]
  /\ lastRead \in [Users -> 0..MaxMessages]
  /\ reaction \subseteq (1..MaxMessages) \X Users /\ raced \subseteq 1..MaxMessages

MessagesInit ==
  /\ clock = 0 /\ message = <<>>
  /\ creating = [r \in Creates |-> NotCreating] /\ pinning = NotPinning
  /\ pinnedBy = [m \in 1..MaxMessages |-> Nobody] /\ pinCount = [u \in Users |-> 0]
  /\ lastRead = [u \in Users |-> 0] /\ reaction = {} /\ raced = {}
-----------------------------------------------------------------------------
(* The advisory locks of the two services.                                 *)
lockConversation == \A r \in Creates : creating[r].stage # "applied"
LockPins == pinning = NotPinning

FindMessageByClientID(u, k) == {m \in Ids : message[m].author = u /\ message[m].key = k}
sameMessageContent(m, c) == ~message[m].recalled /\ message[m].content = c

(* Unpinned messages beyond the newest RetentionCount, the new one, of     *)
(* created_at at, being counted as message 0.                              *)
Beyond(kept, at) ==
  LET time(m) == IF m = 0 THEN at ELSE message[m].at
  IN {m \in kept : Cardinality({n \in kept : time(n) > time(m)}) >= RetentionCount}
EnforceRetention(at) == Beyond({0} \union {m \in Ids : Live(m) /\ pinnedBy[m] = Nobody}, at)

CreateMessage(r, u, k, c) ==
  /\ creating[r] = NotCreating /\ clock < MaxMessages
  /\ clock' = clock + 1
  /\ creating' = [creating EXCEPT ![r] = [stage |-> "begun", author |-> u, key |-> k, content |-> c,
                                          at |-> clock + 1, victims |-> {}]]
  /\ UNCHANGED <<message, pinning, pinnedBy, pinCount, lastRead, reaction, raced>>

(* Under the lock: a client id that is known ends the request with the     *)
(* stored message or, for other content, with a conflict; a new message    *)
(* that retention would prune at once is an error.                         *)
createMessageInTransaction(r) ==
  LET t == creating[r]  victims == EnforceRetention(t.at) IN
  /\ t.stage = "begun" /\ lockConversation
  /\ creating' = [creating EXCEPT ![r] =
       IF FindMessageByClientID(t.author, t.key) # {} \/ 0 \in victims THEN NotCreating
       ELSE [t EXCEPT !.stage = "applied", !.victims = victims]]
  /\ UNCHANGED <<clock, message, pinning, pinnedBy, pinCount, lastRead, reaction, raced>>

InsertMessage(t) ==
  Append([m \in Ids |-> [message[m] EXCEPT !.deleted = @ \/ m \in t.victims]],
         [author |-> t.author, key |-> t.key, content |-> t.content, at |-> t.at,
          recalled |-> FALSE, deleted |-> FALSE])

CommitMessage(r) ==
  /\ creating[r].stage = "applied"
  /\ message' = InsertMessage(creating[r])
  /\ creating' = [creating EXCEPT ![r] = NotCreating]
  /\ UNCHANGED <<clock, pinning, pinnedBy, pinCount, lastRead, reaction, raced>>
-----------------------------------------------------------------------------
(* The counter of the user who pinned goes down, whoever removes the pin.  *)
DropPin(m) ==
  /\ pinnedBy' = [pinnedBy EXCEPT ![m] = Nobody]
  /\ pinCount' = [u \in Users |-> IF u = pinnedBy[m] /\ pinCount[u] > 0
                                  THEN pinCount[u] - 1 ELSE pinCount[u]]
DeletePinsUncounted(m) == pinnedBy' = [pinnedBy EXCEPT ![m] = Nobody] /\ UNCHANGED pinCount
DeleteMessagePins(m) == DropPin(m)
DeleteMessageReactions(m) == reaction' = {x \in reaction : x[1] # m}

RecallMessage(u, m) ==
  /\ lockConversation /\ m \in Ids /\ Live(m)
  /\ message[m].author = u /\ ~message[m].recalled
  /\ message' = [message EXCEPT ![m].recalled = TRUE]
  /\ DeleteMessageReactions(m) /\ DeleteMessagePins(m)
  /\ UNCHANGED <<clock, creating, pinning, lastRead, raced>>

AddReaction(m) == m \in Ids /\ Live(m) /\ ~message[m].recalled
setReaction(u, m) ==
  /\ lockConversation
  /\ \/ <<m, u>> \notin reaction /\ AddReaction(m) /\ reaction' = reaction \union {<<m, u>>}
     \/ <<m, u>> \in reaction /\ Live(m) /\ reaction' = reaction \ {<<m, u>>}
  /\ UNCHANGED <<clock, message, creating, pinning, pinnedBy, pinCount, lastRead, raced>>
-----------------------------------------------------------------------------
FindMessageForPin(m) == m \in Ids /\ Live(m)

Pin(u, m) ==
  /\ LockPins /\ FindMessageForPin(m) /\ message[m].author = u /\ pinnedBy[m] = Nobody
  /\ pinning' = [user |-> u, m |-> m]
  /\ UNCHANGED <<clock, message, creating, pinnedBy, pinCount, lastRead, reaction, raced>>

(* The counter first, refused at the limit; then the row.                  *)
AddPin ==
  LET u == pinning.user  m == pinning.m IN
  /\ ~LockPins /\ pinning' = NotPinning
  /\ IF pinCount[u] < MaxPinnedMessages
     THEN /\ pinCount' = [pinCount EXCEPT ![u] = @ + 1]
          /\ pinnedBy' = [pinnedBy EXCEPT ![m] = u]
          /\ raced' = IF ~Live(m) \/ \E r \in Creates : m \in creating[r].victims
                      THEN raced \union {m} ELSE raced
     ELSE UNCHANGED <<pinCount, pinnedBy, raced>>
  /\ UNCHANGED <<clock, message, creating, lastRead, reaction>>

actorCanUnpin(u, m) == u \in Admins \/ message[m].author = u
RemovePin(m) == DropPin(m)
Unpin(u, m) ==
  /\ LockPins /\ FindMessageForPin(m) /\ actorCanUnpin(u, m) /\ pinnedBy[m] # Nobody
  /\ RemovePin(m)
  /\ UNCHANGED <<clock, message, creating, pinning, lastRead, reaction, raced>>

(* The marker moves to the event of the live message with the latest       *)
(* created_at, unless it is there or further already.                      *)
Latest == {m \in Ids : Live(m) /\ \A n \in Ids : Live(n) => message[n].at <= message[m].at}
MarkConversationRead(u) == \E m \in Latest : lastRead[u] <= m /\ lastRead' = [lastRead EXCEPT ![u] = m]
MarkRead(u) ==
  /\ LockPins /\ MarkConversationRead(u)
  /\ UNCHANGED <<clock, message, creating, pinning, pinnedBy, pinCount, reaction, raced>>

-----------------------------------------------------------------------------
MessagesNext ==
  \/ \E r \in Creates, u \in Users, k \in Keys, c \in Contents : CreateMessage(r, u, k, c)
  \/ \E r \in Creates : createMessageInTransaction(r) \/ CommitMessage(r)
  \/ \E u \in Users, m \in Ids : RecallMessage(u, m) \/ setReaction(u, m) \/ Pin(u, m) \/ Unpin(u, m)
  \/ AddPin
  \/ \E u \in Users : MarkRead(u)

MessagesSpec == MessagesInit /\ [][MessagesNext]_messageVars
-----------------------------------------------------------------------------
(* A user's pin counter is the number of the user's pins, through pins,    *)
(* unpins by admins and recalls in any order: no slot is lost or gained.   *)
PinCountExact == \A u \in Users : pinCount[u] = Cardinality({m \in 1..MaxMessages : pinnedBy[m] = u})

(* Retention prunes no pinned message, except one whose pin was added      *)
(* while the pruning creation was already under way.                       *)
PinnedSurvives == \A m \in Ids : (pinnedBy[m] # Nobody /\ message[m].deleted) => m \in raced

(* A retried creation adds no second message, also when both requests are  *)
(* under way at once.                                                      *)
OneMessagePerClientId ==
  \A m, n \in Ids : (message[m].author = message[n].author /\ message[m].key = message[n].key) => m = n

(* A recalled message carries no reaction, whatever arrives later.         *)
RecallErases == \A m \in Ids : message[m].recalled => \A u \in Users : <<m, u>> \notin reaction

=============================================================================
