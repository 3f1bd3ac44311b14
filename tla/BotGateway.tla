----------------------------- MODULE BotGateway -----------------------------
(***************************************************************************)
(* botgateway.SendMessage and SendCard: a request is validated, waits for  *)
(* the advisory lock of its idempotency key, and in one transaction looks  *)
(* for an earlier answer, writes, validates the token again (locking its   *)
(* row) and stores the answer. The owner may revoke the token meanwhile.   *)
(***************************************************************************)
EXTENDS Naturals, Sequences, FiniteSets, FiniteSetsExt, SequencesExt

CONSTANTS Requests, Keys, Contents, Tokens, NoAnswer

VARIABLES live,        \* tokens not revoked (and the bot is active)
          request,     \* per request: token, key, content and where it is
          answer,      \* workspace_agent_bot_idempotency, by key
          written,     \* committed writes: which request wrote
          late         \* ghost: a write was committed under a revoked token

sendVars == <<live, request, answer, written, late>>
Phases == {"none", "ready", "locked", "wrote", "pinned", "ok", "conflict", "denied"}
NoRequest == [token |-> NoAnswer, key |-> NoAnswer, content |-> NoAnswer, phase |-> "none", got |-> NoAnswer]
Fresh == [content |-> NoAnswer, by |-> NoAnswer, expired |-> FALSE]

(* The shape of every variable.                                            *)
BotSendTypeOK ==
  /\ live \subseteq Tokens /\ written \subseteq Requests /\ late \in BOOLEAN
  /\ \A q \in Requests : request[q].phase \in Phases
  /\ answer \in [Keys -> [content : Contents \union {NoAnswer}, by : Requests \union {NoAnswer}, expired : BOOLEAN]]

BotSendInit ==
  /\ live = Tokens /\ request = [q \in Requests |-> NoRequest]
  /\ answer = [k \in Keys |-> Fresh] /\ written = {} /\ late = FALSE
-----------------------------------------------------------------------------
ValidateAuth(t) == t \in live
Set(q, phase) == request' = [request EXCEPT ![q].phase = phase]

SendMessage(q, t, k, c) ==
  /\ request[q] = NoRequest /\ ValidateAuth(t)
  /\ request' = [request EXCEPT ![q] = [token |-> t, key |-> k, content |-> c, phase |-> "ready", got |-> NoAnswer]]
  /\ UNCHANGED <<live, answer, written, late>>

InTransaction(q) == request[q].phase \in {"locked", "wrote", "pinned"}
Unlocked(k) == TRUE
Lock(k) == \A q \in Requests : InTransaction(q) => request[q].key # k
Stored(k) == answer[k].by # NoAnswer /\ ~answer[k].expired
GetIdempotency(k) == IF Stored(k) THEN answer[k] ELSE Fresh

(* Under the lock: the token once more, then an earlier answer.            *)
withIdempotency(q) ==
  LET r == request[q] old == GetIdempotency(r.key) IN
  /\ r.phase = "ready" /\ Lock(r.key)
  /\ request' = [request EXCEPT
       ![q].phase = IF ~ValidateAuth(r.token) THEN "denied"
                    ELSE IF old.by = NoAnswer THEN "locked"
                    ELSE IF old.content = r.content THEN "ok" ELSE "conflict",
       ![q].got = IF ValidateAuth(r.token) /\ old.content = r.content THEN old.by ELSE @]
  /\ UNCHANGED <<live, answer, written, late>>
callback(q) ==                       \* card and message, not yet committed
  /\ request[q].phase = "locked" /\ Set(q, "wrote") /\ UNCHANGED <<live, answer, written, late>>

(* FOR UPDATE of the token's and the bot's rows: a revocation waits for    *)
(* the transaction, another transaction of the token waits too.            *)
RowFree(t) == \A q \in Requests : request[q].phase = "pinned" => request[q].token # t
validateIdempotentOperationInTx(q) ==
  /\ request[q].phase = "wrote" /\ RowFree(request[q].token)
  /\ Set(q, IF ValidateAuth(request[q].token) THEN "pinned" ELSE "denied")
  /\ UNCHANGED <<live, answer, written, late>>

(* The answer is stored unless the key's row is there, and the transaction *)
(* commits; a row that has expired is not replaced and refuses the key.    *)
InsertIdempotency(q) ==
  LET r == request[q] taken == answer[r.key].by # NoAnswer
      same == Stored(r.key) /\ answer[r.key].content = r.content IN
  /\ r.phase = "pinned"
  /\ request' = [request EXCEPT ![q].phase = IF taken /\ ~same THEN "conflict" ELSE "ok",
                                ![q].got = IF taken THEN answer[r.key].by ELSE q]
  /\ answer' = IF taken THEN answer ELSE [answer EXCEPT ![r.key] = [content |-> r.content, by |-> q, expired |-> FALSE]]
  /\ written' = IF taken /\ ~same THEN written ELSE written \union {q}
  /\ late' = (late \/ (r.token \notin live /\ (taken => same)))
  /\ UNCHANGED live
Fails(q) == /\ InTransaction(q) /\ Set(q, "denied") /\ UNCHANGED <<live, answer, written, late>>

RevokeToken(t) == /\ t \in live /\ RowFree(t) /\ live' = live \ {t} /\ UNCHANGED <<request, answer, written, late>>
KeyExpires(k) ==
  /\ Stored(k) /\ answer' = [answer EXCEPT ![k].expired = TRUE]
  /\ UNCHANGED <<live, request, written, late>>

BotSendNext ==
  \/ \E q \in Requests : \/ withIdempotency(q) \/ callback(q) \/ validateIdempotentOperationInTx(q)
                         \/ InsertIdempotency(q) \/ Fails(q)
                         \/ \E t \in Tokens, k \in Keys, c \in Contents : SendMessage(q, t, k, c)
  \/ \E t \in Tokens : RevokeToken(t)
  \/ \E k \in Keys : KeyExpires(k)
-----------------------------------------------------------------------------
(* However often a request is retried, alone or side by side, one key      *)
(* writes once, and everybody who is told "ok" is told of that write.      *)
OneWritePerKey ==
  /\ \A q, r \in written : request[q].key = request[r].key => q = r
  /\ \A q \in Requests : request[q].phase = "ok" => request[q].got \in written /\ request[request[q].got].content = request[q].content

(* Nothing is committed for a token that was revoked before the commit     *)
(* ("A token can be revoked ... while domain writes are in flight",        *)
(* botgateway/service.go:1710).                                            *)
NoWriteAfterRevocation == ~late
-----------------------------------------------------------------------------
(***************************************************************************)
(* botgateway.Replay: how the events that address a bot reach it. A replay *)
(* expires deliveries, queues recent events as deliveries, lists those     *)
(* after the cursor, authorises each again, looks for a gap and hands over *)
(* what is left: a transaction or a read each, under one lock per event    *)
(* only. Followed step by step are the replays of one socket; those of any *)
(* other caller (HTTP, a second socket) appear as what they may write at   *)
(* any moment, and owners change what the bot may see. One conversation;   *)
(* minute and daily rates are a choice, the backlog is counted.            *)
(***************************************************************************)

CONSTANTS MaxSeq,          \* events ever appended: a bound
          ReplayLimit,     \* limit
          ScanFactor,      \* 4 in the code: recent events and candidates per limit
          BacklogLimit,    \* limits.EventBacklogLimit
          Cursors,         \* what a bot says at hello it has
          MaxReplays, MaxChanges \* bounds on replays; on grant changes, lapses and acknowledgements

VARIABLES current,         \* workspace_events: the newest sequence
          granted,         \* the bot may be triggered here (policy, grant, membership, settings)
          row, overdue,    \* workspace_agent_bot_deliveries: status; expires_at has passed
          replay,          \* where the socket's Replay is
          cursor, open,    \* the socket's cursor; hello received
          replays, changes, \* bounds
          known, skipped   \* ghosts: told to the socket's bot; passed over by a scan

deliveryVars == <<current, granted, row, overdue, replay, cursor, open, replays, changes, known, skipped>>
Events == 1..MaxSeq
Statuses == {"none", "queued", "delivered", "acked", "expired"}
Idle == [at |-> "idle", after |-> 0, todo |-> <<>>, seen |-> 0, out |-> <<>>]

(* The shape of every variable.                                            *)
DeliveryTypeOK ==
  /\ current \in 0..MaxSeq /\ granted \in BOOLEAN /\ row \in [Events -> Statuses]
  /\ overdue \subseteq Events /\ cursor \in 0..MaxSeq /\ open \in BOOLEAN
  /\ replay.at \in {"idle", "scan", "queue", "insert", "sequence", "list",
                   "check", "window", "mark", "send", "sync"}
  /\ replays \in 0..MaxReplays /\ changes \in 0..MaxChanges /\ known \subseteq Events /\ skipped \subseteq Events

DeliveryInit ==
  /\ current = 0 /\ granted = TRUE /\ row = [e \in Events |-> "none"] /\ overdue = {}
  /\ replay = Idle /\ cursor = 0 /\ open = FALSE
  /\ replays = 0 /\ changes = 0 /\ known = {} /\ skipped = {}
-----------------------------------------------------------------------------
Ascending(S) == SetToSortSeq(S, <)
Valid(e) == row[e] \notin {"none", "expired"} /\ e \notin overdue
ListRecentEvents == {e \in 1..current : e + ReplayLimit * ScanFactor > current}
ListDeliveriesAfter(after) ==
  LET rows == {e \in Events : e > after /\ Valid(e)}
  IN {e \in rows : Cardinality({f \in rows : f < e}) <= ReplayLimit * ScanFactor}
authorizeDelivery(e) == granted /\ e <= current
CountPendingDeliveries == Cardinality({e \in Events : row[e] \in {"queued", "delivered"} /\ e \notin overdue})
passesDeliveryRateLimits == CountPendingDeliveries < BacklogLimit
EarliestDeliverySequence ==
  LET rows == {e \in Events : Valid(e)} IN IF rows = {} THEN 0 ELSE Min(rows)
HasExpiredDeliveryAfter(after) == \E e \in Events : e > after /\ row[e] # "none" /\ (row[e] = "expired" \/ e \in overdue)

At(phase) == replay.at = phase
Goes(to) == replay' = to @@ replay
Outside == UNCHANGED <<current, granted, overdue, changes>>
Keep == Outside /\ UNCHANGED replays

(* ValidateAuth, then expireDeliveries.                                    *)
Expire == row' = [e \in Events |-> IF row[e] # "none" /\ e \in overdue THEN "expired" ELSE row[e]]
Replay(after) ==
  /\ At("idle") /\ replays < MaxReplays /\ replays' = replays + 1
  /\ Expire /\ Goes([at |-> "scan", after |-> after])
queueWorkspaceEvents ==
  /\ At("scan") /\ Goes([at |-> "queue", todo |-> Ascending(ListRecentEvents)])
  /\ skipped' = skipped \union ((1..current) \ ListRecentEvents)
  /\ Keep /\ UNCHANGED <<row, cursor, open, known>>
queueEvent ==
  LET todo == replay.todo
      asked == \E within \in BOOLEAN :
                 IF authorizeDelivery(Head(todo)) /\ within /\ passesDeliveryRateLimits
                 THEN Goes([at |-> "insert"]) /\ UNCHANGED skipped
                 ELSE Goes([todo |-> Tail(todo)]) /\ skipped' = skipped \union {Head(todo)}
      scanned == Goes([at |-> "sequence"]) /\ UNCHANGED skipped
  IN /\ At("queue")
     /\ IF todo = <<>> THEN scanned ELSE asked
     /\ Keep /\ UNCHANGED <<row, cursor, open, known>>
InsertDelivery ==            \* ON CONFLICT (bot_id, sequence) DO NOTHING
  LET e == Head(replay.todo) IN
  /\ At("insert")
  /\ row' = [row EXCEPT ![e] = IF @ = "none" THEN "queued" ELSE @]
  /\ Goes([at |-> "queue", todo |-> Tail(replay.todo)])
  /\ Keep /\ UNCHANGED <<cursor, open, known, skipped>>
CurrentSequence ==
  /\ At("sequence")
  /\ Goes([at |-> IF replay.after > current THEN "sync" ELSE "list", seen |-> current])
  /\ Keep /\ UNCHANGED <<row, cursor, open, known, skipped>>
List ==
  /\ At("list")
  /\ Goes([at |-> "check", todo |-> Ascending(ListDeliveriesAfter(replay.after)), out |-> <<>>])
  /\ Keep /\ UNCHANGED <<row, cursor, open, known, skipped>>
ExpireDelivery(e) == row' = [row EXCEPT ![e] = "expired"]
Reauthorize ==
  LET todo == replay.todo IN
  /\ At("check")
  /\ \/ todo = <<>> /\ Goes([at |-> "window"]) /\ UNCHANGED row
     \/ /\ todo # <<>> /\ authorizeDelivery(Head(todo))
        /\ Goes([todo |-> Tail(todo), out |-> Append(replay.out, Head(todo))]) /\ UNCHANGED row
     \/ /\ todo # <<>> /\ ~authorizeDelivery(Head(todo))
        /\ ExpireDelivery(Head(todo)) /\ Goes([todo |-> Tail(todo)])
  /\ Keep /\ UNCHANGED <<cursor, open, known, skipped>>
Gap(after) == \/ HasExpiredDeliveryAfter(after)
              \/ EarliestDeliverySequence > 0 /\ after + 1 < EarliestDeliverySequence
CheckWindow ==
  LET out == replay.out IN
  /\ At("window")
  /\ IF Gap(replay.after) THEN Goes([at |-> "sync"])
     ELSE Goes([at |-> "mark", out |-> SubSeq(out, 1, IF Len(out) > ReplayLimit THEN ReplayLimit ELSE Len(out))])
  /\ Keep /\ UNCHANGED <<row, cursor, open, known, skipped>>
MarkDeliveryDelivered ==
  /\ At("mark")
  /\ row' = [e \in Events |-> IF e \in ToSet(replay.out) /\ row[e] = "queued" THEN "delivered" ELSE row[e]]
  /\ Goes([at |-> "send"])
  /\ Keep /\ UNCHANGED <<cursor, open, known, skipped>>

(* The socket writes what the replay returned.                             *)
Send ==
  LET out == replay.out IN
  /\ At("send") /\ out # <<>>
  /\ known' = known \union {Head(out)} /\ cursor' = IF Head(out) > cursor THEN Head(out) ELSE cursor
  /\ Goes([out |-> Tail(out)])
  /\ Keep /\ UNCHANGED <<row, open, skipped>>
Sent ==
  /\ At("send") /\ replay.out = <<>>
  /\ Goes(Idle) /\ Keep /\ UNCHANGED <<row, cursor, open, known, skipped>>
SyncRequired ==
  /\ At("sync")
  /\ cursor' = replay.seen /\ known' = known \union 1..replay.seen
  /\ Goes(Idle) /\ Keep /\ UNCHANGED <<row, open, skipped>>
(* A statement fails: an error frame, and the cursor stays.                *)
ReplayFails ==
  /\ ~At("idle") /\ ~At("send")
  /\ Goes(Idle) /\ Keep /\ UNCHANGED <<row, cursor, open, known, skipped>>

(* hello: the bot says how far it came; it knows no more than that. The    *)
(* cursor of the socket is set before the first event goes out, so it is   *)
(* here unless the first replay fails (then it stays 0).                   *)
Hello(after) ==
  /\ ~open /\ Replay(after)
  /\ open' = TRUE /\ cursor' \in {0, after} /\ known' = 1..after
  /\ Outside /\ UNCHANGED skipped
pollReplay ==
  /\ open /\ Replay(cursor)
  /\ Outside /\ UNCHANGED <<cursor, open, known, skipped>>
ConnectionLost ==
  /\ open /\ open' = FALSE /\ Goes(Idle) /\ cursor' = 0
  /\ Keep /\ UNCHANGED <<row, known, skipped>>
(* What a replay of another caller writes. Its scan, too, goes upwards:    *)
(* whatever lies below an event it queues was queued or passed over.       *)
ScannedBelow(e) == \A f \in 1..e - 1 : row[f] # "none" \/ f \in skipped
OtherQueues(e) ==
  /\ e <= current /\ row[e] = "none" /\ ScannedBelow(e)
  /\ \/ /\ authorizeDelivery(e) /\ row' = [row EXCEPT ![e] = "queued"] /\ UNCHANGED skipped
     \/ e \notin skipped /\ skipped' = skipped \union {e} /\ UNCHANGED row
  /\ Keep /\ UNCHANGED <<replay, cursor, open, known>>
OtherExpires(e) ==
  /\ row[e] \notin {"none", "expired"} /\ (e \in overdue \/ ~authorizeDelivery(e))
  /\ ExpireDelivery(e) /\ Keep /\ UNCHANGED <<replay, cursor, open, known, skipped>>
(* By sequence or event id, whatever the row's status; the bot knows it.   *)
Acknowledge(e) ==
  /\ row[e] \notin {"none", "acked"}
  /\ row' = [row EXCEPT ![e] = "acked"] /\ known' = known \union {e}
  /\ UNCHANGED <<current, granted, overdue, replay, cursor, open, replays, skipped>>

AppendEvent ==
  /\ current < MaxSeq /\ current' = current + 1
  /\ UNCHANGED <<granted, row, overdue, replay, cursor, open, replays, changes, known, skipped>>
(* UpdateGroupPolicy, UpdateContextGrant, UpdateSettings, Pause and Resume. *)
ChangeGrant ==
  /\ granted' = ~granted
  /\ UNCHANGED <<current, row, overdue, replay, cursor, open, replays, known, skipped>>
Lapse(e) ==
  /\ row[e] # "none" /\ e \notin overdue /\ overdue' = overdue \union {e}
  /\ UNCHANGED <<current, granted, row, replay, cursor, open, replays, known, skipped>>
Change ==
  /\ changes < MaxChanges /\ changes' = changes + 1
  /\ ChangeGrant \/ \E e \in Events : Acknowledge(e) \/ Lapse(e)

ReplaySteps == \/ queueWorkspaceEvents \/ queueEvent \/ InsertDelivery \/ CurrentSequence
                  \/ List \/ Reauthorize \/ CheckWindow \/ MarkDeliveryDelivered
                  \/ Send \/ Sent \/ SyncRequired
DeliveryNext ==
  \/ ReplaySteps \/ ReplayFails
  \/ \E c \in Cursors : Hello(c)
  \/ pollReplay \/ ConnectionLost \/ AppendEvent \/ Change
  \/ \E e \in Events : OtherQueues(e) \/ OtherExpires(e)
-----------------------------------------------------------------------------
(* The cursor of a socket never passes an event in silence: whatever lies  *)
(* at or below it was written to the bot, acknowledged by it, covered by a *)
(* sync_required, or passed over by some replay's scan (not authorised,    *)
(* over a limit, out of the recent window). Expiry, revocation and other   *)
(* replays between the steps open no gap.                                  *)
DeliveredOrTold == open => 1..cursor \subseteq known \union skipped
=============================================================================
