--------------------------- MODULE Solicitations ----------------------------
(***************************************************************************)
(* workspace/echo/solicitations: one solicitation. Publication, closing,   *)
(* withdrawal and votes hold an advisory lock named after its public id;   *)
(* expiry, which any reader runs once the deadline has passed, locks its   *)
(* internal id, so the two kinds run side by side and only the revision in *)
(* UPDATE ... WHERE revision = $8 decides between them. A request takes    *)
(* the time before it waits for its lock.                                  *)
(***************************************************************************)
EXTENDS Naturals, FiniteSets

CONSTANTS Requests, Voters, NoVoter,
          Keys,             \* idempotency keys of the votes
          AllowVoteChange,
          MaxSolRevision    \* bound

VARIABLES sol,              \* echo_solicitations: status, revision
          past,             \* the deadline has passed
          vote,             \* echo_solicitation_votes: revision of each voter's vote, 0: none
          voteKey,          \* echo_solicitation_idempotency of the votes: who used the key
          ask,              \* the requests: operation, stage, what they have read
          accepted,         \* ghost: how many changes were committed
          counted           \* ghost: votes that took effect, by voter and key

solVars == <<sol, past, vote, voteKey, ask, accepted, counted>>
Ops == {"publish", "close", "withdraw", "vote", "expire"}
Idle == [at |-> "new", op |-> "none", voter |-> NoVoter, key |-> NoVoter, late |-> FALSE,
         read |-> [status |-> "none", revision |-> 0]]

(* The shape of every variable.                                            *)
SolicitationsTypeOK ==
  /\ sol.status \in {"none", "draft", "open", "closed", "withdrawn"} /\ sol.revision \in 0..MaxSolRevision
  /\ past \in BOOLEAN /\ vote \in [Voters -> 0..MaxSolRevision] /\ voteKey \in [Voters -> SUBSET Keys]
  /\ \A r \in Requests : ask[r].at \in {"new", "waits", "locked", "done"} /\ ask[r].op \in Ops \union {"none"}
  /\ accepted \in Nat /\ counted \in [Voters \X Keys -> Nat]

SolicitationsInit ==
  /\ sol = [status |-> "none", revision |-> 0] /\ past = FALSE /\ vote = [v \in Voters |-> 0]
  /\ voteKey = [v \in Voters |-> {}] /\ ask = [r \in Requests |-> Idle]
  /\ accepted = 0 /\ counted = [p \in Voters \X Keys |-> 0]
-----------------------------------------------------------------------------
(* withMutation takes s.nowUTC() and calls the mutation, which then locks. *)
Arrives(r, op, v, k) ==
  /\ ask[r].at = "new" /\ (op = "vote") = (v # NoVoter) /\ (op = "vote") = (k # NoVoter)
  /\ op = "expire" => past /\ sol.status = "open"
  /\ sol.status # "none"
  /\ ask' = [ask EXCEPT ![r] = [Idle EXCEPT !.at = "waits", !.op = op, !.voter = v, !.key = k, !.late = past]]
  /\ UNCHANGED <<sol, past, vote, voteKey, accepted, counted>>
(* publicID for a mutation, solicitationID for expireInTx: two lock keys.  *)
LockKey(op) == IF op = "expire" THEN "id" ELSE "publicId"
Lock(r) ==
  /\ ask[r].at = "waits"
  /\ \A q \in Requests : ~(ask[q].at = "locked" /\ LockKey(ask[q].op) = LockKey(ask[r].op))
  /\ ask' = [ask EXCEPT ![r].at = "locked", ![r].read = sol]
  /\ UNCHANGED <<sol, past, vote, voteKey, accepted, counted>>

Ready(r, op) == ask[r].at = "locked" /\ ask[r].op = op /\ ask' = [ask EXCEPT ![r].at = "done"]
Same == UNCHANGED <<sol, vote, voteKey, accepted, counted>>
UpdateUnconditionally(r, status) ==
  sol.revision < MaxSolRevision /\ sol' = [status |-> status, revision |-> sol.revision + 1] /\ accepted' = accepted + 1
Unchanged(r) == sol.revision = ask[r].read.revision
UpdateSolicitationStateCAS(r, status) ==
  /\ sol.revision = ask[r].read.revision /\ sol.revision < MaxSolRevision
  /\ sol' = [status |-> status, revision |-> sol.revision + 1] /\ accepted' = accepted + 1

(* A retried creation finds its idempotency row and answers as before.     *)
createMutation ==
  /\ sol.status = "none" /\ sol' = [status |-> "draft", revision |-> 1] /\ accepted' = 1
  /\ UNCHANGED <<past, vote, voteKey, ask, counted>>
From(op) == CASE op = "publish" -> {"draft"} [] op = "close" -> {"open"} [] op = "withdraw" -> {"draft", "open"}
To(op) == CASE op = "publish" -> "open" [] op = "close" -> "closed" [] op = "withdraw" -> "withdrawn"
transitionMutation(r, op) ==
  /\ Ready(r, op) /\ UNCHANGED <<past, vote, voteKey, counted>>
  /\ \/ /\ ask[r].read.status \in From(op) /\ ~(op = "publish" /\ ask[r].late)
        /\ UpdateSolicitationStateCAS(r, To(op))
     \/ /\ ask[r].read.status \notin From(op) \/ ~Unchanged(r) \/ (op = "publish" /\ ask[r].late)
        /\ UNCHANGED <<sol, accepted>>

KeyUsed(r) == ask[r].key \in voteKey[ask[r].voter]
(* A vote that started after the deadline closes the solicitation and is   *)
(* refused: the refusal commits the closing.                               *)
ClosesLate(r) == ask[r].late /\ ask[r].read.status = "open"
voteMutation(r) ==
  LET v == ask[r].voter  k == ask[r].key IN
  /\ Ready(r, "vote") /\ UNCHANGED past
  /\ \/ /\ ClosesLate(r) /\ UpdateSolicitationStateCAS(r, "closed") /\ UNCHANGED <<vote, voteKey, counted>>
     \/ ClosesLate(r) /\ ~Unchanged(r) /\ Same
     \/ ~ClosesLate(r) /\ (KeyUsed(r) \/ ask[r].read.status # "open") /\ Same
     \/ /\ ~ClosesLate(r) /\ ~KeyUsed(r) /\ ask[r].read.status = "open"
        /\ \/ vote[v] > 0 /\ ~AllowVoteChange /\ Same
           \/ /\ vote[v] = 0 \/ AllowVoteChange
              /\ UpdateSolicitationStateCAS(r, "open")
              /\ vote' = [vote EXCEPT ![v] = @ + 1] /\ voteKey' = [voteKey EXCEPT ![v] = @ \union {k}]
              /\ counted' = [counted EXCEPT ![<<v, k>>] = @ + 1]
           \/ (vote[v] = 0 \/ AllowVoteChange) /\ ~Unchanged(r) /\ Same

expireInTx(r) ==
  /\ Ready(r, "expire") /\ UNCHANGED <<past, vote, voteKey, counted>>
  /\ \/ ask[r].read.status = "open" /\ UpdateSolicitationStateCAS(r, "closed")
     \/ ask[r].read.status # "open" /\ UNCHANGED <<sol, accepted>>
     \/ ask[r].read.status = "open" /\ ~Unchanged(r) /\ UNCHANGED <<sol, accepted>>
DeadlinePasses == ~past /\ sol.status # "none" /\ past' = TRUE /\ UNCHANGED <<sol, vote, voteKey, ask, accepted, counted>>
-----------------------------------------------------------------------------
SolicitationsNext ==
  \/ createMutation \/ DeadlinePasses
  \/ \E r \in Requests, op \in Ops, v \in Voters \union {NoVoter}, k \in Keys \union {NoVoter} : Arrives(r, op, v, k)
  \/ \E r \in Requests : Lock(r) \/ voteMutation(r) \/ expireInTx(r)
                         \/ \E op \in {"publish", "close", "withdraw"} : transitionMutation(r, op)
-----------------------------------------------------------------------------
(* A vote writes the status open that it has read; it never reopens what   *)
(* an expiry under the other lock has closed meanwhile.                    *)
ClosedStaysClosed == [][sol.status \in {"closed", "withdrawn"} => sol'.status = sol.status]_solVars
(* No committed change overwrites another: the revision counts them all.   *)
NoLostUpdate == sol.revision = accepted
(* A retried vote is counted once, also where votes may be changed.        *)
VotedOncePerKey == \A p \in Voters \X Keys : counted[p] <= 1
-----------------------------------------------------------------------------
(***************************************************************************)
(* workspace/echo/delivery: the card of one solicitation, in the direct    *)
(* conversation of every member with Echo. Couriers (the worker, the       *)
(* member reconciliation, the request that changed the solicitation) check *)
(* a row and project the card outside any transaction; the lease           *)
(* transaction claims row and solicitation with FOR UPDATE SKIP LOCKED,    *)
(* checks again and writes card, message and row at once. A member votes   *)
(* through the card: the revision of the card is the revision the vote     *)
(* expects of the solicitation, so the two have to stay one number.        *)
(***************************************************************************)

CONSTANTS Users,            \* possible recipients, the author of the solicitation aside
          Couriers, NoUser,
          MaxAttempts,      \* maxAttempts: the retry delays and one
          MaxSourceRevision, MaxMishaps    \* bounds

VARIABLES active,           \* space_members: who is a member
          source,           \* echo_solicitations: status, revision, whether published_at is set
          delivery,         \* echo_solicitation_deliveries, by recipient
          echoCard,         \* workspace_cards: revision, and the revision its payload was projected at
          told,             \* messages with an Echo card, by client message id (the revision)
          courier,          \* what each courier is doing
          ballot,           \* the card revision a voter's transaction has read; 0: none open
          mishaps           \* failures, membership changes and retries the owner asks for

echoVars == <<active, source, delivery, echoCard, told, courier, ballot, mishaps>>
Nobody == [at |-> "idle", user |-> NoUser, status |-> "none", attempts |-> 0, due |-> TRUE,
           revision |-> 0, payload |-> 0, refresh |-> 0, force |-> FALSE]
NoRow == [status |-> "none", attempts |-> 0, due |-> TRUE]
Stages == {"idle", "check", "project", "claim", "leased", "fail", "skip"}

(* The shape of every variable.                                            *)
EchoTypeOK ==
  /\ active \subseteq Users /\ source.status \in {"draft", "open", "closed", "withdrawn"}
  /\ source.revision \in 1..MaxSourceRevision
  /\ \A u \in Users : /\ delivery[u].status \in {"none", "pending", "sent", "failed", "skipped"}
                      /\ delivery[u].attempts \in Nat /\ delivery[u].due \in BOOLEAN
                      /\ echoCard[u].revision \in 0..(MaxSourceRevision + 1)
                      /\ told[u] \subseteq 1..MaxSourceRevision /\ ballot[u] \in 0..(MaxSourceRevision + 1)
  /\ \A c \in Couriers : courier[c].at \in Stages /\ courier[c].user \in Users \union {NoUser}

EchoInit ==
  /\ active = Users /\ source = [status |-> "draft", revision |-> 1, published |-> FALSE]
  /\ delivery = [u \in Users |-> NoRow] /\ echoCard = [u \in Users |-> [revision |-> 0, payload |-> 0]]
  /\ told = [u \in Users |-> {}] /\ courier = [c \in Couriers |-> Nobody]
  /\ ballot = [u \in Users |-> 0] /\ mishaps = 0
-----------------------------------------------------------------------------
Leased(c) == courier[c].at = "leased"
(* FOR UPDATE OF d, s: one lease covers the solicitation, whoever the row is for. *)
SourceLocked == \E c \in Couriers : Leased(c)
MemberLocked(u) == \E c \in Couriers : Leased(c) /\ courier[c].user = u
Fresh(u) == [status |-> "pending", attempts |-> 0, due |-> TRUE]
(* ON CONFLICT (solicitation_id, recipient_user_id) DO NOTHING.            *)
InsertDeliveryRows(rows, users) ==
  [u \in Users |-> IF u \in users /\ rows[u].status = "none" THEN Fresh(u) ELSE rows[u]]
markDelivery(u, status) ==
  delivery' = [delivery EXCEPT ![u] = [status |-> status, attempts |-> @.attempts + 1, due |-> status # "failed"]]

(* Changes of the solicitation by the HTTP and command services.           *)
ChangeSource(status) ==
  /\ ~SourceLocked /\ source.revision < MaxSourceRevision
  /\ source' = [status |-> status, revision |-> source.revision + 1,
                published |-> source.published \/ status = "open"]
  /\ UNCHANGED <<active, echoCard, told, courier, ballot, mishaps>>
Publish == source.status = "draft" /\ ChangeSource("open") /\ delivery' = InsertDeliveryRows(delivery, active)
Vote == source.status = "open" /\ ChangeSource("open") /\ UNCHANGED delivery
Close == source.status = "open" /\ ChangeSource("closed") /\ UNCHANGED delivery
Withdraw == source.status \in {"draft", "open"} /\ ChangeSource("withdrawn") /\ UNCHANGED delivery

MemberMoves(u) ==
  /\ mishaps < MaxMishaps /\ mishaps' = mishaps + 1 /\ ~MemberLocked(u)
  /\ active' = IF u \in active THEN active \ {u} ELSE active \union {u}
  /\ UNCHANGED <<source, delivery, echoCard, told, courier, ballot>>

(* The vote of a card action: the card is read first, the solicitation     *)
(* under its lock, then both are updated where their revision is unchanged. *)
ReadBallot(u) ==
  /\ u \in active /\ ballot[u] = 0 /\ echoCard[u].revision > 0
  /\ ballot' = [ballot EXCEPT ![u] = echoCard[u].revision]
  /\ UNCHANGED <<active, source, delivery, echoCard, told, courier, mishaps>>
CastBallot(u) ==
  /\ ballot[u] > 0 /\ ~SourceLocked /\ ballot' = [ballot EXCEPT ![u] = 0]
  /\ IF u \in active /\ source.status = "open" /\ source.revision = ballot[u] /\ echoCard[u].revision = ballot[u]
     THEN /\ source.revision < MaxSourceRevision
          /\ source' = [source EXCEPT !.revision = @ + 1]
          /\ echoCard' = [echoCard EXCEPT ![u] = [revision |-> @.revision + 1, payload |-> source.revision + 1]]
     ELSE UNCHANGED <<source, echoCard>>
  /\ UNCHANGED <<active, delivery, told, courier, mishaps>>
-----------------------------------------------------------------------------
(* Picking rows: the worker's page, all rows of the solicitation, all rows of a member. *)
Takes(c, u, rows, force) ==
  /\ courier[c].at = "idle" /\ rows[u].status # "none"
  /\ courier' = [courier EXCEPT ![c] = [Nobody EXCEPT !.at = "check", !.user = u, !.revision = source.revision,
                   !.status = rows[u].status, !.attempts = rows[u].attempts, !.due = rows[u].due, !.force = force]]
ListSolicitationWork(c, u) ==
  /\ \/ delivery[u].status \in {"pending", "failed"}
     \/ delivery[u].status = "sent" /\ source.status \in {"open", "closed", "withdrawn"}
  /\ Takes(c, u, delivery, FALSE)
  /\ UNCHANGED <<active, source, delivery, echoCard, told, ballot, mishaps>>
(* A solicitation without rows, whatever its status, gets one for every member. *)
EnsureSolicitationDeliveryRows ==
  IF \A u \in Users : delivery[u].status = "none" THEN InsertDeliveryRows(delivery, active) ELSE delivery
SyncSolicitation(c, u, force) ==
  /\ delivery' = EnsureSolicitationDeliveryRows /\ Takes(c, u, delivery', force)
  /\ IF force THEN mishaps < MaxMishaps /\ mishaps' = mishaps + 1 ELSE UNCHANGED mishaps
  /\ source.revision > 1 \/ force
  /\ UNCHANGED <<active, source, echoCard, told, ballot>>
SyncMember(c, u) ==
  LET rows == IF source.status = "open" THEN InsertDeliveryRows(delivery, {u}) ELSE delivery
  IN /\ u \in active /\ Takes(c, u, rows, FALSE) /\ delivery' = rows
     /\ source.status \in {"open", "closed"} \/ rows[u].status # "sent"
     /\ UNCHANGED <<active, source, echoCard, told, ballot, mishaps>>

Moves(c, at) == courier' = [courier EXCEPT ![c].at = at]
Ends(c) == courier' = [courier EXCEPT ![c] = Nobody]
SentIsCurrent(c, row, revision) == row.status = "sent" /\ ~courier[c].force
(* Delivered, and the card shows this revision or a later one.             *)
Replayed(c, row, revision) ==
  row.status = "sent" /\ ~courier[c].force /\ echoCard[courier[c].user].revision >= revision
NotDue(row) == row.status = "failed" /\ ~row.due
Exhausted(row) == row.attempts >= MaxAttempts /\ row.status # "sent"

(* What deliverSolicitation decides from its snapshot of the row, unlocked. *)
CheckRow(c) ==
  LET w == courier[c] IN
  /\ w.at = "check"
  /\ IF w.user \notin active
     THEN IF w.status = "skipped" /\ ~w.force THEN Ends(c) ELSE Moves(c, "skip")
     ELSE IF Replayed(c, w, w.revision) \/ NotDue(w) \/ Exhausted(w) THEN Ends(c)
     ELSE courier' = [courier EXCEPT ![c].at = "project", ![c].revision = source.revision]
  /\ UNCHANGED <<active, source, delivery, echoCard, told, ballot, mishaps>>
ProjectCard(c) ==
  /\ courier[c].at = "project"
  /\ IF courier[c].refresh > 1 \/ source.status = "draft" THEN Moves(c, "fail")
     ELSE courier' = [courier EXCEPT ![c].at = "claim", ![c].payload = source.revision]
  /\ UNCHANGED <<active, source, delivery, echoCard, told, ballot, mishaps>>

ProjectionUnchecked(c) == Moves(c, "leased")
(* The revision the card was projected for must still be the solicitation's. *)
CheckProjection(c) ==
  IF source.revision = courier[c].revision THEN Moves(c, "leased")
  ELSE courier' = [courier EXCEPT ![c].at = "check", ![c].revision = source.revision, ![c].refresh = @ + 1]
StillMember(c) == courier[c].user \in active
ClaimSolicitationDelivery(c) ==
  LET u == courier[c].user IN
  /\ courier[c].at = "claim"
  /\ IF SourceLocked THEN Ends(c) /\ UNCHANGED delivery
     ELSE IF ~StillMember(c)
     THEN /\ Ends(c)
          /\ IF delivery[u].status = "skipped" /\ ~courier[c].force THEN UNCHANGED delivery ELSE markDelivery(u, "skipped")
     ELSE /\ UNCHANGED delivery
          /\ IF NotDue(delivery[u]) \/ Exhausted(delivery[u]) \/ Replayed(c, delivery[u], source.revision)
             THEN Ends(c) ELSE CheckProjection(c)
  /\ UNCHANGED <<active, source, echoCard, told, ballot, mishaps>>

(* A card that shows this already is left alone.                           *)
UpsertEchoCardInTx(u, revision, payload) ==
  IF echoCard[u].revision >= revision /\ echoCard[u].payload = payload THEN UNCHANGED echoCard
  ELSE echoCard' = [echoCard EXCEPT ![u] = [payload |-> payload,
         revision |-> IF @.revision + 1 > revision THEN @.revision + 1 ELSE revision]]
WriteEchoCardAndMessageInTx(c) ==
  LET w == courier[c] IN
  /\ Leased(c) /\ UpsertEchoCardInTx(w.user, w.revision, w.payload)
  /\ told' = [told EXCEPT ![w.user] = @ \union {w.revision}]
  /\ markDelivery(w.user, "sent") /\ Ends(c)
  /\ UNCHANGED <<active, source, ballot, mishaps>>

(* What was delivered by another courier is not reported failed.           *)
NotYetSent(u) == delivery[u].status # "sent"
failSolicitation(c) ==
  /\ courier[c].at = "fail" /\ Ends(c)
  /\ IF ~SourceLocked /\ NotYetSent(courier[c].user)
     THEN markDelivery(courier[c].user, "failed") ELSE UNCHANGED delivery
  /\ UNCHANGED <<active, source, echoCard, told, ballot, mishaps>>
commitSolicitationStatus(c) ==
  /\ courier[c].at = "skip" /\ Ends(c)
  /\ IF SourceLocked THEN UNCHANGED delivery ELSE markDelivery(courier[c].user, "skipped")
  /\ UNCHANGED <<active, source, echoCard, told, ballot, mishaps>>

(* A projection, a write or a commit that fails or times out: rolled back, then recorded. *)
DeliveryFails(c) ==
  /\ mishaps < MaxMishaps /\ mishaps' = mishaps + 1 /\ courier[c].at \in {"project", "leased"} /\ Moves(c, "fail")
  /\ UNCHANGED <<active, source, delivery, echoCard, told, ballot>>
(* The process stops: nothing is recorded, the locks are gone.             *)
CourierDies(c) ==
  /\ mishaps < MaxMishaps /\ mishaps' = mishaps + 1 /\ courier[c].at # "idle" /\ Ends(c)
  /\ UNCHANGED <<active, source, delivery, echoCard, told, ballot>>
retryDue(u) ==
  /\ delivery[u].status = "failed" /\ ~delivery[u].due /\ ~MemberLocked(u)
  /\ delivery' = [delivery EXCEPT ![u].due = TRUE]
  /\ UNCHANGED <<active, source, echoCard, told, courier, ballot, mishaps>>
-----------------------------------------------------------------------------
CourierStep(c) == CheckRow(c) \/ ProjectCard(c) \/ ClaimSolicitationDelivery(c) \/ WriteEchoCardAndMessageInTx(c)
                  \/ failSolicitation(c) \/ commitSolicitationStatus(c)
EchoNext ==
  \/ Publish \/ Vote \/ Close \/ Withdraw
  \/ \E u \in Users : MemberMoves(u) \/ ReadBallot(u) \/ CastBallot(u) \/ retryDue(u)
  \/ \E c \in Couriers, u \in Users : ListSolicitationWork(c, u) \/ SyncMember(c, u)
                                       \/ \E force \in BOOLEAN : SyncSolicitation(c, u, force)
  \/ \E c \in Couriers : CourierStep(c) \/ DeliveryFails(c) \/ CourierDies(c)
(* Every processor runs each 30 s over rows and members in id order and wraps, so each *)
(* row and each member has its turn whenever a courier is free.            *)
EchoFairness ==
  /\ \A c \in Couriers : WF_echoVars(CourierStep(c))
  /\ \A u \in Users : /\ WF_echoVars(retryDue(u))
                      /\ SF_echoVars(\E c \in Couriers : ListSolicitationWork(c, u))
                      /\ SF_echoVars(\E c \in Couriers : SyncMember(c, u))
-----------------------------------------------------------------------------
(* The number a vote through the card is checked against is the revision   *)
(* whose content the card shows, and no card is ahead of its solicitation, *)
(* whatever couriers, votes through cards and other changes interleave.    *)
CardShowsItsRevision ==
  \A u \in Users : echoCard[u].revision = echoCard[u].payload /\ echoCard[u].revision <= source.revision
(* No card is written for somebody who is no member any more, although the *)
(* courier checked membership long before its transaction.                 *)
NoCardAfterRemoval ==
  [][\A u \in Users : echoCard'[u] # echoCard[u] => u \in active]_echoVars
(* A delivery that one courier completed is not turned into a failure by   *)
(* another one that gave up on it.                                         *)
SentNeverFails ==
  [][\A u \in Users : delivery[u].status = "sent" => delivery'[u].status # "failed"]_echoVars
(* Once changes and failures end, the card of every member whose row has   *)
(* attempts left shows the current revision.                               *)
Deliverable(u) == /\ u \in active /\ delivery[u].status # "none"
                  /\ ~Exhausted(delivery[u])
EventuallyCurrent ==
  \A u \in Users : <>[](Deliverable(u) => echoCard[u].revision = source.revision)
=============================================================================
