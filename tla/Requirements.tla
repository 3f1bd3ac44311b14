---------------------------- MODULE Requirements ----------------------------
(***************************************************************************)
(* workspace/echo/requirements with the requirement half of echo/delivery: *)
(* one requirement, submitted once, moved on by owners over HTTP or with   *)
(* the buttons of its card, and shown on a card to its submitter and to    *)
(* every owner. A mutation is one transaction under the lock of its public *)
(* id. A courier reads the requirement and projects the card outside any   *)
(* transaction; the transaction that writes the card locks the member and  *)
(* the requirement FOR SHARE, so it is one step here.                      *)
(***************************************************************************)
EXTENDS Naturals, FiniteSets

CONSTANTS People, Submitter, NoPerson,
          ReqCouriers, ReqKeys,
          SubmitKey,    \* the idempotency key of the submission
          Targets,      \* the statuses and archive outcomes owners ask for
          MaxReqRevision, MaxTroubles   \* bounds; a trouble is a change of role or a failure

VARIABLES req,          \* echo_requirements: status, revision (0: not submitted)
          role,         \* space_members: "none" is removed
          idem,         \* echo_requirement_idempotency
          answer,       \* ghost: the answer to a key known before, in the step that gives it
          reqCard,      \* workspace_cards by recipient and card type
          opened,       \* the revision of the card an owner's action has read; 0: none
          reqCourier, troubles

reqVars == <<req, role, idem, answer, reqCard, opened, reqCourier, troubles>>
CardTypes == {"request", "status"}
Statuses == {"planned", "inProgress", "delivered", "implemented", "rejected"}
NoAnswer == [user |-> NoPerson, op |-> "none", key |-> "none", hash |-> <<"none", 0>>, result |-> "none"]
Free == [at |-> "idle", user |-> NoPerson, type |-> "status", revision |-> 0, payload |-> 0, refreshed |-> FALSE]

(* The shape of every variable.                                            *)
RequirementsTypeOK ==
  /\ req.status \in {"none", "pending"} \union Statuses /\ req.revision \in 0..MaxReqRevision
  /\ role \in [People -> {"owner", "member", "none"}] /\ opened \in [People -> 0..MaxReqRevision]
  /\ \A u \in People, t \in CardTypes : /\ reqCard[<<u, t>>].revision \in 0..MaxReqRevision
                                        /\ reqCard[<<u, t>>].payload \in 0..MaxReqRevision
  /\ \A c \in ReqCouriers : reqCourier[c].at \in {"idle", "project", "write"}

RequirementsInit ==
  /\ req = [status |-> "none", revision |-> 0] /\ role = [u \in People |-> IF u = Submitter THEN "member" ELSE "owner"]
  /\ idem = {} /\ answer = NoAnswer /\ reqCard = [p \in People \X CardTypes |-> [revision |-> 0, payload |-> 0]]
  /\ opened = [u \in People |-> 0] /\ reqCourier = [c \in ReqCouriers |-> Free] /\ troubles = 0
-----------------------------------------------------------------------------
Archived(status) == status \in {"implemented", "rejected"}
resolveTarget(status, to) ==
  CASE to = "planned" -> status = "pending"
    [] to = "inProgress" -> status = "planned"
    [] to = "delivered" -> status \in {"planned", "inProgress"}
    [] to = "implemented" -> status = "delivered"
    [] to = "rejected" -> ~Archived(status)

Recorded(u, op, k) == {i \in idem : i.user = u /\ i.op = op /\ i.key = k}
Answers(u, op, k, hash, result) ==
  answer' = [user |-> u, op |-> op, key |-> k, hash |-> hash, result |-> result]
(* The answer of a key that is already known: the stored result of the     *)
(* same request, a conflict for another one.                               *)
replayResult(u, op, k, hash) ==
  IF \E i \in Recorded(u, op, k) : i.hash = hash
  THEN \E i \in Recorded(u, op, k) : Answers(u, op, k, hash, i.result) ELSE answer' = NoAnswer
Accepts(u, op, k, hash, status) ==
  /\ req.revision < MaxReqRevision /\ req' = [status |-> status, revision |-> req.revision + 1]
  /\ answer' = NoAnswer
  /\ idem' = idem \union {[user |-> u, op |-> op, key |-> k, hash |-> hash, result |-> status]}

Refuses(u, op, k, hash) ==
  /\ IF \E i \in Recorded(u, op, k) : i.hash = hash THEN Answers(u, op, k, hash, "conflict") ELSE answer' = NoAnswer
  /\ UNCHANGED <<req, idem>>
Granted(u, k, hash) == \E i \in idem' : i.user = u /\ i.op = "transition" /\ i.key = k /\ i.hash = hash

submitMutation(u, k) ==
  /\ u = Submitter /\ role[u] # "none"
  /\ IF Recorded(u, "submit", k) # {} THEN replayResult(u, "submit", k, <<"submit", 0>>) /\ UNCHANGED <<req, idem>>
     ELSE req.revision = 0 /\ Accepts(u, "submit", k, <<"submit", 0>>, "pending")
  /\ UNCHANGED <<role, reqCard, opened, reqCourier, troubles>>

(* The key is looked up before the revision is compared: a retry of what   *)
(* was accepted names a revision that is past.                             *)
transitionMutation(u, k, to, expected) ==
  IF Recorded(u, "transition", k) # {}
  THEN replayResult(u, "transition", k, <<to, expected>>) /\ UNCHANGED <<req, idem>>
  ELSE IF req.revision # expected \/ ~resolveTarget(req.status, to)
  THEN Refuses(u, "transition", k, <<to, expected>>)
  ELSE Accepts(u, "transition", k, <<to, expected>>, to)
Transition(u, k, to, expected) ==
  /\ req.revision > 0 /\ role[u] = "owner" /\ transitionMutation(u, k, to, expected)
  /\ UNCHANGED <<role, reqCard, opened, reqCourier, troubles>>

(* A card action reads the card; its revision is the one expected of the   *)
(* requirement, and the card is refreshed where it is still that revision. *)
OpenCard(u) ==
  /\ opened[u] = 0 /\ role[u] # "none" /\ reqCard[<<u, "request">>].revision > 0
  /\ opened' = [opened EXCEPT ![u] = reqCard[<<u, "request">>].revision]
  /\ answer' = NoAnswer /\ UNCHANGED <<req, role, idem, reqCard, reqCourier, troubles>>
executeRequirementAction(u, k, to) ==
  /\ opened[u] > 0 /\ opened' = [opened EXCEPT ![u] = 0]
  /\ \/ /\ role[u] = "owner" /\ reqCard[<<u, "request">>].revision = opened[u]
        /\ transitionMutation(u, k, to, opened[u])
        /\ reqCard' = IF ~Granted(u, k, <<to, opened[u]>>) THEN reqCard
                      ELSE [reqCard EXCEPT ![<<u, "request">>] = [revision |-> opened[u] + 1, payload |-> req'.revision]]
     \/ /\ (role[u] # "owner" \/ reqCard[<<u, "request">>].revision # opened[u])
        /\ answer' = NoAnswer /\ UNCHANGED <<req, idem, reqCard>>
  /\ UNCHANGED <<role, reqCourier, troubles>>

RoleMoves(u, r) ==
  /\ troubles < MaxTroubles /\ troubles' = troubles + 1 /\ role[u] # r /\ role' = [role EXCEPT ![u] = r]
  /\ answer' = NoAnswer /\ UNCHANGED <<req, idem, reqCard, opened, reqCourier>>
-----------------------------------------------------------------------------
CardTypeFor(u) == IF role[u] = "owner" THEN "request" ELSE "status"
requirementRecipients == {u \in People : role[u] = "owner" \/ (u = Submitter /\ role[u] # "none")}
SyncRequirement(c, u) ==
  /\ reqCourier[c].at = "idle" /\ req.revision > 0 /\ u \in requirementRecipients
  /\ reqCourier' = [reqCourier EXCEPT ![c] = [Free EXCEPT !.at = "project", !.user = u, !.type = CardTypeFor(u),
                                                          !.revision = req.revision]]
  /\ answer' = NoAnswer /\ UNCHANGED <<req, role, idem, reqCard, opened, troubles>>
projectRequirement(c) ==
  /\ reqCourier[c].at = "project"
  /\ reqCourier' = IF role[reqCourier[c].user] = "none" THEN [reqCourier EXCEPT ![c] = Free]
                   ELSE [reqCourier EXCEPT ![c].at = "write", ![c].payload = req.revision]
  /\ answer' = NoAnswer /\ UNCHANGED <<req, role, idem, reqCard, opened, troubles>>
RequirementRecipientAuthorized(u) == role[u] = "owner" \/ (u = Submitter /\ role[u] # "none")
StaleProjection(c) == req.revision # reqCourier[c].revision
CreateOnly(card, revision, payload) ==
  IF card.revision > 0 THEN card ELSE [payload |-> payload, revision |-> revision]
UpsertCard(card, revision, payload) ==
  IF card.revision >= revision /\ card.payload = payload THEN card
  ELSE [payload |-> payload, revision |-> IF card.revision + 1 > revision THEN card.revision + 1 ELSE revision]
deliverRequirementAttempt(c) ==
  LET w == reqCourier[c] IN
  /\ w.at = "write"
  /\ IF role[w.user] # "none" /\ StaleProjection(c) /\ ~w.refreshed
     THEN /\ reqCourier' = [reqCourier EXCEPT ![c].at = "project", ![c].revision = req.revision, ![c].refreshed = TRUE]
          /\ UNCHANGED reqCard
     ELSE /\ reqCourier' = [reqCourier EXCEPT ![c] = Free]
          /\ IF RequirementRecipientAuthorized(w.user) /\ ~StaleProjection(c)
             THEN reqCard' = [reqCard EXCEPT ![<<w.user, w.type>>] = UpsertCard(@, w.revision, w.payload)]
             ELSE UNCHANGED reqCard
  /\ answer' = NoAnswer /\ UNCHANGED <<req, role, idem, opened, troubles>>
(* A delivery that fails, times out or dies writes nothing but an audit; the next scan repeats it. *)
failRequirement(c) ==
  /\ reqCourier[c].at # "idle" /\ troubles < MaxTroubles /\ troubles' = troubles + 1
  /\ reqCourier' = [reqCourier EXCEPT ![c] = Free]
  /\ answer' = NoAnswer /\ UNCHANGED <<req, role, idem, reqCard, opened>>
-----------------------------------------------------------------------------
RequirementsNext ==
  \/ \E u \in People : submitMutation(u, SubmitKey)
  \/ \E u \in People, k \in ReqKeys, to \in Targets :
       executeRequirementAction(u, k, to) \/ \E e \in 1..req.revision : Transition(u, k, to, e)
  \/ \E u \in People : OpenCard(u) \/ \E r \in {"owner", "member", "none"} : RoleMoves(u, r)
  \/ \E c \in ReqCouriers : \/ projectRequirement(c) \/ deliverRequirementAttempt(c) \/ failRequirement(c)
                            \/ \E u \in People : SyncRequirement(c, u)
(* The worker scans every requirement in turn, for ever, and has no attempt limit. *)
RequirementsFairness ==
  /\ \A c \in ReqCouriers : WF_reqVars(projectRequirement(c) \/ deliverRequirementAttempt(c))
  /\ \A u \in People : SF_reqVars(\E c \in ReqCouriers : SyncRequirement(c, u))
-----------------------------------------------------------------------------
(* A request that was accepted is answered with the same result whenever   *)
(* it is repeated, however far the requirement has moved on since.         *)
RetryAnsweredAlike ==
  [][\A i \in idem : (answer'.user = i.user /\ answer'.op = i.op /\ answer'.key = i.key
                      /\ answer'.hash = i.hash) => answer'.result = i.result]_reqVars
(* The revision a button of the card sends never runs ahead of what the    *)
(* card shows, nor that ahead of the requirement: an action that is        *)
(* accepted was taken on the current state.                                *)
CardNotAhead ==
  \A p \in People \X CardTypes : reqCard[p].revision <= reqCard[p].payload /\ reqCard[p].payload <= req.revision
(* A card is written only for an owner or the submitter, by the roles of   *)
(* that moment and not those of when the recipients were listed.           *)
OnlyParties ==
  [][\A u \in People, t \in CardTypes :
       reqCard'[<<u, t>>] # reqCard[<<u, t>>] => role[u] = "owner" \/ (u = Submitter /\ role[u] # "none")]_reqVars
(* Once changes and failures end, every party's card shows the requirement as it is. *)
EventuallyShown ==
  \A u \in People : <>[](u \in requirementRecipients => reqCard[<<u, CardTypeFor(u)>>].payload = req.revision)
=============================================================================
