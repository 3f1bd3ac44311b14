------------------------------- MODULE MCEcho -------------------------------
(***************************************************************************)
(* Echo, the built-in bot: solicitations and their votes, requirements,    *)
(* release announcements, the delivery of the solicitation cards, and the  *)
(* automation calls.  part says which of them a behaviour is about.        *)
(***************************************************************************)
EXTENDS Naturals, FiniteSets, Sequences, TLAPS

CONSTANTS Users, Couriers, NoUser, MaxAttempts, MaxSourceRevision, MaxMishaps,
          Requests, Voters, NoVoter, Keys, AllowVoteChange, MaxSolRevision,
          People, Submitter, NoPerson, ReqCouriers, ReqKeys, SubmitKey, Targets, MaxReqRevision, MaxTroubles,
          Members, NoMember, Guides, NoGuide, RelCouriers, MaxRelAttempts, MaxRelTroubles,
          AutomationCalls, AutomationKeys

ASSUME EchoAssumption ==
  /\ {MaxSourceRevision, MaxSolRevision} \subseteq Nat \ {0} /\ MaxReqRevision \in Nat
  /\ Targets \subseteq {"planned", "inProgress", "delivered", "implemented", "rejected"}
  /\ Guides # {}

VARIABLES part,
          active, source, delivery, echoCard, told, courier, ballot, mishaps,
          sol, past, vote, voteKey, ask, accepted, counted,
          req, role, idem, answer, reqCard, opened, reqCourier, troubles,
          joined, catalog, publication, row, relCard, relCourier, relTroubles,
          db, run, evidence, call

S == INSTANCE Solicitations
Q == INSTANCE Requirements
R == INSTANCE Releases
A == INSTANCE EchoAutomation WITH
       Calls <- AutomationCalls, Keys <- AutomationKeys

echoVars == <<active, source, delivery, echoCard, told, courier, ballot, mishaps>>
solVars == <<sol, past, vote, voteKey, ask, accepted, counted>>
reqVars == <<req, role, idem, answer, reqCard, opened, reqCourier, troubles>>
relVars == <<joined, catalog, publication, row, relCard, relCourier, relTroubles>>
automationVars == <<db, run, evidence, call>>
vars == <<part, echoVars, solVars, reqVars, relVars, automationVars>>

Init == /\ part \in {"card", "vote", "requirement", "release", "automation"}
        /\ S!EchoInit /\ S!SolicitationsInit /\ Q!RequirementsInit /\ R!ReleasesInit
        /\ A!AutomationInit

(* A step of part p: the other parts stand still.                          *)
Only(p) ==
  /\ part = p /\ UNCHANGED part
  /\ IF p = "card" THEN TRUE ELSE UNCHANGED echoVars
  /\ IF p = "vote" THEN TRUE ELSE UNCHANGED solVars
  /\ IF p = "requirement" THEN TRUE ELSE UNCHANGED reqVars
  /\ IF p = "release" THEN TRUE ELSE UNCHANGED relVars
  /\ IF p = "automation" THEN TRUE ELSE UNCHANGED automationVars

CardStep == Only("card") /\ S!EchoNext
VoteStep == Only("vote") /\ S!SolicitationsNext
RequirementStep == Only("requirement") /\ Q!RequirementsNext
ReleaseStep == Only("release") /\ R!ReleasesNext
AutomationStep == Only("automation") /\ A!AutomationNext

Next == CardStep \/ VoteStep \/ RequirementStep \/ ReleaseStep \/ AutomationStep
(* A part that is not the behaviour's own never leaves its initial state,  *)
(* where nothing its fairness asks for is enabled.                         *)
Spec == Init /\ [][Next]_vars /\ S!EchoFairness /\ Q!RequirementsFairness

TypeOK == /\ part = "card" => S!EchoTypeOK
          /\ part = "vote" => S!SolicitationsTypeOK
          /\ part = "requirement" => Q!RequirementsTypeOK
          /\ part = "release" => R!ReleasesTypeOK
          /\ part = "automation" => A!AutomationTypeOK

(* What is shown and counted is what was asked for: a card shows its own   *)
(* revision and never one ahead of the record, no vote or update is lost   *)
(* or counted twice, a release is announced to a member once, and a        *)
(* refused automation call leaves its refusal and nothing else.            *)
EchoConsistent ==
  /\ TypeOK
  /\ part = "card" => S!CardShowsItsRevision
  /\ part = "vote" => S!NoLostUpdate /\ S!VotedOncePerKey
  /\ part = "requirement" => Q!CardNotAhead
  /\ part = "release" => R!OneAnnouncement
  /\ part = "automation" => A!RefusalLeavesNoRows /\ A!RejectionWitnessed /\ A!TroubleIsNoRefusal
(* Steps no courier and no request may take: a card for someone who was    *)
(* removed, a delivery that was sent and then fails, a closed solicitation *)
(* opened, a retry answered otherwise, a requirement moved by a stranger.  *)
EchoStepsAllowed ==
  /\ S!NoCardAfterRemoval /\ S!SentNeverFails
  /\ S!ClosedStaysClosed
  /\ Q!RetryAnsweredAlike /\ Q!OnlyParties
  /\ R!AnnouncedToMembersOnly /\ R!AnnouncedNeverFails
(* Every recipient's card catches up with the last revision.               *)
EventuallyCurrent == S!EventuallyCurrent
(* Every party to a requirement sees a card of it in the end.              *)
EventuallyShown == Q!EventuallyShown
-----------------------------------------------------------------------------
(***************************************************************************)
(* The cards of a solicitation. What a courier holds is never ahead of the *)
(* solicitation, and under the lease it is level with it: nothing else may *)
(* change the solicitation or remove the member until the card is written. *)
(***************************************************************************)
CardSpec == S!EchoInit /\ [][S!EchoNext]_(S!echoVars)

DeliveryStatus == {"none", "pending", "sent", "failed", "skipped"}
SourceRow == [status : {"draft", "open", "closed", "withdrawn"}, revision : 1..MaxSourceRevision,
              published : BOOLEAN]
DeliveryRow == [status : DeliveryStatus, attempts : Nat, due : BOOLEAN]
CardRow == [revision : Nat, payload : Nat]
Courier == [at : S!Stages, user : Users \union {NoUser}, status : DeliveryStatus, attempts : Nat, due : BOOLEAN,
            revision : Nat, payload : Nat, refresh : Nat, force : BOOLEAN]
CardsTyped ==
  /\ active \subseteq Users /\ source \in SourceRow /\ delivery \in [Users -> DeliveryRow]
  /\ echoCard \in [Users -> CardRow] /\ told \in [Users -> SUBSET (1..MaxSourceRevision)]
  /\ courier \in [Couriers -> Courier] /\ ballot \in [Users -> 0..MaxSourceRevision]
(* The numbers a courier carries, by stage.                                *)
CarriesOK(w) ==
  /\ w.at # "idle" => w.user \in Users
  /\ w.revision <= source.revision /\ w.payload <= source.revision
  /\ w.at = "claim" => w.revision <= w.payload
  /\ w.at = "leased" => w.revision = source.revision /\ w.payload = source.revision /\ w.user \in active
Carried == \A c \in Couriers : CarriesOK(courier[c])
CardsInv == CardsTyped /\ Carried /\ S!CardShowsItsRevision

LEMMA SourceNumbers == MaxSourceRevision \in Nat /\ MaxSourceRevision > 0
BY EchoAssumption
LEMMA NobodyOK == S!Nobody \in Courier /\ S!NoRow \in DeliveryRow
BY DEF Courier, S!Nobody, S!Stages, DeliveryStatus, DeliveryRow, S!NoRow

LEMMA CardsInitially == S!EchoInit => CardsInv
<1> SUFFICES ASSUME S!EchoInit PROVE CardsInv OBVIOUS
<1> USE SourceNumbers DEF S!EchoInit
<1>1. source \in SourceRow BY DEF SourceRow
<1>2. echoCard \in [Users -> CardRow] BY DEF CardRow
<1>3. CardsTyped BY <1>1, <1>2, NobodyOK DEF CardsTyped
<1>4. Carried BY DEF Carried, CarriesOK, S!Nobody
<1>5. S!CardShowsItsRevision BY DEF S!CardShowsItsRevision
<1> QED BY <1>3, <1>4, <1>5 DEF CardsInv

(* A courier that takes no lease, while the solicitation stays.            *)
LEMMA CourierMove ==
  ASSUME CardsInv, NEW c \in Couriers, NEW w \in Courier, courier' = [courier EXCEPT ![c] = w],
         CarriesOK(w), UNCHANGED <<active, source, echoCard, told, ballot>>, delivery' \in [Users -> DeliveryRow]
  PROVE  CardsInv'
<1> USE DEF CardsInv
<1>1. CardsTyped' BY DEF CardsTyped
<1>2. Carried'
  <2> SUFFICES ASSUME NEW x \in Couriers PROVE CarriesOK(courier[x])' BY DEF Carried
  <2>1. courier'[x] = IF x = c THEN w ELSE courier[x] BY DEF CardsTyped
  <2>2. CarriesOK(courier'[x]) BY <2>1 DEF Carried
  <2> QED BY <2>2 DEF CarriesOK
<1>3. S!CardShowsItsRevision' BY DEF S!CardShowsItsRevision
<1> QED BY <1>1, <1>2, <1>3

LEMMA EndsStep ==
  ASSUME CardsInv, NEW c \in Couriers, S!Ends(c),
         UNCHANGED <<active, source, echoCard, told, ballot>>, delivery' \in [Users -> DeliveryRow]
  PROVE  CardsInv'
<1>1. CarriesOK(S!Nobody)
  BY DEF CarriesOK, S!Nobody, CardsInv, CardsTyped, SourceRow
<1> QED BY <1>1, CourierMove, NobodyOK DEF S!Ends
(* A courier that goes to a stage without a lease.                         *)
LEMMA MovesStep ==
  ASSUME CardsInv, NEW c \in Couriers, NEW at \in {"fail", "skip"}, S!Moves(c, at), courier[c].at # "idle",
         UNCHANGED <<active, source, echoCard, told, ballot>>, delivery' \in [Users -> DeliveryRow]
  PROVE  CardsInv'
<1> DEFINE w == [courier[c] EXCEPT !.at = at]
<1>0. courier[c] \in Courier BY DEF CardsInv, CardsTyped
<1>1. courier' = [courier EXCEPT ![c] = w] BY DEF S!Moves, CardsInv, CardsTyped, Courier
<1>2. w \in Courier BY <1>0 DEF Courier, S!Stages
<1>3. w.at = at /\ w.user = courier[c].user /\ w.revision = courier[c].revision /\ w.payload = courier[c].payload
  BY <1>0 DEF Courier
<1>4. CarriesOK(courier[c]) BY DEF CardsInv, Carried
<1> HIDE DEF w
<1>5. CarriesOK(w) BY <1>3, <1>4 DEF CarriesOK
<1> QED BY <1>1, <1>2, <1>5, CourierMove

LEMMA MarkStep ==
  ASSUME CardsTyped, NEW u \in Users, NEW status \in DeliveryStatus, S!markDelivery(u, status)
  PROVE  delivery' \in [Users -> DeliveryRow]
<1> DEFINE new == [status |-> status, attempts |-> delivery[u].attempts + 1, due |-> status # "failed"]
<1>1. delivery' = [delivery EXCEPT ![u] = new] BY DEF S!markDelivery
<1>2. delivery[u].attempts + 1 \in Nat BY DEF CardsTyped, DeliveryRow
<1>3. (status # "failed") \in BOOLEAN OBVIOUS
<1>4. new \in DeliveryRow BY <1>2, <1>3, Zenon DEF DeliveryRow
<1> HIDE DEF new
<1> QED BY <1>1, <1>4 DEF CardsTyped

LEMMA InsertOK ==
  ASSUME NEW rows \in [Users -> DeliveryRow], NEW users
  PROVE  S!InsertDeliveryRows(rows, users) \in [Users -> DeliveryRow]
<1>1. \A u \in Users : S!Fresh(u) \in DeliveryRow BY DEF S!Fresh, DeliveryRow, DeliveryStatus
<1> QED BY <1>1 DEF S!InsertDeliveryRows

LEMMA TakesStep ==
  ASSUME CardsInv, NEW c \in Couriers, NEW u \in Users, NEW force \in BOOLEAN, delivery' \in [Users -> DeliveryRow],
         S!Takes(c, u, delivery', force), UNCHANGED <<active, source, echoCard, told, ballot>>
  PROVE  CardsInv'
<1> DEFINE w == [S!Nobody EXCEPT !.at = "check", !.user = u, !.revision = source.revision,
                   !.status = delivery'[u].status, !.attempts = delivery'[u].attempts, !.due = delivery'[u].due,
                   !.force = force]
<1>1. courier' = [courier EXCEPT ![c] = w] BY DEF S!Takes
<1>2. delivery'[u] \in DeliveryRow OBVIOUS
<1>3. source.revision \in Nat BY SourceNumbers DEF CardsInv, CardsTyped, SourceRow
<1>4. w \in Courier BY <1>2, <1>3, NobodyOK DEF Courier, DeliveryRow, S!Stages
<1>5. w.at = "check" /\ w.user = u /\ w.revision = source.revision /\ w.payload = 0
  BY <1>2, <1>3 DEF S!Nobody
<1> HIDE DEF w
<1>6. CarriesOK(w) BY <1>3, <1>5 DEF CarriesOK
<1> QED BY <1>1, <1>4, <1>6, CourierMove

(* The solicitation moves on while nobody holds its lease.                 *)
LEMMA SourceMoves ==
  ASSUME CardsInv, ~S!SourceLocked, source' \in SourceRow, source'.revision = source.revision + 1, courier' = courier
  PROVE  Carried'
<1> SUFFICES ASSUME NEW c \in Couriers PROVE CarriesOK(courier[c])' BY DEF Carried
<1>1. CarriesOK(courier[c]) /\ courier[c] \in Courier BY DEF CardsInv, CardsTyped, Carried
<1>2. courier[c].at # "leased" BY DEF S!SourceLocked, S!Leased
<1>3. source.revision \in Nat BY SourceNumbers DEF CardsInv, CardsTyped, SourceRow
<1> QED BY <1>1, <1>2, <1>3 DEF CarriesOK, Courier

LEMMA ChangeSourceStep ==
  ASSUME CardsInv, NEW status \in {"draft", "open", "closed", "withdrawn"}, S!ChangeSource(status),
         delivery' \in [Users -> DeliveryRow]
  PROVE  CardsInv'
<1> DEFINE shown == source.published \/ status = "open"
<1>0. source' = [status |-> status, revision |-> source.revision + 1, published |-> shown] BY DEF S!ChangeSource
<1>1. shown \in BOOLEAN OBVIOUS
<1>2. source.revision \in Nat /\ source.revision + 1 \in 1..MaxSourceRevision
  BY SourceNumbers DEF S!ChangeSource, CardsInv, CardsTyped, SourceRow
<1> HIDE DEF shown
<1>3. source' \in SourceRow BY <1>0, <1>1, <1>2, Zenon DEF SourceRow
<1>4. source'.revision = source.revision + 1 BY <1>0
<1>5. UNCHANGED <<active, echoCard, told, courier, ballot>> /\ ~S!SourceLocked BY DEF S!ChangeSource
<1>6. CardsTyped' BY <1>3, <1>5 DEF CardsInv, CardsTyped
<1>7. Carried' BY <1>3, <1>4, <1>5, SourceMoves
<1>8. S!CardShowsItsRevision' BY <1>2, <1>4, <1>5 DEF CardsInv, CardsTyped, CardRow, S!CardShowsItsRevision
<1> QED BY <1>6, <1>7, <1>8 DEF CardsInv

LEMMA CastStep ==
  ASSUME CardsInv, NEW u \in Users, S!CastBallot(u)
  PROVE  CardsInv'
<1>0. UNCHANGED <<active, delivery, told, courier>> /\ ~S!SourceLocked /\ ballot' = [ballot EXCEPT ![u] = 0]
  BY DEF S!CastBallot
<1>1. ballot' \in [Users -> 0..MaxSourceRevision] BY <1>0, SourceNumbers DEF CardsInv, CardsTyped
<1>2. source \in SourceRow /\ echoCard \in [Users -> CardRow] BY DEF CardsInv, CardsTyped
<1>3. CASE UNCHANGED <<source, echoCard>>
  <2>1. CardsTyped' BY <1>0, <1>1, <1>3 DEF CardsInv, CardsTyped
  <2>2. Carried' BY <1>0, <1>3 DEF CardsInv, Carried, CarriesOK
  <2>3. S!CardShowsItsRevision' BY <1>3 DEF CardsInv, S!CardShowsItsRevision
  <2> QED BY <2>1, <2>2, <2>3 DEF CardsInv
<1>4. CASE /\ source.revision = ballot[u] /\ echoCard[u].revision = ballot[u] /\ source.revision < MaxSourceRevision
           /\ source' = [source EXCEPT !.revision = @ + 1]
           /\ echoCard' = [echoCard EXCEPT ![u] = [revision |-> @.revision + 1, payload |-> source.revision + 1]]
  <2>1. source.revision \in Nat /\ source.revision + 1 \in 1..MaxSourceRevision
    BY <1>4, <1>2, SourceNumbers DEF SourceRow
  <2>2. source' \in SourceRow /\ source'.revision = source.revision + 1 BY <1>4, <1>2, <2>1 DEF SourceRow
  <2> DEFINE new == [revision |-> source.revision + 1, payload |-> source.revision + 1]
  <2>3. echoCard' = [echoCard EXCEPT ![u] = new] BY <1>4
  <2>4. new \in CardRow /\ new.revision = source.revision + 1 /\ new.payload = source.revision + 1 BY <2>1 DEF CardRow
  <2> HIDE DEF new
  <2>5. CardsTyped' BY <1>0, <1>1, <2>2, <2>3, <2>4 DEF CardsInv, CardsTyped
  <2>6. Carried' BY <1>0, <2>2, SourceMoves
  <2>7. S!CardShowsItsRevision'
    BY <2>1, <2>2, <2>3, <2>4, <1>2 DEF CardsInv, CardRow, S!CardShowsItsRevision
  <2> QED BY <2>5, <2>6, <2>7 DEF CardsInv
<1> QED BY <1>3, <1>4 DEF S!CastBallot

(* The rest of what members, voters and time do.                           *)
LEMMA MemberStep ==
  ASSUME CardsInv, NEW u \in Users, S!MemberMoves(u) \/ S!ReadBallot(u) \/ S!retryDue(u)
  PROVE  CardsInv'
<1>1. CASE S!MemberMoves(u)
  <2>0. ~S!MemberLocked(u) /\ UNCHANGED <<source, delivery, echoCard, told, courier, ballot>>
        /\ active' \in SUBSET Users /\ active \ {u} \subseteq active'
    BY <1>1 DEF S!MemberMoves, CardsInv, CardsTyped
  <2>1. CardsTyped' BY <2>0 DEF CardsInv, CardsTyped
  <2>2. Carried'
    <3> SUFFICES ASSUME NEW c \in Couriers PROVE CarriesOK(courier[c])' BY DEF Carried
    <3>1. CarriesOK(courier[c]) BY DEF CardsInv, Carried
    <3>2. courier[c].at = "leased" => courier[c].user # u BY <2>0 DEF S!MemberLocked, S!Leased
    <3> QED BY <2>0, <3>1, <3>2 DEF CarriesOK
  <2>3. S!CardShowsItsRevision' BY <2>0 DEF CardsInv, S!CardShowsItsRevision
  <2> QED BY <2>1, <2>2, <2>3 DEF CardsInv
<1>2. CASE S!ReadBallot(u)
  <2>0. UNCHANGED <<active, source, delivery, echoCard, told, courier>>
        /\ ballot' = [ballot EXCEPT ![u] = echoCard[u].revision]
    BY <1>2 DEF S!ReadBallot
  <2>1. echoCard[u].revision \in 0..MaxSourceRevision
    BY SourceNumbers DEF CardsInv, CardsTyped, CardRow, SourceRow, S!CardShowsItsRevision
  <2>2. CardsTyped' BY <2>0, <2>1 DEF CardsInv, CardsTyped
  <2>3. Carried' BY <2>0 DEF CardsInv, Carried, CarriesOK
  <2>4. S!CardShowsItsRevision' BY <2>0 DEF CardsInv, S!CardShowsItsRevision
  <2> QED BY <2>2, <2>3, <2>4 DEF CardsInv
<1>3. CASE S!retryDue(u)
  <2>0. UNCHANGED <<active, source, echoCard, told, courier, ballot>>
        /\ delivery' = [delivery EXCEPT ![u].due = TRUE]
    BY <1>3 DEF S!retryDue
  <2>1. delivery' \in [Users -> DeliveryRow] BY <2>0 DEF CardsInv, CardsTyped, DeliveryRow
  <2>2. CardsTyped' BY <2>0, <2>1 DEF CardsInv, CardsTyped
  <2>3. Carried' BY <2>0 DEF CardsInv, Carried, CarriesOK
  <2>4. S!CardShowsItsRevision' BY <2>0 DEF CardsInv, S!CardShowsItsRevision
  <2> QED BY <2>2, <2>3, <2>4 DEF CardsInv
<1> QED BY <1>1, <1>2, <1>3

(* Couriers take rows, whichever list they came from.                      *)
LEMMA PickStep ==
  ASSUME CardsInv, NEW c \in Couriers, NEW u \in Users,
         \/ S!ListSolicitationWork(c, u) \/ S!SyncMember(c, u)
         \/ \E force \in BOOLEAN : S!SyncSolicitation(c, u, force)
  PROVE  CardsInv'
<1>0. delivery \in [Users -> DeliveryRow] BY DEF CardsInv, CardsTyped
<1>1. CASE S!ListSolicitationWork(c, u)
  <2>1. delivery' = delivery BY <1>1 DEF S!ListSolicitationWork
  <2>2. S!Takes(c, u, delivery, FALSE) /\ UNCHANGED <<active, source, echoCard, told, ballot>>
    BY <1>1 DEF S!ListSolicitationWork
  <2>3. S!Takes(c, u, delivery', FALSE) BY <2>1, <2>2
  <2> QED BY <1>0, <2>1, <2>2, <2>3, TakesStep
<1>2. CASE S!SyncMember(c, u)
  <2>1. delivery' = IF source.status = "open" THEN S!InsertDeliveryRows(delivery, {u}) ELSE delivery
    BY <1>2 DEF S!SyncMember
  <2>2. S!Takes(c, u, delivery', FALSE) /\ UNCHANGED <<active, source, echoCard, told, ballot>>
    BY <1>2 DEF S!SyncMember
  <2>3. delivery' \in [Users -> DeliveryRow] BY <1>0, <2>1, InsertOK
  <2> QED BY <2>2, <2>3, TakesStep
<1>3. ASSUME NEW force \in BOOLEAN, S!SyncSolicitation(c, u, force) PROVE CardsInv'
  <2>1. /\ delivery' = S!EnsureSolicitationDeliveryRows /\ S!Takes(c, u, delivery', force)
        /\ UNCHANGED <<active, source, echoCard, told, ballot>>
    BY <1>3 DEF S!SyncSolicitation
  <2>2. delivery' \in [Users -> DeliveryRow] BY <1>0, <2>1, InsertOK DEF S!EnsureSolicitationDeliveryRows
  <2> QED BY <2>1, <2>2, TakesStep
<1> QED BY <1>1, <1>2, <1>3

LEMMA CheckRowStep ==
  ASSUME CardsInv, NEW c \in Couriers, S!CheckRow(c)
  PROVE  CardsInv'
<1>0. /\ courier[c].at = "check" /\ UNCHANGED <<active, source, delivery, echoCard, told, ballot>>
      /\ delivery' \in [Users -> DeliveryRow] /\ courier[c] \in Courier /\ CarriesOK(courier[c])
  BY DEF S!CheckRow, CardsInv, CardsTyped, Carried
<1>1. CASE S!Ends(c) BY <1>0, <1>1, EndsStep
<1>2. CASE S!Moves(c, "skip") BY <1>0, <1>2, MovesStep
<1>3. CASE courier' = [courier EXCEPT ![c].at = "project", ![c].revision = source.revision]
  <2> DEFINE w == [courier[c] EXCEPT !.at = "project", !.revision = source.revision]
  <2>1. courier' = [courier EXCEPT ![c] = w] BY <1>3, <1>0 DEF CardsInv, CardsTyped, Courier
  <2>2. source.revision \in Nat BY SourceNumbers DEF CardsInv, CardsTyped, SourceRow
  <2>3. w \in Courier BY <1>0, <2>2 DEF Courier, S!Stages
  <2>4. w.at = "project" /\ w.user = courier[c].user /\ w.revision = source.revision /\ w.payload = courier[c].payload
    BY <1>0 DEF Courier
  <2> HIDE DEF w
  <2>5. CarriesOK(w) BY <1>0, <2>2, <2>4 DEF CarriesOK
  <2> QED BY <1>0, <2>1, <2>3, <2>5, CourierMove
<1> QED BY <1>1, <1>2, <1>3 DEF S!CheckRow

LEMMA ProjectStep ==
  ASSUME CardsInv, NEW c \in Couriers, S!ProjectCard(c)
  PROVE  CardsInv'
<1>0. /\ courier[c].at = "project" /\ UNCHANGED <<active, source, delivery, echoCard, told, ballot>>
      /\ delivery' \in [Users -> DeliveryRow] /\ courier[c] \in Courier /\ CarriesOK(courier[c])
  BY DEF S!ProjectCard, CardsInv, CardsTyped, Carried
<1>1. CASE S!Moves(c, "fail") BY <1>0, <1>1, MovesStep
<1>2. CASE courier' = [courier EXCEPT ![c].at = "claim", ![c].payload = source.revision]
  <2> DEFINE w == [courier[c] EXCEPT !.at = "claim", !.payload = source.revision]
  <2>1. courier' = [courier EXCEPT ![c] = w] BY <1>2, <1>0 DEF CardsInv, CardsTyped, Courier
  <2>2. source.revision \in Nat BY SourceNumbers DEF CardsInv, CardsTyped, SourceRow
  <2>3. w \in Courier BY <1>0, <2>2 DEF Courier, S!Stages
  <2>4. w.at = "claim" /\ w.user = courier[c].user /\ w.revision = courier[c].revision /\ w.payload = source.revision
    BY <1>0 DEF Courier
  <2> HIDE DEF w
  <2>5. CarriesOK(w) BY <1>0, <2>2, <2>4 DEF CarriesOK
  <2> QED BY <1>0, <2>1, <2>3, <2>5, CourierMove
<1> QED BY <1>1, <1>2 DEF S!ProjectCard

(* The projection is level with the solicitation or it is made again.      *)
LEMMA ProjectionStep ==
  ASSUME CardsInv, NEW c \in Couriers, courier[c].at = "claim", courier[c].user \in active, S!CheckProjection(c),
         UNCHANGED <<active, source, delivery, echoCard, told, ballot>>
  PROVE  CardsInv'
<1>0. delivery' \in [Users -> DeliveryRow] /\ courier[c] \in Courier /\ CarriesOK(courier[c])
  BY DEF CardsInv, CardsTyped, Carried
<1>a. source.revision \in Nat BY SourceNumbers DEF CardsInv, CardsTyped, SourceRow
<1>1. CASE source.revision = courier[c].revision
  <2> DEFINE w == [courier[c] EXCEPT !.at = "leased"]
  <2>1. courier' = [courier EXCEPT ![c] = w]
    BY <1>1, <1>0 DEF S!CheckProjection, S!Moves, CardsInv, CardsTyped, Courier
  <2>2. w \in Courier BY <1>0 DEF Courier, S!Stages
  <2>3. w.at = "leased" /\ w.user = courier[c].user /\ w.revision = courier[c].revision /\ w.payload = courier[c].payload
    BY <1>0 DEF Courier
  <2> HIDE DEF w
  <2>4. courier[c].payload = source.revision BY <1>0, <1>1, <1>a DEF CarriesOK, Courier
  <2>5. CarriesOK(w) BY <1>0, <1>1, <1>a, <2>3, <2>4 DEF CarriesOK
  <2> QED BY <1>0, <2>1, <2>2, <2>5, CourierMove
<1>2. CASE source.revision # courier[c].revision
  <2> DEFINE n == courier[c].refresh + 1
             w == [courier[c] EXCEPT !.at = "check", !.revision = source.revision, !.refresh = n]
  <2>1. courier' = [courier EXCEPT ![c] = w]
    BY <1>2, <1>0 DEF S!CheckProjection, CardsInv, CardsTyped, Courier
  <2>a. n \in Nat BY <1>0 DEF Courier
  <2> HIDE DEF n
  <2>2. w \in Courier BY <1>0, <1>a, <2>a DEF Courier, S!Stages
  <2>3. w.at = "check" /\ w.user = courier[c].user /\ w.revision = source.revision /\ w.payload = courier[c].payload
    BY <1>0 DEF Courier
  <2> HIDE DEF w
  <2>4. CarriesOK(w) BY <1>0, <1>a, <2>3 DEF CarriesOK
  <2> QED BY <1>0, <2>1, <2>2, <2>4, CourierMove
<1> QED BY <1>1, <1>2

LEMMA ClaimStep ==
  ASSUME CardsInv, NEW c \in Couriers, S!ClaimSolicitationDelivery(c)
  PROVE  CardsInv'
<1>0. /\ courier[c].at = "claim" /\ UNCHANGED <<active, source, echoCard, told, ballot>>
      /\ courier[c].user \in Users /\ delivery \in [Users -> DeliveryRow]
  BY DEF S!ClaimSolicitationDelivery, CardsInv, CardsTyped, Carried, CarriesOK
<1>1. CASE S!Ends(c) /\ UNCHANGED delivery BY <1>0, <1>1, EndsStep
<1>2. CASE S!Ends(c) /\ S!markDelivery(courier[c].user, "skipped")
  <2>1. delivery' \in [Users -> DeliveryRow] BY <1>0, <1>2, MarkStep DEF CardsInv, DeliveryStatus
  <2> QED BY <1>0, <1>2, <2>1, EndsStep
<1>3. CASE courier[c].user \in active /\ S!CheckProjection(c) /\ UNCHANGED delivery
  BY <1>0, <1>3, ProjectionStep
<1> QED BY <1>1, <1>2, <1>3 DEF S!ClaimSolicitationDelivery, S!StillMember

(* Under the lease the card is written level with the solicitation.        *)
LEMMA WriteStep ==
  ASSUME CardsInv, NEW c \in Couriers, S!WriteEchoCardAndMessageInTx(c)
  PROVE  CardsInv' /\ \A u \in Users : echoCard'[u] # echoCard[u] => u = courier[c].user
<1> DEFINE u == courier[c].user  new == [payload |-> source.revision, revision |-> source.revision]
<1>0. /\ courier[c].at = "leased" /\ UNCHANGED <<active, source, ballot>> /\ S!Ends(c) /\ S!markDelivery(u, "sent")
      /\ told' = [told EXCEPT ![u] = @ \union {courier[c].revision}]
      /\ S!UpsertEchoCardInTx(u, courier[c].revision, courier[c].payload)
  BY DEF S!WriteEchoCardAndMessageInTx, S!Leased
<1>1. courier[c].revision = source.revision /\ courier[c].payload = source.revision /\ u \in Users
  BY <1>0 DEF CardsInv, CardsTyped, Carried, CarriesOK
<1>2. source.revision \in Nat /\ source.revision \in 1..MaxSourceRevision
  BY SourceNumbers DEF CardsInv, CardsTyped, SourceRow
<1>3. echoCard \in [Users -> CardRow] /\ echoCard[u] \in CardRow BY <1>1 DEF CardsInv, CardsTyped
<1>4. echoCard[u].revision = echoCard[u].payload /\ echoCard[u].revision <= source.revision
  BY <1>1 DEF CardsInv, S!CardShowsItsRevision
<1>a. S!UpsertEchoCardInTx(u, source.revision, source.revision) BY <1>0, <1>1
<1> HIDE DEF u
<1>5. echoCard' = echoCard \/ echoCard' = [echoCard EXCEPT ![u] = new]
  <2>1. CASE echoCard[u].revision >= source.revision
    <3>1. echoCard[u].payload = source.revision BY <2>1, <1>2, <1>3, <1>4 DEF CardRow
    <3> QED BY <2>1, <3>1, <1>a DEF S!UpsertEchoCardInTx
  <2>2. CASE ~(echoCard[u].revision >= source.revision)
    <3>1. (IF echoCard[u].revision + 1 > source.revision THEN echoCard[u].revision + 1 ELSE source.revision)
          = source.revision
      BY <2>2, <1>2, <1>3 DEF CardRow
    <3> QED BY <2>2, <3>1, <1>a DEF S!UpsertEchoCardInTx
  <2> QED BY <2>1, <2>2
<1>6. new \in CardRow /\ new.revision = source.revision /\ new.payload = source.revision BY <1>2 DEF CardRow
<1> HIDE DEF new
<1>7. echoCard' \in [Users -> CardRow] /\ \A x \in Users : echoCard'[x] # echoCard[x] => x = u
  BY <1>3, <1>5, <1>6
<1>8. S!CardShowsItsRevision'
  <2> SUFFICES ASSUME NEW x \in Users
               PROVE echoCard'[x].revision = echoCard'[x].payload /\ echoCard'[x].revision <= source.revision
    BY <1>0 DEF S!CardShowsItsRevision
  <2>1. CASE echoCard'[x] = echoCard[x] BY <2>1 DEF CardsInv, S!CardShowsItsRevision
  <2>2. CASE echoCard'[x] = new BY <2>2, <1>2, <1>6
  <2> QED BY <2>1, <2>2, <1>3, <1>5
<1>9. told' \in [Users -> SUBSET (1..MaxSourceRevision)] BY <1>0, <1>1, <1>2 DEF CardsInv, CardsTyped
<1>10. delivery' \in [Users -> DeliveryRow] BY <1>0, <1>1, MarkStep DEF CardsInv, DeliveryStatus, u
<1>11. courier' \in [Couriers -> Courier] BY <1>0, NobodyOK DEF S!Ends, CardsInv, CardsTyped
<1>12. CardsTyped' BY <1>0, <1>7, <1>9, <1>10, <1>11 DEF CardsInv, CardsTyped
<1>13. Carried'
  <2> SUFFICES ASSUME NEW x \in Couriers PROVE CarriesOK(courier[x])' BY DEF Carried
  <2>1. courier'[x] = IF x = c THEN S!Nobody ELSE courier[x] BY <1>0 DEF S!Ends, CardsInv, CardsTyped
  <2>2. CarriesOK(S!Nobody) BY <1>2 DEF CarriesOK, S!Nobody
  <2>3. CarriesOK(courier'[x]) BY <2>1, <2>2 DEF CardsInv, Carried
  <2> QED BY <2>3, <1>0 DEF CarriesOK
<1> QED BY <1>7, <1>8, <1>12, <1>13 DEF CardsInv, u

LEMMA GiveUpStep ==
  ASSUME CardsInv, NEW c \in Couriers,
         S!failSolicitation(c) \/ S!commitSolicitationStatus(c) \/ S!DeliveryFails(c) \/ S!CourierDies(c)
  PROVE  CardsInv'
<1>0. courier[c].at # "idle" => courier[c].user \in Users BY DEF CardsInv, Carried, CarriesOK
<1>a. delivery \in [Users -> DeliveryRow] BY DEF CardsInv, CardsTyped
<1>1. CASE S!failSolicitation(c)
  <2>1. delivery' \in [Users -> DeliveryRow] BY <1>1, <1>0, <1>a, MarkStep DEF S!failSolicitation, CardsInv, DeliveryStatus
  <2> QED BY <1>1, <2>1, EndsStep DEF S!failSolicitation
<1>2. CASE S!commitSolicitationStatus(c)
  <2>1. delivery' \in [Users -> DeliveryRow]
    BY <1>2, <1>0, <1>a, MarkStep DEF S!commitSolicitationStatus, CardsInv, DeliveryStatus
  <2> QED BY <1>2, <2>1, EndsStep DEF S!commitSolicitationStatus
<1>3. CASE S!DeliveryFails(c) BY <1>3, <1>a, MovesStep DEF S!DeliveryFails
<1>4. CASE S!CourierDies(c) BY <1>4, <1>a, EndsStep DEF S!CourierDies
<1> QED BY <1>1, <1>2, <1>3, <1>4

(* Every step of couriers, voters, members and the owner keeps it.         *)
LEMMA CardsStepInv == CardsInv /\ [S!EchoNext]_(S!echoVars) => CardsInv'
<1> SUFFICES ASSUME CardsInv, [S!EchoNext]_(S!echoVars) PROVE CardsInv' OBVIOUS
<1>0. delivery \in [Users -> DeliveryRow] BY DEF CardsInv, CardsTyped
<1>1. CASE S!Publish
  <2>1. S!ChangeSource("open") /\ delivery' \in [Users -> DeliveryRow] BY <1>0, <1>1, InsertOK DEF S!Publish
  <2> QED BY <2>1, ChangeSourceStep
<1>2. CASE S!Vote \/ S!Close \/ S!Withdraw
  BY <1>0, <1>2, ChangeSourceStep DEF S!Vote, S!Close, S!Withdraw
<1>3. ASSUME NEW u \in Users, S!MemberMoves(u) \/ S!ReadBallot(u) \/ S!CastBallot(u) \/ S!retryDue(u)
      PROVE  CardsInv'
  BY <1>3, MemberStep, CastStep
<1>4. ASSUME NEW c \in Couriers, NEW u \in Users,
             \/ S!ListSolicitationWork(c, u) \/ S!SyncMember(c, u)
             \/ \E force \in BOOLEAN : S!SyncSolicitation(c, u, force)
      PROVE  CardsInv'
  BY <1>4, PickStep
<1>5. ASSUME NEW c \in Couriers, S!CourierStep(c) \/ S!DeliveryFails(c) \/ S!CourierDies(c) PROVE CardsInv'
  BY <1>5, CheckRowStep, ProjectStep, ClaimStep, WriteStep, GiveUpStep DEF S!CourierStep
<1>6. CASE UNCHANGED S!echoVars
  <2> USE <1>6 DEF S!echoVars, CardsInv
  <2>1. CardsTyped' BY DEF CardsTyped
  <2>2. Carried' BY DEF Carried, CarriesOK
  <2>3. S!CardShowsItsRevision' BY DEF S!CardShowsItsRevision
  <2> QED BY <2>1, <2>2, <2>3
<1> QED BY <1>1, <1>2, <1>3, <1>4, <1>5, <1>6 DEF S!EchoNext

(* What a step may do to a card and to a delivery.                         *)
LEMMA CardStepAllowed ==
  ASSUME CardsInv, [S!EchoNext]_(S!echoVars)
  PROVE  \A u \in Users : echoCard'[u] # echoCard[u] => u \in active
<1>1. CASE echoCard' = echoCard BY <1>1
<1>2. ASSUME NEW u \in Users, S!CastBallot(u) PROVE \A x \in Users : echoCard'[x] # echoCard[x] => x \in active
  BY <1>2 DEF S!CastBallot, CardsInv, CardsTyped
<1>3. ASSUME NEW c \in Couriers, S!WriteEchoCardAndMessageInTx(c)
      PROVE  \A x \in Users : echoCard'[x] # echoCard[x] => x \in active
  <2>1. courier[c].user \in active BY <1>3 DEF S!WriteEchoCardAndMessageInTx, S!Leased, CardsInv, Carried, CarriesOK
  <2> QED BY <1>3, <2>1, WriteStep
<1>4. ASSUME NEW c \in Couriers, S!CourierStep(c) PROVE S!WriteEchoCardAndMessageInTx(c) \/ echoCard' = echoCard
  BY <1>4 DEF S!CourierStep, S!CheckRow, S!ProjectCard, S!ClaimSolicitationDelivery, S!failSolicitation,
              S!commitSolicitationStatus
<1>5. ASSUME NEW c \in Couriers, S!DeliveryFails(c) \/ S!CourierDies(c) PROVE echoCard' = echoCard
  BY <1>5 DEF S!DeliveryFails, S!CourierDies
<1>6. ASSUME NEW c \in Couriers, NEW u \in Users,
             \/ S!ListSolicitationWork(c, u) \/ S!SyncMember(c, u)
             \/ \E force \in BOOLEAN : S!SyncSolicitation(c, u, force)
      PROVE  echoCard' = echoCard
  BY <1>6 DEF S!ListSolicitationWork, S!SyncMember, S!SyncSolicitation
<1>7. ASSUME NEW u \in Users, S!MemberMoves(u) \/ S!ReadBallot(u) \/ S!retryDue(u) PROVE echoCard' = echoCard
  BY <1>7 DEF S!MemberMoves, S!ReadBallot, S!retryDue
<1>8. CASE S!Publish \/ S!Vote \/ S!Close \/ S!Withdraw \/ UNCHANGED S!echoVars
  BY <1>1, <1>8 DEF S!Publish, S!Vote, S!Close, S!Withdraw, S!ChangeSource, S!echoVars
<1> QED BY <1>1, <1>2, <1>3, <1>4, <1>5, <1>6, <1>7, <1>8 DEF S!EchoNext

LEMMA MarkedRow ==
  ASSUME CardsTyped, NEW u \in Users, NEW status, S!markDelivery(u, status), NEW x \in Users
  PROVE  delivery'[x].status = IF x = u THEN status ELSE delivery[x].status
BY DEF S!markDelivery, CardsTyped
LEMMA InsertedRow ==
  ASSUME NEW rows, NEW users, NEW x \in Users, rows[x].status = "sent"
  PROVE  S!InsertDeliveryRows(rows, users)[x] = rows[x]
BY DEF S!InsertDeliveryRows
LEMMA SentStepAllowed ==
  ASSUME CardsInv, [S!EchoNext]_(S!echoVars), NEW x \in Users, delivery[x].status = "sent"
  PROVE  delivery'[x].status # "failed"
<1> USE DEF CardsInv
<1>1. CASE delivery' = delivery BY <1>1
<1>2. CASE delivery' = S!InsertDeliveryRows(delivery, active) BY <1>2, InsertedRow
<1>3. ASSUME NEW u \in Users, S!MemberMoves(u) \/ S!ReadBallot(u) \/ S!CastBallot(u) \/ S!retryDue(u)
      PROVE  delivery'[x].status # "failed"
  BY <1>3 DEF S!MemberMoves, S!ReadBallot, S!CastBallot, S!retryDue, CardsTyped, DeliveryRow
<1>4. ASSUME NEW c \in Couriers, NEW u \in Users,
             \/ S!ListSolicitationWork(c, u) \/ S!SyncMember(c, u)
             \/ \E force \in BOOLEAN : S!SyncSolicitation(c, u, force)
      PROVE  delivery'[x].status # "failed"
  <2>1. delivery' \in {delivery, S!InsertDeliveryRows(delivery, {u}), S!InsertDeliveryRows(delivery, active)}
    BY <1>4 DEF S!ListSolicitationWork, S!SyncMember, S!SyncSolicitation, S!EnsureSolicitationDeliveryRows
  <2>2. delivery'[x] = delivery[x] BY <2>1, InsertedRow
  <2> QED BY <2>2
<1>5. ASSUME NEW c \in Couriers, S!CourierStep(c) \/ S!DeliveryFails(c) \/ S!CourierDies(c)
      PROVE  delivery'[x].status # "failed"
  <2>0. courier[c].at # "idle" => courier[c].user \in Users BY DEF Carried, CarriesOK
  <2>1. CASE S!failSolicitation(c)
    BY <2>0, <2>1, MarkedRow DEF S!failSolicitation, S!NotYetSent
  <2>2. CASE S!commitSolicitationStatus(c) \/ S!ClaimSolicitationDelivery(c) \/ S!WriteEchoCardAndMessageInTx(c)
    <3>1. delivery' = delivery \/ S!markDelivery(courier[c].user, "skipped") \/ S!markDelivery(courier[c].user, "sent")
      BY <2>2 DEF S!commitSolicitationStatus, S!ClaimSolicitationDelivery, S!WriteEchoCardAndMessageInTx
    <3>2. courier[c].user \in Users
      BY <2>0, <2>2 DEF S!commitSolicitationStatus, S!ClaimSolicitationDelivery, S!WriteEchoCardAndMessageInTx, S!Leased
    <3> QED BY <3>1, <3>2, MarkedRow
  <2>3. CASE S!CheckRow(c) \/ S!ProjectCard(c) \/ S!DeliveryFails(c) \/ S!CourierDies(c)
    BY <2>3 DEF S!CheckRow, S!ProjectCard, S!DeliveryFails, S!CourierDies
  <2> QED BY <1>5, <2>1, <2>2, <2>3 DEF S!CourierStep
<1>6. CASE S!Publish \/ S!Vote \/ S!Close \/ S!Withdraw \/ UNCHANGED S!echoVars
  BY <1>1, <1>2, <1>6 DEF S!Publish, S!Vote, S!Close, S!Withdraw, S!echoVars
<1> QED BY <1>3, <1>4, <1>5, <1>6 DEF S!EchoNext

(* The card a member votes through shows the revision its vote is checked  *)
(* against, is written for members only, and a delivery that one courier   *)
(* completed is not failed by another, for any number of each.             *)
THEOREM CardsCorrect ==
  CardSpec => [](S!EchoTypeOK /\ S!CardShowsItsRevision) /\ S!NoCardAfterRemoval /\ S!SentNeverFails
<1>1. CardsInv => S!EchoTypeOK /\ S!CardShowsItsRevision
  <2> SUFFICES ASSUME CardsInv PROVE S!EchoTypeOK BY DEF CardsInv
  <2>1. ASSUME NEW u \in Users
        PROVE  /\ delivery[u].status \in {"none", "pending", "sent", "failed", "skipped"}
               /\ delivery[u].attempts \in Nat /\ delivery[u].due \in BOOLEAN /\ told[u] \subseteq 1..MaxSourceRevision
    BY DEF CardsInv, CardsTyped, DeliveryRow, DeliveryStatus
  <2>2. ASSUME NEW u \in Users
        PROVE  echoCard[u].revision \in 0..(MaxSourceRevision + 1) /\ ballot[u] \in 0..(MaxSourceRevision + 1)
    BY SourceNumbers DEF CardsInv, CardsTyped, CardRow, SourceRow, S!CardShowsItsRevision
  <2>3. ASSUME NEW c \in Couriers PROVE courier[c].at \in S!Stages /\ courier[c].user \in Users \union {NoUser}
    BY DEF CardsInv, CardsTyped, Courier
  <2>4. source.status \in {"draft", "open", "closed", "withdrawn"} /\ source.revision \in 1..MaxSourceRevision
    BY DEF CardsInv, CardsTyped, SourceRow
  <2> QED BY <2>1, <2>2, <2>3, <2>4 DEF S!EchoTypeOK, CardsInv, CardsTyped
<1>2. CardsInv /\ [S!EchoNext]_(S!echoVars)
      => [\A u \in Users : echoCard'[u] # echoCard[u] => u \in active]_(S!echoVars)
  BY CardStepAllowed
<1>3. CardsInv /\ [S!EchoNext]_(S!echoVars)
      => [\A u \in Users : delivery[u].status = "sent" => delivery'[u].status # "failed"]_(S!echoVars)
  BY SentStepAllowed
<1> QED BY <1>1, <1>2, <1>3, CardsInitially, CardsStepInv, PTL DEF CardSpec, S!NoCardAfterRemoval, S!SentNeverFails
-----------------------------------------------------------------------------
(***************************************************************************)
(* Votes. The revision a request read tells whether its reading is still   *)
(* what the row holds: that makes the comparison in the UPDATE enough,     *)
(* although votes and expiries hold different locks.                       *)
(***************************************************************************)
VoteSpec == S!SolicitationsInit /\ [][S!SolicitationsNext]_(S!solVars)

SolRow == [status : {"none", "draft", "open", "closed", "withdrawn"}, revision : 0..MaxSolRevision]
Ask == [at : {"new", "waits", "locked", "done"}, op : S!Ops \union {"none"}, voter : Voters \union {NoVoter},
        key : Keys \union {NoVoter}, late : BOOLEAN, read : SolRow]
VoteTyped ==
  /\ sol \in SolRow /\ past \in BOOLEAN /\ vote \in [Voters -> 0..MaxSolRevision]
  /\ voteKey \in [Voters -> SUBSET Keys] /\ ask \in [Requests -> Ask]
  /\ accepted = sol.revision /\ (sol.status = "none" => sol.revision = 0)
  /\ counted \in [Voters \X Keys -> 0..1]
(* A vote names its voter and key; what was read under a lock and has the  *)
(* revision of the row has its status too.                                 *)
AsRead ==
  \A r \in Requests :
    /\ ask[r].op = "vote" => ask[r].voter \in Voters /\ ask[r].key \in Keys
    /\ ask[r].at = "locked" => /\ ask[r].read.revision <= sol.revision
                               /\ ask[r].read.revision = sol.revision => ask[r].read.status = sol.status
(* No voter has more votes than the row has revisions, and a key that      *)
(* counted is a key that was recorded.                                     *)
Tallied ==
  /\ \A v \in Voters : vote[v] <= sol.revision
  /\ \A v \in Voters, k \in Keys : counted[<<v, k>>] > 0 => k \in voteKey[v]
VoteInv == VoteTyped /\ AsRead /\ Tallied

LEMMA SolNumbers == MaxSolRevision \in Nat /\ MaxSolRevision > 0
BY EchoAssumption

LEMMA IdleAsk == S!Idle \in Ask
<1>1. S!Idle.read \in SolRow BY SolNumbers DEF SolRow, S!Idle
<1> QED BY <1>1 DEF Ask, S!Idle
LEMMA Raised ==
  ASSUME NEW D, NEW f \in [D -> 0..1], NEW d \in D
  PROVE  [f EXCEPT ![d] = 1] \in [D -> 0..1]
OBVIOUS

LEMMA VoteInitially == S!SolicitationsInit => VoteInv
<1> SUFFICES ASSUME S!SolicitationsInit PROVE VoteInv OBVIOUS
<1> USE SolNumbers DEF S!SolicitationsInit
<1>a. sol \in SolRow /\ accepted = sol.revision /\ sol.revision = 0 BY DEF SolRow
<1>d. ask \in [Requests -> Ask] BY IdleAsk
<1>e. counted \in [Voters \X Keys -> 0..1] /\ vote \in [Voters -> 0..MaxSolRevision] OBVIOUS
<1>1. VoteTyped BY <1>a, <1>d, <1>e DEF VoteTyped
<1>2. AsRead BY DEF AsRead, S!Idle
<1>3. Tallied BY DEF Tallied
<1> QED BY <1>1, <1>2, <1>3 DEF VoteInv

(* A change made where the revision is still the one that was read.        *)
LEMMA CASStep ==
  ASSUME VoteInv, NEW r \in Requests, NEW status \in {"open", "closed", "withdrawn"},
         ask[r].at = "locked", S!UpdateSolicitationStateCAS(r, status), ask' = [ask EXCEPT ![r].at = "done"],
         UNCHANGED past
  PROVE  /\ sol' \in SolRow /\ accepted' = sol'.revision /\ ask' \in [Requests -> Ask] /\ AsRead'
         /\ sol'.revision = sol.revision + 1 /\ sol'.status # "none" /\ sol.status = ask[r].read.status
<1> USE SolNumbers DEF VoteInv, VoteTyped, S!UpdateSolicitationStateCAS
<1>1. /\ sol' \in SolRow /\ accepted' = sol'.revision /\ sol'.revision = sol.revision + 1
      /\ sol'.status # "none"
  BY DEF SolRow
<1>2. ask' \in [Requests -> Ask] BY DEF Ask
<1>3. sol.status = ask[r].read.status BY DEF AsRead
<1>4. AsRead' BY DEF AsRead, Ask, SolRow
<1> QED BY <1>1, <1>2, <1>3, <1>4
(* A request that ends without a change.                                   *)
LEMMA EndStep ==
  ASSUME VoteInv, NEW r \in Requests, ask' = [ask EXCEPT ![r].at = "done"],
         UNCHANGED <<sol, past, vote, voteKey, accepted, counted>>
  PROVE  VoteInv'
<1> USE DEF VoteInv
<1>1. VoteTyped' BY DEF VoteTyped, Ask
<1>2. AsRead' BY DEF AsRead, VoteTyped, Ask, SolRow
<1>3. Tallied' BY DEF Tallied
<1> QED BY <1>1, <1>2, <1>3

LEMMA ArriveStep ==
  ASSUME VoteInv, NEW r \in Requests, NEW op \in S!Ops, NEW v \in Voters \union {NoVoter},
         NEW k \in Keys \union {NoVoter}, S!Arrives(r, op, v, k)
  PROVE  VoteInv'
<1> USE SolNumbers DEF VoteInv, S!Arrives
<1> DEFINE new == [S!Idle EXCEPT !.at = "waits", !.op = op, !.voter = v, !.key = k, !.late = past]
<1>c. S!Idle \in Ask BY IdleAsk
<1>d. past \in BOOLEAN BY DEF VoteTyped
<1>e. new \in Ask BY <1>c, <1>d DEF Ask
<1>0. new \in Ask /\ new.at = "waits" /\ new.op = op /\ new.voter = v /\ new.key = k BY <1>c, <1>e DEF Ask
<1>a. op = "vote" => v \in Voters /\ k \in Keys OBVIOUS
<1>b. ask' = [ask EXCEPT ![r] = new] OBVIOUS
<1> HIDE DEF new
<1>1. VoteTyped' BY <1>0, <1>b DEF VoteTyped
<1>2. AsRead' BY <1>0, <1>a, <1>b DEF AsRead, VoteTyped
<1>3. Tallied' BY DEF Tallied
<1> QED BY <1>1, <1>2, <1>3

LEMMA LockStep ==
  ASSUME VoteInv, NEW r \in Requests, S!Lock(r)
  PROVE  VoteInv'
<1> USE DEF VoteInv, S!Lock
<1>0. ask' = [ask EXCEPT ![r] = [ask[r] EXCEPT !.at = "locked", !.read = sol]] BY DEF VoteTyped, Ask
<1>a. [ask[r] EXCEPT !.at = "locked", !.read = sol] \in Ask BY DEF VoteTyped, Ask
<1>1. VoteTyped' BY <1>0, <1>a DEF VoteTyped
<1>2. AsRead' BY <1>0 DEF AsRead, VoteTyped, Ask, SolRow
<1>3. Tallied' BY DEF Tallied
<1> QED BY <1>1, <1>2, <1>3

(* A change of the status only.                                            *)
LEMMA ChangeStep ==
  ASSUME VoteInv, NEW r \in Requests, NEW status \in {"open", "closed", "withdrawn"},
         ask[r].at = "locked", S!UpdateSolicitationStateCAS(r, status), ask' = [ask EXCEPT ![r].at = "done"],
         UNCHANGED <<past, vote, voteKey, counted>>
  PROVE  VoteInv'
<1>0. /\ sol' \in SolRow /\ accepted' = sol'.revision /\ ask' \in [Requests -> Ask] /\ AsRead'
      /\ sol'.revision = sol.revision + 1 /\ sol'.status # "none"
  BY CASStep
<1>1. VoteTyped' BY <1>0 DEF VoteInv, VoteTyped
<1>2. Tallied' BY <1>0 DEF VoteInv, VoteTyped, Tallied, SolRow
<1> QED BY <1>0, <1>1, <1>2 DEF VoteInv

LEMMA VoteCountsStep ==
  ASSUME VoteInv, NEW r \in Requests, ask[r].at = "locked", ask[r].op = "vote", ~S!KeyUsed(r),
         S!UpdateSolicitationStateCAS(r, "open"), ask' = [ask EXCEPT ![r].at = "done"], past' = past,
         vote' = [vote EXCEPT ![ask[r].voter] = @ + 1],
         voteKey' = [voteKey EXCEPT ![ask[r].voter] = @ \union {ask[r].key}],
         counted' = [counted EXCEPT ![<<ask[r].voter, ask[r].key>>] = @ + 1]
  PROVE  VoteInv'
<1> DEFINE v == ask[r].voter  k == ask[r].key
<1>0. /\ sol' \in SolRow /\ accepted' = sol'.revision /\ ask' \in [Requests -> Ask] /\ AsRead'
      /\ sol'.revision = sol.revision + 1 /\ sol'.status # "none"
  BY CASStep
<1>1. v \in Voters /\ k \in Keys BY DEF VoteInv, AsRead
<1> HIDE DEF v, k
<1>2. sol.revision \in Nat /\ sol.revision + 1 <= MaxSolRevision
  BY SolNumbers DEF VoteInv, VoteTyped, SolRow, S!UpdateSolicitationStateCAS
<1>a. /\ vote' = [vote EXCEPT ![v] = @ + 1] /\ voteKey' = [voteKey EXCEPT ![v] = @ \union {k}]
      /\ counted' = [counted EXCEPT ![<<v, k>>] = @ + 1] /\ k \notin voteKey[v]
  BY DEF v, k, S!KeyUsed
<1>3. vote' \in [Voters -> 0..MaxSolRevision] /\ \A x \in Voters : vote'[x] <= sol'.revision
  BY <1>a, <1>0, <1>1, <1>2, SolNumbers DEF VoteInv, VoteTyped, Tallied
<1>4. voteKey' \in [Voters -> SUBSET Keys] BY <1>a, <1>1 DEF VoteInv, VoteTyped
<1>5. counted[<<v, k>>] = 0 BY <1>a, <1>1 DEF VoteInv, VoteTyped, Tallied
<1>b. counted[<<v, k>>] + 1 = 1 BY <1>5
<1>6. counted' = [counted EXCEPT ![<<v, k>>] = 1] BY <1>a, <1>b
<1>7. counted' \in [Voters \X Keys -> 0..1]
  <2> DEFINE D == Voters \X Keys  p == <<v, k>>
  <2>1. counted \in [D -> 0..1] /\ p \in D BY <1>1 DEF VoteInv, VoteTyped
  <2>2. counted' = [counted EXCEPT ![p] = 1] BY <1>6
  <2> HIDE DEF D, p
  <2>3. [counted EXCEPT ![p] = 1] \in [D -> 0..1] BY <2>1, Raised, Zenon
  <2>4. counted' \in [D -> 0..1] BY <2>2, <2>3, Zenon
  <2> QED BY <2>4 DEF D
<1>8. \A x \in Voters, y \in Keys : counted'[<<x, y>>] > 0 => y \in voteKey'[x]
  <2> TAKE x \in Voters, y \in Keys
  <2> HAVE counted'[<<x, y>>] > 0
  <2>1. CASE x = v /\ y = k BY <1>a, <2>1, <1>1 DEF VoteInv, VoteTyped
  <2>2. CASE ~(x = v /\ y = k)
    <3>1. <<x, y>> # <<v, k>> BY <2>2
    <3>2. counted'[<<x, y>>] = counted[<<x, y>>] BY <3>1, <1>6, <1>1 DEF VoteInv, VoteTyped
    <3> QED BY <1>a, <3>2, <1>1 DEF VoteInv, VoteTyped, Tallied
  <2> QED BY <2>1, <2>2
<1> QED BY <1>0, <1>3, <1>4, <1>7, <1>8 DEF VoteInv, VoteTyped, Tallied

(* Every step of a request, and the deadline, keep the invariant.          *)
LEMMA VoteStepInv == VoteInv /\ [S!SolicitationsNext]_(S!solVars) => VoteInv'
<1> SUFFICES ASSUME VoteInv, [S!SolicitationsNext]_(S!solVars) PROVE VoteInv' OBVIOUS
<1>1. CASE S!createMutation
  <2> USE <1>1, SolNumbers DEF S!createMutation, VoteInv
  <2>1. VoteTyped' BY DEF VoteTyped, SolRow
  <2>2. AsRead'
    <3>1. sol.revision \in Nat BY DEF VoteTyped, SolRow
    <3> SUFFICES ASSUME NEW r \in Requests, ask[r].at = "locked"
                 PROVE ask[r].read.revision <= 1 /\ (ask[r].read.revision = 1 => ask[r].read.status = "draft")
      BY DEF AsRead
    <3> QED BY DEF AsRead, VoteTyped, Ask, SolRow
  <2>3. Tallied' BY DEF Tallied, VoteTyped
  <2> QED BY <2>1, <2>2, <2>3
<1>2. CASE S!DeadlinePasses \/ UNCHANGED S!solVars
  <2> USE <1>2 DEF S!DeadlinePasses, S!solVars, VoteInv
  <2>1. VoteTyped' BY DEF VoteTyped
  <2>2. AsRead' BY DEF AsRead
  <2>3. Tallied' BY DEF Tallied
  <2> QED BY <2>1, <2>2, <2>3
<1>3. CASE \E r \in Requests, op \in S!Ops, v \in Voters \union {NoVoter}, k \in Keys \union {NoVoter} :
             S!Arrives(r, op, v, k)
  BY <1>3, ArriveStep
<1>4. ASSUME NEW r \in Requests, S!Lock(r) PROVE VoteInv' BY <1>4, LockStep
<1>5. ASSUME NEW r \in Requests, S!voteMutation(r) PROVE VoteInv'
  <2>0. ask[r].at = "locked" /\ ask[r].op = "vote" /\ ask' = [ask EXCEPT ![r].at = "done"] /\ UNCHANGED past
    BY <1>5 DEF S!voteMutation, S!Ready
  <2>1. CASE S!Same BY <2>0, <2>1, EndStep DEF S!Same
  <2>2. CASE S!UpdateSolicitationStateCAS(r, "closed") /\ UNCHANGED <<vote, voteKey, counted>>
    BY <2>0, <2>2, ChangeStep
  <2>3. CASE /\ ~S!KeyUsed(r) /\ S!UpdateSolicitationStateCAS(r, "open")
             /\ vote' = [vote EXCEPT ![ask[r].voter] = @ + 1]
             /\ voteKey' = [voteKey EXCEPT ![ask[r].voter] = @ \union {ask[r].key}]
             /\ counted' = [counted EXCEPT ![<<ask[r].voter, ask[r].key>>] = @ + 1]
    BY <2>0, <2>3, VoteCountsStep
  <2> QED BY <1>5, <2>1, <2>2, <2>3 DEF S!voteMutation
<1>6. ASSUME NEW r \in Requests, S!expireInTx(r) PROVE VoteInv'
  <2> USE <1>6 DEF S!expireInTx, S!Ready
  <2>1. CASE S!UpdateSolicitationStateCAS(r, "closed") BY <2>1, ChangeStep
  <2>2. CASE UNCHANGED <<sol, accepted>> BY <2>2, EndStep
  <2> QED BY <2>1, <2>2
<1>7. ASSUME NEW r \in Requests, NEW op \in {"publish", "close", "withdraw"}, S!transitionMutation(r, op)
      PROVE VoteInv'
  <2> USE <1>7 DEF S!transitionMutation, S!Ready
  <2>1. CASE S!UpdateSolicitationStateCAS(r, S!To(op))
    <3>1. S!To(op) \in {"open", "closed", "withdrawn"} BY DEF S!To
    <3> QED BY <2>1, <3>1, ChangeStep
  <2>2. CASE UNCHANGED <<sol, accepted>> BY <2>2, EndStep
  <2> QED BY <2>1, <2>2
<1> QED BY <1>1, <1>2, <1>3, <1>4, <1>5, <1>6, <1>7 DEF S!SolicitationsNext

(* Every change of the row was read from the row as it was.                *)
LEMMA ClosedStep ==
  ASSUME VoteInv, [S!SolicitationsNext]_(S!solVars), sol.status \in {"closed", "withdrawn"}
  PROVE  sol'.status = sol.status
<1>1. ASSUME NEW r \in Requests, NEW status, ask[r].at = "locked", S!UpdateSolicitationStateCAS(r, status)
      PROVE  sol.status = ask[r].read.status
  BY <1>1 DEF VoteInv, AsRead, S!UpdateSolicitationStateCAS
<1>2. CASE S!createMutation BY <1>2 DEF S!createMutation
<1>3. CASE sol' = sol BY <1>3
<1>4. ASSUME NEW r \in Requests, S!voteMutation(r) PROVE sol' = sol
  BY <1>4, <1>1 DEF S!voteMutation, S!Ready, S!Same, S!ClosesLate
<1>5. ASSUME NEW r \in Requests, S!expireInTx(r) PROVE sol' = sol
  BY <1>5, <1>1 DEF S!expireInTx, S!Ready
<1>6. ASSUME NEW r \in Requests, NEW op \in {"publish", "close", "withdraw"}, S!transitionMutation(r, op)
      PROVE sol' = sol
  <2>1. S!From(op) \subseteq {"draft", "open"} BY DEF S!From
  <2> QED BY <1>6, <2>1, <1>1 DEF S!transitionMutation, S!Ready
<1> QED BY <1>2, <1>3, <1>4, <1>5, <1>6 DEF S!SolicitationsNext, S!DeadlinePasses, S!Arrives, S!Lock, S!solVars

(* No vote, closing, expiry or withdrawal is lost under another, a         *)
(* repeated vote counts once, and nothing reopens what was closed.         *)
THEOREM VotesCorrect ==
  VoteSpec => /\ [](S!SolicitationsTypeOK /\ S!NoLostUpdate /\ S!VotedOncePerKey)
              /\ S!ClosedStaysClosed
<1>1. VoteInv => S!SolicitationsTypeOK /\ S!NoLostUpdate /\ S!VotedOncePerKey
  <2> SUFFICES ASSUME VoteInv PROVE S!SolicitationsTypeOK /\ S!NoLostUpdate /\ S!VotedOncePerKey OBVIOUS
  <2>1. S!NoLostUpdate BY DEF VoteInv, VoteTyped, S!NoLostUpdate
  <2>2. S!VotedOncePerKey BY DEF VoteInv, VoteTyped, S!VotedOncePerKey
  <2>3. accepted \in Nat /\ counted \in [Voters \X Keys -> Nat]
    BY SolNumbers DEF VoteInv, VoteTyped, SolRow
  <2>4. \A r \in Requests : ask[r].at \in {"new", "waits", "locked", "done"} /\ ask[r].op \in S!Ops \union {"none"}
    BY DEF VoteInv, VoteTyped, Ask
  <2>5. S!SolicitationsTypeOK BY <2>3, <2>4 DEF VoteInv, VoteTyped, SolRow, S!SolicitationsTypeOK
  <2> QED BY <2>1, <2>2, <2>5
<1>2. VoteInv /\ [S!SolicitationsNext]_(S!solVars)
      => [sol.status \in {"closed", "withdrawn"} => sol'.status = sol.status]_(S!solVars)
  BY ClosedStep
<1> QED BY <1>1, <1>2, VoteInitially, VoteStepInv, PTL DEF VoteSpec, S!ClosedStaysClosed
-----------------------------------------------------------------------------
(***************************************************************************)
(* Requirements. A key is recorded once, and with the revision it named    *)
(* already past: so a retry has one answer, and the button of a card that  *)
(* is granted a second time still shows no more than there is.             *)
(***************************************************************************)
RequirementSpec == Q!RequirementsInit /\ [][Q!RequirementsNext]_(Q!reqVars)

ReqRow == [status : {"none", "pending"} \union Q!Statuses, revision : 0..MaxReqRevision]
ReqCardRow == [revision : 0..MaxReqRevision, payload : 0..MaxReqRevision]
Roles == {"owner", "member", "none"}
IdemRow == [user : People, op : {"submit", "transition"}, key : ReqKeys \union {SubmitKey},
            hash : (Targets \union {"submit"}) \X Nat, result : {"pending"} \union Targets]
ReqCourier == [at : {"idle", "project", "write"}, user : People \union {NoPerson}, type : Q!CardTypes,
               revision : Nat, payload : Nat, refreshed : BOOLEAN]
RequirementsTyped ==
  /\ req \in ReqRow /\ role \in [People -> Roles] /\ opened \in [People -> 0..MaxReqRevision]
  /\ reqCard \in [People \X Q!CardTypes -> ReqCardRow] /\ reqCourier \in [ReqCouriers -> ReqCourier]
  /\ idem \subseteq IdemRow
RowLevel(card) == card.revision <= card.payload /\ card.payload <= req.revision
CourierLevel(w) == /\ w.at # "idle" => w.user \in People
                   /\ w.revision <= req.revision /\ w.payload <= req.revision
                   /\ w.at = "write" => w.revision <= w.payload
ReqCarried == \A c \in ReqCouriers : CourierLevel(reqCourier[c])
(* One row per user, operation and key; the revision a transition named is past. *)
SameKey(i, j) == i.user = j.user /\ i.op = j.op /\ i.key = j.key
KeyOnce == \A i, j \in idem : SameKey(i, j) => i = j
NamedPast == \A i \in idem : i.op = "transition" => i.hash[2] < req.revision
RequirementsInv == RequirementsTyped /\ ReqCarried /\ KeyOnce /\ NamedPast /\ Q!CardNotAhead

LEMMA ReqNumbers == MaxReqRevision \in Nat /\ Targets \subseteq Q!Statuses
BY EchoAssumption DEF Q!Statuses

LEMMA RequirementsInitially == Q!RequirementsInit => RequirementsInv
<1> SUFFICES ASSUME Q!RequirementsInit PROVE RequirementsInv OBVIOUS
<1> USE ReqNumbers DEF Q!RequirementsInit
<1>1. req \in ReqRow BY DEF ReqRow
<1>2. reqCard \in [People \X Q!CardTypes -> ReqCardRow] BY DEF ReqCardRow
<1>3. Q!Free \in ReqCourier BY DEF ReqCourier, Q!Free, Q!CardTypes
<1>4. role \in [People -> Roles] BY DEF Roles
<1>5. RequirementsTyped BY <1>1, <1>2, <1>3, <1>4 DEF RequirementsTyped
<1>6. ReqCarried BY DEF ReqCarried, CourierLevel, Q!Free
<1>7. Q!CardNotAhead BY DEF Q!CardNotAhead
<1> QED BY <1>5, <1>6, <1>7 DEF RequirementsInv, KeyOnce, NamedPast

(* What a mutation may do to the requirement and its keys.                 *)
Mutated == /\ req' \in ReqRow /\ idem' \subseteq IdemRow
           /\ req.revision <= req'.revision /\ KeyOnce' /\ NamedPast'
Alike == \A i \in idem : (answer'.user = i.user /\ answer'.op = i.op /\ answer'.key = i.key
                          /\ answer'.hash = i.hash) => answer'.result = i.result

LEMMA NoAnswerAlike == ASSUME RequirementsInv, answer' = Q!NoAnswer PROVE Alike
<1> SUFFICES ASSUME NEW i \in idem PROVE answer'.op # i.op BY DEF Alike
<1> QED BY DEF RequirementsInv, RequirementsTyped, IdemRow, Q!NoAnswer

LEMMA ReplayStep ==
  ASSUME RequirementsInv, NEW u, NEW op, NEW k, NEW hash, Q!replayResult(u, op, k, hash), UNCHANGED <<req, idem>>
  PROVE  Mutated /\ Alike
<1>1. Mutated
  <2>1. req.revision \in Nat BY ReqNumbers DEF RequirementsInv, RequirementsTyped, ReqRow
  <2> QED BY <2>1 DEF Mutated, RequirementsInv, RequirementsTyped, KeyOnce, NamedPast
<1>2. CASE answer' = Q!NoAnswer BY <1>1, <1>2, NoAnswerAlike
<1>3. ASSUME NEW i \in Q!Recorded(u, op, k), Q!Answers(u, op, k, hash, i.result) PROVE Alike
  <2> SUFFICES ASSUME NEW j \in idem, answer'.user = j.user, answer'.op = j.op, answer'.key = j.key
               PROVE  answer'.result = j.result
    BY DEF Alike
  <2>1. answer'.user = u /\ answer'.op = op /\ answer'.key = k /\ answer'.result = i.result BY <1>3 DEF Q!Answers
  <2>2. i \in idem /\ i.user = u /\ i.op = op /\ i.key = k BY DEF Q!Recorded
  <2>3. i = j BY <2>1, <2>2 DEF RequirementsInv, KeyOnce, SameKey
  <2> QED BY <2>1, <2>3
<1> QED BY <1>1, <1>2, <1>3 DEF Q!replayResult

LEMMA AcceptStep ==
  ASSUME RequirementsInv, NEW u \in People, NEW op \in {"submit", "transition"}, NEW k \in ReqKeys \union {SubmitKey},
         NEW to \in Targets \union {"submit"}, NEW e \in Nat, NEW status \in {"pending"} \union Targets,
         Q!Recorded(u, op, k) = {}, op = "transition" => e <= req.revision, Q!Accepts(u, op, k, <<to, e>>, status)
  PROVE  Mutated /\ Alike /\ req'.revision = req.revision + 1
<1> DEFINE new == [user |-> u, op |-> op, key |-> k, hash |-> <<to, e>>, result |-> status]
<1>0. /\ req.revision < MaxReqRevision /\ req' = [status |-> status, revision |-> req.revision + 1]
      /\ answer' = Q!NoAnswer /\ idem' = idem \union {new}
  BY DEF Q!Accepts
<1>1. req.revision \in Nat BY ReqNumbers DEF RequirementsInv, RequirementsTyped, ReqRow
<1>2. req' \in ReqRow /\ req'.revision = req.revision + 1
  BY <1>0, <1>1, ReqNumbers DEF ReqRow
<1>3. new \in IdemRow BY DEF IdemRow
<1>4. new.user = u /\ new.op = op /\ new.key = k /\ new.hash = <<to, e>> /\ new.hash[2] = e OBVIOUS
<1> HIDE DEF new
<1>5. idem' \subseteq IdemRow BY <1>0, <1>3 DEF RequirementsInv, RequirementsTyped
<1>6. KeyOnce'
  <2>1. \A i \in idem : ~SameKey(i, new) /\ ~SameKey(new, i) BY <1>4 DEF SameKey, Q!Recorded
  <2> QED BY <2>1, <1>0 DEF RequirementsInv, KeyOnce
<1>7. NamedPast'
  <2> SUFFICES ASSUME NEW i \in idem', i.op = "transition" PROVE i.hash[2] < req'.revision BY DEF NamedPast
  <2>1. CASE i = new BY <2>1, <1>1, <1>2, <1>4
  <2>2. CASE i \in idem
    <3>1. i.hash[2] \in Nat BY <2>2 DEF RequirementsInv, RequirementsTyped, IdemRow
    <3> QED BY <2>2, <3>1, <1>1, <1>2 DEF RequirementsInv, NamedPast
  <2> QED BY <2>1, <2>2, <1>0
<1> QED BY <1>0, <1>1, <1>2, <1>5, <1>6, <1>7, NoAnswerAlike DEF Mutated

LEMMA TransitionStep ==
  ASSUME RequirementsInv, NEW u \in People, NEW k \in ReqKeys, NEW to \in Targets, NEW e \in Nat,
         Q!transitionMutation(u, k, to, e)
  PROVE  Mutated /\ Alike
<1>1. CASE Q!Recorded(u, "transition", k) # {}
  <2>1. Q!replayResult(u, "transition", k, <<to, e>>) /\ UNCHANGED <<req, idem>> BY <1>1 DEF Q!transitionMutation
  <2> DEFINE hash == <<to, e>>
  <2>2. Q!replayResult(u, "transition", k, hash) BY <2>1
  <2> HIDE DEF hash
  <2> QED BY <2>1, <2>2, ReplayStep
<1>2. CASE Q!Recorded(u, "transition", k) = {} /\ Q!Refuses(u, "transition", k, <<to, e>>)
  <2>1. answer' = Q!NoAnswer /\ UNCHANGED <<req, idem>> BY <1>2 DEF Q!Refuses
  <2>2. req.revision \in Nat BY ReqNumbers DEF RequirementsInv, RequirementsTyped, ReqRow
  <2> QED BY <2>1, <2>2, NoAnswerAlike DEF Mutated, RequirementsInv, RequirementsTyped, KeyOnce, NamedPast
<1>3. CASE /\ Q!Recorded(u, "transition", k) = {} /\ req.revision = e
           /\ Q!Accepts(u, "transition", k, <<to, e>>, to)
  <2>1. e <= req.revision BY <1>3
  <2> QED BY <1>3, <2>1, AcceptStep
<1> QED BY <1>1, <1>2, <1>3 DEF Q!transitionMutation

(* The rest of the invariant after a mutation that leaves cards and        *)
(* couriers alone.                                                         *)
LEMMA LevelsKept ==
  ASSUME RequirementsInv, Mutated, reqCourier' = reqCourier
  PROVE  ReqCarried' /\ \A p \in People \X Q!CardTypes : reqCard[p].revision <= reqCard[p].payload
                                                         /\ reqCard[p].payload <= req'.revision
<1>1. req.revision \in Nat /\ req'.revision \in Nat
  BY ReqNumbers DEF RequirementsInv, RequirementsTyped, Mutated, ReqRow
<1>2. ReqCarried'
  <2> SUFFICES ASSUME NEW c \in ReqCouriers PROVE CourierLevel(reqCourier[c])' BY DEF ReqCarried
  <2>1. CourierLevel(reqCourier[c]) /\ reqCourier[c] \in ReqCourier
    BY DEF RequirementsInv, RequirementsTyped, ReqCarried
  <2> QED BY <1>1, <2>1 DEF CourierLevel, ReqCourier, Mutated
<1>3. ASSUME NEW p \in People \X Q!CardTypes
      PROVE  reqCard[p].revision <= reqCard[p].payload /\ reqCard[p].payload <= req'.revision
  <2>1. reqCard[p] \in ReqCardRow BY DEF RequirementsInv, RequirementsTyped
  <2> QED BY <1>1, <2>1, ReqNumbers DEF RequirementsInv, Q!CardNotAhead, Mutated, ReqCardRow
<1> QED BY <1>2, <1>3

LEMMA MutationStep ==
  ASSUME RequirementsInv, Mutated, UNCHANGED <<role, reqCard, opened, reqCourier>>
  PROVE  RequirementsInv'
<1>1. RequirementsTyped' BY DEF RequirementsInv, RequirementsTyped, Mutated
<1>2. ReqCarried' /\ Q!CardNotAhead' BY LevelsKept DEF Q!CardNotAhead
<1> QED BY <1>1, <1>2 DEF RequirementsInv, Mutated

(* A granted button writes the card it was pressed on.                     *)
LEMMA ActionStep ==
  ASSUME RequirementsInv, NEW u \in People, NEW k \in ReqKeys, NEW to \in Targets,
         Q!executeRequirementAction(u, k, to)
  PROVE  /\ RequirementsInv' /\ Alike
         /\ \A x \in People, t \in Q!CardTypes : reqCard'[<<x, t>>] # reqCard[<<x, t>>] => role[x] = "owner"
<1> DEFINE e == opened[u]  p == <<u, "request">>
<1>0. /\ opened' = [opened EXCEPT ![u] = 0] /\ UNCHANGED <<role, reqCourier>>
  BY DEF Q!executeRequirementAction
<1>1. e \in Nat /\ e \in 0..MaxReqRevision BY ReqNumbers DEF RequirementsInv, RequirementsTyped
<1>2. p \in People \X Q!CardTypes BY DEF Q!CardTypes
<1>a. opened' \in [People -> 0..MaxReqRevision] BY <1>0, ReqNumbers DEF RequirementsInv, RequirementsTyped
<1>3. CASE answer' = Q!NoAnswer /\ UNCHANGED <<req, idem, reqCard>>
  <2>1. req.revision \in Nat BY ReqNumbers DEF RequirementsInv, RequirementsTyped, ReqRow
  <2>2. Mutated BY <1>3, <2>1 DEF Mutated, RequirementsInv, RequirementsTyped, KeyOnce, NamedPast
  <2>3. RequirementsTyped' BY <1>0, <1>3, <1>a DEF RequirementsInv, RequirementsTyped
  <2>4. ReqCarried' /\ Q!CardNotAhead' BY <1>0, <1>3, <2>2, LevelsKept DEF Q!CardNotAhead
  <2> QED BY <1>3, <2>2, <2>3, <2>4, NoAnswerAlike DEF RequirementsInv, Mutated
<1>4. CASE /\ role[u] = "owner" /\ Q!transitionMutation(u, k, to, e)
           /\ reqCard' = IF ~Q!Granted(u, k, <<to, e>>) THEN reqCard
                         ELSE [reqCard EXCEPT ![p] = [revision |-> e + 1, payload |-> req'.revision]]
  <2> HIDE DEF e, p
  <2>1. Mutated /\ Alike BY <1>1, <1>4, TransitionStep
  <2>2. req'.revision \in Nat /\ req'.revision <= MaxReqRevision BY <2>1, ReqNumbers DEF Mutated, ReqRow
  <2> DEFINE new == [revision |-> e + 1, payload |-> req'.revision]
  <2>3. Q!Granted(u, k, <<to, e>>) => e < req'.revision
    <3> SUFFICES ASSUME NEW i \in idem', i.op = "transition", i.hash = <<to, e>> PROVE e < req'.revision
      BY DEF Q!Granted
    <3>1. i.hash[2] < req'.revision BY <2>1 DEF Mutated, NamedPast
    <3> QED BY <3>1
  <2>4. Q!Granted(u, k, <<to, e>>) => new \in ReqCardRow /\ new.revision <= new.payload /\ new.payload = req'.revision
    BY <1>1, <2>2, <2>3, ReqNumbers DEF ReqCardRow
  <2> HIDE DEF new
  <2>5. reqCard' = reqCard \/ (reqCard' = [reqCard EXCEPT ![p] = new] /\ Q!Granted(u, k, <<to, e>>)) BY <1>4 DEF new
  <2>6. reqCard \in [People \X Q!CardTypes -> ReqCardRow] BY DEF RequirementsInv, RequirementsTyped
  <2>7. reqCard' \in [People \X Q!CardTypes -> ReqCardRow] BY <2>4, <2>5, <2>6
  <2>8. RequirementsTyped' BY <1>0, <1>a, <2>1, <2>7 DEF RequirementsInv, RequirementsTyped, Mutated
  <2>9. /\ ReqCarried'
        /\ \A x \in People \X Q!CardTypes : reqCard[x].revision <= reqCard[x].payload
                                            /\ reqCard[x].payload <= req'.revision
    BY <1>0, <2>1, LevelsKept
  <2>10. Q!CardNotAhead'
    <3> SUFFICES ASSUME NEW x \in People \X Q!CardTypes
                 PROVE  reqCard'[x].revision <= reqCard'[x].payload /\ reqCard'[x].payload <= req'.revision
      BY DEF Q!CardNotAhead
    <3>1. CASE reqCard'[x] = reqCard[x] BY <3>1, <2>9
    <3>2. CASE reqCard'[x] = new /\ Q!Granted(u, k, <<to, e>>) BY <3>2, <2>2, <2>4
    <3> QED BY <3>1, <3>2, <2>5, <2>6
  <2>11. \A x \in People, t \in Q!CardTypes : reqCard'[<<x, t>>] # reqCard[<<x, t>>] => role[x] = "owner"
    <3> SUFFICES ASSUME NEW x \in People, NEW t \in Q!CardTypes, reqCard'[<<x, t>>] # reqCard[<<x, t>>] PROVE x = u
      BY <1>4
    <3>1. <<x, t>> \in People \X Q!CardTypes OBVIOUS
    <3>2. <<x, t>> = p BY <3>1, <2>5, <2>6
    <3> QED BY <3>2 DEF p
  <2> QED BY <2>1, <2>8, <2>9, <2>10, <2>11 DEF RequirementsInv, Mutated
<1> QED BY <1>3, <1>4 DEF Q!executeRequirementAction

(* The courier of a card: it moves and writes nothing yet, or gives up.    *)
LEMMA ReqCourierMove ==
  ASSUME RequirementsInv, NEW c \in ReqCouriers, NEW w \in ReqCourier, reqCourier' = [reqCourier EXCEPT ![c] = w],
         CourierLevel(w), UNCHANGED <<req, role, idem, opened>>,
         reqCard' \in [People \X Q!CardTypes -> ReqCardRow],
         \A p \in People \X Q!CardTypes : RowLevel(reqCard'[p])
  PROVE  RequirementsInv'
<1> USE DEF RequirementsInv
<1>1. RequirementsTyped' BY DEF RequirementsTyped
<1>2. ReqCarried'
  <2> SUFFICES ASSUME NEW x \in ReqCouriers PROVE CourierLevel(reqCourier[x])' BY DEF ReqCarried
  <2>1. reqCourier'[x] = IF x = c THEN w ELSE reqCourier[x] BY DEF RequirementsTyped
  <2>2. CourierLevel(reqCourier'[x]) BY <2>1 DEF ReqCarried
  <2> QED BY <2>2 DEF CourierLevel
<1>3. KeyOnce' /\ NamedPast' BY DEF KeyOnce, NamedPast
<1>4. Q!CardNotAhead' BY DEF Q!CardNotAhead, RowLevel
<1> QED BY <1>1, <1>2, <1>3, <1>4

LEMMA FreeOK == ASSUME RequirementsInv PROVE Q!Free \in ReqCourier /\ CourierLevel(Q!Free)
<1>1. req.revision \in Nat BY ReqNumbers DEF RequirementsInv, RequirementsTyped, ReqRow
<1>2. Q!Free \in ReqCourier BY DEF ReqCourier, Q!Free, Q!CardTypes
<1> QED BY <1>1, <1>2 DEF CourierLevel, Q!Free
LEMMA CardsLevel == ASSUME RequirementsInv PROVE \A p \in People \X Q!CardTypes : RowLevel(reqCard[p])
BY DEF RequirementsInv, Q!CardNotAhead, RowLevel

LEMMA SyncStep ==
  ASSUME RequirementsInv, NEW c \in ReqCouriers, NEW u \in People, Q!SyncRequirement(c, u)
  PROVE  RequirementsInv'
<1> DEFINE w == [Q!Free EXCEPT !.at = "project", !.user = u, !.type = Q!CardTypeFor(u), !.revision = req.revision]
<1>0. reqCourier' = [reqCourier EXCEPT ![c] = w] /\ UNCHANGED <<req, role, idem, opened, reqCard>>
  BY DEF Q!SyncRequirement
<1>1. req.revision \in Nat BY ReqNumbers DEF RequirementsInv, RequirementsTyped, ReqRow
<1>2. Q!CardTypeFor(u) \in Q!CardTypes BY DEF Q!CardTypeFor, Q!CardTypes
<1>3. w \in ReqCourier BY <1>1, <1>2, FreeOK DEF ReqCourier
<1>4. w.at = "project" /\ w.user = u /\ w.revision = req.revision /\ w.payload = 0 BY <1>1 DEF Q!Free
<1> HIDE DEF w
<1>5. CourierLevel(w) BY <1>1, <1>4 DEF CourierLevel
<1>6. /\ reqCard' \in [People \X Q!CardTypes -> ReqCardRow]
      /\ \A p \in People \X Q!CardTypes : RowLevel(reqCard'[p])
  BY <1>0, CardsLevel DEF RequirementsInv, RequirementsTyped
<1> QED BY <1>0, <1>3, <1>5, <1>6, ReqCourierMove

LEMMA ReqProjectStep ==
  ASSUME RequirementsInv, NEW c \in ReqCouriers, Q!projectRequirement(c)
  PROVE  RequirementsInv'
<1> DEFINE w == [reqCourier[c] EXCEPT !.at = "write", !.payload = req.revision]
<1>0. UNCHANGED <<req, role, idem, opened, reqCard>> /\ reqCourier[c].at = "project" BY DEF Q!projectRequirement
<1>1. req.revision \in Nat BY ReqNumbers DEF RequirementsInv, RequirementsTyped, ReqRow
<1>2. reqCourier[c] \in ReqCourier /\ CourierLevel(reqCourier[c])
  BY DEF RequirementsInv, RequirementsTyped, ReqCarried
<1>3. reqCourier' = [reqCourier EXCEPT ![c] = Q!Free] \/ reqCourier' = [reqCourier EXCEPT ![c] = w]
  BY <1>2 DEF Q!projectRequirement, RequirementsInv, RequirementsTyped, ReqCourier
<1>4. w \in ReqCourier BY <1>1, <1>2 DEF ReqCourier
<1>5. w.at = "write" /\ w.user = reqCourier[c].user /\ w.revision = reqCourier[c].revision /\ w.payload = req.revision
  BY <1>2 DEF ReqCourier
<1> HIDE DEF w
<1>6. CourierLevel(w) BY <1>0, <1>1, <1>2, <1>5 DEF CourierLevel
<1>7. /\ reqCard' \in [People \X Q!CardTypes -> ReqCardRow]
      /\ \A p \in People \X Q!CardTypes : RowLevel(reqCard'[p])
  BY <1>0, CardsLevel DEF RequirementsInv, RequirementsTyped
<1> QED BY <1>0, <1>3, <1>4, <1>6, <1>7, FreeOK, ReqCourierMove

(* A card that is written is level with the requirement.                   *)
LEMMA UpsertLevel ==
  ASSUME RequirementsInv, NEW card \in ReqCardRow, RowLevel(card)
  PROVE  /\ Q!UpsertCard(card, req.revision, req.revision) \in ReqCardRow
         /\ RowLevel(Q!UpsertCard(card, req.revision, req.revision))
<1>1. req.revision \in Nat /\ req.revision \in 0..MaxReqRevision
  BY ReqNumbers DEF RequirementsInv, RequirementsTyped, ReqRow
<1>2. card.revision \in Nat /\ card.payload \in Nat BY ReqNumbers DEF ReqCardRow
<1>3. CASE card.revision >= req.revision
  <2>1. card.payload = req.revision BY <1>1, <1>2, <1>3 DEF RowLevel
  <2> QED BY <1>3, <2>1 DEF Q!UpsertCard
<1>4. CASE ~(card.revision >= req.revision)
  <2>1. (IF card.revision + 1 > req.revision THEN card.revision + 1 ELSE req.revision) = req.revision
    BY <1>1, <1>2, <1>4
  <2>2. Q!UpsertCard(card, req.revision, req.revision) = [payload |-> req.revision, revision |-> req.revision]
    BY <1>4, <2>1 DEF Q!UpsertCard
  <2> QED BY <1>1, <2>2 DEF ReqCardRow, RowLevel
<1> QED BY <1>3, <1>4

LEMMA DeliverStep ==
  ASSUME RequirementsInv, NEW c \in ReqCouriers, Q!deliverRequirementAttempt(c)
  PROVE  /\ RequirementsInv'
         /\ \A x \in People, t \in Q!CardTypes : reqCard'[<<x, t>>] # reqCard[<<x, t>>]
                                                  => Q!RequirementRecipientAuthorized(x)
<1>0. UNCHANGED <<req, role, idem, opened>> /\ reqCourier[c].at = "write" BY DEF Q!deliverRequirementAttempt
<1>1. req.revision \in Nat BY ReqNumbers DEF RequirementsInv, RequirementsTyped, ReqRow
<1>2. reqCourier[c] \in ReqCourier /\ CourierLevel(reqCourier[c])
  BY DEF RequirementsInv, RequirementsTyped, ReqCarried
<1>3. reqCard \in [People \X Q!CardTypes -> ReqCardRow] BY DEF RequirementsInv, RequirementsTyped
<1>4. CASE UNCHANGED reqCard /\ reqCourier' = [reqCourier EXCEPT ![c].at = "project", ![c].revision = req.revision,
                                                                 ![c].refreshed = TRUE]
  <2> DEFINE w == [reqCourier[c] EXCEPT !.at = "project", !.revision = req.revision, !.refreshed = TRUE]
  <2>1. reqCourier' = [reqCourier EXCEPT ![c] = w] BY <1>2, <1>4 DEF RequirementsInv, RequirementsTyped, ReqCourier
  <2>2. w \in ReqCourier BY <1>1, <1>2 DEF ReqCourier
  <2>3. w.at = "project" /\ w.user = reqCourier[c].user /\ w.revision = req.revision /\ w.payload = reqCourier[c].payload
    BY <1>2 DEF ReqCourier
  <2> HIDE DEF w
  <2>4. CourierLevel(w) BY <1>0, <1>1, <1>2, <2>3 DEF CourierLevel
  <2> QED BY <1>0, <1>3, <1>4, <2>1, <2>2, <2>4, CardsLevel, ReqCourierMove
<1>5. CASE UNCHANGED reqCard /\ reqCourier' = [reqCourier EXCEPT ![c] = Q!Free]
  BY <1>0, <1>3, <1>5, CardsLevel, FreeOK, ReqCourierMove
<1>6. CASE /\ reqCourier' = [reqCourier EXCEPT ![c] = Q!Free]
           /\ Q!RequirementRecipientAuthorized(reqCourier[c].user) /\ ~Q!StaleProjection(c)
           /\ reqCard' = [reqCard EXCEPT ![<<reqCourier[c].user, reqCourier[c].type>>] =
                            Q!UpsertCard(@, reqCourier[c].revision, reqCourier[c].payload)]
  <2> DEFINE p == <<reqCourier[c].user, reqCourier[c].type>>
             new == Q!UpsertCard(reqCard[p], req.revision, req.revision)
  <2>1. reqCourier[c].revision = req.revision /\ reqCourier[c].payload = req.revision
    BY <1>0, <1>1, <1>2, <1>6 DEF Q!StaleProjection, CourierLevel, ReqCourier
  <2>2. p \in People \X Q!CardTypes BY <1>0, <1>2 DEF CourierLevel, ReqCourier
  <2>3. reqCard' = [reqCard EXCEPT ![p] = new] BY <1>6, <2>1
  <2> HIDE DEF p
  <2>4. new \in ReqCardRow /\ RowLevel(new) BY <1>3, <2>2, CardsLevel, UpsertLevel
  <2> HIDE DEF new
  <2>5. reqCard' \in [People \X Q!CardTypes -> ReqCardRow] BY <1>3, <2>3, <2>4
  <2>6. \A x \in People \X Q!CardTypes : RowLevel(reqCard'[x]) BY <1>3, <2>3, <2>4, CardsLevel
  <2>7. RequirementsInv' BY <1>0, <1>6, <2>5, <2>6, FreeOK, ReqCourierMove
  <2>8. ASSUME NEW x \in People, NEW t \in Q!CardTypes, reqCard'[<<x, t>>] # reqCard[<<x, t>>]
        PROVE  Q!RequirementRecipientAuthorized(x)
    <3>1. <<x, t>> = p BY <1>3, <2>3, <2>8
    <3>2. x = reqCourier[c].user BY <3>1 DEF p
    <3> QED BY <1>6, <3>2
  <2> QED BY <2>7, <2>8
<1> QED BY <1>4, <1>5, <1>6 DEF Q!deliverRequirementAttempt

(* Roles move, cards are opened, deliveries fail.                          *)
LEMMA ReqRestStep ==
  ASSUME RequirementsInv,
         \/ \E u \in People : Q!OpenCard(u) \/ \E r \in {"owner", "member", "none"} : Q!RoleMoves(u, r)
         \/ \E c \in ReqCouriers : Q!failRequirement(c)
         \/ UNCHANGED Q!reqVars
  PROVE  RequirementsInv'
<1>1. ASSUME NEW c \in ReqCouriers, Q!failRequirement(c) PROVE RequirementsInv'
  <2>1. /\ reqCourier' = [reqCourier EXCEPT ![c] = Q!Free] /\ UNCHANGED <<req, role, idem, opened, reqCard>>
    BY <1>1 DEF Q!failRequirement
  <2>2. reqCard' \in [People \X Q!CardTypes -> ReqCardRow] BY <2>1 DEF RequirementsInv, RequirementsTyped
  <2> QED BY <2>1, <2>2, CardsLevel, FreeOK, ReqCourierMove
<1>2. ASSUME UNCHANGED <<req, idem, reqCard, reqCourier>>, role' \in [People -> Roles],
             opened' \in [People -> 0..MaxReqRevision]
      PROVE  RequirementsInv'
  <2> USE <1>2 DEF RequirementsInv
  <2>1. RequirementsTyped' BY DEF RequirementsTyped
  <2>2. ReqCarried' BY DEF ReqCarried, CourierLevel
  <2>3. KeyOnce' /\ NamedPast' BY DEF KeyOnce, NamedPast
  <2>4. Q!CardNotAhead' BY DEF Q!CardNotAhead
  <2> QED BY <2>1, <2>2, <2>3, <2>4
<1>3. ASSUME NEW u \in People, Q!OpenCard(u) PROVE RequirementsInv'
  <2>1. <<u, "request">> \in People \X Q!CardTypes BY DEF Q!CardTypes
  <2>2. reqCard[<<u, "request">>].revision \in 0..MaxReqRevision
    BY <2>1 DEF RequirementsInv, RequirementsTyped, ReqCardRow
  <2>3. opened' \in [People -> 0..MaxReqRevision] BY <1>3, <2>2 DEF Q!OpenCard, RequirementsInv, RequirementsTyped
  <2> QED BY <1>2, <1>3, <2>3 DEF Q!OpenCard, RequirementsInv, RequirementsTyped
<1>4. ASSUME NEW u \in People, NEW r \in {"owner", "member", "none"}, Q!RoleMoves(u, r) PROVE RequirementsInv'
  <2>1. role' \in [People -> Roles] BY <1>4 DEF Q!RoleMoves, RequirementsInv, RequirementsTyped, Roles
  <2> QED BY <1>2, <1>4, <2>1 DEF Q!RoleMoves, RequirementsInv, RequirementsTyped
<1>5. CASE UNCHANGED Q!reqVars BY <1>2, <1>5 DEF Q!reqVars, RequirementsInv, RequirementsTyped
<1> QED BY <1>1, <1>3, <1>4, <1>5

LEMMA SubmitStep ==
  ASSUME RequirementsInv, NEW u \in People, Q!submitMutation(u, SubmitKey)
  PROVE  Mutated /\ Alike
<1> DEFINE hash == <<"submit", 0>>
<1>1. CASE Q!replayResult(u, "submit", SubmitKey, hash) /\ UNCHANGED <<req, idem>>
  <2> HIDE DEF hash
  <2> QED BY <1>1, ReplayStep
<1>2. CASE Q!Recorded(u, "submit", SubmitKey) = {} /\ Q!Accepts(u, "submit", SubmitKey, <<"submit", 0>>, "pending")
  BY <1>2, AcceptStep
<1> QED BY <1>1, <1>2 DEF Q!submitMutation

(* Every step keeps the invariant, answers alike and shows cards to        *)
(* parties only.                                                           *)
ToParties == \A u \in People, t \in Q!CardTypes :
  reqCard'[<<u, t>>] # reqCard[<<u, t>>] => role[u] = "owner" \/ (u = Submitter /\ role[u] # "none")
LEMMA RequirementsStepInv ==
  ASSUME RequirementsInv, [Q!RequirementsNext]_(Q!reqVars)
  PROVE  RequirementsInv' /\ (Alike \/ UNCHANGED Q!reqVars) /\ ToParties
<1>1. ASSUME NEW u \in People, Q!submitMutation(u, SubmitKey) PROVE RequirementsInv' /\ Alike /\ ToParties
  <2>1. UNCHANGED <<role, reqCard, opened, reqCourier>> BY <1>1 DEF Q!submitMutation
  <2> QED BY <1>1, <2>1, SubmitStep, MutationStep DEF ToParties
<1>2. ASSUME NEW u \in People, NEW k \in ReqKeys, NEW to \in Targets, Q!executeRequirementAction(u, k, to)
      PROVE  RequirementsInv' /\ Alike /\ ToParties
  BY <1>2, ActionStep DEF ToParties
<1>3. ASSUME NEW u \in People, NEW k \in ReqKeys, NEW to \in Targets, NEW e \in 1..req.revision,
             Q!Transition(u, k, to, e)
      PROVE  RequirementsInv' /\ Alike /\ ToParties
  <2>1. e \in Nat BY ReqNumbers DEF RequirementsInv, RequirementsTyped, ReqRow
  <2>2. Q!transitionMutation(u, k, to, e) /\ UNCHANGED <<role, reqCard, opened, reqCourier>>
    BY <1>3 DEF Q!Transition
  <2> QED BY <2>1, <2>2, TransitionStep, MutationStep DEF ToParties
<1>4. ASSUME NEW c \in ReqCouriers, Q!deliverRequirementAttempt(c) PROVE RequirementsInv' /\ Alike /\ ToParties
  <2>1. answer' = Q!NoAnswer BY <1>4 DEF Q!deliverRequirementAttempt
  <2> QED BY <1>4, <2>1, DeliverStep, NoAnswerAlike DEF ToParties, Q!RequirementRecipientAuthorized
<1>5. ASSUME NEW c \in ReqCouriers, Q!projectRequirement(c) \/ \E u \in People : Q!SyncRequirement(c, u)
      PROVE  RequirementsInv' /\ Alike /\ ToParties
  <2>1. answer' = Q!NoAnswer /\ reqCard' = reqCard BY <1>5 DEF Q!projectRequirement, Q!SyncRequirement
  <2> QED BY <1>5, <2>1, ReqProjectStep, SyncStep, NoAnswerAlike DEF ToParties
<1>6. CASE \/ \E u \in People : Q!OpenCard(u) \/ \E r \in {"owner", "member", "none"} : Q!RoleMoves(u, r)
           \/ \E c \in ReqCouriers : Q!failRequirement(c)
  <2>1. answer' = Q!NoAnswer /\ reqCard' = reqCard BY <1>6 DEF Q!OpenCard, Q!RoleMoves, Q!failRequirement
  <2> QED BY <1>6, <2>1, ReqRestStep, NoAnswerAlike DEF ToParties
<1>7. CASE UNCHANGED Q!reqVars
  <2>1. reqCard' = reqCard BY <1>7 DEF Q!reqVars
  <2> QED BY <1>7, <2>1, ReqRestStep DEF ToParties
<1> QED BY <1>1, <1>2, <1>3, <1>4, <1>5, <1>6, <1>7 DEF Q!RequirementsNext

(* A repeated request gets the answer it got, no card is ahead of its      *)
(* requirement, and a card is written by the roles of that moment, for any *)
(* number of people, couriers and keys.                                    *)
THEOREM RequirementsCorrect ==
  RequirementSpec => [](Q!RequirementsTypeOK /\ Q!CardNotAhead) /\ Q!RetryAnsweredAlike /\ Q!OnlyParties
<1>1. RequirementsInv => Q!RequirementsTypeOK /\ Q!CardNotAhead
  <2> SUFFICES ASSUME RequirementsInv PROVE Q!RequirementsTypeOK BY DEF RequirementsInv
  <2>1. ASSUME NEW u \in People, NEW t \in Q!CardTypes
        PROVE  reqCard[<<u, t>>].revision \in 0..MaxReqRevision /\ reqCard[<<u, t>>].payload \in 0..MaxReqRevision
    <3>1. <<u, t>> \in People \X Q!CardTypes OBVIOUS
    <3> QED BY <3>1 DEF RequirementsInv, RequirementsTyped, ReqCardRow
  <2>2. ASSUME NEW c \in ReqCouriers PROVE reqCourier[c].at \in {"idle", "project", "write"}
    BY DEF RequirementsInv, RequirementsTyped, ReqCourier
  <2> QED BY <2>1, <2>2 DEF RequirementsInv, RequirementsTyped, Q!RequirementsTypeOK, ReqRow, Roles
<1>2. RequirementsInv /\ [Q!RequirementsNext]_(Q!reqVars) => RequirementsInv' BY RequirementsStepInv
<1>3. RequirementsInv /\ [Q!RequirementsNext]_(Q!reqVars)
      => [\A i \in idem : (answer'.user = i.user /\ answer'.op = i.op /\ answer'.key = i.key
                            /\ answer'.hash = i.hash) => answer'.result = i.result]_(Q!reqVars)
  BY RequirementsStepInv DEF Alike
<1>4. RequirementsInv /\ [Q!RequirementsNext]_(Q!reqVars)
      => [\A u \in People, t \in Q!CardTypes :
            reqCard'[<<u, t>>] # reqCard[<<u, t>>] => role[u] = "owner" \/ (u = Submitter /\ role[u] # "none")]_(Q!reqVars)
  BY RequirementsStepInv DEF ToParties
<1> QED BY <1>1, <1>2, <1>3, <1>4, RequirementsInitially, PTL DEF RequirementSpec, Q!RetryAnsweredAlike, Q!OnlyParties
-----------------------------------------------------------------------------
(***************************************************************************)
(* Releases. A courier carries the text that was published or none at all, *)
(* and while it holds the lease its recipient stays a member.              *)
(***************************************************************************)
ReleaseSpec == R!ReleasesInit /\ [][R!ReleasesNext]_(R!relVars)

RelRow == [status : {"none", "pending", "sent", "failed", "skipped"}, attempts : Nat, due : BOOLEAN]
RelCourier == [at : {"idle", "check", "project", "claim", "leased", "fail", "skip"}, user : Members \union {NoMember},
               seen : RelRow, payload : Guides \union {NoGuide}]
ReleasesTyped ==
  /\ joined \subseteq Members /\ catalog \in Guides /\ publication \in Guides \union {NoGuide}
  /\ row \in [Members -> RelRow] /\ relCard \in [Members -> Guides \union {NoGuide}]
  /\ relCourier \in [RelCouriers -> RelCourier]
TextOK(w) == /\ w.at # "idle" => w.user \in Members
             /\ w.at = "leased" => w.user \in joined
             /\ w.payload \in {NoGuide, publication}
Texts == \A c \in RelCouriers : TextOK(relCourier[c])
ReleasesInv == ReleasesTyped /\ Texts /\ R!OneAnnouncement

LEMMA OffOK == R!Off \in RelCourier /\ TextOK(R!Off) /\ R!Unsent \in RelRow
<1>1. R!Unsent \in RelRow BY DEF R!Unsent, RelRow
<1>2. R!Off \in RelCourier BY <1>1 DEF R!Off, RelCourier
<1> QED BY <1>1, <1>2 DEF TextOK, R!Off

LEMMA ReleasesInitially == R!ReleasesInit => ReleasesInv
<1> SUFFICES ASSUME R!ReleasesInit PROVE ReleasesInv OBVIOUS
<1> USE EchoAssumption, OffOK DEF R!ReleasesInit
<1>1. catalog \in Guides OBVIOUS
<1>2. ReleasesTyped BY <1>1 DEF ReleasesTyped
<1>3. Texts BY DEF Texts
<1>4. R!OneAnnouncement BY DEF R!OneAnnouncement
<1> QED BY <1>2, <1>3, <1>4 DEF ReleasesInv

(* A courier moves, the members and the publication stay.                  *)
LEMMA RelCourierMove ==
  ASSUME ReleasesInv, NEW c \in RelCouriers, NEW w \in RelCourier, relCourier' = [relCourier EXCEPT ![c] = w],
         TextOK(w), UNCHANGED <<joined, catalog, publication, relCard>>, row' \in [Members -> RelRow]
  PROVE  ReleasesInv'
<1> USE DEF ReleasesInv
<1>1. ReleasesTyped' BY DEF ReleasesTyped
<1>2. Texts'
  <2> SUFFICES ASSUME NEW x \in RelCouriers PROVE TextOK(relCourier[x])' BY DEF Texts
  <2>1. relCourier'[x] = IF x = c THEN w ELSE relCourier[x] BY DEF ReleasesTyped
  <2>2. TextOK(relCourier'[x]) BY <2>1 DEF Texts
  <2> QED BY <2>2 DEF TextOK
<1>3. R!OneAnnouncement' BY DEF R!OneAnnouncement
<1> QED BY <1>1, <1>2, <1>3
LEMMA StopsStep ==
  ASSUME ReleasesInv, NEW c \in RelCouriers, R!Stops(c),
         UNCHANGED <<joined, catalog, publication, relCard>>, row' \in [Members -> RelRow]
  PROVE  ReleasesInv'
BY OffOK, RelCourierMove DEF R!Stops
LEMMA GoesStep ==
  ASSUME ReleasesInv, NEW c \in RelCouriers, NEW at \in {"project", "leased", "fail", "skip"}, R!Goes(c, at),
         relCourier[c].at # "idle", at = "leased" => relCourier[c].user \in joined,
         UNCHANGED <<joined, catalog, publication, relCard>>, row' \in [Members -> RelRow]
  PROVE  ReleasesInv'
<1> DEFINE w == [relCourier[c] EXCEPT !.at = at]
<1>0. relCourier[c] \in RelCourier /\ TextOK(relCourier[c]) BY DEF ReleasesInv, ReleasesTyped, Texts
<1>1. relCourier' = [relCourier EXCEPT ![c] = w] BY DEF R!Goes, ReleasesInv, ReleasesTyped, RelCourier
<1>2. w \in RelCourier BY <1>0 DEF RelCourier
<1>3. w.at = at /\ w.user = relCourier[c].user /\ w.payload = relCourier[c].payload BY <1>0 DEF RelCourier
<1> HIDE DEF w
<1>4. TextOK(w) BY <1>0, <1>3 DEF TextOK
<1> QED BY <1>1, <1>2, <1>4, RelCourierMove

LEMMA MarkReleaseStep ==
  ASSUME ReleasesTyped, NEW u \in Members, NEW status \in {"sent", "failed", "skipped"}, R!MarkReleaseDelivery(u, status)
  PROVE  row' \in [Members -> RelRow] /\ \A x \in Members : row'[x].status = IF x = u THEN status ELSE row[x].status
<1> DEFINE new == [status |-> status, attempts |-> row[u].attempts + 1, due |-> status # "failed"]
<1>1. row' = [row EXCEPT ![u] = new] BY DEF R!MarkReleaseDelivery
<1>2. row[u].attempts + 1 \in Nat BY DEF ReleasesTyped, RelRow
<1>3. (status # "failed") \in BOOLEAN OBVIOUS
<1>4. new \in RelRow BY <1>2, <1>3, Zenon DEF RelRow
<1>5. new.status = status OBVIOUS
<1> HIDE DEF new
<1> QED BY <1>1, <1>4, <1>5 DEF ReleasesTyped

(* What a step does to a card and to a row that was sent.                  *)
Announced == \A u \in Members : /\ relCard'[u] # relCard[u] => u \in joined
                                /\ row[u].status = "sent" => row'[u].status # "failed"
RowsKept == row' = row \/ \E u \in Members : R!MarkReleaseDelivery(u, "skipped")

LEMMA RowsKeptStep ==
  ASSUME ReleasesInv, RowsKept, UNCHANGED relCard
  PROVE  row' \in [Members -> RelRow] /\ Announced
<1>1. CASE row' = row BY <1>1 DEF ReleasesInv, ReleasesTyped, Announced
<1>2. ASSUME NEW u \in Members, R!MarkReleaseDelivery(u, "skipped") PROVE row' \in [Members -> RelRow] /\ Announced
  BY <1>2, MarkReleaseStep DEF ReleasesInv, Announced
<1> QED BY <1>1, <1>2 DEF RowsKept

LEMMA ReleaseCourierStep ==
  ASSUME ReleasesInv, NEW c \in RelCouriers, R!ReleaseStep(c)
  PROVE  ReleasesInv' /\ Announced
<1> DEFINE u == relCourier[c].user
<1>0. /\ relCourier[c] \in RelCourier /\ TextOK(relCourier[c]) /\ row \in [Members -> RelRow]
      /\ relCourier[c].at # "idle" => u \in Members
  BY DEF ReleasesInv, ReleasesTyped, Texts, TextOK
<1>1. CASE R!CheckRelease(c)
  <2>1. RowsKept /\ UNCHANGED <<joined, catalog, publication, row, relCard>> /\ relCourier[c].at # "idle"
    BY <1>1 DEF R!CheckRelease, RowsKept
  <2>2. R!Stops(c) \/ R!Goes(c, "skip") \/ R!Goes(c, "project") BY <1>1 DEF R!CheckRelease
  <2> QED BY <2>1, <2>2, RowsKeptStep, StopsStep, GoesStep
<1>2. CASE R!ProjectCard(c)
  <2>1. RowsKept /\ UNCHANGED <<joined, catalog, publication, row, relCard>> /\ relCourier[c].at = "project"
    BY <1>2 DEF R!ProjectCard, RowsKept
  <2>2. CASE R!Goes(c, "fail") BY <2>1, <2>2, RowsKeptStep, GoesStep
  <2>3. CASE relCourier' = [relCourier EXCEPT ![c].at = "claim", ![c].payload = R!GuideOfPublication]
    <3> DEFINE w == [relCourier[c] EXCEPT !.at = "claim", !.payload = publication]
    <3>1. relCourier' = [relCourier EXCEPT ![c] = w]
      BY <2>3 DEF R!GuideOfPublication, ReleasesInv, ReleasesTyped, RelCourier
    <3>2. w \in RelCourier BY <1>0 DEF RelCourier, ReleasesInv, ReleasesTyped
    <3>3. w.at = "claim" /\ w.user = u /\ w.payload = publication BY <1>0 DEF RelCourier
    <3> HIDE DEF w
    <3>4. TextOK(w) BY <1>0, <2>1, <3>3 DEF TextOK
    <3> QED BY <2>1, <3>1, <3>2, <3>4, RowsKeptStep, RelCourierMove
  <2> QED BY <1>2, <2>2, <2>3 DEF R!ProjectCard
<1>3. CASE R!ClaimReleaseDelivery(c)
  <2>1. UNCHANGED <<joined, catalog, publication, relCard>> /\ relCourier[c].at = "claim"
    BY <1>3 DEF R!ClaimReleaseDelivery
  <2>2. RowsKept BY <1>0, <1>3, <2>1 DEF R!ClaimReleaseDelivery, RowsKept
  <2>3. R!Stops(c) \/ (R!Goes(c, "leased") /\ u \in joined) BY <1>3 DEF R!ClaimReleaseDelivery, R!MemberAtClaim
  <2> QED BY <2>1, <2>2, <2>3, RowsKeptStep, StopsStep, GoesStep
<1>4. CASE R!WriteReleaseCard(c)
  <2>1. /\ relCourier[c].at = "leased" /\ relCard' = [relCard EXCEPT ![u] = relCourier[c].payload]
        /\ R!MarkReleaseDelivery(u, "sent") /\ R!Stops(c) /\ UNCHANGED <<joined, catalog, publication>>
    BY <1>4 DEF R!WriteReleaseCard
  <2>2. u \in joined /\ u \in Members /\ relCourier[c].payload \in {NoGuide, publication}
        /\ relCourier[c].payload \in Guides \union {NoGuide}
    BY <1>0, <2>1 DEF TextOK, RelCourier
  <2> HIDE DEF u
  <2>3. /\ row' \in [Members -> RelRow]
        /\ \A x \in Members : row'[x].status = IF x = u THEN "sent" ELSE row[x].status
    BY <2>1, <2>2, MarkReleaseStep DEF ReleasesInv
  <2>4. Announced BY <2>1, <2>2, <2>3 DEF Announced, ReleasesInv, ReleasesTyped
  <2>5. ReleasesTyped' BY <2>1, <2>2, <2>3, OffOK DEF ReleasesInv, ReleasesTyped, R!Stops
  <2>6. R!OneAnnouncement' BY <2>1, <2>2 DEF ReleasesInv, ReleasesTyped, R!OneAnnouncement
  <2>7. Texts'
    <3> SUFFICES ASSUME NEW x \in RelCouriers PROVE TextOK(relCourier[x])' BY DEF Texts
    <3>1. relCourier'[x] = IF x = c THEN R!Off ELSE relCourier[x] BY <2>1 DEF R!Stops, ReleasesInv, ReleasesTyped
    <3>2. TextOK(relCourier'[x]) BY <3>1, OffOK DEF ReleasesInv, Texts
    <3> QED BY <2>1, <3>2 DEF TextOK
  <2> QED BY <2>4, <2>5, <2>6, <2>7 DEF ReleasesInv
<1>5. CASE R!failRelease(c)
  <2>1. R!Stops(c) /\ UNCHANGED <<joined, catalog, publication, relCard>> /\ relCourier[c].at = "fail"
    BY <1>5 DEF R!failRelease
  <2>2. CASE row' = row BY <2>1, <2>2, RowsKeptStep, StopsStep DEF RowsKept
  <2>3. CASE row[u].status # "sent" /\ R!MarkReleaseDelivery(u, "failed")
    <3>1. u \in Members BY <1>0, <2>1
    <3> HIDE DEF u
    <3>2. /\ row' \in [Members -> RelRow]
          /\ \A x \in Members : row'[x].status = IF x = u THEN "failed" ELSE row[x].status
      BY <2>3, <3>1, MarkReleaseStep DEF ReleasesInv
    <3>3. Announced BY <2>1, <2>3, <3>2 DEF Announced
    <3> QED BY <2>1, <3>2, <3>3, StopsStep
  <2> QED BY <1>5, <2>2, <2>3 DEF R!failRelease, R!NotSentMeanwhile
<1>6. CASE R!commitReleaseStatus(c)
  <2>1. R!Stops(c) /\ UNCHANGED <<joined, catalog, publication, relCard>> /\ relCourier[c].at = "skip"
    BY <1>6 DEF R!commitReleaseStatus
  <2>2. RowsKept BY <1>0, <1>6, <2>1 DEF R!commitReleaseStatus, RowsKept
  <2> QED BY <2>1, <2>2, RowsKeptStep, StopsStep
<1> QED BY <1>1, <1>2, <1>3, <1>4, <1>5, <1>6 DEF R!ReleaseStep

(* Publication, upgrades, members, rows picked up and deliveries that fail. *)
LEMMA ReleaseRestStep ==
  ASSUME ReleasesInv, [R!ReleasesNext]_(R!relVars), \A c \in RelCouriers : ~R!ReleaseStep(c)
  PROVE  ReleasesInv' /\ Announced
<1>0. row \in [Members -> RelRow] BY DEF ReleasesInv, ReleasesTyped
<1>1. CASE R!PublishInTx
  <2>0. publication = NoGuide /\ publication' = catalog /\ UNCHANGED <<joined, catalog, relCard, relCourier>>
    BY <1>1 DEF R!PublishInTx
  <2>1. row' \in [Members -> RelRow] /\ \A u \in Members : row'[u].status = "pending" \/ row'[u] = row[u]
    <3>1. [R!Unsent EXCEPT !.status = "pending"] \in RelRow /\ [R!Unsent EXCEPT !.status = "pending"].status = "pending"
      BY OffOK DEF RelRow
    <3> DEFINE fresh == [R!Unsent EXCEPT !.status = "pending"]
    <3>2. row' = [u \in Members |-> IF u \in joined THEN fresh ELSE row[u]]
      BY <1>1 DEF R!PublishInTx, R!InsertReleaseDeliveryRows
    <3> HIDE DEF fresh
    <3>3. fresh \in RelRow /\ fresh.status = "pending" BY <3>1 DEF fresh
    <3> QED BY <1>0, <3>2, <3>3
  <2>2. ReleasesTyped' BY <2>0, <2>1 DEF ReleasesInv, ReleasesTyped
  <2>3. Texts' BY <2>0 DEF ReleasesInv, Texts, TextOK
  <2>4. R!OneAnnouncement' BY <2>0 DEF ReleasesInv, R!OneAnnouncement
  <2>5. Announced BY <2>0, <2>1 DEF Announced
  <2> QED BY <2>2, <2>3, <2>4, <2>5 DEF ReleasesInv
<1>2. ASSUME NEW g \in Guides, R!Upgrade(g) PROVE ReleasesInv' /\ Announced
  <2> USE <1>2 DEF R!Upgrade, ReleasesInv
  <2>1. ReleasesTyped' BY DEF ReleasesTyped
  <2>2. Texts' BY DEF Texts, TextOK
  <2>3. R!OneAnnouncement' /\ Announced BY DEF R!OneAnnouncement, Announced
  <2> QED BY <2>1, <2>2, <2>3
<1>3. ASSUME NEW u \in Members, R!MembershipChanges(u) PROVE ReleasesInv' /\ Announced
  <2>0. /\ joined' \in SUBSET Members /\ joined \ {u} \subseteq joined'
        /\ ~\E c \in RelCouriers : relCourier[c].at = "leased" /\ relCourier[c].user = u
        /\ UNCHANGED <<catalog, publication, row, relCard, relCourier>>
    BY <1>3 DEF R!MembershipChanges, ReleasesInv, ReleasesTyped
  <2>1. ReleasesTyped' BY <2>0 DEF ReleasesInv, ReleasesTyped
  <2>2. Texts' BY <2>0 DEF ReleasesInv, Texts, TextOK
  <2>3. R!OneAnnouncement' /\ Announced BY <2>0 DEF ReleasesInv, R!OneAnnouncement, Announced
  <2> QED BY <2>1, <2>2, <2>3 DEF ReleasesInv
<1>4. ASSUME NEW u \in Members, R!RetryDue(u) PROVE ReleasesInv' /\ Announced
  <2>0. /\ row[u].status = "failed" /\ row' = [row EXCEPT ![u].due = TRUE]
        /\ UNCHANGED <<joined, catalog, publication, relCard, relCourier>>
    BY <1>4 DEF R!RetryDue
  <2>1. row' \in [Members -> RelRow] /\ \A x \in Members : row'[x].status = row[x].status BY <1>0, <2>0 DEF RelRow
  <2>2. ReleasesTyped' BY <2>0, <2>1 DEF ReleasesInv, ReleasesTyped
  <2>3. Texts' BY <2>0 DEF ReleasesInv, Texts, TextOK
  <2>4. R!OneAnnouncement' /\ Announced BY <2>0, <2>1 DEF ReleasesInv, R!OneAnnouncement, Announced
  <2> QED BY <2>2, <2>3, <2>4 DEF ReleasesInv
<1>5. ASSUME NEW c \in RelCouriers, R!ReleaseFails(c) PROVE ReleasesInv' /\ Announced
  <2>1. UNCHANGED <<joined, catalog, publication, row, relCard>> BY <1>5 DEF R!ReleaseFails
  <2>2. R!Stops(c) \/ (R!Goes(c, "fail") /\ relCourier[c].at # "idle") BY <1>5 DEF R!ReleaseFails
  <2> QED BY <1>0, <2>1, <2>2, StopsStep, GoesStep DEF Announced
<1>6. ASSUME NEW c \in RelCouriers, NEW u \in Members, R!ListReleaseWork(c, u) \/ R!SyncRelease(c, u)
      PROVE  ReleasesInv' /\ Announced
  <2> DEFINE w == [R!Off EXCEPT !.at = "check", !.user = u, !.seen = row[u]]
  <2>1. relCourier' = [relCourier EXCEPT ![c] = w] /\ UNCHANGED <<joined, catalog, publication, row, relCard>>
    BY <1>6 DEF R!ListReleaseWork, R!SyncRelease, R!Picks
  <2>2. w \in RelCourier BY <1>0, OffOK DEF RelCourier
  <2>3. w.at = "check" /\ w.user = u /\ w.payload = NoGuide BY DEF R!Off
  <2> HIDE DEF w
  <2>4. TextOK(w) BY <2>3 DEF TextOK
  <2> QED BY <1>0, <2>1, <2>2, <2>4, RelCourierMove DEF Announced
<1>7. CASE UNCHANGED R!relVars
  <2> USE <1>7 DEF R!relVars, ReleasesInv
  <2>1. ReleasesTyped' BY DEF ReleasesTyped
  <2>2. Texts' BY DEF Texts, TextOK
  <2>3. R!OneAnnouncement' /\ Announced BY DEF R!OneAnnouncement, Announced
  <2> QED BY <2>1, <2>2, <2>3
<1> QED BY <1>1, <1>2, <1>3, <1>4, <1>5, <1>6, <1>7 DEF R!ReleasesNext

(* Every member is shown the text that was published, members only are,    *)
(* and what one courier delivered no other one reports failed.             *)
THEOREM ReleasesCorrect ==
  ReleaseSpec => [](R!ReleasesTypeOK /\ R!OneAnnouncement) /\ R!AnnouncedToMembersOnly /\ R!AnnouncedNeverFails
<1>1. ReleasesInv => R!ReleasesTypeOK /\ R!OneAnnouncement
  <2> SUFFICES ASSUME ReleasesInv PROVE R!ReleasesTypeOK BY DEF ReleasesInv
  <2>1. ASSUME NEW u \in Members
        PROVE  /\ row[u].status \in {"none", "pending", "sent", "failed", "skipped"}
               /\ row[u].attempts \in Nat /\ relCard[u] \in Guides \union {NoGuide}
    BY DEF ReleasesInv, ReleasesTyped, RelRow
  <2>2. ASSUME NEW c \in RelCouriers
        PROVE  relCourier[c].at \in {"idle", "check", "project", "claim", "leased", "fail", "skip"}
    BY DEF ReleasesInv, ReleasesTyped, RelCourier
  <2> QED BY <2>1, <2>2 DEF ReleasesInv, ReleasesTyped, R!ReleasesTypeOK
<1>2. ReleasesInv /\ [R!ReleasesNext]_(R!relVars) => ReleasesInv' /\ Announced
  BY ReleaseCourierStep, ReleaseRestStep
<1>3. Announced => [\A u \in Members : relCard'[u] # relCard[u] => u \in joined]_(R!relVars) BY DEF Announced
<1>4. Announced => [\A u \in Members : row[u].status = "sent" => row'[u].status # "failed"]_(R!relVars)
  BY DEF Announced
<1> QED BY <1>1, <1>2, <1>3, <1>4, ReleasesInitially, PTL
        DEF ReleaseSpec, R!AnnouncedToMembersOnly, R!AnnouncedNeverFails
-----------------------------------------------------------------------------
(***************************************************************************)
(* Automation. By stage: what a call has written is its own key's; before  *)
(* the savepoint nothing is written and behind it nothing is left, unless  *)
(* the cleanup failed, and that is infrastructure; a call that met         *)
(* infrastructure still carries it when its error is judged.               *)
(***************************************************************************)
AutomationSpec == A!AutomationInit /\ [][A!AutomationNext]_(A!automationVars)

RowKinds == {"draft", "published", "requirement", "release", "moved", "cancelled"}
Infra == {"server", "driver", "savepoint"}
CallRow == [pc : {"new", "begun", "saved", "undo", "judge", "finish", "over"}, op : A!Operations,
            key : AutomationKeys \union {"none"}, step : Nat, writes : SUBSET (RowKinds \X AutomationKeys),
            saved : {{}}, audit : SUBSET (AutomationCalls \X {"echo"}), err : SUBSET (A!Leaves \union {"savepoint"}),
            rejection : BOOLEAN, trouble : BOOLEAN, answer : {"none", "ok", "refused", "unavailable"}]
AutomationTyped ==
  /\ db \subseteq RowKinds \X AutomationKeys /\ run \in [AutomationKeys -> {"none", "failed", "done"}]
  /\ evidence \subseteq AutomationCalls \X {"echo", "refused", "success"} /\ call \in [AutomationCalls -> CallRow]
(* What is true of a call by its stage.                                    *)
OwnWrites(w) == /\ w.pc # "new" => w.key \in AutomationKeys
                /\ \A x \in w.writes : x[2] = w.key
                /\ w.pc \in {"new", "begun"} => w.writes = {} /\ w.err = {} /\ w.step = 1
                /\ w.pc = "saved" => w.err = {} /\ w.step \in 1..Len(A!Writes(w.op, w.key))
LeavesNone(w) == /\ w.pc \in {"undo", "judge"} => w.err # {}
                 /\ w.pc \in {"judge", "finish", "over"} /\ w.err # {} => w.writes = {} \/ "savepoint" \in w.err
Answered(w) == /\ w.answer # "none" => w.pc = "over"
               /\ w.answer = "refused" => w.err \intersect Infra = {}
Troubled(w) == w.trouble => /\ w.pc \in {"undo", "judge", "finish", "over"} /\ w.err \intersect Infra # {}
                            /\ w.answer \in {"none", "unavailable"}
Witness(c, w) == w.rejection => /\ w.pc \in {"finish", "over"}
                                /\ w.pc = "finish" => <<c, "echo">> \in w.audit
CallOK(c, w) == OwnWrites(w) /\ LeavesNone(w) /\ Answered(w) /\ Troubled(w) /\ Witness(c, w)
CallsOK == \A c \in AutomationCalls : CallOK(c, call[c])
(* Every committed row has a call of its key that succeeded.               *)
Earned(x) == \E d \in AutomationCalls : call[d].key = x[2] /\ call[d].answer = "ok"
AllEarned == \A x \in db : Earned(x)
AutomationInv == AutomationTyped /\ CallsOK /\ AllEarned /\ A!RejectionWitnessed

LEMMA OpsAre == A!Operations = {"publish", "need", "release", "transition", "cancel"}
BY DEF A!Operations, A!commandDefinitions
LEMMA WritesAre ==
  ASSUME NEW k
  PROVE  /\ A!Writes("publish", k) = <<{<<"draft", k>>}, {<<"published", k>>}>>
         /\ A!Writes("need", k) = <<{<<"requirement", k>>}>> /\ A!Writes("release", k) = <<{<<"release", k>>}>>
         /\ A!Writes("transition", k) = <<{<<"moved", k>>}>> /\ A!Writes("cancel", k) = <<{<<"cancelled", k>>}>>
BY DEF A!Writes, A!continuePublishWorkflow, A!continueRequirementWorkflow, A!releaseCommand,
       A!transitionRequirementCommand, A!cancelCommand, A!CancelWorkflowInTx
(* What an operation writes carries its key.                               *)
LEMMA WritesOwn ==
  ASSUME NEW op \in A!Operations, NEW k \in AutomationKeys, NEW s \in 1..Len(A!Writes(op, k))
  PROVE  \E t \in RowKinds : A!Writes(op, k)[s] = {<<t, k>>}
<1>0. ASSUME NEW t \in RowKinds, A!Writes(op, k)[s] = {<<t, k>>} PROVE \E y \in RowKinds : A!Writes(op, k)[s] = {<<y, k>>}
  BY <1>0
<1>1. CASE op = "publish"
  <2>1. A!Writes(op, k) = <<{<<"draft", k>>}, {<<"published", k>>}>> BY <1>1, WritesAre
  <2>2. s = 1 \/ s = 2 BY <2>1
  <2>3. A!Writes(op, k)[s] = {<<"draft", k>>} \/ A!Writes(op, k)[s] = {<<"published", k>>} BY <2>1, <2>2
  <2> QED BY <2>3, <1>0 DEF RowKinds
<1>2. CASE op = "need"
  <2>1. A!Writes(op, k) = <<{<<"requirement", k>>}>> BY <1>2, WritesAre
  <2>2. s = 1 BY <2>1
  <2>3. A!Writes(op, k)[s] = {<<"requirement", k>>} BY <2>1, <2>2
  <2> QED BY <2>3, <1>0 DEF RowKinds
<1>3. CASE op = "release"
  <2>1. A!Writes(op, k) = <<{<<"release", k>>}>> BY <1>3, WritesAre
  <2>2. s = 1 BY <2>1
  <2>3. A!Writes(op, k)[s] = {<<"release", k>>} BY <2>1, <2>2
  <2> QED BY <2>3, <1>0 DEF RowKinds
<1>4. CASE op = "transition"
  <2>1. A!Writes(op, k) = <<{<<"moved", k>>}>> BY <1>4, WritesAre
  <2>2. s = 1 BY <2>1
  <2>3. A!Writes(op, k)[s] = {<<"moved", k>>} BY <2>1, <2>2
  <2> QED BY <2>3, <1>0 DEF RowKinds
<1>5. CASE op = "cancel"
  <2>1. A!Writes(op, k) = <<{<<"cancelled", k>>}>> BY <1>5, WritesAre
  <2>2. s = 1 BY <2>1
  <2>3. A!Writes(op, k)[s] = {<<"cancelled", k>>} BY <2>1, <2>2
  <2> QED BY <2>3, <1>0 DEF RowKinds
<1> QED BY <1>1, <1>2, <1>3, <1>4, <1>5, OpsAre
LEMMA WritesSome ==
  ASSUME NEW op \in A!Operations, NEW k \in AutomationKeys
  PROVE  Len(A!Writes(op, k)) \in {1, 2}
BY OpsAre, WritesAre

LEMMA NewCallOK == A!NewCall \in CallRow /\ \A c \in AutomationCalls : CallOK(c, A!NewCall)
<1>1. A!NewCall \in CallRow BY OpsAre DEF A!NewCall, CallRow
<1>2. A!NewCall.pc = "new" /\ A!NewCall.writes = {} /\ A!NewCall.err = {} /\ A!NewCall.step = 1
      /\ A!NewCall.answer = "none" /\ A!NewCall.rejection = FALSE /\ A!NewCall.trouble = FALSE
  BY DEF A!NewCall
<1> QED BY <1>1, <1>2 DEF CallOK, OwnWrites, LeavesNone, Answered, Troubled, Witness

LEMMA AutomationInitially == A!AutomationInit => AutomationInv
<1> SUFFICES ASSUME A!AutomationInit PROVE AutomationInv OBVIOUS
<1> USE DEF A!AutomationInit
<1>1. AutomationTyped BY NewCallOK DEF AutomationTyped
<1>2. CallsOK BY NewCallOK DEF CallsOK
<1>3. AllEarned BY DEF AllEarned
<1>4. A!RejectionWitnessed BY DEF A!RejectionWitnessed, A!NewCall
<1> QED BY <1>1, <1>2, <1>3, <1>4 DEF AutomationInv

(* A call moves on and nothing is committed.                               *)
LEMMA CallMove ==
  ASSUME AutomationInv, NEW c \in AutomationCalls, NEW w \in CallRow, call' = [call EXCEPT ![c] = w], CallOK(c, w),
         call[c].answer = "none", w.answer = "refused" => ~w.rejection, UNCHANGED <<db, run, evidence>>
  PROVE  AutomationInv'
<1> USE DEF AutomationInv
<1>1. AutomationTyped' BY DEF AutomationTyped
<1>2. CallsOK' BY DEF CallsOK, AutomationTyped
<1>3. AllEarned'
  <2> SUFFICES ASSUME NEW x \in db PROVE \E d \in AutomationCalls : call'[d].key = x[2] /\ call'[d].answer = "ok"
    BY DEF AllEarned, Earned
  <2>1. PICK d \in AutomationCalls : call[d].key = x[2] /\ call[d].answer = "ok" BY DEF AllEarned, Earned
  <2>2. d # c BY <2>1
  <2>3. call'[d] = call[d] BY <2>2 DEF AutomationTyped
  <2> QED BY <2>1, <2>3
<1>4. A!RejectionWitnessed' BY DEF A!RejectionWitnessed, AutomationTyped
<1> QED BY <1>1, <1>2, <1>3, <1>4

LEMMA CallTyped == ASSUME AutomationInv, NEW c \in AutomationCalls PROVE call[c] \in CallRow /\ CallOK(c, call[c])
BY DEF AutomationInv, AutomationTyped, CallsOK

LEMMA BeginStep ==
  ASSUME AutomationInv, NEW c \in AutomationCalls, NEW op \in A!Operations, NEW k \in AutomationKeys,
         NEW role_, A!Begin(c, op, k, role_)
  PROVE  AutomationInv'
<1> DEFINE new == [A!NewCall EXCEPT !.op = op, !.key = k]
           answer_ == IF run[k] = "done" THEN "ok" ELSE "refused"
           w1 == [new EXCEPT !.pc = "over", !.answer = answer_]
           w2 == [new EXCEPT !.pc = "finish", !.err = {"invalid"}]
           w3 == [new EXCEPT !.pc = "begun"]
<1>0. call' = [call EXCEPT ![c] = w1] \/ call' = [call EXCEPT ![c] = w2] \/ call' = [call EXCEPT ![c] = w3]
  BY DEF A!Begin
<1>1. call[c].pc = "new" /\ UNCHANGED <<db, run, evidence>> BY DEF A!Begin
<1>2. call[c].answer = "none" BY <1>1, CallTyped DEF CallOK, Answered, CallRow
<1>3. new \in CallRow BY NewCallOK DEF CallRow
<1>4. /\ new.key = k /\ new.op = op /\ new.writes = {} /\ new.err = {} /\ new.step = 1 /\ new.answer = "none"
      /\ new.rejection = FALSE /\ new.trouble = FALSE
  BY DEF A!NewCall
<1>a. answer_ \in {"ok", "refused"} OBVIOUS
<1> HIDE DEF new, answer_
<1>5. w1 \in CallRow /\ w2 \in CallRow /\ w3 \in CallRow BY <1>3, <1>a DEF CallRow, A!Leaves
<1>6. /\ w1.pc = "over" /\ w1.key = k /\ w1.writes = {} /\ w1.err = {} /\ w1.rejection = FALSE /\ w1.trouble = FALSE
      /\ w2.pc = "finish" /\ w2.key = k /\ w2.writes = {} /\ w2.err = {"invalid"} /\ w2.rejection = FALSE
      /\ w2.trouble = FALSE /\ w2.answer = "none"
      /\ w3.pc = "begun" /\ w3.key = k /\ w3.writes = {} /\ w3.err = {} /\ w3.rejection = FALSE
      /\ w3.trouble = FALSE /\ w3.answer = "none" /\ w3.step = 1
  BY <1>3, <1>4 DEF CallRow
<1> HIDE DEF w1, w2, w3
<1> USE DEF CallOK, OwnWrites, LeavesNone, Answered, Troubled, Witness
<1>7. CallOK(c, w1) BY <1>6
<1>8. CallOK(c, w2) BY <1>6
<1>9. CallOK(c, w3) BY <1>6
<1> HIDE DEF CallOK, OwnWrites, LeavesNone, Answered, Troubled, Witness
<1> QED BY <1>0, <1>1, <1>2, <1>5, <1>6, <1>7, <1>8, <1>9, CallMove

LEMMA SavepointStep ==
  ASSUME AutomationInv, NEW c \in AutomationCalls, A!OpenSavepoint(c)
  PROVE  AutomationInv'
<1> DEFINE w1 == [call[c] EXCEPT !.pc = "saved", !.saved = call[c].writes]
           w2 == [call[c] EXCEPT !.pc = "judge", !.err = {"savepoint"}, !.trouble = TRUE]
<1>0. call[c].pc = "begun" /\ UNCHANGED <<db, run, evidence>> BY DEF A!OpenSavepoint
<1>1. call[c] \in CallRow /\ CallOK(c, call[c]) BY CallTyped
<1>2. call' = [call EXCEPT ![c] = w1] \/ call' = [call EXCEPT ![c] = w2]
  BY <1>1 DEF A!OpenSavepoint, AutomationInv, AutomationTyped, CallRow
<1>3. /\ call[c].answer = "none" /\ call[c].writes = {} /\ call[c].err = {} /\ call[c].step = 1
      /\ call[c].key \in AutomationKeys /\ call[c].rejection = FALSE /\ call[c].trouble = FALSE
      /\ call[c].op \in A!Operations
  BY <1>0, <1>1 DEF CallOK, OwnWrites, Answered, Witness, Troubled, CallRow
<1>4. w1 \in CallRow /\ w2 \in CallRow BY <1>1, <1>3 DEF CallRow
<1>5. /\ w1.pc = "saved" /\ w1.key = call[c].key /\ w1.op = call[c].op /\ w1.writes = {} /\ w1.err = {}
      /\ w1.rejection = FALSE /\ w1.trouble = FALSE /\ w1.answer = "none" /\ w1.step = 1
      /\ w2.pc = "judge" /\ w2.key = call[c].key /\ w2.writes = {} /\ w2.err = {"savepoint"}
      /\ w2.rejection = FALSE /\ w2.answer = "none"
  BY <1>1, <1>3 DEF CallRow
<1> DEFINE n == Len(A!Writes(call[c].op, call[c].key))
<1>a. n \in {1, 2} BY <1>3, WritesSome
<1> HIDE DEF n
<1>b. 1 \in 1..n BY <1>a
<1>6. 1 \in 1..Len(A!Writes(call[c].op, call[c].key)) BY <1>b DEF n
<1> HIDE DEF w1, w2
<1> USE DEF CallOK, OwnWrites, LeavesNone, Answered, Troubled, Witness
<1>7. CallOK(c, w1) BY <1>3, <1>5, <1>6
<1>8. CallOK(c, w2) BY <1>3, <1>5 DEF Infra
<1> HIDE DEF CallOK, OwnWrites, LeavesNone, Answered, Troubled, Witness
<1> QED BY <1>0, <1>2, <1>3, <1>4, <1>5, <1>7, <1>8, CallMove

(* One operation of a domain: it writes for its own key, or fails.         *)
LEMMA DomainStepKeeps ==
  ASSUME AutomationInv, NEW c \in AutomationCalls, A!DomainStep(c)
  PROVE  AutomationInv'
<1> DEFINE steps == A!Writes(call[c].op, call[c].key)  rows == steps[call[c].step]
<1>0. call[c].pc = "saved" /\ UNCHANGED <<db, run, evidence>> BY DEF A!DomainStep
<1>1. call[c] \in CallRow /\ CallOK(c, call[c]) BY CallTyped
<1>2. /\ call[c].answer = "none" /\ call[c].err = {} /\ call[c].key \in AutomationKeys
      /\ call[c].rejection = FALSE /\ call[c].trouble = FALSE /\ call[c].op \in A!Operations
      /\ call[c].step \in 1..Len(steps) /\ \A x \in call[c].writes : x[2] = call[c].key
  BY <1>0, <1>1 DEF CallOK, OwnWrites, Answered, Witness, Troubled, CallRow
<1>3. PICK t \in RowKinds : rows = {<<t, call[c].key>>} BY <1>2, WritesOwn
<1>4. Len(steps) \in {1, 2} BY <1>2, WritesSome
<1>5. \A done \in {{}, rows} : /\ call[c].writes \union done \in SUBSET (RowKinds \X AutomationKeys)
                               /\ \A x \in call[c].writes \union done : x[2] = call[c].key
  BY <1>1, <1>2, <1>3 DEF CallRow
<1>6. ASSUME call[c].step < Len(steps),
             call' = [call EXCEPT ![c].writes = @ \union rows, ![c].step = @ + 1]
      PROVE  AutomationInv'
  <2> DEFINE n == call[c].step + 1  all == call[c].writes \union rows
             w == [call[c] EXCEPT !.writes = all, !.step = n]
  <2>1. call' = [call EXCEPT ![c] = w] BY <1>1, <1>6 DEF AutomationInv, AutomationTyped, CallRow
  <2>2. n \in Nat /\ n \in 1..Len(steps) BY <1>2, <1>4, <1>6
  <2>3. all \in SUBSET (RowKinds \X AutomationKeys) /\ \A x \in all : x[2] = call[c].key BY <1>5
  <2> HIDE DEF n, all, rows
  <2>4. w \in CallRow BY <1>1, <2>2, <2>3 DEF CallRow
  <2>5. /\ w.pc = "saved" /\ w.key = call[c].key /\ w.op = call[c].op /\ w.writes = all /\ w.err = {}
        /\ w.rejection = FALSE /\ w.trouble = FALSE /\ w.answer = "none" /\ w.step = n
    BY <1>0, <1>1, <1>2 DEF CallRow
  <2> HIDE DEF w
  <2>6. CallOK(c, w) BY <1>2, <2>2, <2>3, <2>5 DEF CallOK, OwnWrites, LeavesNone, Answered, Troubled, Witness
  <2> QED BY <1>0, <1>2, <2>1, <2>4, <2>5, <2>6, CallMove
<1>7. ASSUME call' = [call EXCEPT ![c].writes = @ \union rows, ![c].pc = "finish"]
      PROVE  AutomationInv'
  <2> DEFINE all == call[c].writes \union rows
             w == [call[c] EXCEPT !.writes = all, !.pc = "finish"]
  <2>1. call' = [call EXCEPT ![c] = w] BY <1>1, <1>7 DEF AutomationInv, AutomationTyped, CallRow
  <2>3. all \in SUBSET (RowKinds \X AutomationKeys) /\ \A x \in all : x[2] = call[c].key BY <1>5
  <2> HIDE DEF all, rows
  <2>4. w \in CallRow BY <1>1, <2>3 DEF CallRow
  <2>5. /\ w.pc = "finish" /\ w.key = call[c].key /\ w.writes = all /\ w.err = {}
        /\ w.rejection = FALSE /\ w.trouble = FALSE /\ w.answer = "none"
    BY <1>1, <1>2 DEF CallRow
  <2> HIDE DEF w
  <2>6. CallOK(c, w) BY <1>2, <2>3, <2>5 DEF CallOK, OwnWrites, LeavesNone, Answered, Troubled, Witness
  <2> QED BY <1>0, <1>2, <2>1, <2>4, <2>5, <2>6, CallMove
<1>8. ASSUME NEW leaves \in (SUBSET A!Leaves) \ {{}}, NEW done \in {{}, rows}, A!Fails(c, leaves, done)
      PROVE  AutomationInv'
  <2> DEFINE all == call[c].writes \union done
             bad == leaves \intersect {"server", "driver"} # {}
             w == [call[c] EXCEPT !.pc = "undo", !.err = leaves, !.writes = all, !.trouble = bad]
  <2>1. call' = [call EXCEPT ![c] = w] BY <1>1, <1>8 DEF A!Fails, AutomationInv, AutomationTyped, CallRow
  <2>2. bad \in BOOLEAN /\ (bad => leaves \intersect Infra # {}) BY DEF Infra
  <2>3. all \in SUBSET (RowKinds \X AutomationKeys) /\ \A x \in all : x[2] = call[c].key BY <1>5, <1>8
  <2> HIDE DEF all, rows, bad
  <2>4. w \in CallRow BY <1>1, <2>2, <2>3 DEF CallRow
  <2>5. /\ w.pc = "undo" /\ w.key = call[c].key /\ w.writes = all /\ w.err = leaves
        /\ w.rejection = FALSE /\ w.trouble = bad /\ w.answer = "none"
    BY <1>1, <1>2 DEF CallRow
  <2> HIDE DEF w
  <2>6. CallOK(c, w) BY <1>2, <2>2, <2>3, <2>5 DEF CallOK, OwnWrites, LeavesNone, Answered, Troubled, Witness
  <2> QED BY <1>0, <1>2, <2>1, <2>4, <2>5, <2>6, CallMove
<1> QED BY <1>6, <1>7, <1>8 DEF A!DomainStep

LEMMA UndoStep ==
  ASSUME AutomationInv, NEW c \in AutomationCalls, A!WithEchoSavepoint(c)
  PROVE  AutomationInv'
<1> DEFINE both == call[c].err \union {"savepoint"}
           w1 == [call[c] EXCEPT !.pc = "judge", !.writes = call[c].saved]
           w2 == [call[c] EXCEPT !.pc = "judge", !.err = both, !.trouble = TRUE]
<1>0. call[c].pc = "undo" /\ UNCHANGED <<db, run, evidence>> BY DEF A!WithEchoSavepoint
<1>1. call[c] \in CallRow /\ CallOK(c, call[c]) BY CallTyped
<1>2. /\ call[c].answer = "none" /\ call[c].key \in AutomationKeys /\ call[c].rejection = FALSE
      /\ \A x \in call[c].writes : x[2] = call[c].key
  BY <1>0, <1>1 DEF CallOK, OwnWrites, Answered, Witness, CallRow
<1>3. call[c].err # {} /\ (call[c].trouble => call[c].err \intersect Infra # {}) /\ call[c].saved = {}
  BY <1>0, <1>1 DEF CallOK, LeavesNone, Troubled, CallRow
<1>4. call' = [call EXCEPT ![c] = w1] \/ call' = [call EXCEPT ![c] = w2]
  BY <1>1 DEF A!WithEchoSavepoint, A!RollbackTo, AutomationInv, AutomationTyped, CallRow
<1>5. both \in SUBSET (A!Leaves \union {"savepoint"}) /\ "savepoint" \in both BY <1>1 DEF CallRow
<1> HIDE DEF both
<1>6. w1 \in CallRow /\ w2 \in CallRow BY <1>1, <1>3, <1>5 DEF CallRow
<1>7. /\ w1.pc = "judge" /\ w1.key = call[c].key /\ w1.writes = {} /\ w1.err = call[c].err
      /\ w1.rejection = FALSE /\ w1.trouble = call[c].trouble /\ w1.answer = "none"
      /\ w2.pc = "judge" /\ w2.key = call[c].key /\ w2.writes = call[c].writes /\ w2.err = both
      /\ w2.rejection = FALSE /\ w2.answer = "none"
  BY <1>1, <1>2, <1>3 DEF CallRow
<1> HIDE DEF w1, w2
<1> USE DEF CallOK, OwnWrites, LeavesNone, Answered, Troubled, Witness
<1>8. CallOK(c, w1) BY <1>2, <1>3, <1>7
<1>9. CallOK(c, w2) BY <1>2, <1>5, <1>7 DEF Infra
<1> HIDE DEF CallOK, OwnWrites, LeavesNone, Answered, Troubled, Witness
<1> QED BY <1>0, <1>2, <1>4, <1>6, <1>7, <1>8, <1>9, CallMove

LEMMA JudgeStep ==
  ASSUME AutomationInv, NEW c \in AutomationCalls, A!publicDomainError(c)
  PROVE  AutomationInv'
<1> DEFINE e == call[c].err
           rejected == A!asRejection(e)
           left == IF A!hasInfrastructureLeaf(e) THEN e ELSE {"invalid"}
           both == e \union {"driver"}
           w1 == [call[c] EXCEPT !.pc = "finish", !.audit = A!preserveRejection(c), !.rejection = rejected, !.err = left]
           w2 == [call[c] EXCEPT !.pc = "finish", !.err = both, !.trouble = TRUE]
<1>0. call[c].pc = "judge" /\ UNCHANGED <<db, run, evidence>> BY DEF A!publicDomainError
<1>1. call[c] \in CallRow /\ CallOK(c, call[c]) BY CallTyped
<1>2. /\ call[c].answer = "none" /\ call[c].key \in AutomationKeys /\ call[c].rejection = FALSE
      /\ \A x \in call[c].writes : x[2] = call[c].key
  BY <1>0, <1>1 DEF CallOK, OwnWrites, Answered, Witness, CallRow
<1>3. /\ e # {} /\ (call[c].trouble => e \intersect Infra # {}) /\ (call[c].writes = {} \/ "savepoint" \in e)
      /\ e \in SUBSET (A!Leaves \union {"savepoint"})
  BY <1>0, <1>1 DEF CallOK, LeavesNone, Troubled, CallRow
<1>4. call' = [call EXCEPT ![c] = w1] \/ (rejected /\ call' = [call EXCEPT ![c] = w2])
  BY <1>1 DEF A!publicDomainError, AutomationInv, AutomationTyped, CallRow
<1>5. rejected \in BOOLEAN /\ (rejected => <<c, "echo">> \in A!preserveRejection(c))
      /\ A!preserveRejection(c) \in SUBSET (AutomationCalls \X {"echo"})
  BY DEF A!asRejection, A!preserveRejection
<1>6. /\ left \in SUBSET (A!Leaves \union {"savepoint"}) /\ (e \intersect Infra # {} => left = e)
      /\ call[c].writes = {} \/ "savepoint" \in left
  BY <1>3 DEF A!hasInfrastructureLeaf, Infra, A!Leaves
<1>7. both \in SUBSET (A!Leaves \union {"savepoint"}) /\ both \intersect Infra # {}
      /\ (rejected => call[c].writes = {})
  BY <1>3 DEF A!hasInfrastructureLeaf, A!asRejection, Infra, A!Leaves
<1> HIDE DEF e, rejected, left, both
<1>8. w1 \in CallRow /\ w2 \in CallRow BY <1>1, <1>5, <1>6, <1>7 DEF CallRow
<1>9. /\ w1.pc = "finish" /\ w1.key = call[c].key /\ w1.writes = call[c].writes /\ w1.err = left
      /\ w1.rejection = rejected /\ w1.trouble = call[c].trouble /\ w1.answer = "none"
      /\ w1.audit = A!preserveRejection(c)
      /\ w2.pc = "finish" /\ w2.key = call[c].key /\ w2.writes = call[c].writes /\ w2.err = both
      /\ w2.rejection = FALSE /\ w2.answer = "none"
  BY <1>1, <1>2 DEF CallRow
<1> HIDE DEF w1, w2
<1> USE DEF CallOK, OwnWrites, LeavesNone, Answered, Troubled, Witness
<1>10. CallOK(c, w1) BY <1>2, <1>3, <1>5, <1>6, <1>9
<1>11. rejected => CallOK(c, w2) BY <1>2, <1>7, <1>9
<1> HIDE DEF CallOK, OwnWrites, LeavesNone, Answered, Troubled, Witness
<1> QED BY <1>0, <1>2, <1>4, <1>8, <1>9, <1>10, <1>11, CallMove

(* A call ends: what it leaves, besides what it commits.                   *)
LEMMA OverStep ==
  ASSUME AutomationInv, NEW c \in AutomationCalls, NEW answer_ \in {"ok", "refused", "unavailable"},
         call[c].pc = "finish", A!Over(c, answer_),
         answer_ \in {"ok", "refused"} => call[c].err \intersect Infra = {}
  PROVE  /\ call' \in [AutomationCalls -> CallRow] /\ CallsOK' /\ call[c].answer = "none"
         /\ \A d \in AutomationCalls \ {c} : call'[d] = call[d]
         /\ call'[c].key = call[c].key /\ call'[c].answer = answer_ /\ call'[c].rejection = call[c].rejection
<1> DEFINE w == [call[c] EXCEPT !.pc = "over", !.answer = answer_]
<1>1. call[c] \in CallRow /\ CallOK(c, call[c]) BY CallTyped
<1>2. call' = [call EXCEPT ![c] = w] BY <1>1 DEF A!Over, AutomationInv, AutomationTyped, CallRow
<1>3. w \in CallRow BY <1>1 DEF CallRow
<1>4. /\ w.pc = "over" /\ w.key = call[c].key /\ w.writes = call[c].writes /\ w.err = call[c].err
      /\ w.rejection = call[c].rejection /\ w.trouble = call[c].trouble /\ w.answer = answer_
  BY <1>1 DEF CallRow
<1>5. call[c].answer = "none" BY <1>1 DEF CallOK, Answered, CallRow
<1> HIDE DEF w
<1>6. CallOK(c, w) BY <1>1, <1>4 DEF CallOK, OwnWrites, LeavesNone, Answered, Troubled, Witness
<1>7. call \in [AutomationCalls -> CallRow] BY DEF AutomationInv, AutomationTyped
<1> QED BY <1>2, <1>3, <1>4, <1>5, <1>6, <1>7 DEF AutomationInv, CallsOK

LEMMA EndOfCallStep ==
  ASSUME AutomationInv, NEW c \in AutomationCalls, A!CompleteRun(c) \/ A!failCommand(c) \/ A!Rollback(c)
  PROVE  AutomationInv'
<1>0. /\ call[c] \in CallRow /\ CallOK(c, call[c]) /\ call \in [AutomationCalls -> CallRow]
      /\ db \subseteq RowKinds \X AutomationKeys /\ run \in [AutomationKeys -> {"none", "failed", "done"}]
      /\ evidence \subseteq AutomationCalls \X {"echo", "refused", "success"}
  BY CallTyped DEF AutomationInv, AutomationTyped
<1>1. call[c].pc = "finish" BY DEF A!CompleteRun, A!failCommand, A!Rollback
<1>2. PICK answer_ \in {"ok", "refused", "unavailable"} :
         /\ A!Over(c, answer_)
         /\ answer_ \in {"ok", "refused"} => call[c].err \intersect Infra = {}
         /\ answer_ = "ok" \/ call[c].writes = {} \/ db' = db
         /\ answer_ = "refused" => evidence' = evidence \union call[c].audit \union {<<c, "refused">>}
  <2>1. CASE A!CompleteRun(c) BY <2>1 DEF A!CompleteRun
  <2>2. CASE A!failCommand(c)
    <3>1. call[c].writes = {}
      BY <1>0, <1>1, <2>2 DEF A!failCommand, A!classifyFailure, CallOK, LeavesNone
    <3> QED BY <2>2, <3>1 DEF A!failCommand, A!classifyFailure, Infra
  <2>3. CASE A!Rollback(c) BY <2>3 DEF A!Rollback
  <2> QED BY <2>1, <2>2, <2>3
<1>3. db' = db \/ db' = db \union call[c].writes BY DEF A!CompleteRun, A!failCommand, A!Rollback
<1>4. evidence \subseteq evidence' BY DEF A!CompleteRun, A!failCommand, A!Rollback
<1>5. db' \subseteq RowKinds \X AutomationKeys BY <1>0, <1>3 DEF CallRow
<1>6. run' \in [AutomationKeys -> {"none", "failed", "done"}]
  BY <1>0 DEF A!CompleteRun, A!failCommand, A!Rollback
<1>7. evidence' \subseteq AutomationCalls \X {"echo", "refused", "success"}
  <2>1. call[c].audit \subseteq AutomationCalls \X {"echo"} BY <1>0 DEF CallRow
  <2> QED BY <1>0, <2>1 DEF A!CompleteRun, A!failCommand, A!Rollback
<1>8. /\ call' \in [AutomationCalls -> CallRow] /\ CallsOK' /\ call[c].answer = "none"
      /\ \A d \in AutomationCalls \ {c} : call'[d] = call[d]
      /\ call'[c].key = call[c].key /\ call'[c].answer = answer_ /\ call'[c].rejection = call[c].rejection
  BY <1>1, <1>2, OverStep
<1>9. AllEarned'
  <2> SUFFICES ASSUME NEW x \in db' PROVE \E d \in AutomationCalls : call'[d].key = x[2] /\ call'[d].answer = "ok"
    BY DEF AllEarned, Earned
  <2>1. CASE x \in db
    <3>1. PICK d \in AutomationCalls : call[d].key = x[2] /\ call[d].answer = "ok"
      BY <2>1 DEF AutomationInv, AllEarned, Earned
    <3>2. d # c BY <3>1, <1>8
    <3> QED BY <3>1, <3>2, <1>8
  <2>2. CASE x \notin db
    <3>1. x \in call[c].writes /\ answer_ = "ok" BY <2>2, <1>2, <1>3
    <3>2. x[2] = call[c].key BY <3>1, <1>0 DEF CallOK, OwnWrites
    <3> QED BY <3>1, <3>2, <1>8
  <2> QED BY <2>1, <2>2
<1>10. A!RejectionWitnessed'
  <2> SUFFICES ASSUME NEW d \in AutomationCalls, call'[d].answer = "refused", call'[d].rejection
               PROVE  <<d, "echo">> \in evidence'
    BY DEF A!RejectionWitnessed
  <2>1. CASE d = c
    <3>1. <<c, "echo">> \in call[c].audit BY <1>0, <1>1, <1>8, <2>1 DEF CallOK, Witness
    <3> QED BY <1>2, <1>8, <2>1, <3>1
  <2>2. CASE d # c BY <1>4, <1>8, <2>2 DEF AutomationInv, A!RejectionWitnessed
  <2> QED BY <2>1, <2>2
<1> QED BY <1>5, <1>6, <1>7, <1>8, <1>9, <1>10 DEF AutomationInv, AutomationTyped

LEMMA AutomationStepInv == AutomationInv /\ [A!AutomationNext]_(A!automationVars) => AutomationInv'
<1> SUFFICES ASSUME AutomationInv, [A!AutomationNext]_(A!automationVars) PROVE AutomationInv' OBVIOUS
<1>1. ASSUME NEW c \in AutomationCalls,
             \/ A!OpenSavepoint(c) \/ A!DomainStep(c) \/ A!WithEchoSavepoint(c) \/ A!publicDomainError(c)
             \/ A!CompleteRun(c) \/ A!failCommand(c) \/ A!Rollback(c)
      PROVE  AutomationInv'
  BY <1>1, SavepointStep, DomainStepKeeps, UndoStep, JudgeStep, EndOfCallStep
<1>2. ASSUME NEW c \in AutomationCalls, NEW k \in AutomationKeys, NEW op \in A!Operations,
             NEW r \in {"owner", "member", "auditor"}, A!Begin(c, op, k, r)
      PROVE  AutomationInv'
  BY <1>2, BeginStep
<1>3. CASE UNCHANGED A!automationVars
  <2> USE <1>3 DEF A!automationVars, AutomationInv
  <2>1. AutomationTyped' BY DEF AutomationTyped
  <2>2. CallsOK' BY DEF CallsOK
  <2>3. AllEarned' BY DEF AllEarned, Earned
  <2>4. A!RejectionWitnessed' BY DEF A!RejectionWitnessed
  <2> QED BY <2>1, <2>2, <2>3, <2>4
<1> QED BY <1>1, <1>2, <1>3 DEF A!AutomationNext

(* A refused call leaves no business row, its rejection is on record, and  *)
(* a call that met a failure of the infrastructure commits nothing, for    *)
(* any number of calls and keys.                                           *)
THEOREM AutomationCorrect ==
  AutomationSpec => [](/\ A!AutomationTypeOK /\ A!RefusalLeavesNoRows
                       /\ A!RejectionWitnessed /\ A!TroubleIsNoRefusal)
<1>1. AutomationInv => A!AutomationTypeOK /\ A!RefusalLeavesNoRows /\ A!RejectionWitnessed /\ A!TroubleIsNoRefusal
  <2> SUFFICES ASSUME AutomationInv PROVE A!AutomationTypeOK /\ A!RefusalLeavesNoRows /\ A!TroubleIsNoRefusal
    BY DEF AutomationInv
  <2>1. A!AutomationTypeOK
    <3>1. ASSUME NEW c \in AutomationCalls
          PROVE  /\ call[c].pc \in {"new", "begun", "saved", "undo", "judge", "finish", "over"}
                 /\ call[c].err \subseteq A!Leaves \union {"savepoint"}
                 /\ call[c].answer \in {"none", "ok", "refused", "unavailable"}
      BY CallTyped DEF CallRow
    <3>2. ASSUME NEW x \in db PROVE x[2] \in AutomationKeys BY DEF AutomationInv, AutomationTyped
    <3>3. /\ \A k \in AutomationKeys : run[k] \in {"none", "failed", "done"}
          /\ evidence \subseteq AutomationCalls \X {"echo", "refused", "success"}
      BY DEF AutomationInv, AutomationTyped
    <3> QED BY <3>1, <3>2, <3>3 DEF A!AutomationTypeOK
  <2>2. A!RefusalLeavesNoRows
    <3> SUFFICES ASSUME NEW c \in AutomationCalls, call[c].answer = "refused", call[c].err # {}
                 PROVE  /\ call[c].writes = {}
                        /\ \A x \in db : x[2] = call[c].key =>
                             \E d \in AutomationCalls \ {c} : call[d].key = x[2] /\ call[d].answer = "ok"
      BY DEF A!RefusalLeavesNoRows
    <3>1. CallOK(c, call[c]) BY CallTyped
    <3>2. call[c].writes = {} BY <3>1 DEF CallOK, LeavesNone, Answered, Infra
    <3>3. ASSUME NEW x \in db PROVE \E d \in AutomationCalls \ {c} : call[d].key = x[2] /\ call[d].answer = "ok"
      <4>1. PICK d \in AutomationCalls : call[d].key = x[2] /\ call[d].answer = "ok"
        BY DEF AutomationInv, AllEarned, Earned
      <4>2. d # c BY <4>1
      <4> QED BY <4>1, <4>2
    <3> QED BY <3>2, <3>3
  <2>3. A!TroubleIsNoRefusal BY CallTyped DEF A!TroubleIsNoRefusal, CallOK, Troubled
  <2> QED BY <2>1, <2>2, <2>3
<1> QED BY <1>1, AutomationInitially, AutomationStepInv, PTL DEF AutomationSpec
-----------------------------------------------------------------------------
(***************************************************************************)
(* The parts side by side: a step of the composition is a step of one of   *)
(* them, which the others do not notice.                                   *)
(***************************************************************************)
LEMMA EchoParts ==
  Spec => CardSpec /\ VoteSpec /\ RequirementSpec /\ ReleaseSpec /\ AutomationSpec
<1> USE DEF Next, vars, CardStep, VoteStep, RequirementStep, ReleaseStep, AutomationStep, Only
<1>1. Init => S!EchoInit /\ S!SolicitationsInit /\ Q!RequirementsInit /\ R!ReleasesInit /\ A!AutomationInit
  BY DEF Init
<1>2. [Next]_vars => [S!EchoNext]_(S!echoVars) BY DEF echoVars, S!echoVars
<1>3. [Next]_vars => [S!SolicitationsNext]_(S!solVars) BY DEF solVars, S!solVars
<1>4. [Next]_vars => [Q!RequirementsNext]_(Q!reqVars) BY DEF reqVars, Q!reqVars
<1>5. [Next]_vars => [R!ReleasesNext]_(R!relVars) BY DEF relVars, R!relVars
<1>6. [Next]_vars => [A!AutomationNext]_(A!automationVars) BY DEF automationVars, A!automationVars
<1> HIDE DEF Next, vars, CardStep, VoteStep, RequirementStep, ReleaseStep, AutomationStep, Only
<1> QED BY <1>1, <1>2, <1>3, <1>4, <1>5, <1>6, PTL
        DEF Spec, CardSpec, VoteSpec, RequirementSpec, ReleaseSpec, AutomationSpec

(* EchoConsistent, whichever part a behaviour is about: cards show their   *)
(* revision, no vote or update is lost or counted twice, no card is ahead  *)
(* of its requirement, one text is announced, and a refused automation     *)
(* call leaves its refusal and nothing else.                               *)
THEOREM EchoConsistentCorrect == Spec => []EchoConsistent
<1> DEFINE all == /\ S!EchoTypeOK /\ S!CardShowsItsRevision
                  /\ S!SolicitationsTypeOK /\ S!NoLostUpdate /\ S!VotedOncePerKey
                  /\ Q!RequirementsTypeOK /\ Q!CardNotAhead /\ R!ReleasesTypeOK /\ R!OneAnnouncement
                  /\ A!AutomationTypeOK /\ A!RefusalLeavesNoRows /\ A!RejectionWitnessed /\ A!TroubleIsNoRefusal
<1>1. all => EchoConsistent BY DEF EchoConsistent, TypeOK
<1> QED BY <1>1, EchoParts, CardsCorrect, VotesCorrect, RequirementsCorrect, ReleasesCorrect, AutomationCorrect, PTL

(* No step writes a card for somebody who may not have it, fails what was  *)
(* delivered, reopens what was closed or answers a retry otherwise.        *)
THEOREM EchoStepsAllowedCorrect == Spec => EchoStepsAllowed
BY EchoParts, CardsCorrect, VotesCorrect, RequirementsCorrect, ReleasesCorrect, PTL DEF EchoStepsAllowed
=============================================================================
