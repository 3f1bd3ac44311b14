------------------------------ MODULE Releases ------------------------------
(***************************************************************************)
(* workspace/echo/releases with the release half of echo/delivery: one     *)
(* version is announced to every member of that moment. The guide comes    *)
(* from the catalog of the process that publishes; another process, or the *)
(* same one after an upgrade, may hold another text, so publication stores *)
(* a snapshot. The lease locks row and publication with SKIP LOCKED: a     *)
(* second delivery of the same publication is not claimed.                 *)
(***************************************************************************)
EXTENDS Naturals, FiniteSets

CONSTANTS Members, NoMember, Guides, NoGuide,
          RelCouriers,
          MaxRelAttempts, MaxRelTroubles     \* maxAttempts; bound on failures and membership changes

VARIABLES joined,       \* space_members
          catalog,      \* the guide of the version in the running build
          publication,  \* echo_release_publications: the stored guide
          row,          \* echo_release_deliveries
          relCard,      \* the guide on each member's card
          relCourier, relTroubles

relVars == <<joined, catalog, publication, row, relCard, relCourier, relTroubles>>
Unsent == [status |-> "none", attempts |-> 0, due |-> TRUE]
Off == [at |-> "idle", user |-> NoMember, seen |-> Unsent, payload |-> NoGuide]

(* The shape of every variable.                                            *)
ReleasesTypeOK ==
  /\ joined \subseteq Members /\ catalog \in Guides /\ publication \in Guides \union {NoGuide}
  /\ \A u \in Members : /\ row[u].status \in {"none", "pending", "sent", "failed", "skipped"}
                        /\ row[u].attempts \in Nat
                        /\ relCard[u] \in Guides \union {NoGuide}
  /\ \A c \in RelCouriers : relCourier[c].at \in {"idle", "check", "project", "claim", "leased", "fail", "skip"}

ReleasesInit ==
  /\ joined = Members /\ catalog = (CHOOSE g \in Guides : TRUE) /\ publication = NoGuide
  /\ row = [u \in Members |-> Unsent] /\ relCard = [u \in Members |-> NoGuide]
  /\ relCourier = [c \in RelCouriers |-> Off] /\ relTroubles = 0
-----------------------------------------------------------------------------
InsertReleaseDeliveryRows == [u \in Members |-> IF u \in joined THEN [Unsent EXCEPT !.status = "pending"] ELSE row[u]]
(* An owner's /release; a version that is published answers as it is.      *)
PublishInTx ==
  /\ publication = NoGuide /\ publication' = catalog /\ row' = InsertReleaseDeliveryRows
  /\ UNCHANGED <<joined, catalog, relCard, relCourier, relTroubles>>
Upgrade(g) ==
  /\ g # catalog /\ catalog' = g /\ publication # NoGuide /\ relTroubles < MaxRelTroubles /\ relTroubles' = relTroubles + 1
  /\ UNCHANGED <<joined, publication, row, relCard, relCourier>>
Claimed == \E c \in RelCouriers : relCourier[c].at = "leased"
MembershipChanges(u) ==
  /\ relTroubles < MaxRelTroubles /\ relTroubles' = relTroubles + 1
  /\ ~\E c \in RelCouriers : relCourier[c].at = "leased" /\ relCourier[c].user = u
  /\ joined' = (joined \ {u}) \union ({u} \ joined)
  /\ UNCHANGED <<catalog, publication, row, relCard, relCourier>>

MarkReleaseDelivery(u, status) ==
  row' = [row EXCEPT ![u] = [status |-> status, attempts |-> @.attempts + 1, due |-> status # "failed"]]
Picks(c, u) ==
  /\ relCourier[c].at = "idle" /\ relCourier' = [relCourier EXCEPT ![c] = [Off EXCEPT !.at = "check", !.user = u, !.seen = row[u]]]
  /\ UNCHANGED <<joined, catalog, publication, row, relCard, relTroubles>>
ListReleaseWork(c, u) == row[u].status \in {"pending", "failed"} /\ Picks(c, u)
(* After publication and on every repeated /release: all rows, sent and skipped ones too. *)
SyncRelease(c, u) == row[u].status # "none" /\ Picks(c, u)

Goes(c, at) == relCourier' = [relCourier EXCEPT ![c].at = at]
Stops(c) == relCourier' = [relCourier EXCEPT ![c] = Off]
Delivered(u, r) == r.status = "sent" /\ relCard[u] # NoGuide
Refused(r) == (r.status = "failed" /\ ~r.due) \/ (r.attempts >= MaxRelAttempts /\ r.status # "sent")
CheckRelease(c) ==
  LET w == relCourier[c] IN
  /\ w.at = "check"
  /\ IF w.user \notin joined THEN IF w.seen.status = "skipped" THEN Stops(c) ELSE Goes(c, "skip")
     ELSE IF Delivered(w.user, w.seen) \/ Refused(w.seen) THEN Stops(c) ELSE Goes(c, "project")
  /\ UNCHANGED <<joined, catalog, publication, row, relCard, relTroubles>>
GuideOfPublication == publication
ProjectCard(c) ==
  /\ relCourier[c].at = "project"
  /\ IF relCourier[c].user \notin joined THEN Goes(c, "fail")
     ELSE relCourier' = [relCourier EXCEPT ![c].at = "claim", ![c].payload = GuideOfPublication]
  /\ UNCHANGED <<joined, catalog, publication, row, relCard, relTroubles>>
MemberAtClaim(c) == relCourier[c].user \in joined
ClaimReleaseDelivery(c) ==
  LET u == relCourier[c].user IN
  /\ relCourier[c].at = "claim"
  /\ \/ Claimed /\ Stops(c) /\ UNCHANGED row
     \/ /\ ~Claimed /\ ~MemberAtClaim(c) /\ Stops(c)
        /\ IF row[u].status = "skipped" THEN UNCHANGED row ELSE MarkReleaseDelivery(u, "skipped")
     \/ /\ ~Claimed /\ MemberAtClaim(c) /\ UNCHANGED row
        /\ IF Refused(row[u]) \/ Delivered(u, row[u]) THEN Stops(c) ELSE Goes(c, "leased")
  /\ UNCHANGED <<joined, catalog, publication, relCard, relTroubles>>
WriteReleaseCard(c) ==
  LET w == relCourier[c] IN
  /\ w.at = "leased" /\ relCard' = [relCard EXCEPT ![w.user] = w.payload]
  /\ MarkReleaseDelivery(w.user, "sent") /\ Stops(c)
  /\ UNCHANGED <<joined, catalog, publication, relTroubles>>
NotSentMeanwhile(u) == row[u].status # "sent"
failRelease(c) ==
  /\ relCourier[c].at = "fail" /\ Stops(c)
  /\ IF ~Claimed /\ NotSentMeanwhile(relCourier[c].user) THEN MarkReleaseDelivery(relCourier[c].user, "failed") ELSE UNCHANGED row
  /\ UNCHANGED <<joined, catalog, publication, relCard, relTroubles>>
commitReleaseStatus(c) ==
  /\ relCourier[c].at = "skip" /\ Stops(c)
  /\ IF Claimed THEN UNCHANGED row ELSE MarkReleaseDelivery(relCourier[c].user, "skipped")
  /\ UNCHANGED <<joined, catalog, publication, relCard, relTroubles>>
(* A write or a commit that fails or times out; or the process stops and records nothing. *)
ReleaseFails(c) ==
  /\ relTroubles < MaxRelTroubles /\ relTroubles' = relTroubles + 1
  /\ \/ relCourier[c].at \in {"project", "leased"} /\ Goes(c, "fail")
     \/ relCourier[c].at # "idle" /\ Stops(c)
  /\ UNCHANGED <<joined, catalog, publication, row, relCard>>
RetryDue(u) ==
  /\ row[u].status = "failed" /\ ~row[u].due /\ ~Claimed /\ row' = [row EXCEPT ![u].due = TRUE]
  /\ UNCHANGED <<joined, catalog, publication, relCard, relCourier, relTroubles>>
-----------------------------------------------------------------------------
ReleaseStep(c) == CheckRelease(c) \/ ProjectCard(c) \/ ClaimReleaseDelivery(c) \/ WriteReleaseCard(c)
                  \/ failRelease(c) \/ commitReleaseStatus(c)
ReleasesNext ==
  \/ PublishInTx \/ \E g \in Guides : Upgrade(g)
  \/ \E u \in Members : MembershipChanges(u) \/ RetryDue(u)
  \/ \E c \in RelCouriers : \/ ReleaseStep(c) \/ ReleaseFails(c)
                            \/ \E u \in Members : ListReleaseWork(c, u) \/ SyncRelease(c, u)
-----------------------------------------------------------------------------
(* Every member reads the text that was published, whichever build         *)
(* delivers the card.                                                      *)
OneAnnouncement == \A u \in Members : relCard[u] \in {NoGuide, publication}
(* A card is written only for somebody who is a member in that very transaction. *)
AnnouncedToMembersOnly == [][\A u \in Members : relCard'[u] # relCard[u] => u \in joined]_relVars
(* What one courier delivered is not recorded as failed by another.        *)
AnnouncedNeverFails == [][\A u \in Members : row[u].status = "sent" => row'[u].status # "failed"]_relVars
=============================================================================
