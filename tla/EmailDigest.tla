---------------------------- MODULE EmailDigest ----------------------------
(***************************************************************************)
(* workspace/email: digests. A message that finds no digest row for its    *)
(* recipient starts one; two hours later a worker mails how much is        *)
(* unread. A row ends when the worker finds nothing unread any more.       *)
(*                                                                         *)
(* Messages are numbered in the order of their creation. As in Email, a    *)
(* message's transaction is two steps and time is not counted.             *)
(***************************************************************************)
EXTENDS Naturals, FiniteSets

CONSTANTS Readers,          \* the users who may get a digest
          LastMessage,      \* bound on messages
          DigestWorkers,    \* worker processes
          BatchSize,        \* rows a tick looks at
          MaxLapses,        \* bound on crashes, failed writes and stalls
          Nobody            \* no reader

VARIABLES digestSmtpOn,     \* space_email_settings.enabled
          digestOn,   \* readers with mail and digest on
          sent,       \* number of messages committed
          open,       \* the message transaction: the readers it found without a row
          lastRead,   \* per reader: the last message read
          digest,     \* workspace_email_digest_states
          digester,     \* per worker: where it stands and the row it has read
          mailed,     \* per reader: digest mails for the present row, up to 2
          digestLapsed,     \* readers whose row a worker lost, or began under a worker
          digestLapses

digestVars == <<digestSmtpOn, digestOn, sent, open, lastRead, digest, digester, mailed, digestLapsed, digestLapses>>
world == <<digestSmtpOn, digestOn, sent, open, lastRead>>

NoDigest == [row |-> FALSE, started |-> 0, notified |-> FALSE, leased |-> FALSE, due |-> FALSE]
NoTx == [busy |-> FALSE, start |-> {}]
AtRest == [pc |-> "idle", u |-> Nobody, read |-> NoDigest]

(* The shape of every variable.                                            *)
DigestTypeOK ==
  /\ digestSmtpOn \in BOOLEAN /\ digestOn \subseteq Readers /\ sent \in 0..LastMessage
  /\ open \in [busy : BOOLEAN, start : SUBSET Readers]
  /\ lastRead \in [Readers -> 0..LastMessage]
  /\ digest \in [Readers -> [row : BOOLEAN, started : 0..LastMessage, notified : BOOLEAN,
                             leased : BOOLEAN, due : BOOLEAN]]
  /\ \A w \in DigestWorkers : digester[w].u \in Readers \union {Nobody}
  /\ mailed \in [Readers -> 0..2] /\ digestLapsed \subseteq Readers /\ digestLapses \in 0..MaxLapses

DigestInit ==
  /\ digestSmtpOn = TRUE /\ digestOn = Readers /\ sent = 0 /\ open = NoTx
  /\ lastRead = [u \in Readers |-> 0]
  /\ digest = [u \in Readers |-> NoDigest]
  /\ digester = [w \in DigestWorkers |-> AtRest]
  /\ mailed = [u \in Readers |-> 0] /\ digestLapsed = {} /\ digestLapses = 0
-----------------------------------------------------------------------------
(* One operator per statement of the repository.                           *)
InsertDigestState(m) == [NoDigest EXCEPT !.row = TRUE, !.started = m]
ClaimableDigest(r) == r.row /\ ~r.notified /\ r.due /\ ~r.leased
MarkDigestSent(r) ==
  IF r.row /\ ~r.notified THEN [r EXCEPT !.notified = TRUE, !.leased = FALSE] ELSE r
RetryDigestState(r) ==
  IF r.row /\ ~r.notified THEN [r EXCEPT !.leased = FALSE, !.due = FALSE] ELSE r

(* Messages committed since the digest began and not read.                 *)
eligibleUnreadMessages(u, started) == {m \in started..sent : m > lastRead[u]}

(* The rows a tick looks at: the oldest BatchSize without a live lease,    *)
(* the ones already notified included.                                     *)
ListDigestStates ==
  LET free == {u \in Readers : digest[u].row /\ ~digest[u].leased}
  IN  {u \in free : Cardinality({v \in free : digest[v].started < digest[u].started}) < BatchSize}
-----------------------------------------------------------------------------
(* Requests.                                                               *)

ScheduleDigest ==
  /\ ~open.busy /\ sent < LastMessage
  /\ open' = [busy |-> TRUE,
              start |-> IF digestSmtpOn THEN {u \in digestOn : ~digest[u].row} ELSE {}]
  /\ UNCHANGED <<digestSmtpOn, digestOn, sent, lastRead, digest, digester, mailed, digestLapsed, digestLapses>>

Held(u) == \E w \in DigestWorkers : digester[w].u = u

CommitMessage ==
  /\ open.busy /\ open' = NoTx
  /\ sent' = sent + 1
  /\ digest' = [u \in Readers |-> IF u \in open.start THEN InsertDigestState(sent + 1)
                                  ELSE digest[u]]
  /\ mailed' = [u \in Readers |-> IF u \in open.start THEN 0 ELSE mailed[u]]
  /\ digestLapsed' = (digestLapsed \ open.start) \union {u \in open.start : Held(u)}
  /\ UNCHANGED <<digestSmtpOn, digestOn, lastRead, digester, digestLapses>>

UpdateDigestPreference(u, on) ==
  /\ on # (u \in digestOn)
  /\ digestOn' = IF on THEN digestOn \union {u} ELSE digestOn \ {u}
  /\ digest' = IF on THEN digest ELSE [digest EXCEPT ![u] = NoDigest]
  /\ UNCHANGED <<digestSmtpOn, sent, open, lastRead, digester, mailed, digestLapsed, digestLapses>>

SaveSpaceSettings(on) ==
  /\ on # digestSmtpOn /\ digestSmtpOn' = on
  /\ digest' = IF on THEN digest ELSE [u \in Readers |-> NoDigest]
  /\ UNCHANGED <<digestOn, sent, open, lastRead, digester, mailed, digestLapsed, digestLapses>>

(* A read receipt, from the conversations service.                         *)
MarkRead(u) ==
  /\ lastRead[u] < sent /\ lastRead' = [lastRead EXCEPT ![u] = sent]
  /\ UNCHANGED <<digestSmtpOn, digestOn, sent, open, digest, digester, mailed, digestLapsed, digestLapses>>
-----------------------------------------------------------------------------
(* processDigest, one row at a time; each statement is a step.             *)

Go(w, at) == digester' = [digester EXCEPT ![w].pc = at]
Rest(w) == digester' = [digester EXCEPT ![w] = AtRest]
Steady == UNCHANGED <<world, mailed, digestLapsed, digestLapses>>

ReadDigest(w, u) ==
  /\ digester[w].pc = "idle" /\ u \in ListDigestStates
  /\ digester' = [digester EXCEPT ![w] = [pc |-> "listed", u |-> u, read |-> digest[u]]]
  /\ Steady /\ UNCHANGED digest

CheckDigest(w) ==
  LET r == digester[w].read
  IN  /\ digester[w].pc = "listed"
      /\ IF eligibleUnreadMessages(digester[w].u, r.started) = {} THEN Go(w, "drop")
         ELSE IF r.notified \/ ~r.due THEN Rest(w) ELSE Go(w, "claim")
      /\ Steady /\ UNCHANGED digest

DeleteDigestState(w) ==
  /\ digester[w].pc = "drop"
  /\ digest' = [digest EXCEPT ![digester[w].u] = NoDigest]
  /\ Rest(w) /\ Steady

ClaimDigestState(w) ==
  LET u == digester[w].u
  IN  /\ digester[w].pc = "claim"
      /\ \/ /\ ClaimableDigest(digest[u])
            /\ digest' = [digest EXCEPT ![u].leased = TRUE] /\ Go(w, "recheck")
         \/ ~ClaimableDigest(digest[u]) /\ Rest(w) /\ UNCHANGED digest
      /\ Steady

RecheckDigest(w) ==
  LET u == digester[w].u
  IN  /\ digester[w].pc = "recheck"
      /\ Go(w, IF eligibleUnreadMessages(u, digester[w].read.started) # {} /\ u \in digestOn
               THEN "send" ELSE "drop")
      /\ Steady /\ UNCHANGED digest

(* The row is the one the worker read, not one begun since.                *)
SameRow(w) == digest[digester[w].u].row /\ digest[digester[w].u].started = digester[w].read.started

SendDigest(w) ==
  LET u == digester[w].u
  IN  /\ digester[w].pc = "send"
      /\ \/ /\ digestSmtpOn /\ Go(w, "mark")
            /\ mailed' = IF ~SameRow(w) THEN mailed
                         ELSE [mailed EXCEPT ![u] = IF @ = 2 THEN 2 ELSE @ + 1]
         \/ Go(w, "fail") /\ UNCHANGED mailed
      /\ UNCHANGED <<world, digest, digestLapsed, digestLapses>>

RecordDigest(w) ==
  /\ digester[w].pc \in {"mark", "fail"}
  /\ digest' = [digest EXCEPT ![digester[w].u] =
                  IF digester[w].pc = "mark" THEN MarkDigestSent(@) ELSE RetryDigestState(@)]
  /\ Rest(w) /\ Steady
-----------------------------------------------------------------------------
(* A crash or a failed statement ends the loop; the row keeps its lease.   *)
Abandon(w) ==
  /\ digester[w].pc # "idle" /\ digestLapses < MaxLapses /\ digestLapses' = digestLapses + 1
  /\ digestLapsed' = digestLapsed \union {digester[w].u}
  /\ Rest(w) /\ UNCHANGED <<world, digest, mailed>>

LeaseExpires(u) ==
  /\ digest[u].leased /\ digest' = [digest EXCEPT ![u].leased = FALSE]
  /\ \/ ~Held(u) /\ UNCHANGED <<digestLapsed, digestLapses>>
     \/ Held(u) /\ digestLapses < MaxLapses /\ digestLapses' = digestLapses + 1 /\ digestLapsed' = digestLapsed \union {u}
  /\ UNCHANGED <<world, digester, mailed>>

FallsDue(u) ==
  /\ digest[u].row /\ ~digest[u].due /\ digest' = [digest EXCEPT ![u].due = TRUE]
  /\ Steady /\ UNCHANGED digester

DigestStep(w) ==
  \/ CheckDigest(w) \/ DeleteDigestState(w) \/ ClaimDigestState(w)
  \/ RecheckDigest(w) \/ SendDigest(w) \/ RecordDigest(w)

DigestNext ==
  \/ ScheduleDigest \/ CommitMessage
  \/ \E u \in Readers, on \in BOOLEAN : UpdateDigestPreference(u, on)
  \/ \E on \in BOOLEAN : SaveSpaceSettings(on)
  \/ \E u \in Readers : MarkRead(u) \/ LeaseExpires(u) \/ FallsDue(u)
  \/ \E w \in DigestWorkers, u \in Readers : ReadDigest(w, u)
  \/ \E w \in DigestWorkers : DigestStep(w) \/ Abandon(w)

-----------------------------------------------------------------------------
(* One row is mailed twice only if a worker lost it on the way, or was     *)
(* still busy with an earlier row of the reader when it began: the claim   *)
(* and the notified mark keep it to one mail until the reader has read.    *)
SecondDigestNeedsLapse == \A u \in Readers : digest[u].row /\ mailed[u] > 1 => u \in digestLapsed

(* A digest that was mailed is not mailed for the same unread period       *)
(* again: notified is undone only by ending the row.                       *)
NotifiedStays == [][\A u \in Readers : digest[u].notified =>
                      digest'[u].notified \/ ~digest'[u].row]_digest
=============================================================================
