-------------------------------- MODULE Email --------------------------------
(***************************************************************************)
(* workspace/email: immediate mails. A message's transaction inserts one   *)
(* job per recipient (workspace_email_jobs); worker processes claim due    *)
(* jobs under a lease, read them again, send, and record the outcome.      *)
(*                                                                         *)
(* Time is not counted: a lease runs out and a job falls due in steps of   *)
(* their own, at any moment. A message's transaction is two steps, since   *)
(* what it reads and what others see of it are apart (READ COMMITTED).     *)
(* Presence is an answer the lookup may give either way.                   *)
(***************************************************************************)
EXTENDS Naturals, FiniteSets

CONSTANTS Recipients,       \* members of the conversation, without the author
          Messages,
          EmailWorkers,     \* worker processes
          RetryDelays,      \* how many retries follow a failed attempt
          MaxLapses         \* bound on crashes, failed writes and stalls

VARIABLES smtpOn,     \* space_email_settings.enabled
          mailOn,     \* recipients with mail on, immediate and verified
          tx,         \* per message: unborn, the recipients planned, or done
          pertinent,  \* jobs whose message is visible to the recipient and unread
          job,        \* workspace_email_jobs
          worker,     \* per worker: where it stands and what it has read
          mails,      \* mails that left for a job, counted up to 2
          lapsed,     \* jobs a worker lost: a crash, a failed write, a stall
          lapses      \* how many of these so far

emailJobsVars == <<smtpOn, mailOn, tx, pertinent, job, worker, mails, lapsed, lapses>>
settings == <<smtpOn, mailOn, tx, pertinent>>

MailJobs == Recipients \X Messages
NoMailJob == [status |-> "none", leased |-> FALSE, due |-> FALSE, attempt |-> 0]
Unborn == [st |-> "none", to |-> {}]
AtRest == [pc |-> "idle", j |-> <<>>, consent |-> FALSE, attempt |-> 0]
Open == {"pending", "sending"}
Ended == {"sent", "failed", "cancelled"}

(* The shape of every variable.                                            *)
EmailJobsTypeOK ==
  /\ smtpOn \in BOOLEAN /\ mailOn \subseteq Recipients
  /\ tx \in [Messages -> [st : {"none", "tx", "done"}, to : SUBSET Recipients]]
  /\ pertinent \subseteq MailJobs
  /\ job \in [MailJobs -> [status : {"none"} \union Open \union Ended, leased : BOOLEAN,
                           due : BOOLEAN, attempt : 0..(RetryDelays + 1)]]
  /\ worker \in [EmailWorkers ->
                   [pc : {"idle", "claimed", "cancel", "defer", "send", "mark", "fail"},
                    j : MailJobs \union {<<>>}, consent : BOOLEAN, attempt : 0..(RetryDelays + 1)]]
  /\ mails \in [MailJobs -> 0..2] /\ lapsed \subseteq MailJobs /\ lapses \in 0..MaxLapses

EmailJobsInit ==
  /\ smtpOn = TRUE /\ mailOn = Recipients
  /\ tx = [m \in Messages |-> Unborn] /\ pertinent = {}
  /\ job = [j \in MailJobs |-> NoMailJob]
  /\ worker = [w \in EmailWorkers |-> AtRest]
  /\ mails = [j \in MailJobs |-> 0] /\ lapsed = {} /\ lapses = 0
-----------------------------------------------------------------------------
(* One operator per statement of the repository.                           *)
InsertJob(r) == IF r.status = "none" THEN [NoMailJob EXCEPT !.status = "pending"] ELSE r
ClaimableWhileLeased(r) == r.status \in Open /\ r.due
ClaimablePending(r) == r.status = "pending" /\ r.due /\ ~r.leased
Claimable(r) == r.status \in Open /\ r.due /\ ~r.leased
ClaimJob(r) == [r EXCEPT !.status = "sending", !.leased = TRUE]
MarkSent(r) ==
  IF r.status = "sending" THEN [r EXCEPT !.status = "sent", !.leased = FALSE] ELSE r
DeferJob(r) ==
  IF r.status = "sending"
  THEN [r EXCEPT !.status = "pending", !.leased = FALSE, !.due = FALSE] ELSE r
RetryJob(r, attempt) ==
  IF r.status = "sending"
  THEN [r EXCEPT !.status = "pending", !.leased = FALSE, !.due = FALSE, !.attempt = attempt]
  ELSE r
MarkFailed(r, attempt) ==
  IF r.status = "sending"
  THEN [r EXCEPT !.status = "failed", !.leased = FALSE, !.attempt = attempt] ELSE r
CancelJob(r) ==
  IF r.status \in Open THEN [r EXCEPT !.status = "cancelled", !.leased = FALSE] ELSE r
CancelPendingJobs(u) == [j \in MailJobs |-> IF j[1] = u THEN CancelJob(job[j]) ELSE job[j]]
CancelAllJobs == [j \in MailJobs |-> CancelJob(job[j])]

eligibleWhateverWanted(j) == job[j].status = "sending" /\ j \in pertinent
(* What a claimed job needs to be mailed: the row is still being sent, the *)
(* recipient still wants mail and has not seen the message.                *)
eligibleJob(j) == job[j].status = "sending" /\ j[1] \in mailOn /\ j \in pertinent

WillRetry(attempt) == attempt <= RetryDelays
-----------------------------------------------------------------------------
(* Requests.                                                               *)

(* Message transactions of a space run one at a time: each holds the row   *)
(* of the space's event cursor until it commits.                           *)
scheduleMessage(m) ==
  /\ tx[m].st = "none" /\ \A n \in Messages : tx[n].st # "tx"
  /\ tx' = [tx EXCEPT ![m] = [st |-> "tx", to |-> IF smtpOn THEN mailOn ELSE {}]]
  /\ UNCHANGED <<smtpOn, mailOn, pertinent, job, worker, mails, lapsed, lapses>>

CommitMessage(m) ==
  LET new == tx[m].to \X {m}
  IN  /\ tx[m].st = "tx"
      /\ job' = [j \in MailJobs |-> IF j \in new THEN InsertJob(job[j]) ELSE job[j]]
      /\ pertinent' = pertinent \union (Recipients \X {m})
      /\ tx' = [tx EXCEPT ![m] = [st |-> "done", to |-> {}]]
      /\ UNCHANGED <<smtpOn, mailOn, worker, mails, lapsed, lapses>>

UpdatePreferences(u, on) ==
  /\ on # (u \in mailOn)
  /\ mailOn' = IF on THEN mailOn \union {u} ELSE mailOn \ {u}
  /\ job' = IF on THEN job ELSE CancelPendingJobs(u)
  /\ UNCHANGED <<smtpOn, tx, pertinent, worker, mails, lapsed, lapses>>

SaveSpaceSettings(on) ==
  /\ on # smtpOn
  /\ smtpOn' = on
  /\ job' = IF on THEN job ELSE CancelAllJobs
  /\ UNCHANGED <<mailOn, tx, pertinent, worker, mails, lapsed, lapses>>

(* The recipient reads the message or leaves, or the message is recalled:  *)
(* other services, which do not touch the job.                             *)
Overtaken(j) ==
  /\ j \in pertinent /\ pertinent' = pertinent \ {j}
  /\ UNCHANGED <<smtpOn, mailOn, tx, job, worker, mails, lapsed, lapses>>
-----------------------------------------------------------------------------
(* processImmediate, one claimed job at a time.                            *)

Rest(w) == worker' = [worker EXCEPT ![w] = AtRest]

Claim(w, j) ==
  /\ worker[w].pc = "idle" /\ Claimable(job[j])
  /\ job' = [job EXCEPT ![j] = ClaimJob(@)]
  /\ worker' = [worker EXCEPT ![w] = [AtRest EXCEPT !.pc = "claimed", !.j = j]]
  /\ UNCHANGED <<settings, mails, lapsed, lapses>>

(* GetDeliveryJob and the presence lookup. A lookup that fails counts as   *)
(* online: both put the job off.                                           *)
GetDeliveryJob(w, present) ==
  LET j == worker[w].j
  IN  /\ worker[w].pc = "claimed"
      /\ worker' = [worker EXCEPT
           ![w] = [pc |-> IF ~eligibleJob(j) THEN "cancel" ELSE IF present THEN "defer" ELSE "send",
                   j |-> j, consent |-> j[1] \in mailOn, attempt |-> job[j].attempt]]
      /\ UNCHANGED <<settings, job, mails, lapsed, lapses>>

PutAside(w) ==
  /\ worker[w].pc \in {"cancel", "defer"}
  /\ job' = [job EXCEPT ![worker[w].j] =
               IF worker[w].pc = "cancel" THEN CancelJob(@) ELSE DeferJob(@)]
  /\ Rest(w) /\ UNCHANGED <<settings, mails, lapsed, lapses>>

Send(w) ==
  /\ worker[w].pc = "send"
  /\ \/ /\ smtpOn
        /\ mails' = [mails EXCEPT ![worker[w].j] = IF @ = 2 THEN 2 ELSE @ + 1]
        /\ worker' = [worker EXCEPT ![w].pc = "mark"]
     \/ worker' = [worker EXCEPT ![w].pc = "fail"] /\ UNCHANGED mails
  /\ UNCHANGED <<settings, job, lapsed, lapses>>

RecordOutcome(w) ==
  LET attempt == worker[w].attempt + 1
  IN  /\ worker[w].pc \in {"mark", "fail"}
      /\ job' = [job EXCEPT ![worker[w].j] =
                   IF worker[w].pc = "mark" THEN MarkSent(@)
                   ELSE IF WillRetry(attempt) THEN RetryJob(@, attempt)
                   ELSE MarkFailed(@, attempt)]
      /\ Rest(w) /\ UNCHANGED <<settings, mails, lapsed, lapses>>
-----------------------------------------------------------------------------
(* A crash, or a statement that fails: the loop ends and the row keeps its *)
(* lease.                                                                  *)
Abandon(w) ==
  /\ worker[w].pc # "idle" /\ lapses < MaxLapses
  /\ lapses' = lapses + 1 /\ lapsed' = lapsed \union {worker[w].j}
  /\ Rest(w) /\ UNCHANGED <<settings, job, mails>>

Holders(j) == {w \in EmailWorkers : worker[w].j = j}

(* A lease outlives its worker unless the worker stalls.                   *)
LeaseExpires(j) ==
  /\ job[j].leased
  /\ job' = [job EXCEPT ![j].leased = FALSE]
  /\ \/ Holders(j) = {} /\ UNCHANGED <<lapsed, lapses>>
     \/ /\ Holders(j) # {} /\ lapses < MaxLapses
        /\ lapses' = lapses + 1 /\ lapsed' = lapsed \union {j}
  /\ UNCHANGED <<settings, worker, mails>>

FallsDue(j) ==
  /\ job[j].status \in Open /\ ~job[j].due
  /\ job' = [job EXCEPT ![j].due = TRUE]
  /\ UNCHANGED <<settings, worker, mails, lapsed, lapses>>

WorkerStep(w) ==
  \/ \E j \in MailJobs : Claim(w, j)
  \/ \E present \in BOOLEAN : GetDeliveryJob(w, present)
  \/ PutAside(w) \/ Send(w) \/ RecordOutcome(w)

EmailJobsNext ==
  \/ \E m \in Messages : scheduleMessage(m) \/ CommitMessage(m)
  \/ \E u \in Recipients, on \in BOOLEAN : UpdatePreferences(u, on)
  \/ \E on \in BOOLEAN : SaveSpaceSettings(on)
  \/ \E w \in EmailWorkers : WorkerStep(w) \/ Abandon(w)
  \/ \E j \in MailJobs : Overtaken(j) \/ LeaseExpires(j) \/ FallsDue(j)

EmailJobsSpec == EmailJobsInit /\ [][EmailJobsNext]_emailJobsVars

(* The workers tick for ever, clocks run, transactions end, and nobody is  *)
(* online at every lookup.                                                 *)
EmailJobsFairness ==
  /\ \A w \in EmailWorkers : /\ WF_emailJobsVars(WorkerStep(w))
                             /\ SF_emailJobsVars(GetDeliveryJob(w, FALSE))
  /\ \A j \in MailJobs : WF_emailJobsVars(LeaseExpires(j)) /\ WF_emailJobsVars(FallsDue(j))
  /\ \A m \in Messages : WF_emailJobsVars(CommitMessage(m))
-----------------------------------------------------------------------------
(* A second mail for one job is sent only after a worker lost it (crash,   *)
(* failed write, or a send longer than the lease): without one, claiming   *)
(* under a lease keeps two workers off one job.                            *)
SecondMailNeedsLapse == \A j \in MailJobs : mails[j] > 1 => j \in lapsed

(* A mail that leaves is one the recipient still wanted when the worker    *)
(* read the job after claiming it, also for a job inserted by a message    *)
(* transaction that had read the preferences before the recipient turned   *)
(* mail off.                                                               *)
MailHadConsent == [][\A j \in MailJobs : mails'[j] # mails[j] =>
                       \E w \in EmailWorkers : worker[w].j = j /\ worker[w].consent]_emailJobsVars

(* The job table implements the promise of a delivery ledger.              *)
Ledger == INSTANCE DeliveryLedger WITH
            Jobs <- MailJobs,
            verdict <- [j \in MailJobs |-> IF job[j].status \in Open THEN "open" ELSE job[j].status],
            left <- [j \in MailJobs |-> mails[j] > 0]
EmailJobsImplementLedger == Ledger!LedgerSpec

(* Every job ends: sent, given up or cancelled, whatever crashes, stalls,  *)
(* failed sends and settings do in between.                                *)
MailJobsEnd == \A j \in MailJobs : job[j].status \in Open ~> job[j].status \in Ended
-----------------------------------------------------------------------------
(***************************************************************************)
(* workspace/email: which address a user's notifications go to. A custom   *)
(* address is taken over by entering the code of a challenge that was      *)
(* mailed to it; several requests of the user may be under way at once.    *)
(* A challenge stands for the address it was mailed to.                    *)
(***************************************************************************)

CONSTANTS Challenges,           \* ids of challenges, each with its address
          Devices,              \* clients of the user that enter codes
          MaximumCodeAttempts,
          EmailChallengeHourLimit,
          NoChallenge,
          GitHub                \* the address of the GitHub account

VARIABLES challenge,    \* notification_email_challenges
          mailing,      \* challenges mailed and not yet stored
          address,      \* the address in use: GitHub or a confirmed challenge
          verify,       \* per device: the verification under way
          wrong,        \* per challenge: wrong codes that were counted
          confirmed     \* per challenge: how often it set the address, up to 2

addressVars == <<challenge, mailing, address, verify, wrong, confirmed>>

NoRow == [st |-> "none", attempts |-> 0]
NotVerifying == [c |-> NoChallenge, right |-> FALSE]

(* The shape of every variable.                                            *)
EmailAddressTypeOK ==
  /\ challenge \in [Challenges -> [st : {"none", "live", "consumed", "expired"},
                                   attempts : 0..MaximumCodeAttempts]]
  /\ mailing \subseteq Challenges /\ address \in Challenges \union {GitHub}
  /\ verify \in [Devices -> [c : Challenges \union {NoChallenge}, right : BOOLEAN]]
  /\ wrong \in [Challenges -> Nat] /\ confirmed \in [Challenges -> 0..2]

EmailAddressInit ==
  /\ challenge = [c \in Challenges |-> NoRow] /\ mailing = {} /\ address = GitHub
  /\ verify = [d \in Devices |-> NotVerifying]
  /\ wrong = [c \in Challenges |-> 0] /\ confirmed = [c \in Challenges |-> 0]
-----------------------------------------------------------------------------
CountRecentChallenges == Cardinality({c \in Challenges : challenge[c].st # "none"})

ConsumeChallenges(rows) ==
  [c \in Challenges |-> IF rows[c].st = "live" THEN [rows[c] EXCEPT !.st = "consumed"] ELSE rows[c]]
InsertChallenge(rows, c) == [rows EXCEPT ![c] = [NoRow EXCEPT !.st = "live"]]

(* What a verification asks of a row, when it is read and again in the     *)
(* WHERE of the statement that follows.                                    *)
Usable(r) == r.st = "live" /\ r.attempts < MaximumCodeAttempts

(* The limits are checked and the code is mailed before the transaction    *)
(* that stores the challenge.                                              *)
CreateEmailChallenge(c) ==
  /\ challenge[c].st = "none" /\ c \notin mailing
  /\ CountRecentChallenges < EmailChallengeHourLimit
  /\ mailing' = mailing \union {c}
  /\ UNCHANGED <<challenge, address, verify, wrong, confirmed>>

StoreChallenge(c) ==
  /\ c \in mailing /\ mailing' = mailing \ {c}
  /\ \/ challenge' = InsertChallenge(ConsumeChallenges(challenge), c)
     \/ UNCHANGED challenge                      \* the transaction fails
  /\ UNCHANGED <<address, verify, wrong, confirmed>>

VerifyEmailChallenge(d, c, right) ==
  /\ verify[d] = NotVerifying /\ Usable(challenge[c])
  /\ verify' = [verify EXCEPT ![d] = [c |-> c, right |-> right]]
  /\ UNCHANGED <<challenge, mailing, address, wrong, confirmed>>

IncrementChallengeAttempt(d) ==
  LET c == verify[d].c
  IN  /\ c # NoChallenge /\ ~verify[d].right
      /\ \/ /\ Usable(challenge[c])
            /\ challenge' = [challenge EXCEPT ![c].attempts = @ + 1]
            /\ wrong' = [wrong EXCEPT ![c] = @ + 1]
         \/ ~Usable(challenge[c]) /\ UNCHANGED <<challenge, wrong>>
      /\ verify' = [verify EXCEPT ![d] = NotVerifying]
      /\ UNCHANGED <<mailing, address, confirmed>>

ConfirmChallenge(d) ==
  LET c == verify[d].c
  IN  /\ c # NoChallenge /\ verify[d].right
      /\ \/ /\ Usable(challenge[c])
            /\ challenge' = [challenge EXCEPT ![c].st = "consumed"]
            /\ address' = c
            /\ confirmed' = [confirmed EXCEPT ![c] = IF @ = 2 THEN 2 ELSE @ + 1]
         \/ ~Usable(challenge[c]) /\ UNCHANGED <<challenge, address, confirmed>>
      /\ verify' = [verify EXCEPT ![d] = NotVerifying]
      /\ UNCHANGED <<mailing, wrong>>

UseGitHubEmail ==
  /\ address # GitHub /\ address' = GitHub
  /\ UNCHANGED <<challenge, mailing, verify, wrong, confirmed>>

ChallengeExpires(c) ==
  /\ challenge[c].st = "live"
  /\ challenge' = [challenge EXCEPT ![c].st = "expired"]
  /\ UNCHANGED <<mailing, address, verify, wrong, confirmed>>

EmailAddressNext ==
  \/ \E c \in Challenges : CreateEmailChallenge(c) \/ StoreChallenge(c) \/ ChallengeExpires(c)
  \/ \E d \in Devices, c \in Challenges, right \in BOOLEAN : VerifyEmailChallenge(d, c, right)
  \/ \E d \in Devices : IncrementChallengeAttempt(d) \/ ConfirmChallenge(d)
  \/ UseGitHubEmail

-----------------------------------------------------------------------------
(* A code sets the address at most once, also when two devices enter it    *)
(* together: a late second answer cannot bring back an address that the    *)
(* user has since given up for the GitHub one.                             *)
ConfirmedOnce == \A c \in Challenges : confirmed[c] <= 1

(* Codes entered side by side do not stretch the limit: after              *)
(* MaximumCodeAttempts wrong ones a challenge no longer sets the address.  *)
GuessesLimited ==
  [][\A c \in Challenges : confirmed'[c] # confirmed[c] => wrong[c] < MaximumCodeAttempts]_addressVars
=============================================================================
