-------------------------- MODULE MCNotifications --------------------------
(***************************************************************************)
(* The notification components side by side, down to the SMTP client. They *)
(* share no row, so part says which of them a behaviour is about and the   *)
(* others stand still.                                                     *)
(***************************************************************************)
EXTENDS SMTPMailer, EmailDigest, Ntfy, TLAPS

CONSTANTS Recipients, EmailWorkers,
          Challenges, Devices, MaximumCodeAttempts, EmailChallengeHourLimit,
          NoChallenge, GitHub

ASSUME NoticesAssumption == {RetryDelays, MaxLapses, MaxPushLapses, LastMessage, MaximumCodeAttempts} \subseteq Nat

VARIABLES part,
          smtpOn, mailOn, tx, pertinent, job, worker, mails, lapsed, lapses,
          challenge, mailing, address, verify, wrong, confirmed

SmtpConfigs == [encryption : {"tls", "starttls", "none"}, username : BOOLEAN]

Mail == INSTANCE Email

jobsVars == <<smtpOn, mailOn, tx, pertinent, job, worker, mails, lapsed, lapses>>
addressVars == <<challenge, mailing, address, verify, wrong, confirmed>>
vars == <<part, jobsVars, digestVars, ntfyVars, addressVars, smtpVars>>

Init == /\ part \in {"jobs", "digest", "push", "address", "smtp"}
        /\ Mail!EmailJobsInit /\ DigestInit /\ NtfyInit /\ Mail!EmailAddressInit
        /\ SMTPInit
        /\ part # "smtp" => config = [encryption |-> "tls", username |-> TRUE] /\ ~server.starttls

(* A step of part p: the other parts stand still.                          *)
Only(p) ==
  /\ part = p /\ UNCHANGED part
  /\ IF p = "jobs" THEN TRUE ELSE UNCHANGED jobsVars
  /\ IF p = "digest" THEN TRUE ELSE UNCHANGED digestVars
  /\ IF p = "push" THEN TRUE ELSE UNCHANGED ntfyVars
  /\ IF p = "address" THEN TRUE ELSE UNCHANGED addressVars
  /\ IF p = "smtp" THEN TRUE ELSE UNCHANGED smtpVars

JobsStep == Only("jobs") /\ Mail!EmailJobsNext
DigestPartStep == Only("digest") /\ DigestNext
PushStep == Only("push") /\ NtfyNext
AddressStep == Only("address") /\ Mail!EmailAddressNext
SMTPStep == Only("smtp") /\ SMTPNext

Next == JobsStep \/ DigestPartStep \/ PushStep \/ AddressStep \/ SMTPStep

MailerFairness ==
  /\ WF_vars(Only("smtp") /\ MailerStep)
  /\ WF_vars(Only("smtp") /\ Watch)
NotificationsSpec == Init /\ [][Next]_vars /\ Mail!EmailJobsFairness /\ MailerFairness

TypeOK == /\ Mail!EmailJobsTypeOK /\ DigestTypeOK
          /\ NtfyTypeOK /\ Mail!EmailAddressTypeOK
          /\ part = "smtp" => SMTPTypeOK

(* A recipient is told of one thing twice only when an outcome was lost,   *)
(* an address is confirmed once, and a mail connection that is given up    *)
(* leaves nothing open and no password in the clear.                       *)
NoticesSound ==
  /\ TypeOK
  /\ Mail!SecondMailNeedsLapse /\ SecondDigestNeedsLapse /\ SecondPushNeedsLapse
  /\ Mail!ConfirmedOnce
  /\ part = "smtp" => NothingLeftOpen /\ PasswordProtected /\ SentWasAccepted
(* No step notifies without the consent the code asks for.                 *)
NoticesAsAllowed == /\ Mail!MailHadConsent
                    /\ Mail!GuessesLimited
                    /\ NotifiedStays
                    /\ RotationCancels
(* Mail and push jobs implement the same ledger.                           *)
NoticesImplementLedger == Mail!EmailJobsImplementLedger /\ NtfyImplementsLedger
(* Every job ends, and so does every send.                                 *)
NoticesEnd == /\ Mail!MailJobsEnd
              /\ part = "smtp" => CancelEndsSend
-----------------------------------------------------------------------------
(***************************************************************************)
(* Mail, for any number of recipients, messages, workers, devices and      *)
(* challenges. Jobs: two workers mail one job only after a lapse, a mail   *)
(* that leaves had the recipient's consent, and the job table implements   *)
(* DeliveryLedger; one inductive invariant, JobsInv, carries all three.    *)
(* Address: a code sets the address once, and only within the limit of     *)
(* wrong codes (AddressInv).                                               *)
(***************************************************************************)
MailStations == {"idle", "claimed", "cancel", "defer", "send", "mark", "fail"}
MailRow == [status : {"none"} \union Mail!Open \union Mail!Ended, leased : BOOLEAN, due : BOOLEAN, attempt : Nat]
MailStation == [pc : MailStations, j : Mail!MailJobs \union {<<>>}, consent : BOOLEAN, attempt : Nat]
MailTyped ==
  /\ job \in [Mail!MailJobs -> MailRow] /\ worker \in [EmailWorkers -> MailStation]
  /\ mails \in [Mail!MailJobs -> 0..2]

(* A worker under way holds a job that exists; one that is about to record *)
(* a success has mailed.                                                   *)
MailHolding ==
  \A w \in EmailWorkers :
    /\ worker[w].pc = "idle" <=> worker[w].j = <<>>
    /\ worker[w].pc # "idle" => job[worker[w].j].status # "none"
    /\ worker[w].pc = "mark" => mails[worker[w].j] > 0
MailHolds(w, j) == worker[w].j = j

(* The lease: unless it was lost, a job has one holder at most, whose row  *)
(* is leased until it ends, and once it was mailed it is over or about to  *)
(* be.                                                                     *)
MailLease ==
  /\ \A j \in Mail!MailJobs : job[j].leased => job[j].status = "sending"
  /\ \A j \in Mail!MailJobs \ lapsed, w \in EmailWorkers :
       MailHolds(w, j) => /\ job[j].leased \/ job[j].status \in Mail!Ended
                          /\ \A v \in EmailWorkers : MailHolds(v, j) => v = w
  /\ \A j \in Mail!MailJobs \ lapsed : mails[j] > 0 =>
       \/ \E w \in EmailWorkers : MailHolds(w, j) /\ worker[w].pc = "mark"
       \/ job[j].status \in Mail!Ended /\ \A w \in EmailWorkers : ~MailHolds(w, j)

(* What is about to be mailed was wanted when the job was read.            *)
Consented == \A w \in EmailWorkers : worker[w].pc = "send" => worker[w].consent

JobsInv == MailTyped /\ MailHolding /\ MailLease /\ Mail!SecondMailNeedsLapse /\ Consented

LEMMA MailNoJobIsEmpty == \A j \in Mail!MailJobs : j # <<>> /\ j[1] \in Recipients
BY DEF Mail!MailJobs

LEMMA MailInvInit == Mail!EmailJobsInit => JobsInv
<1> SUFFICES ASSUME Mail!EmailJobsInit PROVE JobsInv OBVIOUS
<1>1. MailTyped
  BY DEF Mail!EmailJobsInit, MailTyped, MailRow, MailStation, MailStations, Mail!NoMailJob, Mail!AtRest, Mail!Open, Mail!Ended
<1>2. MailHolding /\ MailLease /\ Mail!SecondMailNeedsLapse /\ Consented
  BY MailNoJobIsEmpty DEF Mail!EmailJobsInit, MailHolding, MailLease, MailHolds, Mail!SecondMailNeedsLapse, Consented,
    Mail!NoMailJob, Mail!AtRest
<1> QED BY <1>1, <1>2 DEF JobsInv

(* What the statements of the repository do to a row.                      *)
LEMMA MailStatements ==
  ASSUME NEW r \in MailRow
  PROVE  /\ Mail!InsertJob(r) \in MailRow /\ Mail!ClaimJob(r) \in MailRow /\ Mail!CancelJob(r) \in MailRow
         /\ \/ Mail!InsertJob(r) = r /\ r.status # "none"
            \/ r.status = "none" /\ Mail!InsertJob(r).status = "pending" /\ ~Mail!InsertJob(r).leased
         /\ Mail!ClaimJob(r).status = "sending" /\ Mail!ClaimJob(r).leased
         /\ \/ Mail!CancelJob(r) = r /\ r.status \notin Mail!Open
            \/ r.status \in Mail!Open /\ Mail!CancelJob(r).status = "cancelled" /\ ~Mail!CancelJob(r).leased
         /\ Mail!DeferJob(r) \in MailRow
         /\ \/ Mail!DeferJob(r) = r /\ r.status # "sending"
            \/ r.status = "sending" /\ Mail!DeferJob(r).status = "pending" /\ ~Mail!DeferJob(r).leased
         /\ r.status \in {"none"} \union Mail!Open \union Mail!Ended
<1> USE DEF MailRow, Mail!Open, Mail!Ended
<1>1. /\ Mail!InsertJob(r) \in MailRow
      /\ \/ Mail!InsertJob(r) = r /\ r.status # "none"
         \/ r.status = "none" /\ Mail!InsertJob(r).status = "pending" /\ ~Mail!InsertJob(r).leased
  BY DEF Mail!InsertJob, Mail!NoMailJob
<1>2. Mail!ClaimJob(r) \in MailRow /\ Mail!ClaimJob(r).status = "sending" /\ Mail!ClaimJob(r).leased BY DEF Mail!ClaimJob
<1>3. /\ Mail!CancelJob(r) \in MailRow
      /\ \/ Mail!CancelJob(r) = r /\ r.status \notin Mail!Open
         \/ r.status \in Mail!Open /\ Mail!CancelJob(r).status = "cancelled" /\ ~Mail!CancelJob(r).leased
  BY DEF Mail!CancelJob
<1>4. /\ Mail!DeferJob(r) \in MailRow
      /\ \/ Mail!DeferJob(r) = r /\ r.status # "sending"
         \/ r.status = "sending" /\ Mail!DeferJob(r).status = "pending" /\ ~Mail!DeferJob(r).leased
  BY DEF Mail!DeferJob
<1> QED BY <1>1, <1>2, <1>3, <1>4

LEMMA MailVerdicts ==
  ASSUME NEW r \in MailRow, NEW n \in Nat
  PROVE  /\ Mail!MarkSent(r) \in MailRow /\ Mail!RetryJob(r, n) \in MailRow /\ Mail!MarkFailed(r, n) \in MailRow
         /\ r.status # "sending" => Mail!MarkSent(r) = r /\ Mail!RetryJob(r, n) = r /\ Mail!MarkFailed(r, n) = r
         /\ r.status = "sending" =>
              /\ Mail!MarkSent(r).status = "sent" /\ ~Mail!MarkSent(r).leased
              /\ Mail!RetryJob(r, n).status = "pending" /\ ~Mail!RetryJob(r, n).leased
              /\ Mail!MarkFailed(r, n).status = "failed" /\ ~Mail!MarkFailed(r, n).leased
BY DEF MailRow, Mail!Open, Mail!Ended, Mail!MarkSent, Mail!RetryJob, Mail!MarkFailed

LEMMA MailTypedStep == MailTyped /\ MailHolding /\ [Mail!EmailJobsNext]_(Mail!emailJobsVars) => MailTyped'
<1> SUFFICES ASSUME MailTyped, MailHolding, [Mail!EmailJobsNext]_(Mail!emailJobsVars) PROVE MailTyped' OBVIOUS
<1> USE DEF MailTyped
<1>0. ASSUME NEW w \in EmailWorkers
      PROVE  /\ worker[w] \in MailStation /\ Mail!AtRest \in MailStation
             /\ worker[w].pc # "idle" => worker[w].j \in Mail!MailJobs
  BY <1>0 DEF MailStation, MailStations, Mail!AtRest, MailHolding
<1>1. ASSUME NEW u \in Recipients, NEW on \in BOOLEAN, Mail!UpdatePreferences(u, on) PROVE MailTyped'
  <2>1. \A j \in Mail!MailJobs : Mail!CancelJob(job[j]) \in MailRow BY MailStatements
  <2>2. job' = job \/ job' = Mail!CancelPendingJobs(u) BY <1>1, Zenon DEF Mail!UpdatePreferences
  <2>3. job' \in [Mail!MailJobs -> MailRow] BY <2>1, <2>2 DEF Mail!CancelPendingJobs
  <2> QED BY <1>1, <2>3 DEF Mail!UpdatePreferences
<1>2. ASSUME NEW on \in BOOLEAN, Mail!SaveSpaceSettings(on) PROVE MailTyped'
  <2>1. \A j \in Mail!MailJobs : Mail!CancelJob(job[j]) \in MailRow BY MailStatements
  <2>2. job' = job \/ job' = Mail!CancelAllJobs BY <1>2, Zenon DEF Mail!SaveSpaceSettings
  <2>3. job' \in [Mail!MailJobs -> MailRow] BY <2>1, <2>2 DEF Mail!CancelAllJobs
  <2> QED BY <1>2, <2>3 DEF Mail!SaveSpaceSettings
<1>3. ASSUME NEW m \in Messages, Mail!scheduleMessage(m) PROVE MailTyped'
  BY <1>3 DEF Mail!scheduleMessage
<1>4. ASSUME NEW m \in Messages, Mail!CommitMessage(m) PROVE MailTyped'
  <2>0. \A j \in Mail!MailJobs : Mail!InsertJob(job[j]) \in MailRow BY MailStatements
  <2>1. job' \in [Mail!MailJobs -> MailRow] BY <1>4, <2>0 DEF Mail!CommitMessage
  <2> QED BY <1>4, <2>1 DEF Mail!CommitMessage
<1>5. ASSUME NEW w \in EmailWorkers, NEW j \in Mail!MailJobs, Mail!Claim(w, j) PROVE MailTyped'
  <2>0. Mail!ClaimJob(job[j]) \in MailRow BY MailStatements
  <2>1. job' \in [Mail!MailJobs -> MailRow] BY <1>5, <2>0 DEF Mail!Claim
  <2>2. worker' \in [EmailWorkers -> MailStation]
    BY <1>0, <1>5 DEF Mail!Claim, MailStation, MailStations, Mail!AtRest
  <2> QED BY <1>5, <2>1, <2>2 DEF Mail!Claim, Mail!settings
<1>6. ASSUME NEW w \in EmailWorkers, NEW present \in BOOLEAN, Mail!GetDeliveryJob(w, present) PROVE MailTyped'
  <2> DEFINE j == worker[w].j
  <2>0. worker[w].pc = "claimed" BY <1>6 DEF Mail!GetDeliveryJob
  <2>1. j \in Mail!MailJobs BY <1>0, <2>0
  <2>2. job[j].attempt \in Nat BY <2>1 DEF MailRow
  <2>3. PICK s \in {"send", "cancel", "defer"} :
          worker' = [worker EXCEPT ![w] = [pc |-> s, j |-> j, consent |-> j[1] \in mailOn,
                                           attempt |-> job[j].attempt]]
    BY <1>6 DEF Mail!GetDeliveryJob
  <2>4. [pc |-> s, j |-> j, consent |-> j[1] \in mailOn, attempt |-> job[j].attempt] \in MailStation
    BY <2>1, <2>2 DEF MailStation, MailStations
  <2>5. worker' \in [EmailWorkers -> MailStation] BY <2>3, <2>4
  <2> QED BY <1>6, <2>5 DEF Mail!GetDeliveryJob, Mail!settings
<1>7. ASSUME NEW w \in EmailWorkers, Mail!PutAside(w) PROVE MailTyped'
  <2>0. job[worker[w].j] \in MailRow BY <1>0, <1>7 DEF Mail!PutAside
  <2>1. Mail!CancelJob(job[worker[w].j]) \in MailRow /\ Mail!DeferJob(job[worker[w].j]) \in MailRow BY <2>0, MailStatements
  <2>2. job' \in [Mail!MailJobs -> MailRow] BY <1>7, <2>1 DEF Mail!PutAside
  <2> QED BY <1>0, <1>7, <2>2 DEF Mail!PutAside, Mail!Rest, Mail!settings
<1>8. ASSUME NEW w \in EmailWorkers, Mail!Send(w) PROVE MailTyped'
  <2>1. worker' \in [EmailWorkers -> MailStation]
    <3>1. PICK s \in {"mark", "fail"} : worker' = [worker EXCEPT ![w] = [worker[w] EXCEPT !.pc = s]]
      BY <1>8 DEF Mail!Send
    <3>2. [worker[w] EXCEPT !.pc = s] \in MailStation BY <1>0 DEF MailStation, MailStations
    <3> QED BY <3>1, <3>2
  <2>2. mails' \in [Mail!MailJobs -> 0..2] BY <1>8 DEF Mail!Send
  <2> QED BY <1>8, <2>1, <2>2 DEF Mail!Send, Mail!settings
<1>9. ASSUME NEW w \in EmailWorkers, Mail!RecordOutcome(w) PROVE MailTyped'
  <2>1. worker[w].attempt + 1 \in Nat BY <1>0 DEF MailStation
  <2>2. worker[w].j \in Mail!MailJobs BY <1>0, <1>9 DEF Mail!RecordOutcome
  <2>3. \A r \in MailRow : /\ Mail!MarkSent(r) \in MailRow /\ Mail!RetryJob(r, worker[w].attempt + 1) \in MailRow
                           /\ Mail!MarkFailed(r, worker[w].attempt + 1) \in MailRow
    BY <2>1, MailVerdicts
  <2>4. job' \in [Mail!MailJobs -> MailRow] BY <1>9, <2>2, <2>3 DEF Mail!RecordOutcome
  <2> QED BY <1>0, <1>9, <2>4 DEF Mail!RecordOutcome, Mail!Rest, Mail!settings
<1>10. ASSUME NEW w \in EmailWorkers, Mail!Abandon(w) PROVE MailTyped'
  BY <1>0, <1>10 DEF Mail!Abandon, Mail!Rest, Mail!settings
<1>11. ASSUME NEW j \in Mail!MailJobs, Mail!Overtaken(j) \/ Mail!LeaseExpires(j) \/ Mail!FallsDue(j) PROVE MailTyped'
  <2>1. job' \in [Mail!MailJobs -> MailRow]
    <3>1. [job[j] EXCEPT !.leased = FALSE] \in MailRow /\ [job[j] EXCEPT !.due = TRUE] \in MailRow
      BY DEF MailRow
    <3>2. \/ job' = job
          \/ job' = [job EXCEPT ![j] = [job[j] EXCEPT !.leased = FALSE]]
          \/ job' = [job EXCEPT ![j] = [job[j] EXCEPT !.due = TRUE]]
      BY <1>11 DEF Mail!Overtaken, Mail!LeaseExpires, Mail!FallsDue
    <3> QED BY <3>1, <3>2
  <2> QED BY <1>11, <2>1 DEF Mail!Overtaken, Mail!LeaseExpires, Mail!FallsDue, Mail!settings
<1>12. CASE UNCHANGED Mail!emailJobsVars BY <1>12 DEF Mail!emailJobsVars
<1> QED BY <1>1, <1>2, <1>3, <1>4, <1>5, <1>6, <1>7, <1>8, <1>9, <1>10, <1>11, <1>12
        DEF Mail!EmailJobsNext, Mail!WorkerStep

-----------------------------------------------------------------------------
(* What a step does to a row: nothing, insert it, cancel it, put it off.   *)
MailSame(x) == job'[x].status = job[x].status /\ job'[x].leased = job[x].leased
MailInserted(x) == job[x].status = "none" /\ job'[x].status = "pending" /\ ~job'[x].leased
MailCancelled(x) == job[x].status \in Mail!Open /\ job'[x].status = "cancelled" /\ ~job'[x].leased
Deferred(x) == job[x].status = "sending" /\ job'[x].status = "pending" /\ ~job'[x].leased
MailOutside == \A x \in Mail!MailJobs : MailSame(x) \/ MailInserted(x) \/ MailCancelled(x)

MailHoldInv == MailHolding /\ MailLease /\ Mail!SecondMailNeedsLapse

LEMMA MailOutsideStep ==
  ASSUME JobsInv, MailTyped', MailOutside, mails' = mails, lapsed' = lapsed,
         \A w \in EmailWorkers : worker'[w].pc = worker[w].pc /\ worker'[w].j = worker[w].j
  PROVE  MailHoldInv'
<1> USE DEF JobsInv, MailHoldInv, MailSame, MailInserted, MailCancelled, MailOutside, MailHolds, Mail!Open, Mail!Ended
<1>1. \A w \in EmailWorkers : worker[w].pc # "idle" => worker[w].j \in Mail!MailJobs
  BY DEF MailTyped, MailStation, MailHolding
<1>2. MailHolding' BY <1>1 DEF MailHolding
<1>3. MailLease' BY DEF MailLease
<1>4. Mail!SecondMailNeedsLapse' BY DEF Mail!SecondMailNeedsLapse
<1> QED BY <1>2, <1>3, <1>4

(* A worker takes a job nobody holds under a lease.                        *)
LEMMA MailClaimStep ==
  ASSUME JobsInv, MailTyped', NEW w \in EmailWorkers, NEW j \in Mail!MailJobs, Mail!Claim(w, j)
  PROVE  MailHoldInv'
<1> USE DEF JobsInv, MailHoldInv, MailHolds, Mail!Open, Mail!Ended
<1>0. /\ mails' = mails /\ lapsed' = lapsed /\ j # <<>>
      /\ worker[w].pc = "idle" /\ worker[w].j = <<>>
      /\ job[j].status \in Mail!Open /\ ~job[j].leased
  BY MailNoJobIsEmpty DEF Mail!Claim, Mail!Claimable, MailHolding
<1>1. /\ worker'[w].pc = "claimed" /\ worker'[w].j = j
      /\ \A v \in EmailWorkers \ {w} : worker'[v] = worker[v]
  BY DEF Mail!Claim, Mail!AtRest, MailTyped
<1>2. /\ job'[j].status = "sending" /\ job'[j].leased
      /\ \A x \in Mail!MailJobs \ {j} : job'[x] = job[x]
  <2>1. job[j] \in MailRow /\ job' = [job EXCEPT ![j] = Mail!ClaimJob(job[j])] BY DEF MailTyped, Mail!Claim
  <2>2. Mail!ClaimJob(job[j]).status = "sending" /\ Mail!ClaimJob(job[j]).leased BY <2>1, MailStatements
  <2> QED BY <2>1, <2>2 DEF MailTyped
<1>3. \A v \in EmailWorkers : worker[v].pc # "idle" => worker[v].j \in Mail!MailJobs
  BY DEF MailTyped, MailStation, MailHolding
<1>4. MailHolding'
  <2> SUFFICES ASSUME NEW v \in EmailWorkers
               PROVE  /\ worker'[v].pc = "idle" <=> worker'[v].j = <<>>
                      /\ worker'[v].pc # "idle" => job'[worker'[v].j].status # "none"
                      /\ worker'[v].pc = "mark" => mails'[worker'[v].j] > 0
    BY DEF MailHolding
  <2>1. CASE v = w BY <1>0, <1>1, <1>2, <2>1
  <2>2. CASE v # w BY <1>0, <1>1, <1>2, <1>3, <2>2 DEF MailHolding
  <2> QED BY <2>1, <2>2
<1>5. j \notin lapsed => \A v \in EmailWorkers : ~MailHolds(v, j)
  BY <1>0 DEF MailLease
<1>6. MailLease'
  <2>1. \A x \in Mail!MailJobs : job'[x].leased => job'[x].status = "sending" BY <1>2 DEF MailLease
  <2>2. ASSUME NEW x \in Mail!MailJobs \ lapsed', NEW v \in EmailWorkers, worker'[v].j = x
        PROVE  /\ job'[x].leased \/ job'[x].status \in Mail!Ended
               /\ \A u \in EmailWorkers : worker'[u].j = x => u = v
    <3>1. CASE x = j BY <1>0, <1>1, <1>2, <1>5, <2>2, <3>1
    <3>2. CASE x # j BY <1>0, <1>1, <1>2, <2>2, <3>2 DEF MailLease
    <3> QED BY <3>1, <3>2
  <2>3. ASSUME NEW x \in Mail!MailJobs \ lapsed', mails'[x] > 0
        PROVE  \/ \E v \in EmailWorkers : worker'[v].j = x /\ worker'[v].pc = "mark"
               \/ job'[x].status \in Mail!Ended /\ \A v \in EmailWorkers : worker'[v].j # x
    <3>1. x # j BY <1>0, <1>5, <2>3 DEF MailLease
    <3> QED BY <1>0, <1>1, <1>2, <2>3, <3>1 DEF MailLease
  <2> QED BY <2>1, <2>2, <2>3 DEF MailLease
<1>7. Mail!SecondMailNeedsLapse' BY <1>0 DEF Mail!SecondMailNeedsLapse
<1> QED BY <1>4, <1>6, <1>7

(* A worker lets go of its job: the row is over, or free for the next      *)
(* claim; without a lapse it was not mailed in vain  .                     *)
LEMMA MailLetGoStep ==
  ASSUME JobsInv, MailTyped', NEW w \in EmailWorkers, worker[w].pc # "idle", Mail!Rest(w), mails' = mails,
         NEW j \in Mail!MailJobs, j = worker[w].j,
         \A x \in Mail!MailJobs \ {j} : job'[x] = job[x],
         job'[j].status # "none", job'[j].leased => job'[j].status = "sending",
         \/ /\ lapsed' = lapsed
            /\ job[j].status \in Mail!Ended => job'[j].status \in Mail!Ended
            /\ j \notin lapsed /\ worker[w].pc = "mark" => job'[j].status \in Mail!Ended
         \/ lapsed' = lapsed \union {j}
  PROVE  MailHoldInv'
<1> USE DEF JobsInv, MailHoldInv, MailHolds
<1>0. /\ worker'[w].pc = "idle" /\ worker'[w].j = <<>> /\ j # <<>>
      /\ \A v \in EmailWorkers \ {w} : worker'[v] = worker[v]
      /\ lapsed \subseteq lapsed'
  BY MailNoJobIsEmpty DEF Mail!Rest, Mail!AtRest, MailTyped
<1>1. \A v \in EmailWorkers : worker[v].pc # "idle" => worker[v].j \in Mail!MailJobs
  BY DEF MailTyped, MailStation, MailHolding
<1>2. MailHolding'
  <2> SUFFICES ASSUME NEW v \in EmailWorkers
               PROVE  /\ worker'[v].pc = "idle" <=> worker'[v].j = <<>>
                      /\ worker'[v].pc # "idle" => job'[worker'[v].j].status # "none"
                      /\ worker'[v].pc = "mark" => mails'[worker'[v].j] > 0
    BY DEF MailHolding
  <2>1. CASE v = w BY <1>0, <2>1
  <2>2. CASE v # w BY <1>0, <1>1, <2>2 DEF MailHolding
  <2> QED BY <2>1, <2>2
<1>3. MailLease'
  <2>1. \A x \in Mail!MailJobs : job'[x].leased => job'[x].status = "sending" BY DEF MailLease
  <2>2. ASSUME NEW x \in Mail!MailJobs \ lapsed', NEW v \in EmailWorkers, worker'[v].j = x
        PROVE  /\ job'[x].leased \/ job'[x].status \in Mail!Ended
               /\ \A u \in EmailWorkers : worker'[u].j = x => u = v
    <3>1. x \notin lapsed /\ v # w /\ worker[v].j = x /\ x # <<>> BY <1>0, <2>2, MailNoJobIsEmpty
    <3>2. x # j BY <3>1 DEF MailLease
    <3>3. job'[x] = job[x] BY <3>2
    <3>4. \A u \in EmailWorkers : worker'[u].j = x => worker[u].j = x BY <1>0, <3>1
    <3> QED BY <3>1, <3>3, <3>4 DEF MailLease
  <2>3. ASSUME NEW x \in Mail!MailJobs \ lapsed', mails'[x] > 0
        PROVE  \/ \E v \in EmailWorkers : worker'[v].j = x /\ worker'[v].pc = "mark"
               \/ job'[x].status \in Mail!Ended /\ \A v \in EmailWorkers : worker'[v].j # x
    <3>1. CASE x # j
      <4>1. x # <<>> BY MailNoJobIsEmpty
      <4> QED BY <1>0, <2>3, <3>1, <4>1 DEF MailLease
    <3>2. CASE x = j
      <4>1. j \notin lapsed /\ lapsed' = lapsed BY <2>3, <3>2
      <4>2. worker[w].pc = "mark" BY <2>3, <3>2, <4>1 DEF MailLease
      <4>3. job'[j].status \in Mail!Ended BY <4>1, <4>2
      <4>4. \A v \in EmailWorkers : worker'[v].j # j BY <1>0, <4>1 DEF MailLease
      <4> QED BY <3>2, <4>3, <4>4
    <3> QED BY <3>1, <3>2
  <2> QED BY <2>1, <2>2, <2>3 DEF MailLease
<1>4. Mail!SecondMailNeedsLapse' BY <1>0 DEF Mail!SecondMailNeedsLapse
<1> QED BY <1>2, <1>3, <1>4

(* A worker goes on with the job it holds; it mails only then.             *)
LEMMA MailGoOnStep ==
  ASSUME JobsInv, MailTyped', NEW w \in EmailWorkers, worker[w].pc \notin {"idle", "mark"},
         job' = job, lapsed' = lapsed,
         worker'[w].pc # "idle", worker'[w].j = worker[w].j,
         \A v \in EmailWorkers \ {w} : worker'[v] = worker[v],
         \A x \in Mail!MailJobs \ {worker[w].j} : mails'[x] = mails[x],
         \/ worker'[w].pc # "mark" /\ mails' = mails
         \/ worker'[w].pc = "mark" /\ mails'[worker[w].j] = (IF mails[worker[w].j] = 2 THEN 2
                                                              ELSE mails[worker[w].j] + 1)
  PROVE  MailHoldInv'
<1> USE DEF JobsInv, MailHoldInv, MailHolds
<1> DEFINE j == worker[w].j
<1>0. j \in Mail!MailJobs /\ j # <<>> /\ mails[j] \in 0..2
  BY MailNoJobIsEmpty DEF MailTyped, MailStation, MailHolding
<1>1. \A v \in EmailWorkers : worker[v].pc # "idle" => worker[v].j \in Mail!MailJobs
  BY DEF MailTyped, MailStation, MailHolding
<1>2. worker'[w].pc = "mark" => mails'[j] > 0 BY <1>0
<1>3. \A x \in Mail!MailJobs : mails[x] > 0 => mails'[x] > 0 BY <1>0 DEF MailTyped
<1>4. MailHolding'
  <2> SUFFICES ASSUME NEW v \in EmailWorkers
               PROVE  /\ worker'[v].pc = "idle" <=> worker'[v].j = <<>>
                      /\ worker'[v].pc # "idle" => job'[worker'[v].j].status # "none"
                      /\ worker'[v].pc = "mark" => mails'[worker'[v].j] > 0
    BY DEF MailHolding
  <2>1. CASE v = w BY <1>0, <1>2, <2>1 DEF MailHolding
  <2>2. CASE v # w BY <1>1, <1>3, <2>2 DEF MailHolding
  <2> QED BY <2>1, <2>2
<1>5. j \notin lapsed => mails[j] = 0
  BY <1>0 DEF MailLease
<1>6. MailLease'
  <2>1. \A x \in Mail!MailJobs : job'[x].leased => job'[x].status = "sending" BY DEF MailLease
  <2>2. ASSUME NEW x \in Mail!MailJobs \ lapsed', NEW v \in EmailWorkers, worker'[v].j = x
        PROVE  /\ job'[x].leased \/ job'[x].status \in Mail!Ended
               /\ \A u \in EmailWorkers : worker'[u].j = x => u = v
    <3>1. \A u \in EmailWorkers : worker'[u].j = worker[u].j OBVIOUS
    <3> QED BY <2>2, <3>1 DEF MailLease
  <2>3. ASSUME NEW x \in Mail!MailJobs \ lapsed', mails'[x] > 0
        PROVE  \/ \E v \in EmailWorkers : worker'[v].j = x /\ worker'[v].pc = "mark"
               \/ job'[x].status \in Mail!Ended /\ \A v \in EmailWorkers : worker'[v].j # x
    <3>1. CASE x = j BY <1>5, <2>3, <3>1
    <3>2. CASE x # j BY <2>3, <3>2 DEF MailLease
    <3> QED BY <3>1, <3>2
  <2> QED BY <2>1, <2>2, <2>3 DEF MailLease
<1>7. Mail!SecondMailNeedsLapse' BY <1>0, <1>5 DEF Mail!SecondMailNeedsLapse
<1> QED BY <1>4, <1>6, <1>7

(* A lease runs out under its holder only as a lapse.                      *)
LEMMA MailLeaseStep ==
  ASSUME JobsInv, MailTyped', NEW j \in Mail!MailJobs, Mail!LeaseExpires(j)
  PROVE  MailHoldInv'
<1> USE DEF JobsInv, MailHoldInv, MailHolds
<1>0. /\ worker' = worker /\ mails' = mails /\ lapsed \subseteq lapsed' /\ job[j].leased
      /\ j \in lapsed' \/ \A w \in EmailWorkers : worker[w].j # j
  BY DEF Mail!LeaseExpires, Mail!Holders
<1>1. /\ job'[j].status = job[j].status /\ ~job'[j].leased
      /\ \A x \in Mail!MailJobs \ {j} : job'[x] = job[x]
  BY DEF Mail!LeaseExpires, MailTyped, MailRow
<1>2. \A v \in EmailWorkers : worker[v].pc # "idle" => worker[v].j \in Mail!MailJobs
  BY DEF MailTyped, MailStation, MailHolding
<1>3. MailHolding' BY <1>0, <1>1, <1>2 DEF MailHolding
<1>4. MailLease'
  <2>1. \A x \in Mail!MailJobs : job'[x].leased => job'[x].status = "sending" BY <1>1 DEF MailLease
  <2>2. ASSUME NEW x \in Mail!MailJobs \ lapsed', NEW v \in EmailWorkers, worker'[v].j = x
        PROVE  /\ job'[x].leased \/ job'[x].status \in Mail!Ended
               /\ \A u \in EmailWorkers : worker'[u].j = x => u = v
    BY <1>0, <1>1, <2>2 DEF MailLease
  <2>3. ASSUME NEW x \in Mail!MailJobs \ lapsed', mails'[x] > 0
        PROVE  \/ \E v \in EmailWorkers : worker'[v].j = x /\ worker'[v].pc = "mark"
               \/ job'[x].status \in Mail!Ended /\ \A v \in EmailWorkers : worker'[v].j # x
    <3>1. job'[x].status = job[x].status BY <1>1
    <3> QED BY <1>0, <2>3, <3>1 DEF MailLease
  <2> QED BY <2>1, <2>2, <2>3 DEF MailLease
<1>5. Mail!SecondMailNeedsLapse' BY <1>0 DEF Mail!SecondMailNeedsLapse
<1> QED BY <1>3, <1>4, <1>5

-----------------------------------------------------------------------------
(* What the actions do to the rows.                                        *)
MailQuiet == mails' = mails /\ lapsed' = lapsed

LEMMA MailCancelsOutside ==
  ASSUME MailTyped, NEW u, job' = Mail!CancelPendingJobs(u)
  PROVE  \A x \in Mail!MailJobs : /\ MailSame(x) \/ MailCancelled(x)
                                  /\ x[1] = u => job'[x].status \notin Mail!Open
<1> SUFFICES ASSUME NEW x \in Mail!MailJobs
             PROVE  (MailSame(x) \/ MailCancelled(x)) /\ (x[1] = u => job'[x].status \notin Mail!Open)
  OBVIOUS
<1>1. job[x] \in MailRow /\ job'[x] = IF x[1] = u THEN Mail!CancelJob(job[x]) ELSE job[x]
  BY DEF MailTyped, Mail!CancelPendingJobs
<1>2. \/ Mail!CancelJob(job[x]) = job[x] /\ job[x].status \notin Mail!Open
      \/ job[x].status \in Mail!Open /\ Mail!CancelJob(job[x]).status = "cancelled" /\ ~Mail!CancelJob(job[x]).leased
  BY <1>1, MailStatements
<1> QED BY <1>1, <1>2 DEF MailSame, MailCancelled, Mail!Open

LEMMA CancelsAll ==
  ASSUME MailTyped, job' = Mail!CancelAllJobs
  PROVE  \A x \in Mail!MailJobs : MailSame(x) \/ MailCancelled(x)
<1> SUFFICES ASSUME NEW x \in Mail!MailJobs PROVE MailSame(x) \/ MailCancelled(x) OBVIOUS
<1>1. job[x] \in MailRow /\ job'[x] = Mail!CancelJob(job[x]) BY DEF MailTyped, Mail!CancelAllJobs
<1>2. \/ Mail!CancelJob(job[x]) = job[x]
      \/ job[x].status \in Mail!Open /\ Mail!CancelJob(job[x]).status = "cancelled" /\ ~Mail!CancelJob(job[x]).leased
  BY <1>1, MailStatements
<1> QED BY <1>1, <1>2 DEF MailSame, MailCancelled

(* The requests, the clock and the steps that touch no row.                *)
MailRequest ==
  \/ \E u \in Recipients, on \in BOOLEAN : Mail!UpdatePreferences(u, on)
  \/ \E on \in BOOLEAN : Mail!SaveSpaceSettings(on)
  \/ \E m \in Messages : Mail!scheduleMessage(m) \/ Mail!CommitMessage(m)
  \/ \E j \in Mail!MailJobs : Mail!Overtaken(j) \/ Mail!FallsDue(j)
  \/ UNCHANGED Mail!emailJobsVars

LEMMA MailRequestFacts ==
  ASSUME MailTyped, MailRequest
  PROVE  /\ MailQuiet /\ worker' = worker
         /\ \/ \A x \in Mail!MailJobs : MailSame(x) \/ MailInserted(x)
            \/ \A x \in Mail!MailJobs : MailSame(x) \/ MailCancelled(x)
<1> DEFINE P == /\ MailQuiet /\ worker' = worker
                /\ \/ \A x \in Mail!MailJobs : MailSame(x) \/ MailInserted(x)
                   \/ \A x \in Mail!MailJobs : MailSame(x) \/ MailCancelled(x)
<1>1. CASE \/ \E m \in Messages : Mail!scheduleMessage(m)
           \/ \E j \in Mail!MailJobs : Mail!Overtaken(j)
           \/ UNCHANGED Mail!emailJobsVars
  BY <1>1 DEF Mail!scheduleMessage, Mail!Overtaken, Mail!emailJobsVars, MailQuiet, MailSame
<1>2. ASSUME NEW u \in Recipients, NEW on \in BOOLEAN, Mail!UpdatePreferences(u, on) PROVE P
  <2>1. job' = job \/ job' = Mail!CancelPendingJobs(u) BY <1>2, Zenon DEF Mail!UpdatePreferences
  <2>2. MailQuiet /\ worker' = worker BY <1>2 DEF Mail!UpdatePreferences, MailQuiet
  <2>3. CASE job' = job BY <2>2, <2>3 DEF MailSame
  <2>4. CASE job' = Mail!CancelPendingJobs(u) BY <2>2, <2>4, MailCancelsOutside
  <2> QED BY <2>1, <2>3, <2>4
<1>3. ASSUME NEW m \in Messages, Mail!CommitMessage(m) PROVE P
  <2>1. ASSUME NEW x \in Mail!MailJobs PROVE MailSame(x) \/ MailInserted(x)
    <3>1. job'[x] = IF x \in tx[m].to \X {m} THEN Mail!InsertJob(job[x]) ELSE job[x] BY <1>3 DEF Mail!CommitMessage
    <3>2. job[x] \in MailRow BY DEF MailTyped
    <3>3. \/ Mail!InsertJob(job[x]) = job[x]
          \/ job[x].status = "none" /\ Mail!InsertJob(job[x]).status = "pending" /\ ~Mail!InsertJob(job[x]).leased
      BY <3>2, MailStatements
    <3> QED BY <3>1, <3>3 DEF MailSame, MailInserted
  <2> QED BY <1>3, <2>1 DEF Mail!CommitMessage, MailQuiet
<1>4. ASSUME NEW j \in Mail!MailJobs, Mail!FallsDue(j) PROVE P
  <2>1. ASSUME NEW x \in Mail!MailJobs PROVE MailSame(x)
    BY <1>4, <2>1 DEF Mail!FallsDue, MailSame, MailTyped, MailRow
  <2> QED BY <1>4, <2>1 DEF Mail!FallsDue, MailQuiet, Mail!settings
<1>5. ASSUME NEW on \in BOOLEAN, Mail!SaveSpaceSettings(on) PROVE P
  <2>1. job' = job \/ job' = Mail!CancelAllJobs BY <1>5, Zenon DEF Mail!SaveSpaceSettings
  <2>2. MailQuiet /\ worker' = worker BY <1>5 DEF Mail!SaveSpaceSettings, MailQuiet
  <2>3. CASE job' = job BY <2>2, <2>3 DEF MailSame
  <2>4. CASE job' = Mail!CancelAllJobs BY <2>2, <2>4, CancelsAll
  <2> QED BY <2>1, <2>3, <2>4
<1> QED BY <1>1, <1>2, <1>3, <1>4, <1>5 DEF MailRequest

LEMMA MailAsideFacts ==
  ASSUME MailTyped, MailHolding, NEW w \in EmailWorkers, Mail!PutAside(w)
  PROVE  /\ MailQuiet /\ Mail!Rest(w) /\ worker[w].pc \in {"cancel", "defer"} /\ worker[w].j \in Mail!MailJobs
         /\ \A x \in Mail!MailJobs \ {worker[w].j} : job'[x] = job[x]
         /\ MailSame(worker[w].j) \/ MailCancelled(worker[w].j) \/ Deferred(worker[w].j)
<1> DEFINE j == worker[w].j
<1>1. worker[w].pc \in {"cancel", "defer"} /\ MailQuiet /\ Mail!Rest(w) BY DEF Mail!PutAside, MailQuiet
<1>2. j \in Mail!MailJobs BY <1>1 DEF MailTyped, MailStation, MailHolding
<1>3. job[j] \in MailRow /\ job' = [job EXCEPT ![j] = IF worker[w].pc = "cancel" THEN Mail!CancelJob(job[j])
                                                      ELSE Mail!DeferJob(job[j])]
  BY <1>2 DEF MailTyped, Mail!PutAside
<1>4. /\ \/ Mail!CancelJob(job[j]) = job[j]
         \/ job[j].status \in Mail!Open /\ Mail!CancelJob(job[j]).status = "cancelled" /\ ~Mail!CancelJob(job[j]).leased
      /\ \/ Mail!DeferJob(job[j]) = job[j]
         \/ job[j].status = "sending" /\ Mail!DeferJob(job[j]).status = "pending" /\ ~Mail!DeferJob(job[j]).leased
  BY <1>3, MailStatements
<1>5. /\ job'[j] = Mail!CancelJob(job[j]) \/ job'[j] = Mail!DeferJob(job[j])
      /\ \A x \in Mail!MailJobs \ {j} : job'[x] = job[x]
  BY <1>2, <1>3 DEF MailTyped
<1> QED BY <1>1, <1>2, <1>4, <1>5 DEF MailSame, MailCancelled, Deferred

LEMMA MailOutcomeFacts ==
  ASSUME MailTyped, MailHolding, NEW w \in EmailWorkers, Mail!RecordOutcome(w)
  PROVE  /\ MailQuiet /\ Mail!Rest(w) /\ worker[w].pc \in {"mark", "fail"} /\ worker[w].j \in Mail!MailJobs
         /\ \A x \in Mail!MailJobs \ {worker[w].j} : job'[x] = job[x]
         /\ job[worker[w].j].status # "sending" => job'[worker[w].j] = job[worker[w].j]
         /\ job[worker[w].j].status = "sending" =>
              /\ ~job'[worker[w].j].leased
              /\ worker[w].pc = "mark" => job'[worker[w].j].status = "sent"
              /\ worker[w].pc = "fail" => job'[worker[w].j].status \in {"pending", "failed"}
<1> DEFINE j == worker[w].j
           n == worker[w].attempt + 1
<1>1. worker[w].pc \in {"mark", "fail"} /\ MailQuiet /\ Mail!Rest(w)
  BY DEF Mail!RecordOutcome, MailQuiet, Mail!settings
<1>2. j \in Mail!MailJobs /\ n \in Nat BY <1>1 DEF MailTyped, MailStation, MailHolding
<1>3. job[j] \in MailRow
      /\ job' = [job EXCEPT ![j] = IF worker[w].pc = "mark" THEN Mail!MarkSent(job[j])
                                   ELSE IF n <= RetryDelays THEN Mail!RetryJob(job[j], n)
                                   ELSE Mail!MarkFailed(job[j], n)]
  BY <1>2 DEF MailTyped, Mail!RecordOutcome, Mail!WillRetry
<1>4. /\ job[j].status # "sending" =>
           Mail!MarkSent(job[j]) = job[j] /\ Mail!RetryJob(job[j], n) = job[j] /\ Mail!MarkFailed(job[j], n) = job[j]
      /\ job[j].status = "sending" =>
           /\ Mail!MarkSent(job[j]).status = "sent" /\ ~Mail!MarkSent(job[j]).leased
           /\ Mail!RetryJob(job[j], n).status = "pending" /\ ~Mail!RetryJob(job[j], n).leased
           /\ Mail!MarkFailed(job[j], n).status = "failed" /\ ~Mail!MarkFailed(job[j], n).leased
  <2> HIDE DEF n
  <2> QED BY <1>2, <1>3, MailVerdicts
<1>5. /\ job'[j] \in {Mail!MarkSent(job[j]), Mail!RetryJob(job[j], n), Mail!MarkFailed(job[j], n)}
      /\ worker[w].pc = "mark" => job'[j] = Mail!MarkSent(job[j])
      /\ worker[w].pc = "fail" => job'[j] \in {Mail!RetryJob(job[j], n), Mail!MarkFailed(job[j], n)}
      /\ \A x \in Mail!MailJobs \ {j} : job'[x] = job[x]
  BY <1>2, <1>3 DEF MailTyped
<1> HIDE DEF n
<1> QED BY <1>1, <1>2, <1>4, <1>5

LEMMA MailReadFacts ==
  ASSUME MailTyped, MailHolding, NEW w \in EmailWorkers, NEW present \in BOOLEAN, Mail!GetDeliveryJob(w, present)
  PROVE  /\ MailQuiet /\ job' = job /\ worker[w].pc = "claimed" /\ worker'[w].j = worker[w].j
         /\ worker[w].j \in Mail!MailJobs
         /\ \/ worker'[w].pc \in {"cancel", "defer"}
            \/ worker'[w].pc = "send" /\ worker'[w].consent
         /\ \A v \in EmailWorkers \ {w} : worker'[v] = worker[v]
<1>1. worker[w].pc = "claimed" /\ MailQuiet /\ job' = job BY DEF Mail!GetDeliveryJob, MailQuiet
<1>2. worker[w].j \in Mail!MailJobs BY <1>1 DEF MailTyped, MailStation, MailHolding
<1> DEFINE j == worker[w].j
<1>3. PICK s \in {"cancel", "defer", "send"} :
        /\ s = "send" => j[1] \in mailOn
        /\ worker' = [worker EXCEPT ![w] = [pc |-> s, j |-> j, consent |-> j[1] \in mailOn,
                                            attempt |-> job[j].attempt]]
  BY DEF Mail!GetDeliveryJob, Mail!eligibleJob
<1>4. /\ worker'[w].pc = s /\ worker'[w].j = j /\ worker'[w].consent = (j[1] \in mailOn)
      /\ \A v \in EmailWorkers \ {w} : worker'[v] = worker[v]
  BY <1>3 DEF MailTyped
<1> QED BY <1>1, <1>2, <1>3, <1>4

LEMMA SendFacts ==
  ASSUME MailTyped, MailHolding, NEW w \in EmailWorkers, Mail!Send(w)
  PROVE  /\ job' = job /\ lapsed' = lapsed /\ worker[w].pc = "send"
         /\ worker[w].j \in Mail!MailJobs /\ worker'[w].j = worker[w].j
         /\ \A v \in EmailWorkers \ {w} : worker'[v] = worker[v]
         /\ \/ worker'[w].pc = "fail" /\ mails' = mails
            \/ worker'[w].pc = "mark"
               /\ mails' = [mails EXCEPT ![worker[w].j] = IF mails[worker[w].j] = 2 THEN 2
                                                            ELSE mails[worker[w].j] + 1]
<1>1. worker[w].pc = "send" BY DEF Mail!Send
<1>2. worker[w].j \in Mail!MailJobs BY <1>1 DEF MailTyped, MailStation, MailHolding
<1> QED BY <1>1, <1>2 DEF Mail!Send, Mail!settings, MailTyped, MailStation

LEMMA MailHoldStep == JobsInv /\ MailTyped' /\ [Mail!EmailJobsNext]_(Mail!emailJobsVars) => MailHoldInv'
<1> SUFFICES ASSUME JobsInv, MailTyped', [Mail!EmailJobsNext]_(Mail!emailJobsVars) PROVE MailHoldInv' OBVIOUS
<1>0. MailTyped /\ MailHolding /\ MailLease BY DEF JobsInv
<1>1. CASE MailRequest
  BY <1>0, <1>1, MailRequestFacts, MailOutsideStep DEF MailQuiet, MailOutside
<1>2. ASSUME NEW w \in EmailWorkers, NEW j \in Mail!MailJobs, Mail!Claim(w, j) PROVE MailHoldInv'
  BY <1>2, MailClaimStep
<1>3. ASSUME NEW w \in EmailWorkers, NEW present \in BOOLEAN, Mail!GetDeliveryJob(w, present) PROVE MailHoldInv'
  <2>1. /\ MailQuiet /\ job' = job /\ worker[w].pc = "claimed" /\ worker'[w].j = worker[w].j
        /\ worker'[w].pc \in {"cancel", "defer", "send"}
        /\ \A v \in EmailWorkers \ {w} : worker'[v] = worker[v]
    BY <1>0, <1>3, MailReadFacts
  <2> QED BY <2>1, MailGoOnStep DEF MailQuiet
<1>4. ASSUME NEW w \in EmailWorkers, Mail!Send(w) PROVE MailHoldInv'
  <2>1. /\ job' = job /\ lapsed' = lapsed /\ worker[w].pc = "send"
        /\ worker[w].j \in Mail!MailJobs /\ worker'[w].j = worker[w].j
        /\ \A v \in EmailWorkers \ {w} : worker'[v] = worker[v]
        /\ \/ worker'[w].pc = "fail" /\ mails' = mails
           \/ worker'[w].pc = "mark"
              /\ mails' = [mails EXCEPT ![worker[w].j] = IF mails[worker[w].j] = 2 THEN 2
                                                           ELSE mails[worker[w].j] + 1]
    BY <1>0, <1>4, SendFacts
  <2>2. /\ \A x \in Mail!MailJobs \ {worker[w].j} : mails'[x] = mails[x]
        /\ worker'[w].pc = "mark" => mails'[worker[w].j] = (IF mails[worker[w].j] = 2 THEN 2
                                                             ELSE mails[worker[w].j] + 1)
    BY <1>0, <2>1 DEF MailTyped
  <2> QED BY <2>1, <2>2, MailGoOnStep
<1>5. ASSUME NEW w \in EmailWorkers, Mail!PutAside(w) PROVE MailHoldInv'
  <2> DEFINE j == worker[w].j
  <2>1. /\ MailQuiet /\ Mail!Rest(w) /\ worker[w].pc \in {"cancel", "defer"} /\ j \in Mail!MailJobs
        /\ \A x \in Mail!MailJobs \ {j} : job'[x] = job[x]
        /\ MailSame(j) \/ MailCancelled(j) \/ Deferred(j)
    BY <1>0, <1>5, MailAsideFacts
  <2>2. /\ job'[j].status # "none" /\ (job'[j].leased => job'[j].status = "sending")
        /\ job[j].status \in Mail!Ended => job'[j].status \in Mail!Ended
    BY <1>0, <2>1 DEF MailSame, MailCancelled, Deferred, MailHolding, MailLease, Mail!Open, Mail!Ended
  <2> HIDE DEF j
  <2>3. j = worker[w].j BY DEF j
  <2> QED BY <2>1, <2>2, <2>3, MailLetGoStep DEF MailQuiet
<1>6. ASSUME NEW w \in EmailWorkers, Mail!RecordOutcome(w) PROVE MailHoldInv'
  <2> DEFINE j == worker[w].j
  <2>1. /\ MailQuiet /\ Mail!Rest(w) /\ worker[w].pc \in {"mark", "fail"} /\ j \in Mail!MailJobs
        /\ \A x \in Mail!MailJobs \ {j} : job'[x] = job[x]
        /\ job[j].status # "sending" => job'[j] = job[j]
        /\ job[j].status = "sending" =>
             /\ ~job'[j].leased
             /\ worker[w].pc = "mark" => job'[j].status = "sent"
             /\ worker[w].pc = "fail" => job'[j].status \in {"pending", "failed"}
    BY <1>0, <1>6, MailOutcomeFacts
  <2>2. job[j].status # "none" /\ (job[j].leased => job[j].status = "sending")
    BY <1>0, <2>1 DEF MailHolding, MailLease
  <2>3. j \notin lapsed => job[j].leased \/ job[j].status \in Mail!Ended
    BY <1>0, <2>1 DEF MailLease, MailHolds
  <2>4. /\ job'[j].status # "none" /\ (job'[j].leased => job'[j].status = "sending")
        /\ job[j].status \in Mail!Ended => job'[j].status \in Mail!Ended
    BY <2>1, <2>2 DEF Mail!Ended
  <2>5. j \notin lapsed /\ worker[w].pc = "mark" => job'[j].status \in Mail!Ended
    BY <2>1, <2>2, <2>3 DEF Mail!Ended
  <2> HIDE DEF j
  <2>6. j = worker[w].j BY DEF j
  <2> QED BY <2>1, <2>4, <2>5, <2>6, MailLetGoStep DEF MailQuiet
<1>7. ASSUME NEW w \in EmailWorkers, Mail!Abandon(w) PROVE MailHoldInv'
  <2> DEFINE j == worker[w].j
  <2>1. /\ worker[w].pc # "idle" /\ Mail!Rest(w) /\ mails' = mails /\ job' = job
        /\ lapsed' = lapsed \union {j}
    BY <1>7 DEF Mail!Abandon
  <2>2. j \in Mail!MailJobs /\ job[j].status # "none" /\ (job[j].leased => job[j].status = "sending")
    BY <1>0, <2>1 DEF MailTyped, MailStation, MailHolding, MailLease
  <2> HIDE DEF j
  <2>3. j = worker[w].j BY DEF j
  <2> QED BY <2>1, <2>2, <2>3, MailLetGoStep
<1>8. ASSUME NEW j \in Mail!MailJobs, Mail!LeaseExpires(j) PROVE MailHoldInv'
  BY <1>8, MailLeaseStep
<1> QED BY <1>1, <1>2, <1>3, <1>4, <1>5, <1>6, <1>7, <1>8 DEF Mail!EmailJobsNext, Mail!WorkerStep, MailRequest

LEMMA ConsentStep == JobsInv /\ [Mail!EmailJobsNext]_(Mail!emailJobsVars) => Consented'
<1> SUFFICES ASSUME JobsInv, [Mail!EmailJobsNext]_(Mail!emailJobsVars) PROVE Consented' OBVIOUS
<1>0. MailTyped /\ MailHolding /\ Consented BY DEF JobsInv
<1> USE DEF Consented
<1>1. CASE MailRequest
  <2>1. worker' = worker BY <1>0, <1>1, MailRequestFacts
  <2> QED BY <1>0, <2>1
<1>2. ASSUME NEW w \in EmailWorkers, NEW j \in Mail!MailJobs, Mail!Claim(w, j) PROVE Consented'
  <2>1. worker'[w].pc = "claimed" /\ \A v \in EmailWorkers \ {w} : worker'[v] = worker[v]
    BY <1>0, <1>2 DEF Mail!Claim, MailTyped, Mail!AtRest
  <2> QED BY <1>0, <2>1
<1>3. ASSUME NEW w \in EmailWorkers, NEW present \in BOOLEAN, Mail!GetDeliveryJob(w, present)
      PROVE  Consented'
  <2>1. /\ worker'[w].pc \in {"cancel", "defer"} \/ worker'[w].consent
        /\ \A v \in EmailWorkers \ {w} : worker'[v] = worker[v]
    BY <1>0, <1>3, MailReadFacts
  <2> QED BY <1>0, <2>1
<1>4. ASSUME NEW w \in EmailWorkers, Mail!Send(w) PROVE Consented'
  <2>1. worker'[w].pc # "send" /\ \A v \in EmailWorkers \ {w} : worker'[v] = worker[v]
    BY <1>0, <1>4, SendFacts
  <2> QED BY <1>0, <2>1
<1>5. ASSUME NEW w \in EmailWorkers, Mail!PutAside(w) \/ Mail!RecordOutcome(w) \/ Mail!Abandon(w) PROVE Consented'
  <2>1. Mail!Rest(w) BY <1>5 DEF Mail!PutAside, Mail!RecordOutcome, Mail!Abandon
  <2>2. worker'[w].pc = "idle" /\ \A v \in EmailWorkers \ {w} : worker'[v] = worker[v]
    BY <1>0, <2>1 DEF Mail!Rest, Mail!AtRest, MailTyped
  <2> QED BY <1>0, <2>2
<1>6. ASSUME NEW j \in Mail!MailJobs, Mail!LeaseExpires(j) PROVE Consented'
  BY <1>0, <1>6 DEF Mail!LeaseExpires
<1> QED BY <1>1, <1>2, <1>3, <1>4, <1>5, <1>6 DEF Mail!EmailJobsNext, Mail!WorkerStep, MailRequest

LEMMA MailInvStep == JobsInv /\ [Mail!EmailJobsNext]_(Mail!emailJobsVars) => JobsInv'
BY MailTypedStep, MailHoldStep, ConsentStep DEF JobsInv, MailHoldInv

(* A second mail for one job needs a worker that lost it, with any number  *)
(* of workers and jobs: the lease keeps them apart.                        *)
THEOREM SecondMailCorrect == Mail!EmailJobsSpec => []Mail!SecondMailNeedsLapse
<1>1. JobsInv => Mail!SecondMailNeedsLapse BY DEF JobsInv
<1> QED BY <1>1, MailInvInit, MailInvStep, PTL DEF Mail!EmailJobsSpec

(* A mail leaves only for a recipient who still wanted it when the worker  *)
(* read the job after claiming it, however preferences, claims and sends   *)
(* interleave.                                                             *)
THEOREM MailHadConsentCorrect == Mail!EmailJobsSpec => Mail!MailHadConsent
<1> DEFINE A == \A j \in Mail!MailJobs : mails'[j] # mails[j] =>
                  \E w \in EmailWorkers : worker[w].j = j /\ worker[w].consent
<1>1. ASSUME JobsInv, [Mail!EmailJobsNext]_(Mail!emailJobsVars) PROVE A
  <2>0. MailTyped /\ MailHolding /\ Consented BY <1>1 DEF JobsInv
  <2>1. ASSUME NEW w \in EmailWorkers, Mail!Send(w), NEW j \in Mail!MailJobs, mails'[j] # mails[j]
        PROVE  worker[w].j = j /\ worker[w].consent
    <3>1. worker[w].pc = "send" /\ worker[w].j \in Mail!MailJobs BY <2>0, <2>1, SendFacts
    <3>2. \/ mails' = mails
          \/ mails' = [mails EXCEPT ![worker[w].j] = IF mails[worker[w].j] = 2 THEN 2
                                                     ELSE mails[worker[w].j] + 1]
      BY <2>0, <2>1, SendFacts
    <3>3. worker[w].j = j BY <2>0, <2>1, <3>1, <3>2 DEF MailTyped
    <3> QED BY <2>0, <3>1, <3>3 DEF Consented
  <2>2. (\E w \in EmailWorkers : Mail!Send(w)) \/ mails' = mails
    BY <1>1 DEF Mail!EmailJobsNext, Mail!WorkerStep, Mail!emailJobsVars, Mail!UpdatePreferences, Mail!SaveSpaceSettings,
      Mail!scheduleMessage, Mail!CommitMessage, Mail!Claim, Mail!GetDeliveryJob, Mail!PutAside, Mail!RecordOutcome, Mail!Abandon,
      Mail!Overtaken, Mail!LeaseExpires, Mail!FallsDue
  <2> QED BY <2>1, <2>2
<1>2. JobsInv /\ [Mail!EmailJobsNext]_(Mail!emailJobsVars) => [A]_(Mail!emailJobsVars) BY <1>1
<1> QED BY <1>2, MailInvInit, MailInvStep, PTL DEF Mail!EmailJobsSpec, Mail!MailHadConsent

-----------------------------------------------------------------------------
(* The bounds: a job that may still be sent has a retry left, and so has   *)
(* what a worker is about to send or record.                               *)
MailSound(r) == r.attempt <= RetryDelays + 1 /\ (r.status \in Mail!Open => r.attempt <= RetryDelays)
MailMeasured(s) == /\ s.attempt <= RetryDelays + 1
                   /\ s.pc \in {"send", "mark", "fail"} => s.attempt <= RetryDelays
MailAttempts == /\ \A j \in Mail!MailJobs : MailSound(job[j])
                /\ \A w \in EmailWorkers : MailMeasured(worker[w])
MailSurroundings ==
  /\ smtpOn \in BOOLEAN /\ mailOn \subseteq Recipients
  /\ tx \in [Messages -> [st : {"none", "tx", "done"}, to : SUBSET Recipients]]
  /\ pertinent \subseteq Mail!MailJobs /\ lapsed \subseteq Mail!MailJobs /\ lapses \in 0..MaxLapses

LEMMA MailSurroundingsStep ==
  ASSUME MaxLapses \in Nat, JobsInv, MailSurroundings, [Mail!EmailJobsNext]_(Mail!emailJobsVars)
  PROVE  MailSurroundings'
<1>0. MailTyped /\ MailHolding BY DEF JobsInv
<1> USE DEF MailSurroundings
<1>1. ASSUME NEW m \in Messages, Mail!scheduleMessage(m) PROVE MailSurroundings'
  <2>1. PICK S \in SUBSET Recipients : tx' = [tx EXCEPT ![m] = [st |-> "tx", to |-> S]]
    BY <1>1 DEF Mail!scheduleMessage
  <2>2. tx' \in [Messages -> [st : {"none", "tx", "done"}, to : SUBSET Recipients]] BY <2>1
  <2> QED BY <1>1, <2>2 DEF Mail!scheduleMessage
<1>2. ASSUME NEW m \in Messages, Mail!CommitMessage(m) PROVE MailSurroundings'
  <2>1. tx' \in [Messages -> [st : {"none", "tx", "done"}, to : SUBSET Recipients]]
    BY <1>2 DEF Mail!CommitMessage
  <2>2. pertinent' \subseteq Mail!MailJobs BY <1>2 DEF Mail!CommitMessage, Mail!MailJobs
  <2> QED BY <1>2, <2>1, <2>2 DEF Mail!CommitMessage
<1>3. ASSUME NEW u \in Recipients, NEW on \in BOOLEAN, Mail!UpdatePreferences(u, on) PROVE MailSurroundings'
  BY <1>3 DEF Mail!UpdatePreferences
<1>4. ASSUME NEW on \in BOOLEAN, Mail!SaveSpaceSettings(on) PROVE MailSurroundings'
  BY <1>4 DEF Mail!SaveSpaceSettings
<1>5. ASSUME NEW w \in EmailWorkers, Mail!WorkerStep(w) PROVE MailSurroundings'
  BY <1>5 DEF Mail!WorkerStep, Mail!Claim, Mail!GetDeliveryJob, Mail!PutAside, Mail!Send, Mail!RecordOutcome, Mail!settings
<1>6. ASSUME NEW w \in EmailWorkers, Mail!Abandon(w) PROVE MailSurroundings'
  <2>1. worker[w].j \in Mail!MailJobs BY <1>0, <1>6 DEF Mail!Abandon, MailTyped, MailHolding, MailStation
  <2> QED BY <1>6, <2>1 DEF Mail!Abandon, Mail!settings
<1>7. ASSUME NEW j \in Mail!MailJobs, Mail!Overtaken(j) \/ Mail!LeaseExpires(j) \/ Mail!FallsDue(j) PROVE MailSurroundings'
  BY <1>7 DEF Mail!Overtaken, Mail!LeaseExpires, Mail!FallsDue, Mail!settings
<1>8. CASE UNCHANGED Mail!emailJobsVars BY <1>8 DEF Mail!emailJobsVars
<1> QED BY <1>1, <1>2, <1>3, <1>4, <1>5, <1>6, <1>7, <1>8 DEF Mail!EmailJobsNext

(* What becomes of the attempts of a row.                                  *)
LEMMA MailSoundRows ==
  ASSUME RetryDelays \in Nat, NEW r \in MailRow, MailSound(r), NEW n \in 0..(RetryDelays + 1)
  PROVE  /\ MailSound(Mail!InsertJob(r)) /\ (r.status \in Mail!Open => MailSound(Mail!ClaimJob(r)))
         /\ MailSound(Mail!CancelJob(r)) /\ MailSound(Mail!DeferJob(r)) /\ MailSound(Mail!MarkSent(r)) /\ MailSound(Mail!MarkFailed(r, n))
         /\ n <= RetryDelays => MailSound(Mail!RetryJob(r, n))
         /\ MailSound([r EXCEPT !.leased = FALSE]) /\ MailSound([r EXCEPT !.due = TRUE])
<1> USE DEF MailSound, MailRow, Mail!Open, Mail!Ended
<1>1. MailSound(Mail!InsertJob(r)) BY DEF Mail!InsertJob, Mail!NoMailJob
<1>2. r.status \in Mail!Open => MailSound(Mail!ClaimJob(r)) BY DEF Mail!ClaimJob
<1>3. MailSound(Mail!CancelJob(r)) /\ MailSound(Mail!DeferJob(r)) BY DEF Mail!CancelJob, Mail!DeferJob
<1>4. MailSound(Mail!MarkSent(r)) /\ MailSound(Mail!MarkFailed(r, n)) BY DEF Mail!MarkSent, Mail!MarkFailed
<1>5. n <= RetryDelays => MailSound(Mail!RetryJob(r, n)) BY DEF Mail!RetryJob
<1>6. MailSound([r EXCEPT !.leased = FALSE]) /\ MailSound([r EXCEPT !.due = TRUE]) OBVIOUS
<1> QED BY <1>1, <1>2, <1>3, <1>4, <1>5, <1>6

LEMMA MailAttemptsStep ==
  ASSUME RetryDelays \in Nat, JobsInv, MailAttempts, [Mail!EmailJobsNext]_(Mail!emailJobsVars)
  PROVE  MailAttempts'
<1>0. MailTyped /\ MailHolding BY DEF JobsInv
<1>1. \A x \in Mail!MailJobs :
        /\ MailSound(Mail!InsertJob(job[x])) /\ (job[x].status \in Mail!Open => MailSound(Mail!ClaimJob(job[x])))
        /\ MailSound(Mail!CancelJob(job[x])) /\ MailSound(Mail!DeferJob(job[x])) /\ MailSound(Mail!MarkSent(job[x]))
        /\ MailSound([job[x] EXCEPT !.leased = FALSE]) /\ MailSound([job[x] EXCEPT !.due = TRUE])
  BY <1>0, MailSoundRows DEF MailAttempts, MailTyped
<1>2. MailMeasured(Mail!AtRest) /\ MailMeasured([Mail!AtRest EXCEPT !.pc = "claimed"]) BY DEF MailMeasured, Mail!AtRest
<1>3. ASSUME NEW w \in EmailWorkers
      PROVE  /\ worker[w] \in MailStation /\ MailMeasured(worker[w])
             /\ worker[w].pc # "idle" => worker[w].j \in Mail!MailJobs
  BY <1>0 DEF MailTyped, MailHolding, MailAttempts, MailStation
<1>j. ASSUME \A x \in Mail!MailJobs : MailSound(job'[x]), worker' = worker PROVE MailAttempts'
  BY <1>j DEF MailAttempts
<1>4. ASSUME NEW m \in Messages, Mail!scheduleMessage(m) \/ Mail!CommitMessage(m) PROVE MailAttempts'
  <2>1. \A x \in Mail!MailJobs : MailSound(job'[x])
    BY <1>1, <1>4 DEF Mail!scheduleMessage, Mail!CommitMessage, MailAttempts
  <2> QED BY <1>4, <1>j, <2>1 DEF Mail!scheduleMessage, Mail!CommitMessage
<1>5. ASSUME NEW u \in Recipients, NEW on \in BOOLEAN, Mail!UpdatePreferences(u, on) PROVE MailAttempts'
  <2>1. job' = job \/ job' = Mail!CancelPendingJobs(u) BY <1>5, Zenon DEF Mail!UpdatePreferences
  <2>2. \A x \in Mail!MailJobs : MailSound(job'[x]) BY <1>1, <2>1 DEF Mail!CancelPendingJobs, MailAttempts
  <2> QED BY <1>5, <1>j, <2>2 DEF Mail!UpdatePreferences
<1>6. ASSUME NEW on \in BOOLEAN, Mail!SaveSpaceSettings(on) PROVE MailAttempts'
  <2>1. job' = job \/ job' = Mail!CancelAllJobs BY <1>6, Zenon DEF Mail!SaveSpaceSettings
  <2>2. \A x \in Mail!MailJobs : MailSound(job'[x]) BY <1>1, <2>1 DEF Mail!CancelAllJobs, MailAttempts
  <2> QED BY <1>6, <1>j, <2>2 DEF Mail!SaveSpaceSettings
<1>w. ASSUME NEW w \in EmailWorkers, NEW s, worker' = [worker EXCEPT ![w] = s], MailMeasured(s),
             \A x \in Mail!MailJobs : MailSound(job'[x])
      PROVE  MailAttempts'
  BY <1>0, <1>3, <1>w DEF MailAttempts, MailTyped
<1>7. ASSUME NEW w \in EmailWorkers, NEW j \in Mail!MailJobs, Mail!Claim(w, j) PROVE MailAttempts'
  <2>1. \A x \in Mail!MailJobs : MailSound(job'[x])
    BY <1>0, <1>1, <1>7 DEF Mail!Claim, Mail!Claimable, MailAttempts, MailTyped
  <2> DEFINE s == [Mail!AtRest EXCEPT !.pc = "claimed", !.j = j]
  <2>2. MailMeasured(s) /\ worker' = [worker EXCEPT ![w] = s] BY <1>7 DEF MailMeasured, Mail!AtRest, Mail!Claim
  <2> HIDE DEF s
  <2> QED BY <1>w, <2>1, <2>2
<1>8. ASSUME NEW w \in EmailWorkers, NEW present \in BOOLEAN, Mail!GetDeliveryJob(w, present) PROVE MailAttempts'
  <2>1. PICK j \in Mail!MailJobs : j = worker[w].j BY <1>3, <1>8 DEF Mail!GetDeliveryJob
  <2> DEFINE p == IF ~Mail!eligibleJob(j) THEN "cancel" ELSE IF present THEN "defer" ELSE "send"
             s == [pc |-> p, j |-> j, consent |-> j[1] \in mailOn, attempt |-> job[j].attempt]
  <2>2. p = "send" => job[j].attempt <= RetryDelays BY DEF Mail!eligibleJob, MailAttempts, MailSound, Mail!Open
  <2>3. p \notin {"mark", "fail"} OBVIOUS
  <2>4. worker' = [worker EXCEPT ![w] = s] /\ job' = job BY <1>8, <2>1 DEF Mail!GetDeliveryJob
  <2> HIDE DEF p
  <2>5. MailMeasured(s) BY <2>2, <2>3 DEF MailMeasured, MailAttempts, MailSound
  <2> HIDE DEF s
  <2> QED BY <1>w, <2>4, <2>5 DEF MailAttempts
<1>9. ASSUME NEW w \in EmailWorkers, Mail!PutAside(w) PROVE MailAttempts'
  <2>1. worker[w].j \in Mail!MailJobs BY <1>3, <1>9 DEF Mail!PutAside
  <2>2. \A x \in Mail!MailJobs : MailSound(job'[x]) BY <1>0, <1>1, <1>9, <2>1 DEF Mail!PutAside, MailAttempts, MailTyped
  <2> QED BY <1>2, <1>9, <1>w, <2>2 DEF Mail!PutAside, Mail!Rest
<1>10. ASSUME NEW w \in EmailWorkers, Mail!Send(w) PROVE MailAttempts'
  <2>1. PICK p \in {"mark", "fail"} : worker' = [worker EXCEPT ![w] = [worker[w] EXCEPT !.pc = p]]
    BY <1>10 DEF Mail!Send
  <2>2. MailMeasured([worker[w] EXCEPT !.pc = p]) BY <1>3, <1>10 DEF MailMeasured, Mail!Send, MailStation
  <2> QED BY <1>10, <1>w, <2>1, <2>2 DEF Mail!Send, MailAttempts
<1>11. ASSUME NEW w \in EmailWorkers, Mail!RecordOutcome(w) PROVE MailAttempts'
  <2> DEFINE n == worker[w].attempt + 1
  <2>1. worker[w].j \in Mail!MailJobs /\ n \in 0..(RetryDelays + 1)
    BY <1>3, <1>11 DEF Mail!RecordOutcome, MailMeasured, MailStation
  <2>2. MailSound(Mail!MarkFailed(job[worker[w].j], n)) /\ (Mail!WillRetry(n) => MailSound(Mail!RetryJob(job[worker[w].j], n)))
    BY <1>0, <2>1, MailSoundRows DEF MailAttempts, MailTyped, Mail!WillRetry
  <2>3. \/ job' = [job EXCEPT ![worker[w].j] = Mail!MarkSent(job[worker[w].j])]
        \/ Mail!WillRetry(n) /\ job' = [job EXCEPT ![worker[w].j] = Mail!RetryJob(job[worker[w].j], n)]
        \/ job' = [job EXCEPT ![worker[w].j] = Mail!MarkFailed(job[worker[w].j], n)]
    BY <1>11 DEF Mail!RecordOutcome
  <2> HIDE DEF n
  <2>4. \A x \in Mail!MailJobs : MailSound(job'[x]) BY <1>0, <1>1, <2>1, <2>2, <2>3 DEF MailAttempts, MailTyped
  <2> QED BY <1>2, <1>11, <1>w, <2>4 DEF Mail!RecordOutcome, Mail!Rest
<1>12. ASSUME NEW w \in EmailWorkers, Mail!Abandon(w) PROVE MailAttempts'
  BY <1>2, <1>12, <1>w DEF Mail!Abandon, Mail!Rest, MailAttempts
<1>13. ASSUME NEW j \in Mail!MailJobs, Mail!Overtaken(j) \/ Mail!LeaseExpires(j) \/ Mail!FallsDue(j) PROVE MailAttempts'
  <2>1. \/ job' = job
        \/ job' = [job EXCEPT ![j] = [job[j] EXCEPT !.leased = FALSE]]
        \/ job' = [job EXCEPT ![j] = [job[j] EXCEPT !.due = TRUE]]
    BY <1>13 DEF Mail!Overtaken, Mail!LeaseExpires, Mail!FallsDue
  <2>2. \A x \in Mail!MailJobs : MailSound(job'[x]) BY <1>0, <1>1, <2>1 DEF MailAttempts, MailTyped
  <2> QED BY <1>13, <1>j, <2>2 DEF Mail!Overtaken, Mail!LeaseExpires, Mail!FallsDue
<1>14. CASE UNCHANGED Mail!emailJobsVars BY <1>14 DEF Mail!emailJobsVars, MailAttempts
<1> QED BY <1>4, <1>5, <1>6, <1>7, <1>8, <1>9, <1>10, <1>11, <1>12, <1>13, <1>14
        DEF Mail!EmailJobsNext, Mail!WorkerStep

(* Every row, plan and worker keeps its shape; above all no job is tried   *)
(* more often than the delays allow, whatever leases run out.              *)
THEOREM MailTypesCorrect ==
  ASSUME RetryDelays \in Nat, MaxLapses \in Nat
  PROVE  Mail!EmailJobsSpec => []Mail!EmailJobsTypeOK
<1> DEFINE I == JobsInv /\ MailSurroundings /\ MailAttempts
<1>1. Mail!EmailJobsInit => I
  <2>1. Mail!EmailJobsInit => MailSurroundings /\ MailAttempts
    BY DEF Mail!EmailJobsInit, MailSurroundings, MailAttempts, MailSound, MailMeasured, Mail!Unborn, Mail!NoMailJob, Mail!AtRest
  <2> QED BY <2>1, MailInvInit
<1>2. I /\ [Mail!EmailJobsNext]_(Mail!emailJobsVars) => I' BY MailInvStep, MailSurroundingsStep, MailAttemptsStep
<1>3. I => Mail!EmailJobsTypeOK
  <2> SUFFICES ASSUME I PROVE Mail!EmailJobsTypeOK OBVIOUS
  <2>1. MailTyped /\ MailSurroundings /\ MailAttempts BY DEF JobsInv
  <2>2. \A j \in Mail!MailJobs : job[j].attempt \in 0..(RetryDelays + 1)
    BY <2>1 DEF MailAttempts, MailSound, MailTyped, MailRow
  <2>3. \A w \in EmailWorkers : worker[w].attempt \in 0..(RetryDelays + 1)
    BY <2>1 DEF MailAttempts, MailMeasured, MailTyped, MailStation
  <2>4. \A j \in Mail!MailJobs : job[j] \in [status : {"none"} \union Mail!Open \union Mail!Ended, leased : BOOLEAN,
                                        due : BOOLEAN, attempt : 0..(RetryDelays + 1)]
    BY <2>1, <2>2 DEF MailTyped, MailRow
  <2>5. \A w \in EmailWorkers : worker[w] \in
          [pc : {"idle", "claimed", "cancel", "defer", "send", "mark", "fail"},
           j : Mail!MailJobs \union {<<>>}, consent : BOOLEAN, attempt : 0..(RetryDelays + 1)]
    BY <2>1, <2>3 DEF MailTyped, MailStation, MailStations
  <2> QED BY <2>1, <2>4, <2>5 DEF MailTyped, MailSurroundings, Mail!EmailJobsTypeOK
<1> HIDE DEF I
<1> QED BY <1>1, <1>2, <1>3, PTL DEF Mail!EmailJobsSpec

-----------------------------------------------------------------------------
(* Refinement: every step opens jobs, mails, decides or leaves the ledger   *)
(* alone.                                                                  *)
MailVerdict == [j \in Mail!MailJobs |-> IF job[j].status \in Mail!Open THEN "open" ELSE job[j].status]
MailLeft == [j \in Mail!MailJobs |-> mails[j] > 0]

LEMMA MailLedgerSame ==
  ASSUME \A x \in Mail!MailJobs : \/ job'[x].status = job[x].status
                                  \/ job'[x].status \in Mail!Open /\ job[x].status \in Mail!Open
  PROVE  MailVerdict' = MailVerdict
BY DEF MailVerdict

(* One row decided.                                                        *)
LEMMA MailLedgerDecides ==
  ASSUME NEW S \in SUBSET Mail!MailJobs, NEW v \in {"sent", "failed", "cancelled"}, mails' = mails,
         \A x \in S : job[x].status \in Mail!Open /\ job'[x].status = v /\ (v = "sent" => mails[x] > 0),
         \A x \in Mail!MailJobs \ S : job'[x].status = job[x].status
  PROVE  Mail!Ledger!LedgerNext
<1>1. \A x \in S : MailVerdict[x] = "open" /\ (v = "sent" => MailLeft[x]) BY DEF MailVerdict, MailLeft
<1>2. MailVerdict' = [x \in Mail!MailJobs |-> IF x \in S THEN v ELSE MailVerdict[x]] BY DEF MailVerdict, Mail!Open
<1>3. MailLeft' = MailLeft BY DEF MailLeft
<1> QED BY <1>1, <1>2, <1>3 DEF Mail!Ledger!LedgerNext, Mail!Ledger!Decide, MailVerdict, MailLeft

LEMMA MailLedgerOpens ==
  ASSUME NEW S \in SUBSET Mail!MailJobs, mails' = mails,
         \A x \in S : job[x].status = "none" /\ job'[x].status \in Mail!Open,
         \A x \in Mail!MailJobs \ S : job'[x].status = job[x].status
  PROVE  Mail!Ledger!LedgerNext
<1>1. \A x \in S : MailVerdict[x] = "none" BY DEF MailVerdict, Mail!Open
<1>2. MailVerdict' = [x \in Mail!MailJobs |-> IF x \in S THEN "open" ELSE MailVerdict[x]] BY DEF MailVerdict
<1>3. MailLeft' = MailLeft BY DEF MailLeft
<1> QED BY <1>1, <1>2, <1>3 DEF Mail!Ledger!LedgerNext, Mail!Ledger!Open, MailVerdict, MailLeft

LEMMA MailLedgerRefined == JobsInv /\ [Mail!EmailJobsNext]_(Mail!emailJobsVars) => [Mail!Ledger!LedgerNext]_<<MailVerdict, MailLeft>>
<1> SUFFICES ASSUME JobsInv, [Mail!EmailJobsNext]_(Mail!emailJobsVars)
             PROVE  [Mail!Ledger!LedgerNext]_<<MailVerdict, MailLeft>>
  OBVIOUS
<1>0. MailTyped /\ MailHolding BY DEF JobsInv
<1>a. mails' = mails => MailLeft' = MailLeft BY DEF MailLeft
<1>b. ASSUME mails' = mails, \A x \in Mail!MailJobs : MailSame(x) \/ MailCancelled(x)
      PROVE  Mail!Ledger!LedgerNext
  <2> DEFINE S == {x \in Mail!MailJobs : MailCancelled(x)}
  <2>1. S \in SUBSET Mail!MailJobs /\ \A x \in S : MailCancelled(x) OBVIOUS
  <2>2. \A x \in Mail!MailJobs \ S : MailSame(x) BY <1>b
  <2> HIDE DEF S
  <2> DEFINE v == "cancelled"
  <2>3. /\ v \in {"sent", "failed", "cancelled"} /\ v # "sent"
        /\ \A x \in S : job[x].status \in Mail!Open /\ job'[x].status = v
        /\ \A x \in Mail!MailJobs \ S : job'[x].status = job[x].status
    BY <2>1, <2>2 DEF MailSame, MailCancelled
  <2> HIDE DEF v
  <2> QED BY <1>b, <2>1, <2>3, MailLedgerDecides
<1>1. CASE MailRequest
  <2>1. /\ mails' = mails
        /\ \/ \A x \in Mail!MailJobs : MailSame(x) \/ MailInserted(x)
           \/ \A x \in Mail!MailJobs : MailSame(x) \/ MailCancelled(x)
    BY <1>0, <1>1, MailRequestFacts DEF MailQuiet
  <2>2. CASE \A x \in Mail!MailJobs : MailSame(x) \/ MailInserted(x)
    <3> DEFINE S == {x \in Mail!MailJobs : MailInserted(x)}
    <3>1. S \in SUBSET Mail!MailJobs /\ \A x \in S : MailInserted(x) OBVIOUS
    <3>2. \A x \in Mail!MailJobs \ S : MailSame(x) BY <2>2
    <3> HIDE DEF S
    <3>3. /\ \A x \in S : job[x].status = "none" /\ job'[x].status \in Mail!Open
          /\ \A x \in Mail!MailJobs \ S : job'[x].status = job[x].status
      BY <3>1, <3>2 DEF MailSame, MailInserted, Mail!Open
    <3>4. Mail!Ledger!LedgerNext BY <2>1, <3>1, <3>3, MailLedgerOpens
    <3> QED BY <3>4
  <2>3. CASE \A x \in Mail!MailJobs : MailSame(x) \/ MailCancelled(x)
    <3>1. Mail!Ledger!LedgerNext BY <1>b, <2>1, <2>3
    <3> QED BY <3>1
  <2> QED BY <2>1, <2>2, <2>3
<1>2. ASSUME NEW w \in EmailWorkers, NEW j \in Mail!MailJobs, Mail!Claim(w, j)
      PROVE  MailVerdict' = MailVerdict /\ MailLeft' = MailLeft
  <2>1. mails' = mails /\ job[j].status \in Mail!Open BY <1>2 DEF Mail!Claim, Mail!Claimable
  <2>2. job[j] \in MailRow /\ job' = [job EXCEPT ![j] = Mail!ClaimJob(job[j])] BY <1>0, <1>2 DEF MailTyped, Mail!Claim
  <2>3. Mail!ClaimJob(job[j]).status = "sending" BY <2>2, MailStatements
  <2>4. \A x \in Mail!MailJobs : \/ job'[x].status = job[x].status
                                 \/ job'[x].status \in Mail!Open /\ job[x].status \in Mail!Open
    BY <1>0, <2>1, <2>2, <2>3 DEF MailTyped, Mail!Open
  <2> QED BY <1>a, <2>1, <2>4, MailLedgerSame
<1>3. ASSUME NEW w \in EmailWorkers, Mail!Abandon(w) \/ \E present \in BOOLEAN : Mail!GetDeliveryJob(w, present)
      PROVE  MailVerdict' = MailVerdict /\ MailLeft' = MailLeft
  <2>1. job' = job /\ mails' = mails BY <1>3 DEF Mail!GetDeliveryJob, Mail!Abandon
  <2> QED BY <1>a, <2>1 DEF MailVerdict
<1>4. ASSUME NEW w \in EmailWorkers, Mail!Send(w)
      PROVE  Mail!Ledger!LedgerNext \/ (MailVerdict' = MailVerdict /\ MailLeft' = MailLeft)
  <2> DEFINE j == worker[w].j
  <2>1. /\ job' = job /\ j \in Mail!MailJobs /\ worker[w].pc = "send"
        /\ \/ mails' = mails
           \/ mails' = [mails EXCEPT ![j] = IF mails[j] = 2 THEN 2 ELSE mails[j] + 1]
    BY <1>0, <1>4, SendFacts
  <2>2. MailVerdict' = MailVerdict BY <2>1 DEF MailVerdict
  <2>3. CASE mails' = [mails EXCEPT ![j] = IF mails[j] = 2 THEN 2 ELSE mails[j] + 1]
    <3>1. mails[j] \in 0..2 /\ job[j].status # "none" BY <1>0, <2>1 DEF MailTyped, MailHolding
    <3>2. MailLeft' = [MailLeft EXCEPT ![j] = TRUE]
      <4>1. /\ mails'[j] > 0
            /\ \A x \in Mail!MailJobs : x # j => mails'[x] = mails[x]
        BY <1>0, <2>1, <2>3, <3>1 DEF MailTyped
      <4>2. \A x \in Mail!MailJobs : (mails'[x] > 0) = IF x = j THEN TRUE ELSE mails[x] > 0 BY <4>1, Zenon
      <4> QED BY <4>2, Zenon DEF MailLeft
    <3>3. MailVerdict[j] # "none" BY <2>1, <3>1 DEF MailVerdict
    <3> HIDE DEF j
    <3>4. Mail!Ledger!LedgerNext BY <2>1, <2>2, <3>2, <3>3 DEF Mail!Ledger!LedgerNext, Mail!Ledger!Leave, MailVerdict, MailLeft
    <3> QED BY <3>4
  <2>4. CASE mails' = mails BY <1>a, <2>2, <2>4
  <2> QED BY <2>1, <2>3, <2>4
<1>5. ASSUME NEW w \in EmailWorkers, Mail!PutAside(w)
      PROVE  Mail!Ledger!LedgerNext \/ (MailVerdict' = MailVerdict /\ MailLeft' = MailLeft)
  <2> DEFINE j == worker[w].j
  <2>1. /\ mails' = mails /\ j \in Mail!MailJobs
        /\ \A x \in Mail!MailJobs \ {j} : MailSame(x)
        /\ MailSame(j) \/ MailCancelled(j) \/ Deferred(j)
    BY <1>0, <1>5, MailAsideFacts DEF MailQuiet, MailSame
  <2>2. CASE MailSame(j) \/ MailCancelled(j)
    <3>1. \A x \in Mail!MailJobs : MailSame(x) \/ MailCancelled(x) BY <2>1, <2>2
    <3> QED BY <1>b, <2>1, <3>1
  <2>3. CASE Deferred(j)
    <3>1. \A x \in Mail!MailJobs : \/ job'[x].status = job[x].status
                                   \/ job'[x].status \in Mail!Open /\ job[x].status \in Mail!Open
      BY <2>1, <2>3 DEF MailSame, Deferred, Mail!Open
    <3> QED BY <1>a, <2>1, <3>1, MailLedgerSame
  <2> QED BY <2>1, <2>2, <2>3
<1>6. ASSUME NEW w \in EmailWorkers, Mail!RecordOutcome(w)
      PROVE  Mail!Ledger!LedgerNext \/ (MailVerdict' = MailVerdict /\ MailLeft' = MailLeft)
  <2> DEFINE j == worker[w].j
  <2>1. /\ mails' = mails /\ worker[w].pc \in {"mark", "fail"} /\ j \in Mail!MailJobs
        /\ \A x \in Mail!MailJobs \ {j} : job'[x] = job[x]
        /\ job[j].status # "sending" => job'[j] = job[j]
        /\ job[j].status = "sending" =>
             /\ worker[w].pc = "mark" => job'[j].status = "sent"
             /\ worker[w].pc = "fail" => job'[j].status \in {"pending", "failed"}
    BY <1>0, <1>6, MailOutcomeFacts DEF MailQuiet
  <2>2. worker[w].pc = "mark" => mails[j] > 0 BY <1>0 DEF MailHolding
  <2> DEFINE S == {j}
  <2>3. S \in SUBSET Mail!MailJobs /\ (\A x \in S : x = j) /\ \A x \in Mail!MailJobs \ S : x # j BY <2>1
  <2> HIDE DEF S
  <2>4. CASE job[j].status = "sending" /\ worker[w].pc = "mark"
    <3> DEFINE v == "sent"
    <3>1. /\ v \in {"sent", "failed", "cancelled"}
          /\ \A x \in S : job[x].status \in Mail!Open /\ job'[x].status = v /\ mails[x] > 0
          /\ \A x \in Mail!MailJobs \ S : job'[x].status = job[x].status
      BY <2>1, <2>2, <2>3, <2>4 DEF Mail!Open
    <3> HIDE DEF v
    <3> QED BY <2>1, <2>3, <3>1, MailLedgerDecides
  <2>5. CASE job[j].status = "sending" /\ job'[j].status = "failed"
    <3> DEFINE v == "failed"
    <3>1. /\ v \in {"sent", "failed", "cancelled"} /\ v # "sent"
          /\ \A x \in S : job[x].status \in Mail!Open /\ job'[x].status = v
          /\ \A x \in Mail!MailJobs \ S : job'[x].status = job[x].status
      BY <2>1, <2>3, <2>5 DEF Mail!Open
    <3> HIDE DEF v
    <3> QED BY <2>1, <2>3, <3>1, MailLedgerDecides
  <2>6. CASE job[j].status # "sending" \/ job'[j].status = "pending"
    <3>1. \A x \in Mail!MailJobs : \/ job'[x].status = job[x].status
                                   \/ job'[x].status \in Mail!Open /\ job[x].status \in Mail!Open
      BY <2>1, <2>6 DEF Mail!Open
    <3> QED BY <1>a, <2>1, <3>1, MailLedgerSame
  <2> QED BY <2>1, <2>4, <2>5, <2>6
<1>7. ASSUME NEW j \in Mail!MailJobs, Mail!LeaseExpires(j) PROVE MailVerdict' = MailVerdict /\ MailLeft' = MailLeft
  <2>1. mails' = mails BY <1>7 DEF Mail!LeaseExpires
  <2>2. \A x \in Mail!MailJobs : job'[x].status = job[x].status BY <1>0, <1>7 DEF Mail!LeaseExpires, MailTyped, MailRow
  <2> QED BY <1>a, <2>1, <2>2, MailLedgerSame
<1> QED BY <1>1, <1>2, <1>3, <1>4, <1>5, <1>6, <1>7 DEF Mail!EmailJobsNext, Mail!WorkerStep, MailRequest

(* The mail jobs implement the delivery ledger: opened once, ended once,   *)
(* called sent only when a mail has left.                                  *)
THEOREM EmailRefinesLedger == Mail!EmailJobsSpec => Mail!EmailJobsImplementLedger
<1>1. Mail!EmailJobsInit => Mail!Ledger!LedgerInit
  <2> SUFFICES ASSUME Mail!EmailJobsInit PROVE Mail!Ledger!LedgerInit OBVIOUS
  <2>1. \A j \in Mail!MailJobs : job[j].status = "none" /\ mails[j] = 0 BY DEF Mail!EmailJobsInit, Mail!NoMailJob
  <2>2. \A j \in Mail!MailJobs : (mails[j] > 0) = FALSE BY <2>1
  <2>3. MailLeft = [j \in Mail!MailJobs |-> FALSE] BY <2>2, Zenon DEF MailLeft
  <2>4. MailVerdict = [j \in Mail!MailJobs |-> "none"] BY <2>1 DEF MailVerdict, Mail!Open
  <2> QED BY <2>3, <2>4 DEF Mail!Ledger!LedgerInit, MailVerdict, MailLeft
<1>2. JobsInv /\ [Mail!EmailJobsNext]_(Mail!emailJobsVars) => [Mail!Ledger!LedgerNext]_<<MailVerdict, MailLeft>> BY MailLedgerRefined
<1> QED BY <1>1, <1>2, MailInvInit, MailInvStep, PTL DEF Mail!EmailJobsSpec, Mail!EmailJobsImplementLedger,
        Mail!Ledger!LedgerSpec, MailVerdict, MailLeft
-----------------------------------------------------------------------------
(* The address in use.                                                     *)
EmailAddressSpec == Mail!EmailAddressInit /\ [][Mail!EmailAddressNext]_(Mail!addressVars)

Code == [st : {"none", "live", "consumed", "expired"}, attempts : Nat]

(* A code that set the address is spent and its row stays, so that it      *)
(* cannot be stored again; a row counts every wrong code that was entered. *)
AddressInv ==
  /\ challenge \in [Challenges -> Code] /\ wrong \in [Challenges -> Nat]
  /\ confirmed \in [Challenges -> 0..2] /\ mailing \subseteq Challenges
  /\ verify \in [Devices -> [c : Challenges \union {NoChallenge}, right : BOOLEAN]]
  /\ \A c \in Challenges : /\ confirmed[c] <= 1
                           /\ confirmed[c] = 1 => challenge[c].st \notin {"none", "live"}
                           /\ wrong[c] = challenge[c].attempts
                           /\ c \in mailing => challenge[c].st = "none"
                           /\ challenge[c].st = "none" => challenge[c].attempts = 0

(* What a step does to the rows: as many wrong codes, spent ones stay      *)
(* spent, and one not stored yet stays so while its mail is under way.     *)
RowsKept ==
  /\ challenge' \in [Challenges -> Code] /\ wrong' = wrong
  /\ \A c \in Challenges :
       /\ challenge'[c].attempts = challenge[c].attempts
       /\ challenge[c].st \notin {"none", "live"} => challenge'[c].st \notin {"none", "live"}
       /\ c \in mailing' => challenge'[c].st = "none"
       /\ challenge'[c].st = "none" => challenge[c].st = "none"

LEMMA AddressInit == Mail!EmailAddressInit => AddressInv
BY DEF Mail!EmailAddressInit, AddressInv, Code, Mail!NoRow, Mail!NotVerifying

LEMMA StoreKeeps ==
  ASSUME AddressInv, NEW c \in Challenges, Mail!StoreChallenge(c)
  PROVE  RowsKept
<1>1. c \in mailing /\ mailing' = mailing \ {c} /\ wrong' = wrong BY DEF Mail!StoreChallenge
<1>2. challenge[c].st = "none" /\ challenge[c].attempts = 0 BY <1>1 DEF AddressInv
<1>3. CASE UNCHANGED challenge BY <1>1, <1>3 DEF AddressInv, RowsKept
<1>4. CASE challenge' = Mail!InsertChallenge(Mail!ConsumeChallenges(challenge), c)
  <2> DEFINE rows == Mail!ConsumeChallenges(challenge)
  <2>1. ASSUME NEW x \in Challenges
        PROVE  /\ rows[x] \in Code /\ rows[x].attempts = challenge[x].attempts
               /\ rows[x].st = IF challenge[x].st = "live" THEN "consumed" ELSE challenge[x].st
    <3>1. challenge[x] \in Code
          /\ rows[x] = IF challenge[x].st = "live" THEN [challenge[x] EXCEPT !.st = "consumed"]
                       ELSE challenge[x]
      BY <2>1 DEF AddressInv, Mail!ConsumeChallenges
    <3> QED BY <3>1 DEF Code
  <2>2. DOMAIN rows = Challenges /\ rows = [x \in Challenges |-> rows[x]] BY DEF Mail!ConsumeChallenges
  <2>3. challenge' = [rows EXCEPT ![c] = [st |-> "live", attempts |-> 0]]
    <3>1. [Mail!NoRow EXCEPT !.st = "live"] = [st |-> "live", attempts |-> 0] BY DEF Mail!NoRow
    <3>2. challenge' = [rows EXCEPT ![c] = [Mail!NoRow EXCEPT !.st = "live"]]
      BY <1>4, Zenon DEF Mail!InsertChallenge
    <3> HIDE DEF rows
    <3> QED BY <3>1, <3>2
  <2> HIDE DEF rows
  <2>4. [st |-> "live", attempts |-> 0] \in Code BY DEF Code
  <2>5. /\ challenge'[c].st = "live" /\ challenge'[c].attempts = 0
        /\ \A x \in Challenges : x # c => challenge'[x] = rows[x]
    BY <2>2, <2>3
  <2>6. challenge' \in [Challenges -> Code]
    <3>1. rows \in [Challenges -> Code] BY <2>1, <2>2
    <3> DEFINE fresh == [st |-> "live", attempts |-> 0]
    <3>2. fresh \in Code /\ challenge' = [rows EXCEPT ![c] = fresh] BY <2>3, <2>4
    <3> HIDE DEF fresh
    <3> QED BY <3>1, <3>2
  <2> QED BY <1>1, <1>2, <2>1, <2>5, <2>6 DEF AddressInv, RowsKept
<1> QED BY <1>3, <1>4 DEF Mail!StoreChallenge

LEMMA KeptStep ==
  ASSUME AddressInv, RowsKept, confirmed' = confirmed, mailing' \subseteq Challenges,
         verify' \in [Devices -> [c : Challenges \union {NoChallenge}, right : BOOLEAN]]
  PROVE  AddressInv'
BY DEF AddressInv, RowsKept

LEMMA MailAddressStep == AddressInv /\ [Mail!EmailAddressNext]_(Mail!addressVars) => AddressInv'
<1> SUFFICES ASSUME AddressInv, [Mail!EmailAddressNext]_(Mail!addressVars) PROVE AddressInv' OBVIOUS
<1>1. ASSUME NEW c \in Challenges, Mail!CreateEmailChallenge(c) PROVE AddressInv'
  BY <1>1 DEF Mail!CreateEmailChallenge, AddressInv
<1>2. ASSUME NEW c \in Challenges, Mail!StoreChallenge(c) PROVE AddressInv'
  <2>1. RowsKept BY <1>2, StoreKeeps
  <2>2. mailing' \subseteq Challenges /\ confirmed' = confirmed /\ verify' = verify
    BY <1>2 DEF Mail!StoreChallenge, AddressInv
  <2> QED BY <2>1, <2>2, KeptStep DEF AddressInv
<1>3. ASSUME NEW c \in Challenges, Mail!ChallengeExpires(c) PROVE AddressInv'
  <2>0. challenge[c] \in Code BY DEF AddressInv
  <2>1. challenge' = [challenge EXCEPT ![c] = [challenge[c] EXCEPT !.st = "expired"]]
    BY <1>3 DEF Mail!ChallengeExpires
  <2>2. [challenge[c] EXCEPT !.st = "expired"] \in Code BY <2>0 DEF Code
  <2>3. challenge' \in [Challenges -> Code] BY <2>1, <2>2 DEF AddressInv
  <2>4. /\ challenge'[c].st = "expired" /\ challenge'[c].attempts = challenge[c].attempts
        /\ \A x \in Challenges : x # c => challenge'[x] = challenge[x]
    BY <2>0, <2>1 DEF AddressInv, Code
  <2>5. /\ challenge[c].st = "live" /\ wrong' = wrong /\ mailing' = mailing /\ confirmed' = confirmed
        /\ verify' = verify
    BY <1>3 DEF Mail!ChallengeExpires
  <2>6. RowsKept BY <2>3, <2>4, <2>5 DEF RowsKept, AddressInv
  <2> QED BY <2>5, <2>6, KeptStep DEF AddressInv
<1>4. ASSUME NEW d \in Devices, NEW c \in Challenges, NEW right \in BOOLEAN,
             Mail!VerifyEmailChallenge(d, c, right)
      PROVE  AddressInv'
  <2>1. RowsKept /\ confirmed' = confirmed /\ mailing' = mailing
    BY <1>4 DEF Mail!VerifyEmailChallenge, AddressInv, RowsKept
  <2>2. verify' \in [Devices -> [c : Challenges \union {NoChallenge}, right : BOOLEAN]]
    BY <1>4 DEF Mail!VerifyEmailChallenge, AddressInv
  <2> QED BY <2>1, <2>2, KeptStep DEF AddressInv
<1>5. ASSUME NEW d \in Devices, Mail!IncrementChallengeAttempt(d) PROVE AddressInv'
  <2> DEFINE c == verify[d].c
  <2>1. /\ c \in Challenges /\ challenge[c] \in Code /\ mailing' = mailing /\ confirmed' = confirmed
        /\ verify' = [verify EXCEPT ![d] = Mail!NotVerifying]
    BY <1>5 DEF Mail!IncrementChallengeAttempt, AddressInv
  <2>2. verify' \in [Devices -> [c : Challenges \union {NoChallenge}, right : BOOLEAN]]
    BY <2>1 DEF AddressInv, Mail!NotVerifying
  <2>3. CASE UNCHANGED <<challenge, wrong>>
    <3>1. RowsKept BY <2>1, <2>3 DEF AddressInv, RowsKept
    <3> QED BY <2>1, <2>2, <3>1, KeptStep DEF AddressInv
  <2>4. CASE /\ Mail!Usable(challenge[c]) /\ challenge' = [challenge EXCEPT ![c].attempts = @ + 1]
             /\ wrong' = [wrong EXCEPT ![c] = @ + 1]
    <3>1. challenge' = [challenge EXCEPT
                          ![c] = [challenge[c] EXCEPT !.attempts = challenge[c].attempts + 1]]
      BY <2>1, <2>4 DEF AddressInv
    <3>2. [challenge[c] EXCEPT !.attempts = challenge[c].attempts + 1] \in Code BY <2>1 DEF Code
    <3>3. challenge' \in [Challenges -> Code] BY <3>1, <3>2 DEF AddressInv
    <3>4. /\ challenge'[c].st = challenge[c].st /\ challenge'[c].attempts = challenge[c].attempts + 1
          /\ \A x \in Challenges : x # c => challenge'[x] = challenge[x]
      BY <2>1, <3>1 DEF AddressInv, Code
    <3>5. wrong'[c] = wrong[c] + 1 /\ \A x \in Challenges : x # c => wrong'[x] = wrong[x]
      BY <2>1, <2>4 DEF AddressInv
    <3>6. wrong' \in [Challenges -> Nat] BY <2>1, <2>4 DEF AddressInv
    <3>7. challenge[c].st = "live" BY <2>4 DEF Mail!Usable
    <3> HIDE DEF c
    <3> QED BY <2>1, <2>2, <3>3, <3>4, <3>5, <3>6, <3>7 DEF AddressInv
  <2> QED BY <1>5, <2>3, <2>4 DEF Mail!IncrementChallengeAttempt
<1>6. ASSUME NEW d \in Devices, Mail!ConfirmChallenge(d) PROVE AddressInv'
  <2> DEFINE c == verify[d].c
  <2>1. /\ c \in Challenges /\ challenge[c] \in Code /\ mailing' = mailing /\ wrong' = wrong
        /\ verify' = [verify EXCEPT ![d] = Mail!NotVerifying]
    BY <1>6 DEF Mail!ConfirmChallenge, AddressInv
  <2>2. verify' \in [Devices -> [c : Challenges \union {NoChallenge}, right : BOOLEAN]]
    BY <2>1 DEF AddressInv, Mail!NotVerifying
  <2>3. CASE UNCHANGED <<challenge, address, confirmed>>
    <3>1. RowsKept BY <2>1, <2>3 DEF AddressInv, RowsKept
    <3> QED BY <2>1, <2>2, <2>3, <3>1, KeptStep DEF AddressInv
  <2>4. CASE /\ Mail!Usable(challenge[c]) /\ challenge' = [challenge EXCEPT ![c].st = "consumed"]
             /\ confirmed' = [confirmed EXCEPT ![c] = IF @ = 2 THEN 2 ELSE @ + 1]
    <3>1. challenge' = [challenge EXCEPT ![c] = [challenge[c] EXCEPT !.st = "consumed"]]
      BY <2>1, <2>4 DEF AddressInv
    <3>2. [challenge[c] EXCEPT !.st = "consumed"] \in Code BY <2>1 DEF Code
    <3>3. challenge' \in [Challenges -> Code] BY <3>1, <3>2 DEF AddressInv
    <3>4. /\ challenge'[c].st = "consumed" /\ challenge'[c].attempts = challenge[c].attempts
          /\ \A x \in Challenges : x # c => challenge'[x] = challenge[x]
      BY <2>1, <3>1 DEF AddressInv, Code
    <3>5. challenge[c].st = "live" BY <2>4 DEF Mail!Usable
    <3>6. confirmed[c] = 0 BY <2>1, <3>5 DEF AddressInv
    <3>7. /\ confirmed'[c] = 1 /\ \A x \in Challenges : x # c => confirmed'[x] = confirmed[x]
          /\ confirmed' \in [Challenges -> 0..2]
      BY <2>1, <2>4, <3>6 DEF AddressInv
    <3> HIDE DEF c
    <3> QED BY <2>1, <2>2, <3>3, <3>4, <3>5, <3>7 DEF AddressInv
  <2> QED BY <1>6, <2>3, <2>4 DEF Mail!ConfirmChallenge
<1>7. CASE Mail!UseGitHubEmail \/ UNCHANGED Mail!addressVars
  BY <1>7 DEF Mail!UseGitHubEmail, Mail!addressVars, AddressInv
<1> QED BY <1>1, <1>2, <1>3, <1>4, <1>5, <1>6, <1>7 DEF Mail!EmailAddressNext

(* A code sets the address at most once, with any number of devices that   *)
(* enter it and whatever requests come between.                            *)
THEOREM ConfirmedOnceCorrect == EmailAddressSpec => []Mail!ConfirmedOnce
<1>1. AddressInv => Mail!ConfirmedOnce BY DEF AddressInv, Mail!ConfirmedOnce
<1> QED BY <1>1, AddressInit, MailAddressStep, PTL DEF EmailAddressSpec

(* A challenge sets the address only below the limit of wrong codes, also  *)
(* when they are entered side by side: the row counts every one of them.   *)
THEOREM GuessesLimitedCorrect == EmailAddressSpec => Mail!GuessesLimited
<1> DEFINE A == \A c \in Challenges : confirmed'[c] # confirmed[c] => wrong[c] < MaximumCodeAttempts
<1>1. ASSUME AddressInv, [Mail!EmailAddressNext]_(Mail!addressVars) PROVE A
  <2>1. ASSUME NEW d \in Devices, Mail!ConfirmChallenge(d) PROVE A
    <3> DEFINE c == verify[d].c
    <3>1. CASE confirmed' = confirmed BY <3>1
    <3>2. CASE Mail!Usable(challenge[c]) /\ confirmed' = [confirmed EXCEPT ![c] = IF @ = 2 THEN 2 ELSE @ + 1]
      <4>1. \A x \in Challenges : x # c => confirmed'[x] = confirmed[x] BY <1>1, <3>2 DEF AddressInv
      <4>2. c \in Challenges => wrong[c] < MaximumCodeAttempts BY <1>1, <3>2 DEF AddressInv, Mail!Usable
      <4> QED BY <4>1, <4>2
    <3> QED BY <2>1, <3>1, <3>2 DEF Mail!ConfirmChallenge
  <2>2. (\E d \in Devices : Mail!ConfirmChallenge(d)) \/ confirmed' = confirmed
    BY <1>1 DEF Mail!EmailAddressNext, Mail!addressVars, Mail!CreateEmailChallenge, Mail!StoreChallenge, Mail!ChallengeExpires,
      Mail!VerifyEmailChallenge, Mail!IncrementChallengeAttempt, Mail!UseGitHubEmail
  <2> QED BY <2>1, <2>2
<1>2. AddressInv /\ [Mail!EmailAddressNext]_(Mail!addressVars) => [A]_(Mail!addressVars) BY <1>1
<1> QED BY <1>2, AddressInit, MailAddressStep, PTL DEF EmailAddressSpec, Mail!GuessesLimited

(* The rows of challenges keep their shape; above all none counts more     *)
(* wrong codes than the limit, also when codes are entered side by side.   *)
THEOREM AddressTypesCorrect ==
  ASSUME MaximumCodeAttempts \in Nat
  PROVE  EmailAddressSpec => []Mail!EmailAddressTypeOK
<1> DEFINE Limit == /\ address \in Challenges \union {GitHub}
                    /\ \A c \in Challenges : challenge[c].attempts <= MaximumCodeAttempts
           I == AddressInv /\ Limit
<1>1. Mail!EmailAddressInit => I
  <2>1. Mail!EmailAddressInit => Limit BY DEF Mail!EmailAddressInit, Mail!NoRow
  <2> QED BY <2>1, AddressInit
<1>2. ASSUME I, [Mail!EmailAddressNext]_(Mail!addressVars) PROVE I'
  <2>1. ASSUME NEW c \in Challenges, Mail!StoreChallenge(c) PROVE Limit'
    BY <1>2, <2>1, StoreKeeps DEF RowsKept, Mail!StoreChallenge
  <2>2. ASSUME NEW d \in Devices, Mail!IncrementChallengeAttempt(d) PROVE Limit'
    <3> DEFINE c == verify[d].c
    <3>1. CASE UNCHANGED challenge BY <1>2, <2>2, <3>1 DEF Mail!IncrementChallengeAttempt
    <3>2. CASE Mail!Usable(challenge[c]) /\ challenge' = [challenge EXCEPT ![c].attempts = @ + 1]
      <4>1. c \in Challenges /\ challenge[c] \in Code
        BY <1>2, <2>2 DEF Mail!IncrementChallengeAttempt, AddressInv
      <4>2. /\ challenge'[c].attempts = challenge[c].attempts + 1
            /\ \A x \in Challenges : x # c => challenge'[x] = challenge[x]
        BY <1>2, <3>2, <4>1 DEF AddressInv, Code
      <4>3. challenge[c].attempts + 1 <= MaximumCodeAttempts BY <3>2, <4>1 DEF Mail!Usable, Code
      <4> QED BY <1>2, <2>2, <4>2, <4>3 DEF Mail!IncrementChallengeAttempt
    <3> QED BY <2>2, <3>1, <3>2 DEF Mail!IncrementChallengeAttempt
  <2>3. ASSUME NEW d \in Devices, Mail!ConfirmChallenge(d) PROVE Limit'
    <3> DEFINE c == verify[d].c
    <3>1. CASE UNCHANGED <<challenge, address>> BY <1>2, <3>1
    <3>2. CASE challenge' = [challenge EXCEPT ![c].st = "consumed"] /\ address' = c
      <4>1. c \in Challenges BY <1>2, <2>3 DEF Mail!ConfirmChallenge, AddressInv
      <4>2. \A x \in Challenges : challenge'[x].attempts = challenge[x].attempts
        BY <1>2, <3>2, <4>1 DEF AddressInv, Code
      <4> QED BY <1>2, <3>2, <4>1, <4>2
    <3> QED BY <2>3, <3>1, <3>2 DEF Mail!ConfirmChallenge
  <2>4. ASSUME NEW c \in Challenges, Mail!ChallengeExpires(c) PROVE Limit'
    <3>1. \A x \in Challenges : challenge'[x].attempts = challenge[x].attempts
      BY <1>2, <2>4 DEF Mail!ChallengeExpires, AddressInv, Code
    <3> QED BY <1>2, <2>4, <3>1 DEF Mail!ChallengeExpires
  <2>5. ASSUME Mail!UseGitHubEmail PROVE Limit' BY <1>2, <2>5 DEF Mail!UseGitHubEmail
  <2>6. ASSUME UNCHANGED <<challenge, address>> PROVE Limit' BY <1>2, <2>6
  <2>7. Limit'
    BY <1>2, <2>1, <2>2, <2>3, <2>4, <2>5, <2>6
       DEF Mail!EmailAddressNext, Mail!CreateEmailChallenge, Mail!VerifyEmailChallenge, Mail!addressVars
  <2>8. AddressInv' BY <1>2, MailAddressStep
  <2> QED BY <2>7, <2>8
<1>3. I => Mail!EmailAddressTypeOK
  <2> SUFFICES ASSUME I PROVE Mail!EmailAddressTypeOK OBVIOUS
  <2>1. \A c \in Challenges : challenge[c] \in [st : {"none", "live", "consumed", "expired"},
                                                attempts : 0..MaximumCodeAttempts]
    BY DEF AddressInv, Code
  <2> QED BY <2>1 DEF AddressInv, Mail!EmailAddressTypeOK
<1> HIDE DEF I
<1> QED BY <1>1, <1>2, <1>3, PTL DEF EmailAddressSpec
-----------------------------------------------------------------------------
(***************************************************************************)
(* The SMTP client. A connection that is open is the dial's that just      *)
(* returned, or the tracker has it and can still close it; a password is   *)
(* only asked for where TLS is certain.                                    *)
(***************************************************************************)
SMTPSpec == SMTPInit /\ [][SMTPNext]_smtpVars

Tracked == /\ socket = "open" => pc = "track" \/ (tracker.conn /\ ~tracker.closed)
           /\ pc \in {"begin", "dial"} => socket = "none" /\ ~tracker.conn
           /\ pc = "track" => socket = "open" /\ ~tracker.conn
Watched == /\ pc = "begin" => watcher = "none"
           /\ pc \in {"close", "done"} => watcher # "watching"
Secured == /\ pc \notin {"begin", "done"} => ~(config.encryption = "none" /\ config.username)
           /\ pc = "auth" => config.username /\ TLSMandatory
           /\ ~clear
Accepted == /\ pc = "quit" /\ ~sendErr => server.accepted
            /\ result = "sent" => server.accepted
            /\ result = "sent" => pc \in {"leave", "wait", "close", "done"}
SMTPInv == SMTPTypeOK /\ Tracked /\ Watched /\ Secured /\ Accepted /\ NothingLeftOpen

(* Every step of Send, its watcher, the context or the server keeps it.    *)
LEMMA SMTPStepInv == SMTPInv /\ [SMTPNext]_smtpVars => SMTPInv'
<1> SUFFICES ASSUME SMTPInv, [SMTPNext]_smtpVars PROVE SMTPInv' OBVIOUS
<1>0. SMTPTypeOK /\ Tracked /\ Watched /\ Secured /\ Accepted /\ NothingLeftOpen BY DEF SMTPInv
<1>1. CASE MailerStep
  <2> USE DEF Send, dialContext, Track, HandshakeContext, Hello, Authenticate, SendMessage,
              ClientClose, StopWatcher, WaitWatcher, Return, set, Leave, Answer, operationExpired, CloseTracker
  <2>1. ASSUME Send \/ dialContext PROVE SMTPInv'
    <3>1. SMTPTypeOK' BY <1>0, <2>1 DEF SMTPTypeOK, Steps
    <3>2. Tracked' BY <1>0, <2>1 DEF SMTPTypeOK, Tracked
    <3>3. Watched' BY <1>0, <2>1 DEF SMTPTypeOK, Watched
    <3>4. Secured' BY <1>0, <2>1, SMTPAssumption DEF SMTPTypeOK, Secured, TLSMandatory, Encrypted
    <3>5. Accepted' BY <1>0, <2>1 DEF SMTPTypeOK, Accepted, SendFailed
    <3>6. NothingLeftOpen' BY <1>0, <2>1 DEF SMTPTypeOK, NothingLeftOpen, Tracked, Watched
    <3> QED BY <3>1, <3>2, <3>3, <3>4, <3>5, <3>6 DEF SMTPInv
  <2>2. ASSUME Track \/ HandshakeContext PROVE SMTPInv'
    <3>1. SMTPTypeOK' BY <1>0, <2>2 DEF SMTPTypeOK, Steps
    <3>2. Tracked' BY <1>0, <2>2 DEF SMTPTypeOK, Tracked
    <3>3. Watched' BY <1>0, <2>2 DEF SMTPTypeOK, Watched
    <3>4. Secured' BY <1>0, <2>2, SMTPAssumption DEF SMTPTypeOK, Secured, TLSMandatory, Encrypted
    <3>5. Accepted' BY <1>0, <2>2 DEF SMTPTypeOK, Accepted, SendFailed
    <3>6. NothingLeftOpen' BY <1>0, <2>2 DEF SMTPTypeOK, NothingLeftOpen, Tracked, Watched
    <3> QED BY <3>1, <3>2, <3>3, <3>4, <3>5, <3>6 DEF SMTPInv
  <2>3. ASSUME Hello \/ Authenticate PROVE SMTPInv'
    <3>1. SMTPTypeOK' BY <1>0, <2>3 DEF SMTPTypeOK, Steps
    <3>2. Tracked' BY <1>0, <2>3 DEF SMTPTypeOK, Tracked
    <3>3. Watched' BY <1>0, <2>3 DEF SMTPTypeOK, Watched
    <3>4. Secured' BY <1>0, <2>3, SMTPAssumption DEF SMTPTypeOK, Secured, TLSMandatory, Encrypted
    <3>5. Accepted' BY <1>0, <2>3 DEF SMTPTypeOK, Accepted, SendFailed
    <3>6. NothingLeftOpen' BY <1>0, <2>3 DEF SMTPTypeOK, NothingLeftOpen, Tracked, Watched
    <3> QED BY <3>1, <3>2, <3>3, <3>4, <3>5, <3>6 DEF SMTPInv
  <2>4. ASSUME SendMessage \/ ClientClose PROVE SMTPInv'
    <3>1. SMTPTypeOK' BY <1>0, <2>4 DEF SMTPTypeOK, Steps
    <3>2. Tracked' BY <1>0, <2>4 DEF SMTPTypeOK, Tracked
    <3>3. Watched' BY <1>0, <2>4 DEF SMTPTypeOK, Watched
    <3>4. Secured' BY <1>0, <2>4, SMTPAssumption DEF SMTPTypeOK, Secured, TLSMandatory, Encrypted
    <3>5. Accepted' BY <1>0, <2>4 DEF SMTPTypeOK, Accepted, SendFailed
    <3>6. NothingLeftOpen' BY <1>0, <2>4 DEF SMTPTypeOK, NothingLeftOpen, Tracked, Watched
    <3> QED BY <3>1, <3>2, <3>3, <3>4, <3>5, <3>6 DEF SMTPInv
  <2>5. ASSUME StopWatcher \/ WaitWatcher \/ Return PROVE SMTPInv'
    <3>1. SMTPTypeOK' BY <1>0, <2>5 DEF SMTPTypeOK, Steps
    <3>2. Tracked' BY <1>0, <2>5 DEF SMTPTypeOK, Tracked
    <3>3. Watched' BY <1>0, <2>5 DEF SMTPTypeOK, Watched
    <3>4. Secured' BY <1>0, <2>5, SMTPAssumption DEF SMTPTypeOK, Secured, TLSMandatory, Encrypted
    <3>5. Accepted' BY <1>0, <2>5 DEF SMTPTypeOK, Accepted, SendFailed
    <3>6. NothingLeftOpen' BY <1>0, <2>5 DEF SMTPTypeOK, NothingLeftOpen, Tracked, Watched
    <3> QED BY <3>1, <3>2, <3>3, <3>4, <3>5, <3>6 DEF SMTPInv
  <2> QED BY ONLY <1>1, <2>1, <2>2, <2>3, <2>4, <2>5 DEF MailerStep
<1>2. CASE Watch
  <2> USE <1>2 DEF Watch, OnEitherSignal, CloseTracker
  <2>1. SMTPTypeOK' BY <1>0 DEF SMTPTypeOK
  <2>2. Tracked' BY <1>0 DEF SMTPTypeOK, Tracked
  <2>3. Watched' BY <1>0 DEF Watched
  <2>4. Secured' BY <1>0 DEF Secured, TLSMandatory
  <2>5. Accepted' BY <1>0 DEF Accepted
  <2>6. NothingLeftOpen' BY <1>0 DEF NothingLeftOpen
  <2> QED BY <2>1, <2>2, <2>3, <2>4, <2>5, <2>6 DEF SMTPInv
<1>3. CASE ContextEnds \/ FallSilent \/ UNCHANGED smtpVars
  <2> USE <1>3 DEF ContextEnds, FallSilent, smtpVars
  <2>1. SMTPTypeOK' BY <1>0 DEF SMTPTypeOK
  <2>2. Tracked' BY <1>0 DEF Tracked
  <2>3. Watched' BY <1>0 DEF Watched
  <2>4. Secured' BY <1>0 DEF SMTPTypeOK, Secured, TLSMandatory
  <2>5. Accepted' BY <1>0 DEF SMTPTypeOK, Accepted
  <2>6. NothingLeftOpen' BY <1>0 DEF NothingLeftOpen
  <2> QED BY <2>1, <2>2, <2>3, <2>4, <2>5, <2>6 DEF SMTPInv
<1> QED BY <1>1, <1>2, <1>3 DEF SMTPNext

(* Send leaves nothing open, sends no password in clear text and claims no *)
(* mail the server did not accept, whatever the order of cancel, deadline, *)
(* watcher and answers.                                                    *)
THEOREM SMTPCorrect ==
  SMTPSpec => [](SMTPTypeOK /\ NothingLeftOpen /\ PasswordProtected /\ SentWasAccepted)
<1>1. ASSUME SMTPInit PROVE SMTPInv
  <2> USE <1>1 DEF SMTPInit
  <2>1. SMTPTypeOK BY DEF SMTPTypeOK, Steps
  <2>2. Tracked /\ Watched /\ NothingLeftOpen BY DEF Tracked, Watched, NothingLeftOpen
  <2>3. Secured BY DEF Secured
  <2>4. Accepted BY DEF Accepted
  <2> QED BY <2>1, <2>2, <2>3, <2>4 DEF SMTPInv
<1>2. SMTPInv => SMTPTypeOK /\ NothingLeftOpen /\ PasswordProtected /\ SentWasAccepted
  BY DEF SMTPInv, Secured, Accepted, PasswordProtected, SentWasAccepted
<1> QED BY <1>1, <1>2, SMTPStepInv, PTL DEF SMTPSpec

-----------------------------------------------------------------------------
(***************************************************************************)
(* Digests, for any readers, messages, workers and lapses.                 *)
(***************************************************************************)
DigestSpec == DigestInit /\ [][DigestNext]_digestVars

Row == [row : BOOLEAN, started : Nat, notified : BOOLEAN, leased : BOOLEAN, due : BOOLEAN]
Station == [pc : {"idle", "listed", "drop", "claim", "recheck", "send", "mark", "fail"},
            u : Readers \union {Nobody}, read : Row]
Typed ==
  /\ digest \in [Readers -> Row] /\ digester \in [DigestWorkers -> Station]
  /\ mailed \in [Readers -> 0..2] /\ sent \in Nat
  /\ \A w \in DigestWorkers : digester[w].pc # "idle" => digester[w].u \in Readers

(* A message's transaction starts rows only where there is none, and only  *)
(* a row is notified.                                                      *)
Rows == \A u \in Readers : /\ u \in open.start => ~digest[u].row
                           /\ digest[u].notified => digest[u].row

(* What a worker holds after it claimed the row.                           *)
Claims(w, u) == digester[w].u = u /\ digester[w].pc \in {"recheck", "send", "mark", "fail"}

(* Unless it was lost, a row that is claimed is leased, not yet notified   *)
(* and claimed by one worker alone; one that was mailed is notified or     *)
(* about to be.                                                            *)
Lease ==
  \A u \in Readers \ digestLapsed : digest[u].row =>
    /\ \A w \in DigestWorkers : Claims(w, u) =>
         /\ digest[u].leased /\ ~digest[u].notified
         /\ \A v \in DigestWorkers : Claims(v, u) => v = w
    /\ mailed[u] > 0 => /\ mailed[u] = 1
                        /\ \/ digest[u].notified
                           \/ \E w \in DigestWorkers : digester[w].u = u /\ digester[w].pc = "mark"

DigestInv == Typed /\ Rows /\ Lease

LEMMA DigestInitially == DigestInit => DigestInv
BY DEF DigestInit, DigestInv, Typed, Rows, Lease, Claims, Row, Station, NoDigest, NoTx, AtRest

(* What a step does to the rows it does not send for: it keeps or ends     *)
(* each, and lets go of what it does not keep.                             *)
Kept(u) == /\ digest'[u].row = digest[u].row /\ digest'[u].notified = digest[u].notified
           /\ digest'[u].leased = digest[u].leased
Gone(u) == ~digest'[u].row /\ ~digest'[u].notified

LEMMA TypedRows ==
  /\ NoDigest \in Row /\ AtRest \in Station
  /\ \A m \in Nat : InsertDigestState(m) \in Row
  /\ \A r \in Row : MarkDigestSent(r) \in Row /\ RetryDigestState(r) \in Row
BY DEF NoDigest, AtRest, Row, Station, InsertDigestState, MarkDigestSent, RetryDigestState

(* Requests and clocks: the workers stay where they are.                   *)
LEMMA RequestStep ==
  ASSUME DigestInv, digest' \in [Readers -> Row], digester' = digester, mailed' = mailed, sent' = sent,
         digestLapsed' = digestLapsed, \A u \in Readers : u \in open'.start => ~digest'[u].row,
         \A u \in Readers : Kept(u) \/ Gone(u)
  PROVE  DigestInv'
<1>1. Typed' BY DEF DigestInv, Typed
<1>2. Rows' BY DEF DigestInv, Rows, Kept, Gone
<1>3. Lease' BY DEF DigestInv, Lease, Kept, Gone, Claims
<1> QED BY <1>1, <1>2, <1>3 DEF DigestInv

LEMMA CommitStep == DigestInv /\ CommitMessage => DigestInv'
<1> SUFFICES ASSUME DigestInv, CommitMessage PROVE DigestInv' OBVIOUS
<1> USE DEF DigestInv
<1>0. sent + 1 \in Nat /\ InsertDigestState(sent + 1) \in Row BY TypedRows DEF Typed
<1>1. /\ sent' = sent + 1 /\ digester' = digester /\ open'.start = {}
      /\ digestLapsed' = (digestLapsed \ open.start) \union {u \in open.start : Held(u)}
      /\ digest' = [u \in Readers |-> IF u \in open.start THEN InsertDigestState(sent + 1) ELSE digest[u]]
      /\ mailed' = [u \in Readers |-> IF u \in open.start THEN 0 ELSE mailed[u]]
  BY DEF CommitMessage, NoTx
<1>2. InsertDigestState(sent + 1).row /\ ~InsertDigestState(sent + 1).notified
  BY DEF InsertDigestState, NoDigest
<1>3. Typed' BY <1>0, <1>1 DEF Typed
<1>4. Rows' BY <1>1, <1>2 DEF Rows
<1>5. Lease'
  <2> SUFFICES ASSUME NEW u \in Readers, u \notin digestLapsed', digest'[u].row
               PROVE  /\ \A w \in DigestWorkers : Claims(w, u)' =>
                           /\ digest'[u].leased /\ ~digest'[u].notified
                           /\ \A v \in DigestWorkers : Claims(v, u)' => v = w
                      /\ mailed'[u] > 0 =>
                           /\ mailed'[u] = 1
                           /\ \/ digest'[u].notified
                              \/ \E w \in DigestWorkers : digester'[w].u = u /\ digester'[w].pc = "mark"
    BY DEF Lease
  <2>1. CASE u \in open.start
    <3>1. \A w \in DigestWorkers : digester[w].u # u BY <1>1, <2>1 DEF Held
    <3>2. mailed'[u] = 0 BY <1>1, <2>1
    <3> QED BY <1>1, <3>1, <3>2 DEF Claims
  <2>2. CASE u \notin open.start
    <3>1. u \notin digestLapsed /\ digest'[u] = digest[u] /\ mailed'[u] = mailed[u] BY <1>1, <2>2
    <3> QED BY <1>1, <3>1 DEF Lease, Claims
  <2> QED BY <2>1, <2>2
<1> QED BY <1>3, <1>4, <1>5

(* A worker moves on without sending: it gains no claim, and gives one up  *)
(* only before it mailed, or as a lapse.                                   *)
LEMMA MoveStep ==
  ASSUME DigestInv, NEW w \in DigestWorkers, sent' = sent, open' = open, mailed' = mailed,
         digestLapsed \subseteq digestLapsed', digest' \in [Readers -> Row], digester' \in [DigestWorkers -> Station],
         digester'[w].pc # "idle" => digester'[w].u \in Readers,
         \A v \in DigestWorkers \ {w} : digester'[v] = digester[v],
         \A u \in Readers : Kept(u) \/ Gone(u),
         \A u \in Readers : Claims(w, u)' => Claims(w, u),
         digester[w].pc = "mark" => digester[w].u \in digestLapsed'
  PROVE  DigestInv'
<1> USE DEF DigestInv
<1>1. Typed' BY DEF Typed
<1>2. Rows' BY DEF Rows, Kept, Gone
<1>3. Lease'
  <2> SUFFICES ASSUME NEW u \in Readers, u \notin digestLapsed', digest'[u].row
               PROVE  /\ \A v \in DigestWorkers : Claims(v, u)' =>
                           /\ digest'[u].leased /\ ~digest'[u].notified
                           /\ \A x \in DigestWorkers : Claims(x, u)' => x = v
                      /\ mailed'[u] > 0 =>
                           /\ mailed'[u] = 1
                           /\ \/ digest'[u].notified
                              \/ \E v \in DigestWorkers : digester'[v].u = u /\ digester'[v].pc = "mark"
    BY DEF Lease
  <2>1. u \notin digestLapsed /\ Kept(u) /\ digest[u].row BY DEF Kept, Gone
  <2>2. \A v \in DigestWorkers : Claims(v, u)' => Claims(v, u) BY DEF Claims
  <2>3. \A v \in DigestWorkers : Claims(v, u)' => /\ digest'[u].leased /\ ~digest'[u].notified
                                                  /\ \A x \in DigestWorkers : Claims(x, u)' => x = v
    BY <2>1, <2>2 DEF Lease, Kept
  <2>4. ASSUME mailed'[u] > 0
        PROVE  /\ mailed'[u] = 1
               /\ \/ digest'[u].notified
                  \/ \E v \in DigestWorkers : digester'[v].u = u /\ digester'[v].pc = "mark"
    <3>1. /\ mailed[u] = 1
          /\ digest[u].notified \/ \E v \in DigestWorkers : digester[v].u = u /\ digester[v].pc = "mark"
      BY <2>1, <2>4 DEF Lease
    <3> QED BY <2>1, <3>1 DEF Kept
  <2> QED BY <2>3, <2>4
<1> QED BY <1>1, <1>2, <1>3

LEMMA ClaimStep ==
  ASSUME DigestInv, NEW w \in DigestWorkers, ClaimDigestState(w)
  PROVE  DigestInv'
<1> USE DEF DigestInv
<1>u. PICK u \in Readers : u = digester[w].u BY DEF ClaimDigestState, Typed
<1>0. /\ digester[w].pc = "claim" /\ u \in Readers /\ digester[w] \in Station /\ digest[u] \in Row
      /\ sent' = sent /\ open' = open /\ mailed' = mailed /\ digestLapsed' = digestLapsed
  BY <1>u DEF ClaimDigestState, Steady, world, Typed
<1>1. CASE Rest(w) /\ UNCHANGED digest
  <2>1. /\ digester' \in [DigestWorkers -> Station] /\ digester'[w].pc = "idle"
        /\ \A v \in DigestWorkers \ {w} : digester'[v] = digester[v]
    <3>1. AtRest.pc = "idle" BY DEF AtRest
    <3> QED BY <1>1, <3>1, TypedRows DEF Rest, Typed
  <2>2. \A x \in Readers : Kept(x) /\ (Claims(w, x)' => Claims(w, x)) BY <1>1, <2>1 DEF Kept, Claims
  <2> QED BY <1>0, <1>1, <2>1, <2>2, MoveStep DEF Typed
<1>2. CASE /\ ClaimableDigest(digest[u]) /\ digest' = [digest EXCEPT ![u].leased = TRUE]
           /\ Go(w, "recheck")
  <2>1. /\ [digester[w] EXCEPT !.pc = "recheck"] \in Station /\ [digest[u] EXCEPT !.leased = TRUE] \in Row
    BY <1>0 DEF Station, Row
  <2>2. /\ digester' = [digester EXCEPT ![w] = [digester[w] EXCEPT !.pc = "recheck"]]
        /\ digest' = [digest EXCEPT ![u] = [digest[u] EXCEPT !.leased = TRUE]]
    BY <1>2 DEF Go
  <2>3. digest' \in [Readers -> Row] /\ digester' \in [DigestWorkers -> Station] BY <2>1, <2>2 DEF Typed
  <2>4. /\ digester'[w].pc = "recheck" /\ digester'[w].u = u
        /\ \A v \in DigestWorkers \ {w} : digester'[v] = digester[v]
    BY <1>0, <1>u, <2>2 DEF Typed, Station
  <2>5. /\ digest'[u].row = digest[u].row /\ digest'[u].notified = digest[u].notified /\ digest'[u].leased
        /\ \A x \in Readers \ {u} : digest'[x] = digest[x]
    BY <1>0, <2>2 DEF Typed, Row
  <2>6. digest[u].row /\ ~digest[u].notified /\ ~digest[u].leased BY <1>2 DEF ClaimableDigest
  <2>7. Typed' BY <1>0, <2>3, <2>4 DEF Typed
  <2>8. Rows' BY <1>0, <2>5 DEF Rows
  <2>9. \A v \in DigestWorkers, x \in Readers : x # u => (Claims(v, x)' <=> Claims(v, x))
    BY <1>0, <1>u, <2>4 DEF Claims
  <2>10. u \notin digestLapsed => \A v \in DigestWorkers : ~Claims(v, u) BY <1>0, <2>6 DEF Lease
  <2>11. u \notin digestLapsed => \A v \in DigestWorkers : Claims(v, u)' => v = w
    BY <2>4, <2>10 DEF Claims
  <2>12. \A v \in DigestWorkers : digester[v].pc = "mark" => digester'[v] = digester[v]
    BY <1>0, <2>4
  <2>13. Lease'
    <3> SUFFICES ASSUME NEW x \in Readers, x \notin digestLapsed', digest'[x].row
                 PROVE  /\ \A v \in DigestWorkers : Claims(v, x)' =>
                             /\ digest'[x].leased /\ ~digest'[x].notified
                             /\ \A y \in DigestWorkers : Claims(y, x)' => y = v
                        /\ mailed'[x] > 0 =>
                             /\ mailed'[x] = 1
                             /\ \/ digest'[x].notified
                                \/ \E v \in DigestWorkers : digester'[v].u = x /\ digester'[v].pc = "mark"
      BY DEF Lease
    <3>1. CASE x = u
      <4>1. mailed[u] > 0 => mailed[u] = 1
                                 /\ \E v \in DigestWorkers : digester[v].u = u /\ digester[v].pc = "mark"
        BY <1>0, <2>6, <3>1 DEF Lease
      <4> QED BY <1>0, <2>5, <2>6, <2>11, <2>12, <3>1, <4>1
    <3>2. CASE x # u
      <4>1. digest'[x] = digest[x] BY <2>5, <3>2
      <4>2. \A v \in DigestWorkers : digester[v].u = x /\ digester[v].pc = "mark" => digester'[v] = digester[v]
        BY <2>12
      <4> QED BY <1>0, <2>9, <3>2, <4>1, <4>2 DEF Lease
    <3> QED BY <3>1, <3>2
  <2> QED BY <2>7, <2>8, <2>13
<1> QED BY <1>u, <1>1, <1>2 DEF ClaimDigestState

(* The claim makes the sender the only one: it has not mailed before.      *)
LEMMA SendStep ==
  ASSUME DigestInv, NEW w \in DigestWorkers, SendDigest(w)
  PROVE  DigestInv'
<1> USE DEF DigestInv
<1>u. PICK u \in Readers : u = digester[w].u BY DEF SendDigest, Typed
<1>0. /\ digester[w].pc = "send" /\ digester[w] \in Station /\ mailed[u] \in 0..2
      /\ sent' = sent /\ open' = open /\ digest' = digest /\ digestLapsed' = digestLapsed
  BY DEF SendDigest, world, Typed
<1>1. PICK s \in {"mark", "fail"} : digester' = [digester EXCEPT ![w] = [digester[w] EXCEPT !.pc = s]]
  BY DEF SendDigest, Go
<1>2. digester' \in [DigestWorkers -> Station]
  <2>1. [digester[w] EXCEPT !.pc = s] \in Station BY <1>0 DEF Station
  <2> QED BY <1>1, <2>1 DEF Typed
<1>3. /\ digester'[w].pc = s /\ digester'[w].u = u /\ \A v \in DigestWorkers \ {w} : digester'[v] = digester[v]
  BY <1>0, <1>1, <1>u DEF Typed, Station
<1>4. /\ mailed' = mailed \/ (s = "mark" /\ mailed' = [mailed EXCEPT ![u] = IF mailed[u] = 2 THEN 2
                                                                           ELSE mailed[u] + 1])
  <2>1. CASE Go(w, "mark")
    <3>1. digester'[w].pc = "mark" BY <1>0, <2>1 DEF Go, Typed, Station
    <3>2. s = "mark" BY <1>3, <3>1
    <3> QED BY <1>u, <3>2 DEF SendDigest
  <2>2. CASE ~Go(w, "mark") BY <2>2 DEF SendDigest
  <2> QED BY <2>1, <2>2
<1>5. \A v \in DigestWorkers, x \in Readers : Claims(v, x)' <=> Claims(v, x)
  BY <1>0, <1>1, <1>3, <1>u DEF Claims
<1>6. ASSUME u \notin digestLapsed, digest[u].row PROVE mailed[u] = 0
  <2>1. Claims(w, u) BY <1>0, <1>u DEF Claims
  <2>2. \A v \in DigestWorkers : digester[v].u = u /\ digester[v].pc = "mark" => v = w
    BY <1>6, <2>1 DEF Lease, Claims
  <2>3. ~(mailed[u] > 0) BY <1>0, <1>6, <2>1, <2>2 DEF Lease
  <2> QED BY <1>0, <2>3
<1>7. Typed'
  <2>1. mailed' \in [Readers -> 0..2] BY <1>0, <1>4 DEF Typed
  <2> QED BY <1>0, <1>2, <1>3, <2>1 DEF Typed
<1>8. Rows' BY <1>0 DEF Rows
<1>9. Lease'
  <2> SUFFICES ASSUME NEW x \in Readers, x \notin digestLapsed', digest'[x].row
               PROVE  /\ \A v \in DigestWorkers : Claims(v, x)' =>
                           /\ digest'[x].leased /\ ~digest'[x].notified
                           /\ \A y \in DigestWorkers : Claims(y, x)' => y = v
                      /\ mailed'[x] > 0 =>
                           /\ mailed'[x] = 1
                           /\ \/ digest'[x].notified
                              \/ \E v \in DigestWorkers : digester'[v].u = x /\ digester'[v].pc = "mark"
    BY DEF Lease
  <2>1. \A v \in DigestWorkers : Claims(v, x)' =>
          /\ digest'[x].leased /\ ~digest'[x].notified
          /\ \A y \in DigestWorkers : Claims(y, x)' => y = v
    BY <1>0, <1>5 DEF Lease
  <2>2. CASE x = u
    <3>1. mailed[u] = 0 BY <1>0, <1>6, <2>2
    <3>2. mailed'[u] > 0 => mailed'[u] = 1 /\ s = "mark" BY <1>4, <3>1 DEF Typed
    <3> QED BY <1>3, <2>1, <2>2, <3>2
  <2>3. CASE x # u
    <3>1. mailed'[x] = mailed[x] BY <1>4, <2>3 DEF Typed
    <3>2. \A v \in DigestWorkers : digester[v].u = x => digester'[v] = digester[v] BY <1>3, <1>u, <2>3
    <3> QED BY <1>0, <2>1, <3>1, <3>2 DEF Lease
  <2> QED BY <2>2, <2>3
<1> QED BY <1>7, <1>8, <1>9

(* The outcome of the one claim of a row.                                  *)
LEMMA RecordStep ==
  ASSUME DigestInv, NEW w \in DigestWorkers, RecordDigest(w)
  PROVE  DigestInv'
<1> USE DEF DigestInv
<1>u. PICK u \in Readers : u = digester[w].u BY DEF RecordDigest, Typed
<1>0. /\ digester[w].pc \in {"mark", "fail"} /\ digest[u] \in Row
      /\ sent' = sent /\ open' = open /\ mailed' = mailed /\ digestLapsed' = digestLapsed
  BY DEF RecordDigest, Steady, world, Typed
<1>1. PICK r \in Row : /\ digest' = [digest EXCEPT ![u] = r]
                       /\ r = IF digester[w].pc = "mark" THEN MarkDigestSent(digest[u])
                              ELSE RetryDigestState(digest[u])
  <2>1. MarkDigestSent(digest[u]) \in Row /\ RetryDigestState(digest[u]) \in Row BY <1>0, TypedRows
  <2> QED BY <1>u, <2>1 DEF RecordDigest
<1>2. /\ r.row = digest[u].row /\ (digest[u].notified => r.notified)
      /\ r.notified => r.row \/ digest[u].notified
      /\ digest[u].row /\ digester[w].pc = "mark" => r.notified
  BY <1>0, <1>1 DEF MarkDigestSent, RetryDigestState, Row
<1>3. /\ digester' \in [DigestWorkers -> Station] /\ digester'[w].pc = "idle"
      /\ \A v \in DigestWorkers \ {w} : digester'[v] = digester[v]
  <2>1. AtRest.pc = "idle" BY DEF AtRest
  <2> QED BY <2>1, TypedRows DEF RecordDigest, Rest, Typed
<1>4. digest' \in [Readers -> Row] /\ digest'[u] = r /\ \A x \in Readers \ {u} : digest'[x] = digest[x]
  BY <1>1 DEF Typed
<1>5. Typed' BY <1>0, <1>3, <1>4 DEF Typed
<1>6. Rows' BY <1>0, <1>2, <1>4 DEF Rows
<1>7. Lease'
  <2> SUFFICES ASSUME NEW x \in Readers, x \notin digestLapsed', digest'[x].row
               PROVE  /\ \A v \in DigestWorkers : Claims(v, x)' =>
                           /\ digest'[x].leased /\ ~digest'[x].notified
                           /\ \A y \in DigestWorkers : Claims(y, x)' => y = v
                      /\ mailed'[x] > 0 =>
                           /\ mailed'[x] = 1
                           /\ \/ digest'[x].notified
                              \/ \E v \in DigestWorkers : digester'[v].u = x /\ digester'[v].pc = "mark"
    BY DEF Lease
  <2>1. \A v \in DigestWorkers : Claims(v, x)' => v # w /\ Claims(v, x) BY <1>3 DEF Claims
  <2>2. CASE x = u
    <3>1. Claims(w, u) /\ digest[u].row BY <1>0, <1>2, <1>4, <1>u, <2>2 DEF Claims
    <3>2. \A v \in DigestWorkers : Claims(v, u) => v = w BY <1>0, <2>2, <3>1 DEF Lease
    <3>3. \A v \in DigestWorkers : ~Claims(v, x)' BY <2>1, <2>2, <3>2
    <3>4. ASSUME mailed'[u] > 0 PROVE mailed'[u] = 1 /\ digest'[u].notified
      <4>1. mailed[u] = 1 /\ ( \/ digest[u].notified
                               \/ \E v \in DigestWorkers : digester[v].u = u /\ digester[v].pc = "mark" )
        BY <1>0, <2>2, <3>1, <3>4 DEF Lease
      <4>2. digest[u].notified \/ digester[w].pc = "mark" BY <3>2, <4>1 DEF Claims
      <4> QED BY <1>0, <1>2, <1>4, <3>1, <4>1, <4>2
    <3> QED BY <2>2, <3>3, <3>4
  <2>3. CASE x # u
    <3>1. digest'[x] = digest[x] /\ mailed'[x] = mailed[x] BY <1>0, <1>4, <2>3
    <3>2. \A v \in DigestWorkers : digester[v].u = x => digester'[v] = digester[v] BY <1>3, <1>u, <2>3
    <3> QED BY <1>0, <2>1, <3>1, <3>2 DEF Lease
  <2> QED BY <2>2, <2>3
<1> QED BY <1>5, <1>6, <1>7

LEMMA LeaseStep ==
  ASSUME DigestInv, NEW u \in Readers, LeaseExpires(u)
  PROVE  DigestInv'
<1> USE DEF DigestInv
<1>0. /\ digester' = digester /\ sent' = sent /\ open' = open /\ mailed' = mailed
      /\ digestLapsed \subseteq digestLapsed' /\ (u \in digestLapsed' \/ ~Held(u))
  BY DEF LeaseExpires, world
<1>1. digest' = [digest EXCEPT ![u] = [digest[u] EXCEPT !.leased = FALSE]] BY DEF LeaseExpires
<1>2. [digest[u] EXCEPT !.leased = FALSE] \in Row
  <2>1. ASSUME NEW r \in Row PROVE [r EXCEPT !.leased = FALSE] \in Row BY DEF Row
  <2> QED BY <2>1 DEF Typed
<1>3. digest' \in [Readers -> Row] BY <1>1, <1>2 DEF Typed
<1>4. /\ digest'[u].row = digest[u].row /\ digest'[u].notified = digest[u].notified
      /\ \A x \in Readers \ {u} : digest'[x] = digest[x]
  BY <1>1 DEF Typed, Row
<1>5. Typed' BY <1>0, <1>3 DEF Typed
<1>6. Rows' BY <1>0, <1>4 DEF Rows
<1>7. u \in digestLapsed' \/ \A v \in DigestWorkers : digester[v].u # u BY <1>0 DEF Held
<1>8. Lease' BY <1>0, <1>4, <1>7 DEF Lease, Claims
<1> QED BY <1>5, <1>6, <1>8

(* The worker steps that neither claim, send nor record.                   *)
LEMMA WalkStep ==
  ASSUME DigestInv, NEW w \in DigestWorkers,
         \/ \E u \in Readers : ReadDigest(w, u)
         \/ CheckDigest(w) \/ DeleteDigestState(w) \/ RecheckDigest(w) \/ Abandon(w)
  PROVE  DigestInv'
<1> USE DEF DigestInv
<1>0. digester[w] \in Station /\ AtRest \in Station /\ AtRest.pc = "idle"
  BY TypedRows DEF Typed, AtRest
<1>1. /\ sent' = sent /\ open' = open /\ mailed' = mailed /\ digestLapsed \subseteq digestLapsed'
      /\ digester[w].pc = "mark" => digester[w].u \in digestLapsed'
  BY DEF ReadDigest, CheckDigest, DeleteDigestState, RecheckDigest, Abandon, Steady, world
<1>2. PICK t \in Station : /\ digester' = [digester EXCEPT ![w] = t] /\ (t.pc # "idle" => t.u \in Readers)
                           /\ t.pc \in {"recheck", "send", "mark", "fail"} =>
                                t.u = digester[w].u /\ digester[w].pc = "recheck"
  <2>1. ASSUME NEW u \in Readers, ReadDigest(w, u)
        PROVE  \E t \in Station : /\ digester' = [digester EXCEPT ![w] = t] /\ (t.pc # "idle" => t.u \in Readers)
                                  /\ t.pc \notin {"recheck", "send", "mark", "fail"}
    <3> DEFINE t == [pc |-> "listed", u |-> u, read |-> digest[u]]
    <3>1. /\ t \in Station /\ t.u \in Readers /\ t.pc \notin {"recheck", "send", "mark", "fail"}
      BY DEF Station, Typed
    <3>2. digester' = [digester EXCEPT ![w] = t] BY <2>1 DEF ReadDigest
    <3> HIDE DEF t
    <3> QED BY <3>1, <3>2
  <2>2. ASSUME NEW s \in {"drop", "claim", "send"}, Go(w, s), digester[w].pc \in {"listed", "recheck"},
               s = "send" => digester[w].pc = "recheck"
        PROVE  \E t \in Station : /\ digester' = [digester EXCEPT ![w] = t] /\ (t.pc # "idle" => t.u \in Readers)
                                  /\ t.pc \in {"recheck", "send", "mark", "fail"} =>
                                       t.u = digester[w].u /\ digester[w].pc = "recheck"
    <3> DEFINE t == [digester[w] EXCEPT !.pc = s]
    <3>1. t \in Station /\ t.pc = s /\ t.u = digester[w].u /\ t.u \in Readers
      BY <1>0, <2>2 DEF Station, Typed
    <3>2. digester' = [digester EXCEPT ![w] = t] BY <2>2 DEF Go
    <3> HIDE DEF t
    <3> QED BY <2>2, <3>1, <3>2
  <2>3. CASE Rest(w) BY <1>0, <2>3 DEF Rest
  <2>4. \/ \E u \in Readers : ReadDigest(w, u)
        \/ Rest(w)
        \/ \E s \in {"drop", "claim", "send"} : /\ Go(w, s) /\ digester[w].pc \in {"listed", "recheck"}
                                                /\ s = "send" => digester[w].pc = "recheck"
    BY DEF CheckDigest, DeleteDigestState, RecheckDigest, Abandon
  <2> QED BY <2>1, <2>2, <2>3, <2>4
<1>3. /\ digester' \in [DigestWorkers -> Station] /\ digester'[w] = t
      /\ \A v \in DigestWorkers \ {w} : digester'[v] = digester[v]
  BY <1>2 DEF Typed
<1>4. \A u \in Readers : Claims(w, u)' => Claims(w, u) BY <1>2, <1>3 DEF Claims
<1>5. digest' \in [Readers -> Row] /\ \A u \in Readers : Kept(u) \/ Gone(u)
  <2>1. CASE digest' = digest BY <2>1 DEF Kept, Typed
  <2>2. CASE digest' = [digest EXCEPT ![digester[w].u] = NoDigest]
    <3>1. ~NoDigest.row /\ ~NoDigest.notified BY DEF NoDigest
    <3> QED BY <2>2, <3>1, TypedRows DEF Kept, Gone, Typed
  <2> QED BY <2>1, <2>2 DEF ReadDigest, CheckDigest, DeleteDigestState, RecheckDigest, Abandon
<1> QED BY <1>1, <1>2, <1>3, <1>4, <1>5, MoveStep

LEMMA DigestStepInv == DigestInv /\ [DigestNext]_digestVars => DigestInv'
<1> SUFFICES ASSUME DigestInv, [DigestNext]_digestVars PROVE DigestInv' OBVIOUS
<1>0. Typed /\ Rows BY DEF DigestInv
<1>1. CASE ScheduleDigest
  <2>1. /\ digest' = digest /\ digester' = digester /\ mailed' = mailed /\ sent' = sent /\ digestLapsed' = digestLapsed
        /\ open'.start \subseteq {u \in digestOn : ~digest[u].row}
    BY <1>1 DEF ScheduleDigest
  <2>2. \A u \in Readers : Kept(u) /\ (u \in open'.start => ~digest'[u].row) BY <2>1 DEF Kept
  <2> QED BY <1>0, <2>1, <2>2, RequestStep DEF Typed
<1>2. ASSUME NEW u \in Readers, NEW on \in BOOLEAN, UpdateDigestPreference(u, on) PROVE DigestInv'
  <2>1. digest' = digest \/ digest' = [digest EXCEPT ![u] = NoDigest]
    BY <1>2, Zenon DEF UpdateDigestPreference
  <2>2. UNCHANGED <<sent, open, digester, mailed, digestLapsed>> BY <1>2 DEF UpdateDigestPreference
  <2>3. ~NoDigest.row /\ ~NoDigest.notified BY DEF NoDigest
  <2>4. digest' \in [Readers -> Row] /\ \A x \in Readers : Kept(x) \/ Gone(x)
    BY <1>0, <2>1, <2>3, TypedRows DEF Typed, Kept, Gone
  <2>5. \A x \in Readers : x \in open'.start => ~digest'[x].row BY <1>0, <2>2, <2>4 DEF Rows, Kept, Gone
  <2> QED BY <2>2, <2>4, <2>5, RequestStep
<1>3. ASSUME NEW on \in BOOLEAN, SaveSpaceSettings(on) PROVE DigestInv'
  <2>1. digest' = digest \/ digest' = [u \in Readers |-> NoDigest]
    BY <1>3, Zenon DEF SaveSpaceSettings
  <2>2. UNCHANGED <<sent, open, digester, mailed, digestLapsed>> BY <1>3 DEF SaveSpaceSettings
  <2>3. ~NoDigest.row /\ ~NoDigest.notified BY DEF NoDigest
  <2>4. digest' \in [Readers -> Row] /\ \A x \in Readers : Kept(x) \/ Gone(x)
    BY <1>0, <2>1, <2>3, TypedRows DEF Typed, Kept, Gone
  <2>5. \A x \in Readers : x \in open'.start => ~digest'[x].row BY <1>0, <2>2, <2>4 DEF Rows, Kept, Gone
  <2> QED BY <2>2, <2>4, <2>5, RequestStep
<1>4. ASSUME NEW u \in Readers, MarkRead(u) \/ FallsDue(u) PROVE DigestInv'
  <2>1. digest' = digest \/ digest' = [digest EXCEPT ![u] = [digest[u] EXCEPT !.due = TRUE]]
    BY <1>4 DEF MarkRead, FallsDue
  <2>2. [digest[u] EXCEPT !.due = TRUE] \in Row
    <3>1. ASSUME NEW r \in Row PROVE [r EXCEPT !.due = TRUE] \in Row BY DEF Row
    <3> QED BY <1>0, <3>1 DEF Typed
  <2>3. digest' \in [Readers -> Row] BY <1>0, <2>1, <2>2 DEF Typed
  <2>4. \A x \in Readers : Kept(x) BY <1>0, <2>1 DEF Typed, Row, Kept
  <2>5. UNCHANGED <<sent, open, digester, mailed, digestLapsed>> BY <1>4 DEF MarkRead, FallsDue, Steady, world
  <2>6. \A x \in Readers : x \in open'.start => ~digest'[x].row BY <1>0, <2>4, <2>5 DEF Rows, Kept
  <2> QED BY <2>3, <2>4, <2>5, <2>6, RequestStep
<1>5. CASE UNCHANGED digestVars BY <1>5 DEF digestVars, DigestInv, Typed, Rows, Lease, Claims
<1> QED BY <1>1, <1>2, <1>3, <1>4, <1>5, CommitStep, LeaseStep, WalkStep, ClaimStep, SendStep, RecordStep
        DEF DigestNext, DigestStep

(* A digest is mailed twice for one row only if a worker lost it or was    *)
(* busy with an earlier one, however many workers race for it.             *)
THEOREM SecondDigestCorrect == DigestSpec => []SecondDigestNeedsLapse
<1>1. DigestInv => SecondDigestNeedsLapse
  BY DEF DigestInv, Typed, Lease, SecondDigestNeedsLapse
<1> QED BY <1>1, DigestInitially, DigestStepInv, PTL DEF DigestSpec

(* A row that was notified stays so until it ends: a message transaction   *)
(* that found no row finds none when it commits.                           *)
THEOREM NotifiedStaysCorrect == DigestSpec => NotifiedStays
<1> DEFINE A == \A u \in Readers : digest[u].notified => digest'[u].notified \/ ~digest'[u].row
<1>1. ASSUME DigestInv, [DigestNext]_digestVars PROVE A
  <2>0. Typed /\ Rows BY <1>1 DEF DigestInv
  <2>1. ASSUME NEW r \in Row, r.notified
        PROVE  MarkDigestSent(r) = r /\ RetryDigestState(r) = r
    BY <2>1 DEF MarkDigestSent, RetryDigestState
  <2>2. ~NoDigest.row BY DEF NoDigest
  <2>3. ASSUME NEW u \in Readers, digest[u].notified PROVE digest'[u].notified \/ ~digest'[u].row
    <3>0. digest[u] \in Row /\ u \notin open.start BY <2>0, <2>3 DEF Typed, Rows
    <3>1. CASE digest' = digest BY <2>3, <3>1
    <3>2. ASSUME NEW x \in Readers, digest' = [digest EXCEPT ![x] = NoDigest]
          PROVE  ~digest'[u].row \/ digest'[u] = digest[u]
      BY <2>0, <2>2, <3>2 DEF Typed
    <3>3. CASE \E x \in Readers, on \in BOOLEAN : UpdateDigestPreference(x, on)
      <4>1. digest' = digest \/ \E x \in Readers : digest' = [digest EXCEPT ![x] = NoDigest]
        BY <3>3, Zenon DEF UpdateDigestPreference
      <4> QED BY <2>3, <3>2, <4>1
    <3>4. CASE \E on \in BOOLEAN : SaveSpaceSettings(on)
      <4>1. digest' = digest \/ digest' = [x \in Readers |-> NoDigest]
        BY <3>4, Zenon DEF SaveSpaceSettings
      <4> QED BY <2>2, <2>3, <4>1
    <3>5. CASE CommitMessage
      <4>1. digest'[u] = digest[u] BY <3>0, <3>5 DEF CommitMessage
      <4> QED BY <2>3, <4>1
    <3>6. ASSUME NEW w \in DigestWorkers, DeleteDigestState(w) PROVE ~digest'[u].row \/ digest'[u] = digest[u]
      <4>1. digester[w].u \in Readers /\ digest' = [digest EXCEPT ![digester[w].u] = NoDigest]
        BY <2>0, <3>6 DEF DeleteDigestState, Typed
      <4> QED BY <2>0, <2>2, <4>1 DEF Typed
    <3>7. ASSUME NEW w \in DigestWorkers, RecordDigest(w) PROVE digest'[u] = digest[u]
      <4>1. digest' = [digest EXCEPT ![digester[w].u] = IF digester[w].pc = "mark"
                                                     THEN MarkDigestSent(digest[digester[w].u])
                                                     ELSE RetryDigestState(digest[digester[w].u])]
        BY <3>7 DEF RecordDigest
      <4>2. MarkDigestSent(digest[u]) = digest[u] /\ RetryDigestState(digest[u]) = digest[u]
        BY <2>1, <2>3, <3>0
      <4> QED BY <2>0, <4>1, <4>2 DEF Typed
    <3>8. ASSUME NEW x \in Readers, \/ digest' = [digest EXCEPT ![x].leased = TRUE]
                                    \/ digest' = [digest EXCEPT ![x].leased = FALSE]
                                    \/ digest' = [digest EXCEPT ![x].due = TRUE]
          PROVE  digest'[u].notified
      BY <2>0, <2>3, <3>0, <3>8 DEF Typed, Row
    <3>9. ASSUME NEW w \in DigestWorkers, ClaimDigestState(w) PROVE digest'[u].notified
      <4>1. digester[w].u \in Readers BY <2>0, <3>9 DEF ClaimDigestState, Typed
      <4>2. digest' = digest \/ digest' = [digest EXCEPT ![digester[w].u].leased = TRUE]
        BY <3>9 DEF ClaimDigestState
      <4> QED BY <2>3, <3>8, <4>1, <4>2
    <3> QED BY <1>1, <2>3, <3>1, <3>3, <3>4, <3>5, <3>6, <3>7, <3>8, <3>9
         DEF DigestNext, DigestStep, digestVars, ScheduleDigest, MarkRead, LeaseExpires, FallsDue,
             ReadDigest, CheckDigest, RecheckDigest, SendDigest, Abandon
  <2> QED BY <2>3
<1>2. DigestInv /\ [DigestNext]_digestVars => [A]_digest BY <1>1
<1> QED BY <1>2, DigestInitially, DigestStepInv, PTL DEF DigestSpec, NotifiedStays

(* The bounds: a transaction under way has a message left to send, and no  *)
(* row starts, and nobody reads, beyond what was sent.                     *)
Bounds ==
  /\ digestSmtpOn \in BOOLEAN /\ digestOn \subseteq Readers
  /\ sent <= LastMessage /\ (open.busy => sent < LastMessage)
  /\ open \in [busy : BOOLEAN, start : SUBSET Readers]
  /\ lastRead \in [Readers -> 0..LastMessage]
  /\ \A u \in Readers : digest[u].started <= LastMessage
  /\ digestLapsed \subseteq Readers /\ digestLapses \in 0..MaxLapses

LEMMA StartedKept ==
  ASSUME DigestInv, [DigestNext]_digestVars, ~CommitMessage, NEW x \in Readers
  PROVE  digest'[x].started = digest[x].started \/ digest'[x].started = 0
<1>0. Typed BY DEF DigestInv
<1>1. digest[x] \in Row BY <1>0 DEF Typed
<1>2. NoDigest.started = 0 BY DEF NoDigest
<1>3. ASSUME NEW w \in DigestWorkers, DigestStep(w) PROVE digest'[x].started \in {digest[x].started, 0}
  <2>1. CASE digest' = digest BY <2>1
  <2>2. CASE DeleteDigestState(w) BY <1>0, <1>2, <2>2 DEF DeleteDigestState, Typed
  <2>3. CASE ClaimDigestState(w) BY <1>0, <1>1, <2>3 DEF ClaimDigestState, Typed, Row
  <2>4. CASE RecordDigest(w)
    <3>1. \A r \in Row : MarkDigestSent(r).started = r.started /\ RetryDigestState(r).started = r.started
      BY DEF MarkDigestSent, RetryDigestState, Row
    <3>2. \/ digest'[x] = digest[x] \/ digest'[x] = MarkDigestSent(digest[x])
          \/ digest'[x] = RetryDigestState(digest[x])
      BY <1>0, <2>4 DEF RecordDigest, Typed
    <3> QED BY <1>1, <3>1, <3>2
  <2> QED BY <1>3, <2>1, <2>2, <2>3, <2>4 DEF DigestStep, CheckDigest, RecheckDigest, SendDigest
<1>4. ASSUME NEW u \in Readers, LeaseExpires(u) \/ FallsDue(u) PROVE digest'[x].started = digest[x].started
  BY <1>0, <1>1, <1>4 DEF LeaseExpires, FallsDue, Typed, Row
<1>5. ASSUME NEW u \in Readers, NEW on \in BOOLEAN, UpdateDigestPreference(u, on)
      PROVE  digest'[x].started \in {digest[x].started, 0}
  BY <1>0, <1>2, <1>5 DEF UpdateDigestPreference, Typed
<1>6. ASSUME NEW on \in BOOLEAN, SaveSpaceSettings(on) PROVE digest'[x].started \in {digest[x].started, 0}
  BY <1>2, <1>6 DEF SaveSpaceSettings
<1>7. CASE digest' = digest BY <1>7
<1> QED BY <1>3, <1>4, <1>5, <1>6, <1>7 DEF DigestNext, ScheduleDigest, MarkRead, ReadDigest, Abandon, digestVars

LEMMA BoundsStep ==
  ASSUME LastMessage \in Nat, MaxLapses \in Nat, DigestInv, Bounds, [DigestNext]_digestVars
  PROVE  Bounds'
<1>0. Typed BY DEF DigestInv
<1>1. CASE CommitMessage
  <2>1. InsertDigestState(sent + 1).started = sent + 1 BY DEF InsertDigestState, NoDigest
  <2>2. \A u \in Readers : digest'[u].started <= LastMessage
    BY <1>0, <1>1, <2>1 DEF CommitMessage, Bounds, Typed
  <2>3. open' \in [busy : BOOLEAN, start : SUBSET Readers] /\ ~open'.busy BY <1>1 DEF CommitMessage, NoTx
  <2>4. sent' <= LastMessage BY <1>0, <1>1 DEF CommitMessage, Bounds, Typed
  <2>5. digestLapsed' \subseteq Readers BY <1>1 DEF CommitMessage, Bounds
  <2> QED BY <1>1, <2>2, <2>3, <2>4, <2>5 DEF CommitMessage, Bounds
<1>2. CASE ~CommitMessage
  <2>0. \A x \in Readers : digest'[x].started <= LastMessage BY <1>2, StartedKept DEF Bounds
  <2> USE <2>0 DEF Bounds
  <2>1. CASE ScheduleDigest
    <3>1. PICK S \in SUBSET Readers : open' = [busy |-> TRUE, start |-> S] BY <2>1 DEF ScheduleDigest
    <3>2. open' \in [busy : BOOLEAN, start : SUBSET Readers] BY <3>1
    <3> QED BY <2>1, <3>2 DEF ScheduleDigest
  <2>2. ASSUME NEW u \in Readers, NEW on \in BOOLEAN, UpdateDigestPreference(u, on) PROVE Bounds'
    BY <2>2 DEF UpdateDigestPreference
  <2>3. ASSUME NEW on \in BOOLEAN, SaveSpaceSettings(on) PROVE Bounds' BY <2>3 DEF SaveSpaceSettings
  <2>4. ASSUME NEW u \in Readers, MarkRead(u) PROVE Bounds'
    <3>1. lastRead' \in [Readers -> 0..LastMessage] BY <1>0, <2>4 DEF MarkRead, Typed
    <3> QED BY <2>4, <3>1 DEF MarkRead
  <2>5. ASSUME NEW u \in Readers, LeaseExpires(u) \/ FallsDue(u) PROVE Bounds'
    BY <2>5 DEF LeaseExpires, FallsDue, Steady, world
  <2>6. ASSUME NEW w \in DigestWorkers, NEW u \in Readers, ReadDigest(w, u) PROVE Bounds'
    BY <2>6 DEF ReadDigest, Steady, world
  <2>7. ASSUME NEW w \in DigestWorkers, DigestStep(w) PROVE Bounds'
    BY <2>7 DEF DigestStep, CheckDigest, DeleteDigestState, ClaimDigestState, RecheckDigest, SendDigest,
       RecordDigest, Steady, world
  <2>8. ASSUME NEW w \in DigestWorkers, Abandon(w) PROVE Bounds'
    <3>1. digester[w].u \in Readers BY <1>0, <2>8 DEF Abandon, Typed
    <3> QED BY <2>8, <3>1 DEF Abandon, world
  <2>9. CASE UNCHANGED digestVars BY <2>9 DEF digestVars
  <2> QED BY <1>2, <2>1, <2>2, <2>3, <2>4, <2>5, <2>6, <2>7, <2>8, <2>9 DEF DigestNext
<1> QED BY <1>1, <1>2

(* Rows, receipts and transactions keep their shape, and none of them is   *)
(* ahead of the messages.                                                  *)
THEOREM DigestTypesCorrect ==
  ASSUME LastMessage \in Nat, MaxLapses \in Nat
  PROVE  DigestSpec => []DigestTypeOK
<1> DEFINE I == DigestInv /\ Bounds
<1>1. DigestInit => I
  <2>1. DigestInit => Bounds BY DEF DigestInit, Bounds, NoTx, NoDigest
  <2> QED BY <2>1, DigestInitially
<1>2. I /\ [DigestNext]_digestVars => I' BY BoundsStep, DigestStepInv
<1>3. I => DigestTypeOK
  <2> SUFFICES ASSUME I PROVE DigestTypeOK OBVIOUS
  <2>1. Typed /\ Bounds BY DEF DigestInv
  <2>2. \A u \in Readers : digest[u] \in [row : BOOLEAN, started : 0..LastMessage, notified : BOOLEAN,
                                          leased : BOOLEAN, due : BOOLEAN]
    BY <2>1 DEF Typed, Bounds, Row
  <2>3. \A w \in DigestWorkers : digester[w].u \in Readers \union {Nobody} BY <2>1 DEF Typed, Station
  <2> QED BY <2>1, <2>2, <2>3 DEF Typed, Bounds, DigestTypeOK
<1> HIDE DEF I
<1> QED BY <1>1, <1>2, <1>3, PTL DEF DigestSpec
-----------------------------------------------------------------------------
(***************************************************************************)
(* Push jobs, for any number of subscribers, messages and workers, any     *)
(* lapses and any number of retries: two workers notify for one job only   *)
(* after a lapse, a replaced topic is not notified again, and the job      *)
(* table implements DeliveryLedger. One inductive invariant, NtfyInv,      *)
(* carries all three.                                                      *)
(***************************************************************************)
Stations == {"idle", "claimed", "cancel", "publish", "mark", "fail"}
PushRow == [status : {"none"} \union Open \union Ended, leased : BOOLEAN, due : BOOLEAN, attempt : Nat]
PushStation == [pc : Stations, j : PushJobs \union {<<>>}, topic : Topics \union {NoTopic},
            current : BOOLEAN, attempt : Nat]
PushTyped ==
  /\ pref \in [Subscribers -> [topic : Topics \union {NoTopic}, enabled : BOOLEAN]]
  /\ pushJob \in [PushJobs -> PushRow] /\ pusher \in [NtfyWorkers -> PushStation]
  /\ pushes \in [PushJobs -> 0..2]

(* A worker under way holds a job that exists; one that is about to record *)
(* a success has notified.                                                 *)
Holding ==
  \A w \in NtfyWorkers :
    /\ pusher[w].pc = "idle" <=> pusher[w].j = <<>>
    /\ pusher[w].pc # "idle" => pushJob[pusher[w].j].status # "none"
    /\ pusher[w].pc = "mark" => pushes[pusher[w].j] > 0
Holds(w, j) == pusher[w].j = j

(* The lease: unless it was lost, a job has one holder at most, whose row  *)
(* is leased until it ends, and once it was notified it is over or about   *)
(* to be.                                                                  *)
PushLease ==
  /\ \A j \in PushJobs : pushJob[j].leased => pushJob[j].status = "sending"
  /\ \A j \in PushJobs \ pushLapsed, w \in NtfyWorkers :
       Holds(w, j) => /\ pushJob[j].leased \/ pushJob[j].status \in Ended
                      /\ \A v \in NtfyWorkers : Holds(v, j) => v = w
  /\ \A j \in PushJobs \ pushLapsed : pushes[j] > 0 =>
       \/ \E w \in NtfyWorkers : Holds(w, j) /\ pusher[w].pc = "mark"
       \/ pushJob[j].status \in Ended /\ \A w \in NtfyWorkers : ~Holds(w, j)

(* What was open when the topic was replaced is over, and a worker that    *)
(* still publishes it had read the old topic.                              *)
Rotated ==
  \A j \in rotated :
    /\ j \in PushJobs /\ pushJob[j].status \in Ended
    /\ \A w \in NtfyWorkers : Holds(w, j) /\ pusher[w].pc = "publish" => ~pusher[w].current

NtfyInv == PushTyped /\ Holding /\ PushLease /\ SecondPushNeedsLapse /\ Rotated

LEMMA NoJobIsEmpty == \A j \in PushJobs : j # <<>> /\ j[1] \in Subscribers
BY DEF PushJobs

LEMMA InvInit == NtfyInit => NtfyInv
<1> SUFFICES ASSUME NtfyInit PROVE NtfyInv OBVIOUS
<1>1. PushTyped
  BY DEF NtfyInit, PushTyped, PushRow, PushStation, Stations, NoPushJob, PushAtRest, Open, Ended
<1>2. Holding /\ PushLease /\ SecondPushNeedsLapse /\ Rotated
  BY NoJobIsEmpty DEF NtfyInit, Holding, PushLease, Holds, SecondPushNeedsLapse, Rotated, NoPushJob, PushAtRest
<1> QED BY <1>1, <1>2 DEF NtfyInv

(* What the statements of the repository do to a row.                      *)
LEMMA Statements ==
  ASSUME NEW r \in PushRow
  PROVE  /\ InsertJob(r) \in PushRow /\ ClaimJob(r) \in PushRow /\ CancelJob(r) \in PushRow
         /\ \/ InsertJob(r) = r /\ r.status # "none"
            \/ r.status = "none" /\ InsertJob(r).status = "pending" /\ ~InsertJob(r).leased
         /\ ClaimJob(r).status = "sending" /\ ClaimJob(r).leased
         /\ \/ CancelJob(r) = r /\ r.status \notin Open
            \/ r.status \in Open /\ CancelJob(r).status = "cancelled" /\ ~CancelJob(r).leased
         /\ r.status \in {"none"} \union Open \union Ended
<1> USE DEF PushRow, Open, Ended
<1>1. /\ InsertJob(r) \in PushRow
      /\ \/ InsertJob(r) = r /\ r.status # "none"
         \/ r.status = "none" /\ InsertJob(r).status = "pending" /\ ~InsertJob(r).leased
  BY DEF InsertJob, NoPushJob
<1>2. ClaimJob(r) \in PushRow /\ ClaimJob(r).status = "sending" /\ ClaimJob(r).leased BY DEF ClaimJob
<1>3. /\ CancelJob(r) \in PushRow
      /\ \/ CancelJob(r) = r /\ r.status \notin Open
         \/ r.status \in Open /\ CancelJob(r).status = "cancelled" /\ ~CancelJob(r).leased
  BY DEF CancelJob
<1> QED BY <1>1, <1>2, <1>3

LEMMA Verdicts ==
  ASSUME NEW r \in PushRow, NEW n \in Nat
  PROVE  /\ MarkSent(r) \in PushRow /\ RetryJob(r, n) \in PushRow /\ MarkFailed(r, n) \in PushRow
         /\ r.status # "sending" => MarkSent(r) = r /\ RetryJob(r, n) = r /\ MarkFailed(r, n) = r
         /\ r.status = "sending" =>
              /\ MarkSent(r).status = "sent" /\ ~MarkSent(r).leased
              /\ RetryJob(r, n).status = "pending" /\ ~RetryJob(r, n).leased
              /\ MarkFailed(r, n).status = "failed" /\ ~MarkFailed(r, n).leased
BY DEF PushRow, Open, Ended, MarkSent, RetryJob, MarkFailed

LEMMA TypedStep == PushTyped /\ Holding /\ [NtfyNext]_ntfyVars => PushTyped'
<1> SUFFICES ASSUME PushTyped, Holding, [NtfyNext]_ntfyVars PROVE PushTyped' OBVIOUS
<1> USE DEF PushTyped
<1>0. ASSUME NEW w \in NtfyWorkers
      PROVE  /\ pusher[w] \in PushStation /\ PushAtRest \in PushStation
             /\ pusher[w].pc # "idle" => pusher[w].j \in PushJobs
  BY <1>0 DEF PushStation, Stations, PushAtRest, Holding
<1>1. ASSUME NEW u \in Subscribers, NEW t \in Topics, GetPreferences(u, t) PROVE PushTyped'
  BY <1>1 DEF GetPreferences, CreatePreferences
<1>2. ASSUME NEW u \in Subscribers, NEW t \in Topics, RotateTopic(u, t) PROVE PushTyped'
  <2>1. pref' \in [Subscribers -> [topic : Topics \union {NoTopic}, enabled : BOOLEAN]]
    BY <1>2 DEF RotateTopic, RotatePreferences
  <2>2. pushJob' \in [PushJobs -> PushRow] BY <1>2, Statements DEF RotateTopic, CancelPendingJobs
  <2>3. pusher' \in [NtfyWorkers -> PushStation]
    <3>1. ASSUME NEW x \in PushStation PROVE [x EXCEPT !.current = FALSE] \in PushStation BY DEF PushStation
    <3> QED BY <1>0, <1>2, <3>1 DEF RotateTopic
  <2> QED BY <1>2, <2>1, <2>2, <2>3 DEF RotateTopic
<1>3. ASSUME NEW u \in Subscribers, NEW t \in Topics, NEW on \in BOOLEAN, UpdatePreferences(u, t, on)
      PROVE  PushTyped'
  <2>1. \A j \in PushJobs : CancelJob(pushJob[j]) \in PushRow BY Statements
  <2>2. pushJob' = pushJob \/ pushJob' = CancelPendingJobs(u) BY <1>3, Zenon DEF UpdatePreferences
  <2>3. pushJob' \in [PushJobs -> PushRow] BY <2>1, <2>2 DEF CancelPendingJobs
  <2> QED BY <1>3, <2>3 DEF UpdatePreferences
<1>4. ASSUME NEW m \in Messages, scheduleMessage(m) PROVE PushTyped'
  BY <1>4 DEF scheduleMessage
<1>5. ASSUME NEW m \in Messages, PushCommitMessage(m) PROVE PushTyped'
  <2>0. \A j \in PushJobs : InsertJob(pushJob[j]) \in PushRow BY Statements
  <2>1. pushJob' \in [PushJobs -> PushRow] BY <1>5, <2>0 DEF PushCommitMessage
  <2>2. pref' \in [Subscribers -> [topic : Topics \union {NoTopic}, enabled : BOOLEAN]]
    BY <1>5 DEF PushCommitMessage
  <2> QED BY <1>5, <2>1, <2>2 DEF PushCommitMessage
<1>6. ASSUME NEW w \in NtfyWorkers, NEW j \in PushJobs, Claim(w, j) PROVE PushTyped'
  <2>0. ClaimJob(pushJob[j]) \in PushRow BY Statements
  <2>1. pushJob' \in [PushJobs -> PushRow] BY <1>6, <2>0 DEF Claim
  <2>2. pusher' \in [NtfyWorkers -> PushStation]
    BY <1>0, <1>6 DEF Claim, PushStation, Stations, PushAtRest
  <2> QED BY <1>6, <2>1, <2>2 DEF Claim, others
<1>7. ASSUME NEW w \in NtfyWorkers, GetDeliveryJob(w) PROVE PushTyped'
  <2>0. pusher[w].pc = "claimed" BY <1>7 DEF GetDeliveryJob
  <2>1. pusher[w].j \in PushJobs BY <1>0, <2>0
  <2>2. pref[pusher[w].j[1]].topic \in Topics \union {NoTopic} /\ pushJob[pusher[w].j].attempt \in Nat
    BY <2>1, NoJobIsEmpty DEF PushRow
  <2>3. \E ok \in {"publish", "cancel"} :
          pusher' = [pusher EXCEPT ![w] = [pc |-> ok, j |-> pusher[w].j,
                                           topic |-> pref[pusher[w].j[1]].topic,
                                           current |-> TRUE, attempt |-> pushJob[pusher[w].j].attempt]]
    BY <1>7 DEF GetDeliveryJob
  <2>4. pusher' \in [NtfyWorkers -> PushStation]
    BY <2>1, <2>2, <2>3 DEF PushStation, Stations
  <2> QED BY <1>7, <2>4 DEF GetDeliveryJob, others
<1>8. ASSUME NEW w \in NtfyWorkers, PutAside(w) PROVE PushTyped'
  <2>0. pushJob[pusher[w].j] \in PushRow BY <1>0, <1>8 DEF PutAside
  <2>1. CancelJob(pushJob[pusher[w].j]) \in PushRow BY <2>0, Statements
  <2>2. pushJob' \in [PushJobs -> PushRow] BY <1>8, <2>1 DEF PutAside
  <2> QED BY <1>0, <1>8, <2>2 DEF PutAside, PushRest, others
<1>9. ASSUME NEW w \in NtfyWorkers, Publish(w) PROVE PushTyped'
  <2>1. pusher' \in [NtfyWorkers -> PushStation]
    <3>1. PICK s \in {"mark", "fail"} : pusher' = [pusher EXCEPT ![w] = [pusher[w] EXCEPT !.pc = s]]
      BY <1>9 DEF Publish
    <3>2. [pusher[w] EXCEPT !.pc = s] \in PushStation BY <1>0 DEF PushStation, Stations
    <3> QED BY <3>1, <3>2
  <2>2. pushes' \in [PushJobs -> 0..2] BY <1>9 DEF Publish
  <2> QED BY <1>9, <2>1, <2>2 DEF Publish, others
<1>10. ASSUME NEW w \in NtfyWorkers, RecordOutcome(w) PROVE PushTyped'
  <2>1. pusher[w].attempt + 1 \in Nat BY <1>0 DEF PushStation
  <2>2. pusher[w].j \in PushJobs BY <1>0, <1>10 DEF RecordOutcome
  <2>3. \A r \in PushRow : /\ MarkSent(r) \in PushRow /\ RetryJob(r, pusher[w].attempt + 1) \in PushRow
                       /\ MarkFailed(r, pusher[w].attempt + 1) \in PushRow
    BY <2>1, Verdicts
  <2>4. pushJob' \in [PushJobs -> PushRow] BY <1>10, <2>2, <2>3 DEF RecordOutcome
  <2> QED BY <1>0, <1>10, <2>4 DEF RecordOutcome, PushRest, others
<1>11. ASSUME NEW w \in NtfyWorkers, PushAbandon(w) PROVE PushTyped'
  BY <1>0, <1>11 DEF PushAbandon, PushRest, others
<1>12. ASSUME NEW j \in PushJobs, Overtaken(j) \/ PushLeaseExpires(j) \/ PushFallsDue(j) PROVE PushTyped'
  <2>1. pushJob' \in [PushJobs -> PushRow]
    <3>1. [pushJob[j] EXCEPT !.leased = FALSE] \in PushRow /\ [pushJob[j] EXCEPT !.due = TRUE] \in PushRow
      BY DEF PushRow
    <3>2. \/ pushJob' = pushJob
          \/ pushJob' = [pushJob EXCEPT ![j] = [pushJob[j] EXCEPT !.leased = FALSE]]
          \/ pushJob' = [pushJob EXCEPT ![j] = [pushJob[j] EXCEPT !.due = TRUE]]
      BY <1>12 DEF Overtaken, PushLeaseExpires, PushFallsDue
    <3> QED BY <3>1, <3>2
  <2> QED BY <1>12, <2>1 DEF Overtaken, PushLeaseExpires, PushFallsDue, others
<1>13. CASE UNCHANGED ntfyVars BY <1>13 DEF ntfyVars
<1> QED BY <1>1, <1>2, <1>3, <1>4, <1>5, <1>6, <1>7, <1>8, <1>9, <1>10, <1>11, <1>12, <1>13
        DEF NtfyNext, WorkerStep

-----------------------------------------------------------------------------
(* What a step does to a row it does not hold: nothing, insert it, cancel  *)
(* it.                                                                     *)
Same(x) == pushJob'[x].status = pushJob[x].status /\ pushJob'[x].leased = pushJob[x].leased
Inserted(x) == pushJob[x].status = "none" /\ pushJob'[x].status = "pending" /\ ~pushJob'[x].leased
Cancelled(x) == pushJob[x].status \in Open /\ pushJob'[x].status = "cancelled" /\ ~pushJob'[x].leased
Outside == \A x \in PushJobs : Same(x) \/ Inserted(x) \/ Cancelled(x)

HoldInv == Holding /\ PushLease /\ SecondPushNeedsLapse

LEMMA OutsideStep ==
  ASSUME NtfyInv, PushTyped', Outside, pushes' = pushes, pushLapsed' = pushLapsed,
         \A w \in NtfyWorkers : pusher'[w].pc = pusher[w].pc /\ pusher'[w].j = pusher[w].j
  PROVE  HoldInv'
<1> USE DEF NtfyInv, HoldInv, Same, Inserted, Cancelled, Outside, Holds, Open, Ended
<1>1. \A w \in NtfyWorkers : pusher[w].pc # "idle" => pusher[w].j \in PushJobs
  BY DEF PushTyped, PushStation, Holding
<1>2. Holding' BY <1>1 DEF Holding
<1>3. PushLease' BY DEF PushLease
<1>4. SecondPushNeedsLapse' BY DEF SecondPushNeedsLapse
<1> QED BY <1>2, <1>3, <1>4

(* A worker takes a job nobody holds under a lease.                        *)
LEMMA PushClaimStep ==
  ASSUME NtfyInv, PushTyped', NEW w \in NtfyWorkers, NEW j \in PushJobs, Claim(w, j)
  PROVE  HoldInv'
<1> USE DEF NtfyInv, HoldInv, Holds, Open, Ended
<1>0. /\ pushes' = pushes /\ pushLapsed' = pushLapsed /\ j # <<>>
      /\ pusher[w].pc = "idle" /\ pusher[w].j = <<>>
      /\ pushJob[j].status \in Open /\ ~pushJob[j].leased
  BY NoJobIsEmpty DEF Claim, Claimable, Holding
<1>1. /\ pusher'[w].pc = "claimed" /\ pusher'[w].j = j
      /\ \A v \in NtfyWorkers \ {w} : pusher'[v] = pusher[v]
  BY DEF Claim, PushAtRest, PushTyped
<1>2. /\ pushJob'[j].status = "sending" /\ pushJob'[j].leased
      /\ \A x \in PushJobs \ {j} : pushJob'[x] = pushJob[x]
  <2>1. pushJob[j] \in PushRow /\ pushJob' = [pushJob EXCEPT ![j] = ClaimJob(pushJob[j])] BY DEF PushTyped, Claim
  <2>2. ClaimJob(pushJob[j]).status = "sending" /\ ClaimJob(pushJob[j]).leased BY <2>1, Statements
  <2> QED BY <2>1, <2>2 DEF PushTyped
<1>3. \A v \in NtfyWorkers : pusher[v].pc # "idle" => pusher[v].j \in PushJobs
  BY DEF PushTyped, PushStation, Holding
<1>4. Holding'
  <2> SUFFICES ASSUME NEW v \in NtfyWorkers
               PROVE  /\ pusher'[v].pc = "idle" <=> pusher'[v].j = <<>>
                      /\ pusher'[v].pc # "idle" => pushJob'[pusher'[v].j].status # "none"
                      /\ pusher'[v].pc = "mark" => pushes'[pusher'[v].j] > 0
    BY DEF Holding
  <2>1. CASE v = w BY <1>0, <1>1, <1>2, <2>1
  <2>2. CASE v # w BY <1>0, <1>1, <1>2, <1>3, <2>2 DEF Holding
  <2> QED BY <2>1, <2>2
<1>5. j \notin pushLapsed => \A v \in NtfyWorkers : ~Holds(v, j)
  BY <1>0 DEF PushLease
<1>6. PushLease'
  <2>1. \A x \in PushJobs : pushJob'[x].leased => pushJob'[x].status = "sending" BY <1>2 DEF PushLease
  <2>2. ASSUME NEW x \in PushJobs \ pushLapsed', NEW v \in NtfyWorkers, pusher'[v].j = x
        PROVE  /\ pushJob'[x].leased \/ pushJob'[x].status \in Ended
               /\ \A u \in NtfyWorkers : pusher'[u].j = x => u = v
    <3>1. CASE x = j BY <1>0, <1>1, <1>2, <1>5, <2>2, <3>1
    <3>2. CASE x # j BY <1>0, <1>1, <1>2, <2>2, <3>2 DEF PushLease
    <3> QED BY <3>1, <3>2
  <2>3. ASSUME NEW x \in PushJobs \ pushLapsed', pushes'[x] > 0
        PROVE  \/ \E v \in NtfyWorkers : pusher'[v].j = x /\ pusher'[v].pc = "mark"
               \/ pushJob'[x].status \in Ended /\ \A v \in NtfyWorkers : pusher'[v].j # x
    <3>1. x # j BY <1>0, <1>5, <2>3 DEF PushLease
    <3> QED BY <1>0, <1>1, <1>2, <2>3, <3>1 DEF PushLease
  <2> QED BY <2>1, <2>2, <2>3 DEF PushLease
<1>7. SecondPushNeedsLapse' BY <1>0 DEF SecondPushNeedsLapse
<1> QED BY <1>4, <1>6, <1>7

(* A worker lets go of its job: the row is over, or free for the next      *)
(* claim; without a lapse it was not notified in vain.                     *)
LEMMA LetGoStep ==
  ASSUME NtfyInv, PushTyped', NEW w \in NtfyWorkers, pusher[w].pc # "idle", PushRest(w), pushes' = pushes,
         NEW j \in PushJobs, j = pusher[w].j,
         \A x \in PushJobs \ {j} : pushJob'[x] = pushJob[x],
         pushJob'[j].status # "none", pushJob'[j].leased => pushJob'[j].status = "sending",
         \/ /\ pushLapsed' = pushLapsed
            /\ pushJob[j].status \in Ended => pushJob'[j].status \in Ended
            /\ j \notin pushLapsed /\ pusher[w].pc = "mark" => pushJob'[j].status \in Ended
         \/ pushLapsed' = pushLapsed \union {j}
  PROVE  HoldInv'
<1> USE DEF NtfyInv, HoldInv, Holds
<1>0. /\ pusher'[w].pc = "idle" /\ pusher'[w].j = <<>> /\ j # <<>>
      /\ \A v \in NtfyWorkers \ {w} : pusher'[v] = pusher[v]
      /\ pushLapsed \subseteq pushLapsed'
  BY NoJobIsEmpty DEF PushRest, PushAtRest, PushTyped
<1>1. \A v \in NtfyWorkers : pusher[v].pc # "idle" => pusher[v].j \in PushJobs
  BY DEF PushTyped, PushStation, Holding
<1>2. Holding'
  <2> SUFFICES ASSUME NEW v \in NtfyWorkers
               PROVE  /\ pusher'[v].pc = "idle" <=> pusher'[v].j = <<>>
                      /\ pusher'[v].pc # "idle" => pushJob'[pusher'[v].j].status # "none"
                      /\ pusher'[v].pc = "mark" => pushes'[pusher'[v].j] > 0
    BY DEF Holding
  <2>1. CASE v = w BY <1>0, <2>1
  <2>2. CASE v # w BY <1>0, <1>1, <2>2 DEF Holding
  <2> QED BY <2>1, <2>2
<1>3. PushLease'
  <2>1. \A x \in PushJobs : pushJob'[x].leased => pushJob'[x].status = "sending" BY DEF PushLease
  <2>2. ASSUME NEW x \in PushJobs \ pushLapsed', NEW v \in NtfyWorkers, pusher'[v].j = x
        PROVE  /\ pushJob'[x].leased \/ pushJob'[x].status \in Ended
               /\ \A u \in NtfyWorkers : pusher'[u].j = x => u = v
    <3>1. x \notin pushLapsed /\ v # w /\ pusher[v].j = x /\ x # <<>> BY <1>0, <2>2, NoJobIsEmpty
    <3>2. x # j BY <3>1 DEF PushLease
    <3>3. pushJob'[x] = pushJob[x] BY <3>2
    <3>4. \A u \in NtfyWorkers : pusher'[u].j = x => pusher[u].j = x BY <1>0, <3>1
    <3> QED BY <3>1, <3>3, <3>4 DEF PushLease
  <2>3. ASSUME NEW x \in PushJobs \ pushLapsed', pushes'[x] > 0
        PROVE  \/ \E v \in NtfyWorkers : pusher'[v].j = x /\ pusher'[v].pc = "mark"
               \/ pushJob'[x].status \in Ended /\ \A v \in NtfyWorkers : pusher'[v].j # x
    <3>1. CASE x # j
      <4>1. x # <<>> BY NoJobIsEmpty
      <4> QED BY <1>0, <2>3, <3>1, <4>1 DEF PushLease
    <3>2. CASE x = j
      <4>1. j \notin pushLapsed /\ pushLapsed' = pushLapsed BY <2>3, <3>2
      <4>2. pusher[w].pc = "mark" BY <2>3, <3>2, <4>1 DEF PushLease
      <4>3. pushJob'[j].status \in Ended BY <4>1, <4>2
      <4>4. \A v \in NtfyWorkers : pusher'[v].j # j BY <1>0, <4>1 DEF PushLease
      <4> QED BY <3>2, <4>3, <4>4
    <3> QED BY <3>1, <3>2
  <2> QED BY <2>1, <2>2, <2>3 DEF PushLease
<1>4. SecondPushNeedsLapse' BY <1>0 DEF SecondPushNeedsLapse
<1> QED BY <1>2, <1>3, <1>4

(* A worker goes on with the job it holds; it notifies only then.          *)
LEMMA GoOnStep ==
  ASSUME NtfyInv, PushTyped', NEW w \in NtfyWorkers, pusher[w].pc \notin {"idle", "mark"},
         pushJob' = pushJob, pushLapsed' = pushLapsed,
         pusher'[w].pc # "idle", pusher'[w].j = pusher[w].j,
         \A v \in NtfyWorkers \ {w} : pusher'[v] = pusher[v],
         \A x \in PushJobs \ {pusher[w].j} : pushes'[x] = pushes[x],
         \/ pusher'[w].pc # "mark" /\ pushes' = pushes
         \/ pusher'[w].pc = "mark" /\ pushes'[pusher[w].j] = (IF pushes[pusher[w].j] = 2 THEN 2
                                                              ELSE pushes[pusher[w].j] + 1)
  PROVE  HoldInv'
<1> USE DEF NtfyInv, HoldInv, Holds
<1> DEFINE j == pusher[w].j
<1>0. j \in PushJobs /\ j # <<>> /\ pushes[j] \in 0..2
  BY NoJobIsEmpty DEF PushTyped, PushStation, Holding
<1>1. \A v \in NtfyWorkers : pusher[v].pc # "idle" => pusher[v].j \in PushJobs
  BY DEF PushTyped, PushStation, Holding
<1>2. pusher'[w].pc = "mark" => pushes'[j] > 0 BY <1>0
<1>3. \A x \in PushJobs : pushes[x] > 0 => pushes'[x] > 0 BY <1>0 DEF PushTyped
<1>4. Holding'
  <2> SUFFICES ASSUME NEW v \in NtfyWorkers
               PROVE  /\ pusher'[v].pc = "idle" <=> pusher'[v].j = <<>>
                      /\ pusher'[v].pc # "idle" => pushJob'[pusher'[v].j].status # "none"
                      /\ pusher'[v].pc = "mark" => pushes'[pusher'[v].j] > 0
    BY DEF Holding
  <2>1. CASE v = w BY <1>0, <1>2, <2>1 DEF Holding
  <2>2. CASE v # w BY <1>1, <1>3, <2>2 DEF Holding
  <2> QED BY <2>1, <2>2
<1>5. j \notin pushLapsed => pushes[j] = 0
  BY <1>0 DEF PushLease
<1>6. PushLease'
  <2>1. \A x \in PushJobs : pushJob'[x].leased => pushJob'[x].status = "sending" BY DEF PushLease
  <2>2. ASSUME NEW x \in PushJobs \ pushLapsed', NEW v \in NtfyWorkers, pusher'[v].j = x
        PROVE  /\ pushJob'[x].leased \/ pushJob'[x].status \in Ended
               /\ \A u \in NtfyWorkers : pusher'[u].j = x => u = v
    <3>1. \A u \in NtfyWorkers : pusher'[u].j = pusher[u].j OBVIOUS
    <3> QED BY <2>2, <3>1 DEF PushLease
  <2>3. ASSUME NEW x \in PushJobs \ pushLapsed', pushes'[x] > 0
        PROVE  \/ \E v \in NtfyWorkers : pusher'[v].j = x /\ pusher'[v].pc = "mark"
               \/ pushJob'[x].status \in Ended /\ \A v \in NtfyWorkers : pusher'[v].j # x
    <3>1. CASE x = j BY <1>5, <2>3, <3>1
    <3>2. CASE x # j BY <2>3, <3>2 DEF PushLease
    <3> QED BY <3>1, <3>2
  <2> QED BY <2>1, <2>2, <2>3 DEF PushLease
<1>7. SecondPushNeedsLapse' BY <1>0, <1>5 DEF SecondPushNeedsLapse
<1> QED BY <1>4, <1>6, <1>7

(* A lease runs out under its holder only as a lapse.                      *)
LEMMA PushLeaseStep ==
  ASSUME NtfyInv, PushTyped', NEW j \in PushJobs, PushLeaseExpires(j)
  PROVE  HoldInv'
<1> USE DEF NtfyInv, HoldInv, Holds
<1>0. /\ pusher' = pusher /\ pushes' = pushes /\ pushLapsed \subseteq pushLapsed' /\ pushJob[j].leased
      /\ j \in pushLapsed' \/ \A w \in NtfyWorkers : pusher[w].j # j
  BY DEF PushLeaseExpires
<1>1. /\ pushJob'[j].status = pushJob[j].status /\ ~pushJob'[j].leased
      /\ \A x \in PushJobs \ {j} : pushJob'[x] = pushJob[x]
  BY DEF PushLeaseExpires, PushTyped, PushRow
<1>2. \A v \in NtfyWorkers : pusher[v].pc # "idle" => pusher[v].j \in PushJobs
  BY DEF PushTyped, PushStation, Holding
<1>3. Holding' BY <1>0, <1>1, <1>2 DEF Holding
<1>4. PushLease'
  <2>1. \A x \in PushJobs : pushJob'[x].leased => pushJob'[x].status = "sending" BY <1>1 DEF PushLease
  <2>2. ASSUME NEW x \in PushJobs \ pushLapsed', NEW v \in NtfyWorkers, pusher'[v].j = x
        PROVE  /\ pushJob'[x].leased \/ pushJob'[x].status \in Ended
               /\ \A u \in NtfyWorkers : pusher'[u].j = x => u = v
    BY <1>0, <1>1, <2>2 DEF PushLease
  <2>3. ASSUME NEW x \in PushJobs \ pushLapsed', pushes'[x] > 0
        PROVE  \/ \E v \in NtfyWorkers : pusher'[v].j = x /\ pusher'[v].pc = "mark"
               \/ pushJob'[x].status \in Ended /\ \A v \in NtfyWorkers : pusher'[v].j # x
    <3>1. pushJob'[x].status = pushJob[x].status BY <1>1
    <3> QED BY <1>0, <2>3, <3>1 DEF PushLease
  <2> QED BY <2>1, <2>2, <2>3 DEF PushLease
<1>5. SecondPushNeedsLapse' BY <1>0 DEF SecondPushNeedsLapse
<1> QED BY <1>3, <1>4, <1>5

-----------------------------------------------------------------------------
(* What the actions do to the rows.                                        *)
Quiet == pushes' = pushes /\ pushLapsed' = pushLapsed

LEMMA CancelsOutside ==
  ASSUME PushTyped, NEW u, pushJob' = CancelPendingJobs(u)
  PROVE  \A x \in PushJobs : /\ Same(x) \/ Cancelled(x)
                             /\ x[1] = u => pushJob'[x].status \notin Open
<1> SUFFICES ASSUME NEW x \in PushJobs
             PROVE  (Same(x) \/ Cancelled(x)) /\ (x[1] = u => pushJob'[x].status \notin Open)
  OBVIOUS
<1>1. pushJob[x] \in PushRow /\ pushJob'[x] = IF x[1] = u THEN CancelJob(pushJob[x]) ELSE pushJob[x]
  BY DEF PushTyped, CancelPendingJobs
<1>2. \/ CancelJob(pushJob[x]) = pushJob[x] /\ pushJob[x].status \notin Open
      \/ pushJob[x].status \in Open /\ CancelJob(pushJob[x]).status = "cancelled" /\ ~CancelJob(pushJob[x]).leased
  BY <1>1, Statements
<1> QED BY <1>1, <1>2 DEF Same, Cancelled, Open

(* The requests, the clock and the steps that touch no row.                *)
Request ==
  \/ \E u \in Subscribers, t \in Topics : GetPreferences(u, t)
  \/ \E u \in Subscribers, t \in Topics, on \in BOOLEAN : UpdatePreferences(u, t, on)
  \/ \E m \in Messages : scheduleMessage(m) \/ PushCommitMessage(m)
  \/ \E j \in PushJobs : Overtaken(j) \/ PushFallsDue(j)
  \/ UNCHANGED ntfyVars

LEMMA RequestFacts ==
  ASSUME PushTyped, Request
  PROVE  /\ Quiet /\ pusher' = pusher /\ rotated' = rotated
         /\ \/ \A x \in PushJobs : Same(x) \/ Inserted(x)
            \/ \A x \in PushJobs : Same(x) \/ Cancelled(x)
<1> DEFINE P == /\ Quiet /\ pusher' = pusher /\ rotated' = rotated
                /\ \/ \A x \in PushJobs : Same(x) \/ Inserted(x)
                   \/ \A x \in PushJobs : Same(x) \/ Cancelled(x)
<1>1. CASE \/ \E u \in Subscribers, t \in Topics : GetPreferences(u, t)
           \/ \E m \in Messages : scheduleMessage(m)
           \/ \E j \in PushJobs : Overtaken(j)
           \/ UNCHANGED ntfyVars
  BY <1>1 DEF GetPreferences, scheduleMessage, Overtaken, ntfyVars, Quiet, Same
<1>2. ASSUME NEW u \in Subscribers, NEW t \in Topics, NEW on \in BOOLEAN, UpdatePreferences(u, t, on)
      PROVE  P
  <2>1. pushJob' = pushJob \/ pushJob' = CancelPendingJobs(u) BY <1>2, Zenon DEF UpdatePreferences
  <2>2. Quiet /\ pusher' = pusher /\ rotated' = rotated BY <1>2 DEF UpdatePreferences, Quiet
  <2>3. CASE pushJob' = pushJob BY <2>2, <2>3 DEF Same
  <2>4. CASE pushJob' = CancelPendingJobs(u) BY <2>2, <2>4, CancelsOutside
  <2> QED BY <2>1, <2>3, <2>4
<1>3. ASSUME NEW m \in Messages, PushCommitMessage(m) PROVE P
  <2>1. ASSUME NEW x \in PushJobs PROVE Same(x) \/ Inserted(x)
    <3>1. pushJob'[x] = IF x \in pushTx[m].to \X {m} THEN InsertJob(pushJob[x]) ELSE pushJob[x] BY <1>3 DEF PushCommitMessage
    <3>2. pushJob[x] \in PushRow BY DEF PushTyped
    <3>3. \/ InsertJob(pushJob[x]) = pushJob[x]
          \/ pushJob[x].status = "none" /\ InsertJob(pushJob[x]).status = "pending" /\ ~InsertJob(pushJob[x]).leased
      BY <3>2, Statements
    <3> QED BY <3>1, <3>3 DEF Same, Inserted
  <2> QED BY <1>3, <2>1 DEF PushCommitMessage, Quiet
<1>4. ASSUME NEW j \in PushJobs, PushFallsDue(j) PROVE P
  <2>1. ASSUME NEW x \in PushJobs PROVE Same(x)
    BY <1>4, <2>1 DEF PushFallsDue, Same, PushTyped, PushRow
  <2> QED BY <1>4, <2>1 DEF PushFallsDue, Quiet, others
<1> QED BY <1>1, <1>2, <1>3, <1>4 DEF Request

LEMMA RotateFacts ==
  ASSUME PushTyped, NEW u \in Subscribers, NEW t \in Topics, RotateTopic(u, t)
  PROVE  /\ Quiet
         /\ \A w \in NtfyWorkers : /\ pusher'[w].pc = pusher[w].pc /\ pusher'[w].j = pusher[w].j
                                   /\ pusher[w].j \in PushJobs /\ pusher[w].j[1] = u
                                        => ~pusher'[w].current
                                   /\ ~pusher[w].current => ~pusher'[w].current
         /\ \A x \in PushJobs : Same(x) \/ Cancelled(x)
         /\ \A x \in rotated' : x \in rotated \/ (x \in PushJobs /\ x[1] = u /\ Cancelled(x))
<1>1. \A x \in PushJobs : /\ Same(x) \/ Cancelled(x)
                          /\ x[1] = u => pushJob'[x].status \notin Open
  BY CancelsOutside DEF RotateTopic
<1>2. ASSUME NEW w \in NtfyWorkers
      PROVE  /\ pusher'[w].pc = pusher[w].pc /\ pusher'[w].j = pusher[w].j
             /\ pusher[w].j \in PushJobs /\ pusher[w].j[1] = u
                                        => ~pusher'[w].current
             /\ ~pusher[w].current => ~pusher'[w].current
  <2>1. pusher[w] \in PushStation BY DEF PushTyped
  <2>2. pusher'[w] = IF pusher[w].j # <<>> /\ pusher[w].j[1] = u
                     THEN [pusher[w] EXCEPT !.current = FALSE] ELSE pusher[w]
    BY DEF RotateTopic
  <2> QED BY <2>1, <2>2, NoJobIsEmpty DEF PushStation
<1>3. \A x \in rotated' : x \in rotated \/ (x \in PushJobs /\ x[1] = u /\ pushJob[x].status \in Open)
  BY DEF RotateTopic
<1>4. \A x \in PushJobs : x[1] = u /\ pushJob[x].status \in Open => Cancelled(x)
  BY <1>1 DEF Same
<1>5. Quiet BY DEF RotateTopic, Quiet
<1>6. \A x \in rotated' : x \in rotated \/ (x \in PushJobs /\ x[1] = u /\ Cancelled(x))
  BY <1>3, <1>4
<1> QED BY <1>1, <1>2, <1>5, <1>6

LEMMA AsideFacts ==
  ASSUME PushTyped, Holding, NEW w \in NtfyWorkers, PutAside(w)
  PROVE  /\ Quiet /\ rotated' = rotated /\ PushRest(w) /\ pusher[w].pc = "cancel" /\ pusher[w].j \in PushJobs
         /\ \A x \in PushJobs \ {pusher[w].j} : pushJob'[x] = pushJob[x]
         /\ Same(pusher[w].j) \/ Cancelled(pusher[w].j)
<1> DEFINE j == pusher[w].j
<1>1. pusher[w].pc = "cancel" /\ Quiet /\ rotated' = rotated /\ PushRest(w) BY DEF PutAside, Quiet, others
<1>2. j \in PushJobs BY <1>1 DEF PushTyped, PushStation, Holding
<1>3. pushJob[j] \in PushRow /\ pushJob' = [pushJob EXCEPT ![j] = CancelJob(pushJob[j])] BY <1>2 DEF PushTyped, PutAside
<1>4. \/ CancelJob(pushJob[j]) = pushJob[j] /\ pushJob[j].status \notin Open
      \/ pushJob[j].status \in Open /\ CancelJob(pushJob[j]).status = "cancelled" /\ ~CancelJob(pushJob[j]).leased
  BY <1>3, Statements
<1>5. pushJob'[j] = CancelJob(pushJob[j]) /\ \A x \in PushJobs \ {j} : pushJob'[x] = pushJob[x] BY <1>2, <1>3 DEF PushTyped
<1> QED BY <1>1, <1>2, <1>4, <1>5 DEF Same, Cancelled

LEMMA OutcomeFacts ==
  ASSUME PushTyped, Holding, NEW w \in NtfyWorkers, RecordOutcome(w)
  PROVE  /\ Quiet /\ rotated' = rotated /\ PushRest(w) /\ pusher[w].pc \in {"mark", "fail"}
         /\ pusher[w].j \in PushJobs
         /\ \A x \in PushJobs \ {pusher[w].j} : pushJob'[x] = pushJob[x]
         /\ pushJob[pusher[w].j].status # "sending" => pushJob'[pusher[w].j] = pushJob[pusher[w].j]
         /\ pushJob[pusher[w].j].status = "sending" =>
              /\ ~pushJob'[pusher[w].j].leased
              /\ pusher[w].pc = "mark" => pushJob'[pusher[w].j].status = "sent"
              /\ pusher[w].pc = "fail" => pushJob'[pusher[w].j].status \in {"pending", "failed"}
<1> DEFINE j == pusher[w].j
           n == pusher[w].attempt + 1
<1>1. pusher[w].pc \in {"mark", "fail"} /\ Quiet /\ rotated' = rotated /\ PushRest(w)
  BY DEF RecordOutcome, Quiet, others
<1>2. j \in PushJobs /\ n \in Nat BY <1>1 DEF PushTyped, PushStation, Holding
<1>3. pushJob[j] \in PushRow
      /\ pushJob' = [pushJob EXCEPT ![j] = IF pusher[w].pc = "mark" THEN MarkSent(pushJob[j])
                                   ELSE IF n <= RetryDelays THEN RetryJob(pushJob[j], n)
                                   ELSE MarkFailed(pushJob[j], n)]
  BY <1>2 DEF PushTyped, RecordOutcome
<1>4. /\ pushJob[j].status # "sending" =>
           MarkSent(pushJob[j]) = pushJob[j] /\ RetryJob(pushJob[j], n) = pushJob[j] /\ MarkFailed(pushJob[j], n) = pushJob[j]
      /\ pushJob[j].status = "sending" =>
           /\ MarkSent(pushJob[j]).status = "sent" /\ ~MarkSent(pushJob[j]).leased
           /\ RetryJob(pushJob[j], n).status = "pending" /\ ~RetryJob(pushJob[j], n).leased
           /\ MarkFailed(pushJob[j], n).status = "failed" /\ ~MarkFailed(pushJob[j], n).leased
  <2> HIDE DEF n
  <2> QED BY <1>2, <1>3, Verdicts
<1>5. /\ pushJob'[j] \in {MarkSent(pushJob[j]), RetryJob(pushJob[j], n), MarkFailed(pushJob[j], n)}
      /\ pusher[w].pc = "mark" => pushJob'[j] = MarkSent(pushJob[j])
      /\ pusher[w].pc = "fail" => pushJob'[j] \in {RetryJob(pushJob[j], n), MarkFailed(pushJob[j], n)}
      /\ \A x \in PushJobs \ {j} : pushJob'[x] = pushJob[x]
  BY <1>2, <1>3 DEF PushTyped
<1> HIDE DEF n
<1> QED BY <1>1, <1>2, <1>4, <1>5

LEMMA ReadFacts ==
  ASSUME PushTyped, Holding, NEW w \in NtfyWorkers, GetDeliveryJob(w)
  PROVE  /\ Quiet /\ pushJob' = pushJob /\ rotated' = rotated /\ pusher[w].pc = "claimed"
         /\ pusher'[w].j = pusher[w].j
         /\ pusher[w].j \in PushJobs
         /\ \/ pusher'[w].pc = "cancel"
            \/ pusher'[w].pc = "publish" /\ pushJob[pusher[w].j].status = "sending"
         /\ \A v \in NtfyWorkers \ {w} : pusher'[v] = pusher[v]
<1>1. pusher[w].pc = "claimed" BY DEF GetDeliveryJob
<1>2. pusher[w].j \in PushJobs BY <1>1 DEF PushTyped, PushStation, Holding
<1> QED BY <1>1, <1>2 DEF GetDeliveryJob, Quiet, others, PushTyped

LEMMA PublishFacts ==
  ASSUME PushTyped, Holding, NEW w \in NtfyWorkers, Publish(w)
  PROVE  /\ pushJob' = pushJob /\ pushLapsed' = pushLapsed /\ rotated' = rotated /\ pusher[w].pc = "publish"
         /\ pusher[w].j \in PushJobs /\ pusher'[w].j = pusher[w].j
         /\ \A v \in NtfyWorkers \ {w} : pusher'[v] = pusher[v]
         /\ \/ pusher'[w].pc = "fail" /\ pushes' = pushes
            \/ pusher'[w].pc = "mark"
               /\ pushes' = [pushes EXCEPT ![pusher[w].j] = IF pushes[pusher[w].j] = 2 THEN 2
                                                            ELSE pushes[pusher[w].j] + 1]
<1>1. pusher[w].pc = "publish" BY DEF Publish
<1>2. pusher[w].j \in PushJobs BY <1>1 DEF PushTyped, PushStation, Holding
<1> QED BY <1>1, <1>2 DEF Publish, others, PushTyped, PushStation

LEMMA HoldStep == NtfyInv /\ PushTyped' /\ [NtfyNext]_ntfyVars => HoldInv'
<1> SUFFICES ASSUME NtfyInv, PushTyped', [NtfyNext]_ntfyVars PROVE HoldInv' OBVIOUS
<1>0. PushTyped /\ Holding /\ PushLease BY DEF NtfyInv
<1>1. CASE Request
  BY <1>0, <1>1, RequestFacts, OutsideStep DEF Quiet, Outside
<1>2. ASSUME NEW u \in Subscribers, NEW t \in Topics, RotateTopic(u, t) PROVE HoldInv'
  <2>1. /\ Quiet
        /\ \A w \in NtfyWorkers : pusher'[w].pc = pusher[w].pc /\ pusher'[w].j = pusher[w].j
        /\ \A x \in PushJobs : Same(x) \/ Cancelled(x)
    BY <1>0, <1>2, RotateFacts
  <2> QED BY <2>1, OutsideStep DEF Quiet, Outside
<1>3. ASSUME NEW w \in NtfyWorkers, NEW j \in PushJobs, Claim(w, j) PROVE HoldInv'
  BY <1>3, PushClaimStep
<1>4. ASSUME NEW w \in NtfyWorkers, GetDeliveryJob(w) PROVE HoldInv'
  <2>1. /\ Quiet /\ pushJob' = pushJob /\ pusher[w].pc = "claimed" /\ pusher'[w].j = pusher[w].j
        /\ pusher'[w].pc \in {"cancel", "publish"}
        /\ \A v \in NtfyWorkers \ {w} : pusher'[v] = pusher[v]
    BY <1>0, <1>4, ReadFacts
  <2> QED BY <2>1, GoOnStep DEF Quiet
<1>5. ASSUME NEW w \in NtfyWorkers, Publish(w) PROVE HoldInv'
  <2>1. /\ pushJob' = pushJob /\ pushLapsed' = pushLapsed /\ pusher[w].pc = "publish"
        /\ pusher[w].j \in PushJobs /\ pusher'[w].j = pusher[w].j
        /\ \A v \in NtfyWorkers \ {w} : pusher'[v] = pusher[v]
        /\ \/ pusher'[w].pc = "fail" /\ pushes' = pushes
           \/ pusher'[w].pc = "mark"
              /\ pushes' = [pushes EXCEPT ![pusher[w].j] = IF pushes[pusher[w].j] = 2 THEN 2
                                                           ELSE pushes[pusher[w].j] + 1]
    BY <1>0, <1>5, PublishFacts
  <2>2. /\ \A x \in PushJobs \ {pusher[w].j} : pushes'[x] = pushes[x]
        /\ pusher'[w].pc = "mark" => pushes'[pusher[w].j] = (IF pushes[pusher[w].j] = 2 THEN 2
                                                             ELSE pushes[pusher[w].j] + 1)
    BY <1>0, <2>1 DEF PushTyped
  <2> QED BY <2>1, <2>2, GoOnStep
<1>6. ASSUME NEW w \in NtfyWorkers, PutAside(w) PROVE HoldInv'
  <2> DEFINE j == pusher[w].j
  <2>1. /\ Quiet /\ PushRest(w) /\ pusher[w].pc = "cancel" /\ j \in PushJobs
        /\ \A x \in PushJobs \ {j} : pushJob'[x] = pushJob[x]
        /\ Same(j) \/ Cancelled(j)
    BY <1>0, <1>6, AsideFacts
  <2>2. /\ pushJob'[j].status # "none" /\ (pushJob'[j].leased => pushJob'[j].status = "sending")
        /\ pushJob[j].status \in Ended => pushJob'[j].status \in Ended
    BY <1>0, <2>1 DEF Same, Cancelled, Holding, PushLease, Open, Ended
  <2> HIDE DEF j
  <2>3. j = pusher[w].j BY DEF j
  <2> QED BY <2>1, <2>2, <2>3, LetGoStep DEF Quiet
<1>7. ASSUME NEW w \in NtfyWorkers, RecordOutcome(w) PROVE HoldInv'
  <2> DEFINE j == pusher[w].j
  <2>1. /\ Quiet /\ PushRest(w) /\ pusher[w].pc \in {"mark", "fail"} /\ j \in PushJobs
        /\ \A x \in PushJobs \ {j} : pushJob'[x] = pushJob[x]
        /\ pushJob[j].status # "sending" => pushJob'[j] = pushJob[j]
        /\ pushJob[j].status = "sending" =>
             /\ ~pushJob'[j].leased
             /\ pusher[w].pc = "mark" => pushJob'[j].status = "sent"
             /\ pusher[w].pc = "fail" => pushJob'[j].status \in {"pending", "failed"}
    BY <1>0, <1>7, OutcomeFacts
  <2>2. pushJob[j].status # "none" /\ (pushJob[j].leased => pushJob[j].status = "sending")
    BY <1>0, <2>1 DEF Holding, PushLease
  <2>3. j \notin pushLapsed => pushJob[j].leased \/ pushJob[j].status \in Ended
    BY <1>0, <2>1 DEF PushLease, Holds
  <2>4. /\ pushJob'[j].status # "none" /\ (pushJob'[j].leased => pushJob'[j].status = "sending")
        /\ pushJob[j].status \in Ended => pushJob'[j].status \in Ended
    BY <2>1, <2>2 DEF Ended
  <2>5. j \notin pushLapsed /\ pusher[w].pc = "mark" => pushJob'[j].status \in Ended
    BY <2>1, <2>2, <2>3 DEF Ended
  <2> HIDE DEF j
  <2>6. j = pusher[w].j BY DEF j
  <2> QED BY <2>1, <2>4, <2>5, <2>6, LetGoStep DEF Quiet
<1>8. ASSUME NEW w \in NtfyWorkers, PushAbandon(w) PROVE HoldInv'
  <2> DEFINE j == pusher[w].j
  <2>1. /\ pusher[w].pc # "idle" /\ PushRest(w) /\ pushes' = pushes /\ pushJob' = pushJob
        /\ pushLapsed' = pushLapsed \union {j}
    BY <1>8 DEF PushAbandon
  <2>2. j \in PushJobs /\ pushJob[j].status # "none" /\ (pushJob[j].leased => pushJob[j].status = "sending")
    BY <1>0, <2>1 DEF PushTyped, PushStation, Holding, PushLease
  <2> HIDE DEF j
  <2>3. j = pusher[w].j BY DEF j
  <2> QED BY <2>1, <2>2, <2>3, LetGoStep
<1>9. ASSUME NEW j \in PushJobs, PushLeaseExpires(j) PROVE HoldInv'
  BY <1>9, PushLeaseStep
<1> QED BY <1>1, <1>2, <1>3, <1>4, <1>5, <1>6, <1>7, <1>8, <1>9 DEF NtfyNext, WorkerStep, Request

LEMMA RotatedStep == NtfyInv /\ [NtfyNext]_ntfyVars => Rotated'
<1> SUFFICES ASSUME NtfyInv, [NtfyNext]_ntfyVars PROVE Rotated' OBVIOUS
<1>0. PushTyped /\ Holding /\ Rotated BY DEF NtfyInv
<1> USE DEF Rotated, Holds
<1>1. CASE Request
  <2>1. /\ pusher' = pusher /\ rotated' = rotated
        /\ \A x \in PushJobs : Same(x) \/ Inserted(x) \/ Cancelled(x)
    BY <1>0, <1>1, RequestFacts
  <2> QED BY <1>0, <2>1 DEF Same, Inserted, Cancelled, Open, Ended
<1>2. ASSUME NEW u \in Subscribers, NEW t \in Topics, RotateTopic(u, t) PROVE Rotated'
  <2>1. /\ \A w \in NtfyWorkers : /\ pusher'[w].pc = pusher[w].pc /\ pusher'[w].j = pusher[w].j
                                  /\ pusher[w].j \in PushJobs /\ pusher[w].j[1] = u
                                        => ~pusher'[w].current
                                  /\ ~pusher[w].current => ~pusher'[w].current
        /\ \A x \in PushJobs : Same(x) \/ Cancelled(x)
        /\ \A x \in rotated' : x \in rotated \/ (x \in PushJobs /\ x[1] = u /\ Cancelled(x))
    BY <1>0, <1>2, RotateFacts
  <2> QED BY <1>0, <2>1 DEF Same, Cancelled, Open, Ended
<1>3. ASSUME NEW w \in NtfyWorkers, NEW j \in PushJobs, Claim(w, j) PROVE Rotated'
  <2>1. rotated' = rotated /\ pushJob[j].status \in Open BY <1>3 DEF Claim, others, Claimable
  <2>2. /\ \A x \in PushJobs \ {j} : pushJob'[x] = pushJob[x]
        /\ pusher'[w].pc = "claimed" /\ \A v \in NtfyWorkers \ {w} : pusher'[v] = pusher[v]
    BY <1>0, <1>3 DEF Claim, PushTyped, PushAtRest
  <2>3. j \notin rotated BY <1>0, <2>1 DEF Open, Ended
  <2> QED BY <1>0, <2>1, <2>2, <2>3
<1>4. ASSUME NEW w \in NtfyWorkers, GetDeliveryJob(w) PROVE Rotated'
  <2>1. /\ pushJob' = pushJob /\ rotated' = rotated /\ pusher'[w].j = pusher[w].j
        /\ \/ pusher'[w].pc = "cancel"
           \/ pusher'[w].pc = "publish" /\ pushJob[pusher[w].j].status = "sending"
        /\ \A v \in NtfyWorkers \ {w} : pusher'[v] = pusher[v]
    BY <1>0, <1>4, ReadFacts
  <2> QED BY <1>0, <2>1 DEF Ended
<1>5. ASSUME NEW w \in NtfyWorkers, Publish(w) PROVE Rotated'
  <2>1. /\ pushJob' = pushJob /\ rotated' = rotated /\ pusher'[w].pc # "publish"
        /\ \A v \in NtfyWorkers \ {w} : pusher'[v] = pusher[v]
    BY <1>0, <1>5, PublishFacts
  <2> QED BY <1>0, <2>1
<1>6. ASSUME NEW w \in NtfyWorkers, PutAside(w) \/ RecordOutcome(w) \/ PushAbandon(w) PROVE Rotated'
  <2>1. rotated' = rotated /\ PushRest(w) BY <1>6 DEF PutAside, RecordOutcome, PushAbandon, others
  <2>2. pusher'[w].pc = "idle" /\ \A v \in NtfyWorkers \ {w} : pusher'[v] = pusher[v]
    BY <1>0, <2>1 DEF PushRest, PushAtRest, PushTyped
  <2>3. ASSUME NEW x \in rotated PROVE pushJob'[x].status \in Ended
    <3>0. x \in PushJobs /\ pushJob[x].status \in Ended BY <1>0, <2>3
    <3>1. CASE PutAside(w)
      <4>1. pushJob'[x] = pushJob[x] \/ Same(x) \/ Cancelled(x) BY <1>0, <3>0, <3>1, AsideFacts
      <4> QED BY <3>0, <4>1 DEF Same, Cancelled, Ended
    <3>2. CASE RecordOutcome(w)
      <4>1. pushJob'[x] = pushJob[x] BY <1>0, <3>0, <3>2, OutcomeFacts DEF Ended
      <4> QED BY <3>0, <4>1
    <3>3. CASE PushAbandon(w) BY <3>0, <3>3 DEF PushAbandon
    <3> QED BY <1>6, <3>1, <3>2, <3>3
  <2> QED BY <1>0, <2>1, <2>2, <2>3
<1>7. ASSUME NEW j \in PushJobs, PushLeaseExpires(j) PROVE Rotated'
  <2>1. rotated' = rotated /\ pusher' = pusher BY <1>7 DEF PushLeaseExpires, others
  <2>2. \A x \in PushJobs : pushJob'[x].status = pushJob[x].status BY <1>0, <1>7 DEF PushLeaseExpires, PushTyped, PushRow
  <2> QED BY <1>0, <2>1, <2>2
<1> QED BY <1>1, <1>2, <1>3, <1>4, <1>5, <1>6, <1>7 DEF NtfyNext, WorkerStep, Request

LEMMA InvStep == NtfyInv /\ [NtfyNext]_ntfyVars => NtfyInv'
BY TypedStep, HoldStep, RotatedStep DEF NtfyInv, HoldInv

(* A second notification for one job needs a worker that lost it, with any *)
(* number of workers and jobs: the lease keeps them apart.                 *)
THEOREM SecondPushCorrect == NtfySpec => []SecondPushNeedsLapse
<1>1. NtfyInv => SecondPushNeedsLapse BY DEF NtfyInv
<1> QED BY <1>1, InvInit, InvStep, PTL DEF NtfySpec

(* Replacing the topic ends what was waiting for the old one, however      *)
(* rotations, claims and publications interleave.                          *)
THEOREM RotationCorrect == NtfySpec => RotationCancels
<1> DEFINE A == \A j \in rotated : pushes'[j] # pushes[j] =>
                  \E w \in NtfyWorkers : /\ pusher[w].j = j /\ pusher[w].pc = "publish"
                                         /\ ~pusher[w].current
<1>1. ASSUME NtfyInv, [NtfyNext]_ntfyVars PROVE A
  <2>0. PushTyped /\ Holding /\ Rotated BY <1>1 DEF NtfyInv
  <2>1. ASSUME NEW w \in NtfyWorkers, Publish(w), NEW j \in rotated, pushes'[j] # pushes[j]
        PROVE  pusher[w].j = j /\ pusher[w].pc = "publish" /\ ~pusher[w].current
    <3>1. pusher[w].pc = "publish" /\ pusher[w].j \in PushJobs BY <2>0, <2>1, PublishFacts
    <3>2. \/ pushes' = pushes
          \/ pushes' = [pushes EXCEPT ![pusher[w].j] = IF pushes[pusher[w].j] = 2 THEN 2
                                                       ELSE pushes[pusher[w].j] + 1]
      BY <2>0, <2>1, PublishFacts
    <3>3. pusher[w].j = j BY <2>0, <2>1, <3>1, <3>2 DEF PushTyped, Rotated
    <3> QED BY <2>0, <2>1, <3>1, <3>3 DEF Rotated, Holds
  <2>2. (\E w \in NtfyWorkers : Publish(w)) \/ pushes' = pushes
    BY <1>1 DEF NtfyNext, WorkerStep, ntfyVars, GetPreferences, RotateTopic, UpdatePreferences,
      scheduleMessage, PushCommitMessage, Claim, GetDeliveryJob, PutAside, RecordOutcome, PushAbandon,
      Overtaken, PushLeaseExpires, PushFallsDue
  <2> QED BY <2>1, <2>2
<1>2. NtfyInv /\ [NtfyNext]_ntfyVars => [A]_ntfyVars BY <1>1
<1> QED BY <1>2, InvInit, InvStep, PTL DEF NtfySpec, RotationCancels

-----------------------------------------------------------------------------
(* The bounds: a job that may still be sent has a retry left, and so has   *)
(* what a worker is about to publish or record.                            *)
Sound(r) == r.attempt <= RetryDelays + 1 /\ (r.status \in Open => r.attempt <= RetryDelays)
Measured(s) == /\ s.attempt <= RetryDelays + 1
               /\ s.pc \in {"publish", "mark", "fail"} => s.attempt <= RetryDelays
Attempts == /\ \A j \in PushJobs : Sound(pushJob[j])
            /\ \A w \in NtfyWorkers : Measured(pusher[w])
Surroundings ==
  /\ pushTx \in [Messages -> [st : {"none", "tx", "done"}, to : SUBSET Subscribers]]
  /\ pushPertinent \subseteq PushJobs /\ rotated \subseteq PushJobs
  /\ pushLapsed \subseteq PushJobs /\ pushLapses \in 0..MaxPushLapses

LEMMA SurroundingsStep ==
  ASSUME MaxPushLapses \in Nat, NtfyInv, Surroundings, [NtfyNext]_ntfyVars
  PROVE  Surroundings'
<1>0. PushTyped /\ Holding BY DEF NtfyInv
<1> USE DEF Surroundings
<1>1. ASSUME NEW m \in Messages, scheduleMessage(m) PROVE Surroundings'
  <2>1. PICK S \in SUBSET Subscribers : pushTx' = [pushTx EXCEPT ![m] = [st |-> "tx", to |-> S]]
    BY <1>1 DEF scheduleMessage
  <2>2. pushTx' \in [Messages -> [st : {"none", "tx", "done"}, to : SUBSET Subscribers]] BY <2>1
  <2> QED BY <1>1, <2>2 DEF scheduleMessage
<1>2. ASSUME NEW m \in Messages, PushCommitMessage(m) PROVE Surroundings'
  <2>1. pushTx' \in [Messages -> [st : {"none", "tx", "done"}, to : SUBSET Subscribers]]
    BY <1>2 DEF PushCommitMessage
  <2>2. pushPertinent' \subseteq PushJobs BY <1>2 DEF PushCommitMessage, PushJobs
  <2> QED BY <1>2, <2>1, <2>2 DEF PushCommitMessage
<1>3. ASSUME NEW u \in Subscribers, NEW t \in Topics, NEW on \in BOOLEAN, UpdatePreferences(u, t, on)
      PROVE  Surroundings'
  BY <1>3 DEF UpdatePreferences
<1>4. ASSUME NEW u \in Subscribers, NEW t \in Topics, GetPreferences(u, t) \/ RotateTopic(u, t)
      PROVE  Surroundings'
  BY <1>4 DEF GetPreferences, RotateTopic
<1>5. ASSUME NEW w \in NtfyWorkers, WorkerStep(w) PROVE Surroundings'
  BY <1>5 DEF WorkerStep, Claim, GetDeliveryJob, PutAside, Publish, RecordOutcome, others
<1>6. ASSUME NEW w \in NtfyWorkers, PushAbandon(w) PROVE Surroundings'
  <2>1. pusher[w].j \in PushJobs BY <1>0, <1>6 DEF PushAbandon, PushTyped, Holding, PushStation
  <2> QED BY <1>6, <2>1 DEF PushAbandon, others
<1>7. ASSUME NEW j \in PushJobs, Overtaken(j) \/ PushLeaseExpires(j) \/ PushFallsDue(j) PROVE Surroundings'
  BY <1>7 DEF Overtaken, PushLeaseExpires, PushFallsDue, others
<1>8. CASE UNCHANGED ntfyVars BY <1>8 DEF ntfyVars
<1> QED BY <1>1, <1>2, <1>3, <1>4, <1>5, <1>6, <1>7, <1>8 DEF NtfyNext

(* What becomes of the attempts of a row.                                  *)
LEMMA SoundRows ==
  ASSUME RetryDelays \in Nat, NEW r \in PushRow, Sound(r), NEW n \in 0..(RetryDelays + 1)
  PROVE  /\ Sound(InsertJob(r)) /\ (r.status \in Open => Sound(ClaimJob(r)))
         /\ Sound(CancelJob(r)) /\ Sound(MarkSent(r)) /\ Sound(MarkFailed(r, n))
         /\ n <= RetryDelays => Sound(RetryJob(r, n))
         /\ Sound([r EXCEPT !.leased = FALSE]) /\ Sound([r EXCEPT !.due = TRUE])
<1> USE DEF Sound, PushRow, Open, Ended
<1>1. Sound(InsertJob(r)) BY DEF InsertJob, NoPushJob
<1>2. r.status \in Open => Sound(ClaimJob(r)) BY DEF ClaimJob
<1>3. Sound(CancelJob(r)) BY DEF CancelJob
<1>4. Sound(MarkSent(r)) /\ Sound(MarkFailed(r, n)) BY DEF MarkSent, MarkFailed
<1>5. n <= RetryDelays => Sound(RetryJob(r, n)) BY DEF RetryJob
<1>6. Sound([r EXCEPT !.leased = FALSE]) /\ Sound([r EXCEPT !.due = TRUE]) OBVIOUS
<1> QED BY <1>1, <1>2, <1>3, <1>4, <1>5, <1>6

LEMMA AttemptsStep ==
  ASSUME RetryDelays \in Nat, NtfyInv, Attempts, [NtfyNext]_ntfyVars
  PROVE  Attempts'
<1>0. PushTyped /\ Holding BY DEF NtfyInv
<1>1. \A x \in PushJobs :
        /\ Sound(InsertJob(pushJob[x])) /\ (pushJob[x].status \in Open => Sound(ClaimJob(pushJob[x])))
        /\ Sound(CancelJob(pushJob[x])) /\ Sound(MarkSent(pushJob[x]))
        /\ Sound([pushJob[x] EXCEPT !.leased = FALSE]) /\ Sound([pushJob[x] EXCEPT !.due = TRUE])
  BY <1>0, SoundRows DEF Attempts, PushTyped
<1>2. Measured(PushAtRest) BY DEF Measured, PushAtRest
<1>3. ASSUME NEW w \in NtfyWorkers
      PROVE  /\ pusher[w] \in PushStation /\ Measured(pusher[w])
             /\ pusher[w].pc # "idle" => pusher[w].j \in PushJobs
  BY <1>0 DEF PushTyped, Holding, Attempts, PushStation
<1>j. ASSUME \A x \in PushJobs : Sound(pushJob'[x]), pusher' = pusher PROVE Attempts'
  BY <1>j DEF Attempts
<1>4. ASSUME NEW m \in Messages, scheduleMessage(m) \/ PushCommitMessage(m) PROVE Attempts'
  <2>1. \A x \in PushJobs : Sound(pushJob'[x])
    BY <1>1, <1>4 DEF scheduleMessage, PushCommitMessage, Attempts
  <2> QED BY <1>4, <1>j, <2>1 DEF scheduleMessage, PushCommitMessage
<1>5. ASSUME NEW u \in Subscribers, NEW t \in Topics, GetPreferences(u, t) PROVE Attempts'
  BY <1>5, <1>j DEF GetPreferences, Attempts
<1>6. ASSUME NEW u \in Subscribers, NEW t \in Topics, NEW on \in BOOLEAN, UpdatePreferences(u, t, on)
      PROVE  Attempts'
  <2>1. pushJob' = pushJob \/ pushJob' = CancelPendingJobs(u) BY <1>6, Zenon DEF UpdatePreferences
  <2>2. \A x \in PushJobs : Sound(pushJob'[x]) BY <1>1, <2>1 DEF CancelPendingJobs, Attempts
  <2> QED BY <1>6, <1>j, <2>2 DEF UpdatePreferences
<1>7. ASSUME NEW u \in Subscribers, NEW t \in Topics, RotateTopic(u, t) PROVE Attempts'
  <2>1. \A x \in PushJobs : Sound(pushJob'[x]) BY <1>1, <1>7 DEF RotateTopic, CancelPendingJobs, Attempts
  <2>2. ASSUME NEW w \in NtfyWorkers PROVE Measured(pusher'[w])
    <3>1. pusher'[w] = pusher[w] \/ pusher'[w] = [pusher[w] EXCEPT !.current = FALSE]
      BY <1>7 DEF RotateTopic
    <3> QED BY <1>3, <3>1 DEF Measured, PushStation
  <2> QED BY <2>1, <2>2 DEF Attempts
<1>w. ASSUME NEW w \in NtfyWorkers, NEW s, pusher' = [pusher EXCEPT ![w] = s], Measured(s),
             \A x \in PushJobs : Sound(pushJob'[x])
      PROVE  Attempts'
  BY <1>0, <1>3, <1>w DEF Attempts, PushTyped
<1>8. ASSUME NEW w \in NtfyWorkers, NEW j \in PushJobs, Claim(w, j) PROVE Attempts'
  <2>1. \A x \in PushJobs : Sound(pushJob'[x])
    BY <1>0, <1>1, <1>8 DEF Claim, Claimable, Attempts, PushTyped
  <2> DEFINE s == [PushAtRest EXCEPT !.pc = "claimed", !.j = j]
  <2>2. Measured(s) /\ pusher' = [pusher EXCEPT ![w] = s] BY <1>8 DEF Measured, PushAtRest, Claim
  <2> HIDE DEF s
  <2> QED BY <1>w, <2>1, <2>2
<1>9. ASSUME NEW w \in NtfyWorkers, GetDeliveryJob(w) PROVE Attempts'
  <2>1. PICK j \in PushJobs : j = pusher[w].j BY <1>3, <1>9 DEF GetDeliveryJob
  <2> DEFINE p == IF pushJob[j].status = "sending" /\ isEligible(j) THEN "publish" ELSE "cancel"
             s == [pc |-> p, j |-> j, topic |-> pref[j[1]].topic, current |-> TRUE,
                   attempt |-> pushJob[j].attempt]
  <2>2. p = "publish" => pushJob[j].attempt <= RetryDelays BY DEF Attempts, Sound, Open
  <2>3. p \notin {"mark", "fail"} OBVIOUS
  <2>4. pusher' = [pusher EXCEPT ![w] = s] /\ pushJob' = pushJob BY <1>9, <2>1 DEF GetDeliveryJob
  <2> HIDE DEF p
  <2>5. Measured(s) BY <2>2, <2>3 DEF Measured, Attempts, Sound
  <2> HIDE DEF s
  <2> QED BY <1>w, <2>4, <2>5 DEF Attempts
<1>10. ASSUME NEW w \in NtfyWorkers, PutAside(w) PROVE Attempts'
  <2>1. pusher[w].j \in PushJobs BY <1>3, <1>10 DEF PutAside
  <2>2. \A x \in PushJobs : Sound(pushJob'[x]) BY <1>0, <1>1, <1>10, <2>1 DEF PutAside, Attempts, PushTyped
  <2> QED BY <1>2, <1>10, <1>w, <2>2 DEF PutAside, PushRest
<1>11. ASSUME NEW w \in NtfyWorkers, Publish(w) PROVE Attempts'
  <2>1. PICK p \in {"mark", "fail"} : pusher' = [pusher EXCEPT ![w] = [pusher[w] EXCEPT !.pc = p]]
    BY <1>11 DEF Publish
  <2>2. Measured([pusher[w] EXCEPT !.pc = p]) BY <1>3, <1>11 DEF Measured, Publish, PushStation
  <2> QED BY <1>11, <1>w, <2>1, <2>2 DEF Publish, Attempts
<1>12. ASSUME NEW w \in NtfyWorkers, RecordOutcome(w) PROVE Attempts'
  <2> DEFINE n == pusher[w].attempt + 1
  <2>1. pusher[w].j \in PushJobs /\ n \in 0..(RetryDelays + 1)
    BY <1>3, <1>12 DEF RecordOutcome, Measured, PushStation
  <2>2. /\ Sound(MarkFailed(pushJob[pusher[w].j], n))
        /\ n <= RetryDelays => Sound(RetryJob(pushJob[pusher[w].j], n))
    BY <1>0, <2>1, SoundRows DEF Attempts, PushTyped
  <2>3. \/ pushJob' = [pushJob EXCEPT ![pusher[w].j] = MarkSent(pushJob[pusher[w].j])]
        \/ n <= RetryDelays /\ pushJob' = [pushJob EXCEPT ![pusher[w].j] = RetryJob(pushJob[pusher[w].j], n)]
        \/ pushJob' = [pushJob EXCEPT ![pusher[w].j] = MarkFailed(pushJob[pusher[w].j], n)]
    BY <1>12 DEF RecordOutcome
  <2> HIDE DEF n
  <2>4. \A x \in PushJobs : Sound(pushJob'[x]) BY <1>0, <1>1, <2>1, <2>2, <2>3 DEF Attempts, PushTyped
  <2> QED BY <1>2, <1>12, <1>w, <2>4 DEF RecordOutcome, PushRest
<1>13. ASSUME NEW w \in NtfyWorkers, PushAbandon(w) PROVE Attempts'
  BY <1>2, <1>13, <1>w DEF PushAbandon, PushRest, Attempts
<1>14. ASSUME NEW j \in PushJobs, Overtaken(j) \/ PushLeaseExpires(j) \/ PushFallsDue(j) PROVE Attempts'
  <2>1. \/ pushJob' = pushJob
        \/ pushJob' = [pushJob EXCEPT ![j] = [pushJob[j] EXCEPT !.leased = FALSE]]
        \/ pushJob' = [pushJob EXCEPT ![j] = [pushJob[j] EXCEPT !.due = TRUE]]
    BY <1>14 DEF Overtaken, PushLeaseExpires, PushFallsDue
  <2>2. \A x \in PushJobs : Sound(pushJob'[x]) BY <1>0, <1>1, <2>1 DEF Attempts, PushTyped
  <2> QED BY <1>14, <1>j, <2>2 DEF Overtaken, PushLeaseExpires, PushFallsDue
<1>15. CASE UNCHANGED ntfyVars BY <1>15 DEF ntfyVars, Attempts
<1> QED BY <1>4, <1>5, <1>6, <1>7, <1>8, <1>9, <1>10, <1>11, <1>12, <1>13, <1>14, <1>15
        DEF NtfyNext, WorkerStep

(* Every row, plan and worker keeps its shape; above all no job is tried   *)
(* more often than the delays allow, whatever leases run out.              *)
THEOREM PushTypesCorrect ==
  ASSUME RetryDelays \in Nat, MaxPushLapses \in Nat
  PROVE  NtfySpec => []NtfyTypeOK
<1> DEFINE I == NtfyInv /\ Surroundings /\ Attempts
<1>1. NtfyInit => I
  <2>1. NtfyInit => Surroundings /\ Attempts
    BY DEF NtfyInit, Surroundings, Attempts, Sound, Measured, NoPushJob, PushAtRest
  <2> QED BY <2>1, InvInit
<1>2. I /\ [NtfyNext]_ntfyVars => I' BY InvStep, SurroundingsStep, AttemptsStep
<1>3. I => NtfyTypeOK
  <2> SUFFICES ASSUME I PROVE NtfyTypeOK OBVIOUS
  <2>1. PushTyped /\ Surroundings /\ Attempts BY DEF NtfyInv
  <2>2. \A j \in PushJobs : pushJob[j].attempt \in 0..(RetryDelays + 1)
    BY <2>1 DEF Attempts, Sound, PushTyped, PushRow
  <2>3. \A j \in PushJobs : pushJob[j] \in [status : {"none"} \union Open \union Ended, leased : BOOLEAN,
                                        due : BOOLEAN, attempt : 0..(RetryDelays + 1)]
    BY <2>1, <2>2 DEF PushTyped, PushRow
  <2>4. \A w \in NtfyWorkers : pusher[w].pc \in Stations BY <2>1 DEF PushTyped, PushStation
  <2> QED BY <2>1, <2>3, <2>4 DEF PushTyped, Surroundings, NtfyTypeOK, Stations
<1> HIDE DEF I
<1> QED BY <1>1, <1>2, <1>3, PTL DEF NtfySpec

-----------------------------------------------------------------------------
(* Refinement: every step opens jobs, notifies, decides or leaves the      *)
(* ledger alone.                                                           *)
Verdict == [j \in PushJobs |-> IF pushJob[j].status \in Open THEN "open" ELSE pushJob[j].status]
Left == [j \in PushJobs |-> pushes[j] > 0]

LEMMA LedgerSame ==
  ASSUME \A x \in PushJobs : \/ pushJob'[x].status = pushJob[x].status
                             \/ pushJob'[x].status \in Open /\ pushJob[x].status \in Open
  PROVE  Verdict' = Verdict
BY DEF Verdict

(* One row decided.                                                        *)
LEMMA LedgerDecides ==
  ASSUME NEW S \in SUBSET PushJobs, NEW v \in {"sent", "failed", "cancelled"}, pushes' = pushes,
         \A x \in S : pushJob[x].status \in Open /\ pushJob'[x].status = v /\ (v = "sent" => pushes[x] > 0),
         \A x \in PushJobs \ S : pushJob'[x].status = pushJob[x].status
  PROVE  Ledger!LedgerNext
<1>1. \A x \in S : Verdict[x] = "open" /\ (v = "sent" => Left[x]) BY DEF Verdict, Left
<1>2. Verdict' = [x \in PushJobs |-> IF x \in S THEN v ELSE Verdict[x]] BY DEF Verdict, Open
<1>3. Left' = Left BY DEF Left
<1> QED BY <1>1, <1>2, <1>3 DEF Ledger!LedgerNext, Ledger!Decide, Verdict, Left

LEMMA LedgerOpens ==
  ASSUME NEW S \in SUBSET PushJobs, pushes' = pushes,
         \A x \in S : pushJob[x].status = "none" /\ pushJob'[x].status \in Open,
         \A x \in PushJobs \ S : pushJob'[x].status = pushJob[x].status
  PROVE  Ledger!LedgerNext
<1>1. \A x \in S : Verdict[x] = "none" BY DEF Verdict, Open
<1>2. Verdict' = [x \in PushJobs |-> IF x \in S THEN "open" ELSE Verdict[x]] BY DEF Verdict
<1>3. Left' = Left BY DEF Left
<1> QED BY <1>1, <1>2, <1>3 DEF Ledger!LedgerNext, Ledger!Open, Verdict, Left

LEMMA LedgerRefined == NtfyInv /\ [NtfyNext]_ntfyVars => [Ledger!LedgerNext]_<<Verdict, Left>>
<1> SUFFICES ASSUME NtfyInv, [NtfyNext]_ntfyVars
             PROVE  [Ledger!LedgerNext]_<<Verdict, Left>>
  OBVIOUS
<1>0. PushTyped /\ Holding BY DEF NtfyInv
<1>a. pushes' = pushes => Left' = Left BY DEF Left
<1>b. ASSUME pushes' = pushes, \A x \in PushJobs : Same(x) \/ Cancelled(x)
      PROVE  Ledger!LedgerNext
  <2> DEFINE S == {x \in PushJobs : Cancelled(x)}
  <2>1. S \in SUBSET PushJobs /\ \A x \in S : Cancelled(x) OBVIOUS
  <2>2. \A x \in PushJobs \ S : Same(x) BY <1>b
  <2> HIDE DEF S
  <2> DEFINE v == "cancelled"
  <2>3. /\ v \in {"sent", "failed", "cancelled"} /\ v # "sent"
        /\ \A x \in S : pushJob[x].status \in Open /\ pushJob'[x].status = v
        /\ \A x \in PushJobs \ S : pushJob'[x].status = pushJob[x].status
    BY <2>1, <2>2 DEF Same, Cancelled
  <2> HIDE DEF v
  <2> QED BY <1>b, <2>1, <2>3, LedgerDecides
<1>1. CASE Request
  <2>1. /\ pushes' = pushes
        /\ \/ \A x \in PushJobs : Same(x) \/ Inserted(x)
           \/ \A x \in PushJobs : Same(x) \/ Cancelled(x)
    BY <1>0, <1>1, RequestFacts DEF Quiet
  <2>2. CASE \A x \in PushJobs : Same(x) \/ Inserted(x)
    <3> DEFINE S == {x \in PushJobs : Inserted(x)}
    <3>1. S \in SUBSET PushJobs /\ \A x \in S : Inserted(x) OBVIOUS
    <3>2. \A x \in PushJobs \ S : Same(x) BY <2>2
    <3> HIDE DEF S
    <3>3. /\ \A x \in S : pushJob[x].status = "none" /\ pushJob'[x].status \in Open
          /\ \A x \in PushJobs \ S : pushJob'[x].status = pushJob[x].status
      BY <3>1, <3>2 DEF Same, Inserted, Open
    <3>4. Ledger!LedgerNext BY <2>1, <3>1, <3>3, LedgerOpens
    <3> QED BY <3>4
  <2>3. CASE \A x \in PushJobs : Same(x) \/ Cancelled(x)
    <3>1. Ledger!LedgerNext BY <1>b, <2>1, <2>3
    <3> QED BY <3>1
  <2> QED BY <2>1, <2>2, <2>3
<1>2. ASSUME NEW u \in Subscribers, NEW t \in Topics, RotateTopic(u, t) PROVE Ledger!LedgerNext
  BY <1>0, <1>2, <1>b, RotateFacts DEF Quiet
<1>3. ASSUME NEW w \in NtfyWorkers, NEW j \in PushJobs, Claim(w, j)
      PROVE  Verdict' = Verdict /\ Left' = Left
  <2>1. pushes' = pushes /\ pushJob[j].status \in Open BY <1>3 DEF Claim, Claimable
  <2>2. pushJob[j] \in PushRow /\ pushJob' = [pushJob EXCEPT ![j] = ClaimJob(pushJob[j])] BY <1>0, <1>3 DEF PushTyped, Claim
  <2>3. ClaimJob(pushJob[j]).status = "sending" BY <2>2, Statements
  <2>4. \A x \in PushJobs : \/ pushJob'[x].status = pushJob[x].status
                            \/ pushJob'[x].status \in Open /\ pushJob[x].status \in Open
    BY <1>0, <2>1, <2>2, <2>3 DEF PushTyped, Open
  <2> QED BY <1>a, <2>1, <2>4, LedgerSame
<1>4. ASSUME NEW w \in NtfyWorkers, GetDeliveryJob(w) \/ PushAbandon(w)
      PROVE  Verdict' = Verdict /\ Left' = Left
  <2>1. pushJob' = pushJob /\ pushes' = pushes BY <1>4 DEF GetDeliveryJob, PushAbandon
  <2> QED BY <1>a, <2>1 DEF Verdict
<1>5. ASSUME NEW w \in NtfyWorkers, Publish(w)
      PROVE  Ledger!LedgerNext \/ (Verdict' = Verdict /\ Left' = Left)
  <2> DEFINE j == pusher[w].j
  <2>1. /\ pushJob' = pushJob /\ j \in PushJobs /\ pusher[w].pc = "publish"
        /\ \/ pushes' = pushes
           \/ pushes' = [pushes EXCEPT ![j] = IF pushes[j] = 2 THEN 2 ELSE pushes[j] + 1]
    BY <1>0, <1>5, PublishFacts
  <2>2. Verdict' = Verdict BY <2>1 DEF Verdict
  <2>3. CASE pushes' = [pushes EXCEPT ![j] = IF pushes[j] = 2 THEN 2 ELSE pushes[j] + 1]
    <3>1. pushes[j] \in 0..2 /\ pushJob[j].status # "none" BY <1>0, <2>1 DEF PushTyped, Holding
    <3>2. Left' = [Left EXCEPT ![j] = TRUE]
      <4>1. /\ pushes'[j] > 0
            /\ \A x \in PushJobs : x # j => pushes'[x] = pushes[x]
        BY <1>0, <2>1, <2>3, <3>1 DEF PushTyped
      <4>2. \A x \in PushJobs : (pushes'[x] > 0) = IF x = j THEN TRUE ELSE pushes[x] > 0 BY <4>1, Zenon
      <4> QED BY <4>2, Zenon DEF Left
    <3>3. Verdict[j] # "none" BY <2>1, <3>1 DEF Verdict
    <3> HIDE DEF j
    <3>4. Ledger!LedgerNext BY <2>1, <2>2, <3>2, <3>3 DEF Ledger!LedgerNext, Ledger!Leave, Verdict, Left
    <3> QED BY <3>4
  <2>4. CASE pushes' = pushes BY <1>a, <2>2, <2>4
  <2> QED BY <2>1, <2>3, <2>4
<1>6. ASSUME NEW w \in NtfyWorkers, PutAside(w) PROVE Ledger!LedgerNext
  <2>1. pushes' = pushes /\ \A x \in PushJobs : Same(x) \/ Cancelled(x)
    BY <1>0, <1>6, AsideFacts DEF Quiet, Same
  <2> QED BY <1>b, <2>1
<1>7. ASSUME NEW w \in NtfyWorkers, RecordOutcome(w)
      PROVE  Ledger!LedgerNext \/ (Verdict' = Verdict /\ Left' = Left)
  <2> DEFINE j == pusher[w].j
  <2>1. /\ pushes' = pushes /\ pusher[w].pc \in {"mark", "fail"} /\ j \in PushJobs
        /\ \A x \in PushJobs \ {j} : pushJob'[x] = pushJob[x]
        /\ pushJob[j].status # "sending" => pushJob'[j] = pushJob[j]
        /\ pushJob[j].status = "sending" =>
             /\ pusher[w].pc = "mark" => pushJob'[j].status = "sent"
             /\ pusher[w].pc = "fail" => pushJob'[j].status \in {"pending", "failed"}
    BY <1>0, <1>7, OutcomeFacts DEF Quiet
  <2>2. pusher[w].pc = "mark" => pushes[j] > 0 BY <1>0 DEF Holding
  <2> DEFINE S == {j}
  <2>3. S \in SUBSET PushJobs /\ (\A x \in S : x = j) /\ \A x \in PushJobs \ S : x # j BY <2>1
  <2> HIDE DEF S
  <2>4. CASE pushJob[j].status = "sending" /\ pusher[w].pc = "mark"
    <3> DEFINE v == "sent"
    <3>1. /\ v \in {"sent", "failed", "cancelled"}
          /\ \A x \in S : pushJob[x].status \in Open /\ pushJob'[x].status = v /\ pushes[x] > 0
          /\ \A x \in PushJobs \ S : pushJob'[x].status = pushJob[x].status
      BY <2>1, <2>2, <2>3, <2>4 DEF Open
    <3> HIDE DEF v
    <3> QED BY <2>1, <2>3, <3>1, LedgerDecides
  <2>5. CASE pushJob[j].status = "sending" /\ pushJob'[j].status = "failed"
    <3> DEFINE v == "failed"
    <3>1. /\ v \in {"sent", "failed", "cancelled"} /\ v # "sent"
          /\ \A x \in S : pushJob[x].status \in Open /\ pushJob'[x].status = v
          /\ \A x \in PushJobs \ S : pushJob'[x].status = pushJob[x].status
      BY <2>1, <2>3, <2>5 DEF Open
    <3> HIDE DEF v
    <3> QED BY <2>1, <2>3, <3>1, LedgerDecides
  <2>6. CASE pushJob[j].status # "sending" \/ pushJob'[j].status = "pending"
    <3>1. \A x \in PushJobs : \/ pushJob'[x].status = pushJob[x].status
                              \/ pushJob'[x].status \in Open /\ pushJob[x].status \in Open
      BY <2>1, <2>6 DEF Open
    <3> QED BY <1>a, <2>1, <3>1, LedgerSame
  <2> QED BY <2>1, <2>4, <2>5, <2>6
<1>8. ASSUME NEW j \in PushJobs, PushLeaseExpires(j) PROVE Verdict' = Verdict /\ Left' = Left
  <2>1. pushes' = pushes BY <1>8 DEF PushLeaseExpires
  <2>2. \A x \in PushJobs : pushJob'[x].status = pushJob[x].status BY <1>0, <1>8 DEF PushLeaseExpires, PushTyped, PushRow
  <2> QED BY <1>a, <2>1, <2>2, LedgerSame
<1> QED BY <1>1, <1>2, <1>3, <1>4, <1>5, <1>6, <1>7, <1>8 DEF NtfyNext, WorkerStep, Request

(* The push jobs implement the delivery ledger: opened once, ended once,   *)
(* called sent only when a notification has left.                          *)
THEOREM NtfyRefinesLedger == NtfySpec => NtfyImplementsLedger
<1>1. NtfyInit => Ledger!LedgerInit
  <2> SUFFICES ASSUME NtfyInit PROVE Ledger!LedgerInit OBVIOUS
  <2>1. \A j \in PushJobs : pushJob[j].status = "none" /\ pushes[j] = 0 BY DEF NtfyInit, NoPushJob
  <2>2. \A j \in PushJobs : (pushes[j] > 0) = FALSE BY <2>1
  <2>3. Left = [j \in PushJobs |-> FALSE] BY <2>2, Zenon DEF Left
  <2>4. Verdict = [j \in PushJobs |-> "none"] BY <2>1 DEF Verdict, Open
  <2> QED BY <2>3, <2>4 DEF Ledger!LedgerInit, Verdict, Left
<1>2. NtfyInv /\ [NtfyNext]_ntfyVars => [Ledger!LedgerNext]_<<Verdict, Left>> BY LedgerRefined
<1> QED BY <1>1, <1>2, InvInit, InvStep, PTL DEF NtfySpec, NtfyImplementsLedger,
        Ledger!LedgerSpec, Verdict, Left

-----------------------------------------------------------------------------
(***************************************************************************)
(* The components keep side by side what each was proved to keep alone: a  *)
(* step of the composition is a step of one of them, which the others do   *)
(* not notice.                                                             *)
(***************************************************************************)
LEMMA Components ==
  NotificationsSpec => /\ Mail!EmailJobsSpec /\ EmailAddressSpec
                       /\ DigestSpec /\ NtfySpec /\ SMTPSpec
<1> USE DEF Next, vars, JobsStep, DigestPartStep, PushStep, AddressStep, SMTPStep, Only
<1>1. Init => /\ Mail!EmailJobsInit /\ Mail!EmailAddressInit
              /\ DigestInit /\ NtfyInit /\ SMTPInit
  BY DEF Init
<1>2. [Next]_vars => [Mail!EmailJobsNext]_(Mail!emailJobsVars) BY DEF jobsVars, Mail!emailJobsVars
<1>3. [Next]_vars => [Mail!EmailAddressNext]_(Mail!addressVars) BY DEF addressVars, Mail!addressVars
<1>4. [Next]_vars => [DigestNext]_digestVars BY DEF digestVars
<1>5. [Next]_vars => [NtfyNext]_ntfyVars BY DEF ntfyVars
<1>6. [Next]_vars => [SMTPNext]_smtpVars OBVIOUS
<1> HIDE DEF Next, vars, JobsStep, DigestPartStep, PushStep, AddressStep, SMTPStep, Only
<1> QED BY <1>1, <1>2, <1>3, <1>4, <1>5, <1>6, PTL
        DEF NotificationsSpec, Mail!EmailJobsSpec, EmailAddressSpec, DigestSpec, NtfySpec, SMTPSpec

(* Both job tables implement the one ledger, beside all other components.  *)
THEOREM NoticesRefineLedger == NotificationsSpec => NoticesImplementLedger
BY Components, EmailRefinesLedger, NtfyRefinesLedger, PTL DEF NoticesImplementLedger

(* No step notifies without the consent, the untried code, the unread      *)
(* period or the current topic that the code asks for.                     *)
THEOREM NoticesAllowedCorrect == NotificationsSpec => NoticesAsAllowed
BY Components, MailHadConsentCorrect, GuessesLimitedCorrect, NotifiedStaysCorrect,
   RotationCorrect, PTL
   DEF NoticesAsAllowed

(* Every conjunct of NoticesSound: a second mail, digest or push needs a   *)
(* lapse, a code sets the address once, attempts stay within their limits, *)
(* and the SMTP client leaves nothing open and nothing in clear text.      *)
THEOREM NoticesSoundCorrect == NotificationsSpec => []NoticesSound
<1>1. RetryDelays \in Nat /\ MaxLapses \in Nat /\ MaxPushLapses \in Nat /\ LastMessage \in Nat /\ MaximumCodeAttempts \in Nat
  BY NoticesAssumption
<1>2. Mail!EmailJobsSpec => []Mail!EmailJobsTypeOK BY <1>1, MailTypesCorrect
<1>3. EmailAddressSpec => []Mail!EmailAddressTypeOK BY <1>1, AddressTypesCorrect
<1>4. DigestSpec => []DigestTypeOK BY <1>1, DigestTypesCorrect
<1>5. NtfySpec => []NtfyTypeOK BY <1>1, PushTypesCorrect
<1> QED BY <1>2, <1>3, <1>4, <1>5, Components, SMTPCorrect, SecondMailCorrect,
           SecondDigestCorrect, SecondPushCorrect, ConfirmedOnceCorrect, PTL
        DEF NoticesSound, TypeOK
=============================================================================
