-------------------------------- MODULE Ntfy --------------------------------
(***************************************************************************)
(* workspace/ntfy: push notifications to a secret topic per user. The jobs *)
(* go the way of those of Email, without presence and settings; the row of *)
(* preferences is made when it is first needed, and RotateTopic replaces   *)
(* the topic and cancels what is pending.                                  *)
(***************************************************************************)
EXTENDS Naturals, FiniteSets

CONSTANTS Subscribers, Messages,
          Topics,           \* what the topic factory may return
          NtfyWorkers, RetryDelays, MaxPushLapses,
          NoTopic           \* no row yet

VARIABLES pref,       \* workspace_ntfy_preferences: topic and enabled
          pushTx,         \* per message: none, the users planned, or done
          pushPertinent,  \* jobs whose message is visible to the user and unread
          pushJob,        \* workspace_ntfy_jobs
          pusher,     \* per worker: where it stands and what it has read
          rotated,    \* jobs that were open when their user replaced the topic
          pushes,     \* notifications that left for a job, up to 2
          pushLapsed,     \* jobs a worker lost
          pushLapses

ntfyVars == <<pref, pushTx, pushPertinent, pushJob, pusher, rotated, pushes, pushLapsed, pushLapses>>

PushJobs == Subscribers \X Messages
NoPushJob == [status |-> "none", leased |-> FALSE, due |-> FALSE, attempt |-> 0]
PushAtRest == [pc |-> "idle", j |-> <<>>, topic |-> NoTopic, current |-> FALSE, attempt |-> 0]
Open == {"pending", "sending"}
Ended == {"sent", "failed", "cancelled"}

(* The shape of every variable.                                            *)
NtfyTypeOK ==
  /\ pref \in [Subscribers -> [topic : Topics \union {NoTopic}, enabled : BOOLEAN]]
  /\ pushTx \in [Messages -> [st : {"none", "tx", "done"}, to : SUBSET Subscribers]]
  /\ pushPertinent \subseteq PushJobs
  /\ pushJob \in [PushJobs -> [status : {"none"} \union Open \union Ended, leased : BOOLEAN,
                           due : BOOLEAN, attempt : 0..(RetryDelays + 1)]]
  /\ \A w \in NtfyWorkers : pusher[w].pc \in {"idle", "claimed", "cancel", "publish", "mark", "fail"}
  /\ rotated \subseteq PushJobs /\ pushes \in [PushJobs -> 0..2] /\ pushLapsed \subseteq PushJobs /\ pushLapses \in 0..MaxPushLapses

NtfyInit ==
  /\ pref = [u \in Subscribers |-> [topic |-> NoTopic, enabled |-> FALSE]]
  /\ pushTx = [m \in Messages |-> [st |-> "none", to |-> {}]] /\ pushPertinent = {}
  /\ pushJob = [j \in PushJobs |-> NoPushJob]
  /\ pusher = [w \in NtfyWorkers |-> PushAtRest]
  /\ rotated = {} /\ pushes = [j \in PushJobs |-> 0] /\ pushLapsed = {} /\ pushLapses = 0
-----------------------------------------------------------------------------
(* One operator per statement of the repository.                           *)
Taken == {pref[u].topic : u \in Subscribers}
CreatePreferences(u, t) ==
  IF pref[u].topic = NoTopic /\ t \notin Taken
  THEN [pref EXCEPT ![u] = [topic |-> t, enabled |-> TRUE]] ELSE pref
RotatePreferences(p, u, t) ==
  IF p[u].topic # t /\ \A v \in Subscribers \ {u} : p[v].topic # t
  THEN [p EXCEPT ![u].topic = t] ELSE p
InsertJob(r) == IF r.status = "none" THEN [NoPushJob EXCEPT !.status = "pending"] ELSE r
Claimable(r) == r.status \in Open /\ r.due /\ ~r.leased
ClaimJob(r) == [r EXCEPT !.status = "sending", !.leased = TRUE]
MarkSentAnyway(r) == [r EXCEPT !.status = "sent", !.leased = FALSE]
MarkSent(r) ==
  IF r.status = "sending" THEN [r EXCEPT !.status = "sent", !.leased = FALSE] ELSE r
RetryJob(r, attempt) ==
  IF r.status = "sending"
  THEN [r EXCEPT !.status = "pending", !.leased = FALSE, !.due = FALSE, !.attempt = attempt]
  ELSE r
MarkFailed(r, attempt) ==
  IF r.status = "sending"
  THEN [r EXCEPT !.status = "failed", !.leased = FALSE, !.attempt = attempt] ELSE r
CancelJob(r) ==
  IF r.status \in Open THEN [r EXCEPT !.status = "cancelled", !.leased = FALSE] ELSE r
CancelPendingJobs(u) == [j \in PushJobs |-> IF j[1] = u THEN CancelJob(pushJob[j]) ELSE pushJob[j]]

isEligible(j) == pref[j[1]].enabled /\ j \in pushPertinent
-----------------------------------------------------------------------------
(* ensurePreferences on the way to another operation: the row is there, or *)
(* one with a free topic is made.                                          *)
ensurePreferences(u, t) ==
  /\ (pref[u].topic # NoTopic) => (t = pref[u].topic)
  /\ (pref[u].topic = NoTopic) => (t \notin Taken)

GetPreferences(u, t) ==
  /\ ensurePreferences(u, t) /\ pref[u].topic = NoTopic
  /\ pref' = CreatePreferences(u, t)
  /\ UNCHANGED <<pushTx, pushPertinent, pushJob, pusher, rotated, pushes, pushLapsed, pushLapses>>

UpdatePreferences(u, t, on) ==
  /\ ensurePreferences(u, t)
  /\ pref' = [pref EXCEPT ![u] = [topic |-> t, enabled |-> on]]
  /\ pref' # pref
  /\ pushJob' = IF on THEN pushJob ELSE CancelPendingJobs(u)
  /\ UNCHANGED <<pushTx, pushPertinent, pusher, rotated, pushes, pushLapsed, pushLapses>>

(* A topic the factory repeats or another user holds changes nothing and   *)
(* the request tries again; a job the worker has read already keeps the    *)
(* old topic.                                                              *)
RotateTopic(u, t) ==
  /\ pref[u].topic # NoTopic
  /\ pref' = RotatePreferences(pref, u, t) /\ pref' # pref
  /\ pushJob' = CancelPendingJobs(u)
  /\ rotated' = rotated \union {j \in PushJobs : j[1] = u /\ pushJob[j].status \in Open}
  /\ pusher' = [w \in NtfyWorkers |->
                  IF pusher[w].j # <<>> /\ pusher[w].j[1] = u
                  THEN [pusher[w] EXCEPT !.current = FALSE] ELSE pusher[w]]
  /\ UNCHANGED <<pushTx, pushPertinent, pushes, pushLapsed, pushLapses>>

(* The message transaction; rows for preferences it has to make come with  *)
(* the commit, their topics chosen by the factory.                         *)
scheduleMessage(m) ==
  /\ pushTx[m].st = "none" /\ \A n \in Messages : pushTx[n].st # "tx"
  /\ pushTx' = [pushTx EXCEPT ![m] = [st |-> "tx", to |-> {u \in Subscribers :
                                pref[u].topic = NoTopic \/ pref[u].enabled}]]
  /\ UNCHANGED <<pref, pushPertinent, pushJob, pusher, rotated, pushes, pushLapsed, pushLapses>>

PushCommitMessage(m) ==
  /\ pushTx[m].st = "tx"
  /\ pref' \in {p \in [Subscribers -> [topic : Topics, enabled : BOOLEAN]] :
                  /\ \A u \in Subscribers : IF pref[u].topic # NoTopic THEN p[u] = pref[u]
                                            ELSE p[u].enabled /\ p[u].topic \notin Taken
                  /\ \A u, v \in Subscribers : u # v => p[u].topic # p[v].topic}
  /\ pushJob' = [j \in PushJobs |-> IF j \in pushTx[m].to \X {m} THEN InsertJob(pushJob[j]) ELSE pushJob[j]]
  /\ pushPertinent' = pushPertinent \union (Subscribers \X {m})
  /\ pushTx' = [pushTx EXCEPT ![m] = [st |-> "done", to |-> {}]]
  /\ UNCHANGED <<pusher, rotated, pushes, pushLapsed, pushLapses>>

Overtaken(j) ==
  /\ j \in pushPertinent /\ pushPertinent' = pushPertinent \ {j}
  /\ UNCHANGED <<pref, pushTx, pushJob, pusher, rotated, pushes, pushLapsed, pushLapses>>
-----------------------------------------------------------------------------
(* processJobs, one claimed job at a time.                                 *)

others == <<pref, pushTx, pushPertinent, rotated>>
PushRest(w) == pusher' = [pusher EXCEPT ![w] = PushAtRest]

Claim(w, j) ==
  /\ pusher[w].pc = "idle" /\ Claimable(pushJob[j])
  /\ pushJob' = [pushJob EXCEPT ![j] = ClaimJob(@)]
  /\ pusher' = [pusher EXCEPT ![w] = [PushAtRest EXCEPT !.pc = "claimed", !.j = j]]
  /\ UNCHANGED <<others, pushes, pushLapsed, pushLapses>>

GetDeliveryJob(w) ==
  LET j == pusher[w].j  ok == pushJob[j].status = "sending" /\ isEligible(j)
  IN  /\ pusher[w].pc = "claimed"
      /\ pusher' = [pusher EXCEPT
           ![w] = [pc |-> IF ok THEN "publish" ELSE "cancel", j |-> j,
                   topic |-> pref[j[1]].topic, current |-> TRUE, attempt |-> pushJob[j].attempt]]
      /\ UNCHANGED <<others, pushJob, pushes, pushLapsed, pushLapses>>

PutAside(w) ==
  /\ pusher[w].pc = "cancel"
  /\ pushJob' = [pushJob EXCEPT ![pusher[w].j] = CancelJob(@)]
  /\ PushRest(w) /\ UNCHANGED <<others, pushes, pushLapsed, pushLapses>>

Publish(w) ==
  /\ pusher[w].pc = "publish"
  /\ \/ /\ pushes' = [pushes EXCEPT ![pusher[w].j] = IF @ = 2 THEN 2 ELSE @ + 1]
        /\ pusher' = [pusher EXCEPT ![w].pc = "mark"]
     \/ pusher' = [pusher EXCEPT ![w].pc = "fail"] /\ UNCHANGED pushes
  /\ UNCHANGED <<others, pushJob, pushLapsed, pushLapses>>

RecordOutcome(w) ==
  LET attempt == pusher[w].attempt + 1
  IN  /\ pusher[w].pc \in {"mark", "fail"}
      /\ pushJob' = [pushJob EXCEPT ![pusher[w].j] =
                   IF pusher[w].pc = "mark" THEN MarkSent(@)
                   ELSE IF attempt <= RetryDelays THEN RetryJob(@, attempt)
                   ELSE MarkFailed(@, attempt)]
      /\ PushRest(w) /\ UNCHANGED <<others, pushes, pushLapsed, pushLapses>>

(* Crashes, failed statements and stalls, as in Email.                     *)
PushAbandon(w) ==
  /\ pusher[w].pc # "idle" /\ pushLapses < MaxPushLapses
  /\ pushLapses' = pushLapses + 1 /\ pushLapsed' = pushLapsed \union {pusher[w].j}
  /\ PushRest(w) /\ UNCHANGED <<others, pushJob, pushes>>

PushLeaseExpires(j) ==
  LET held == \E w \in NtfyWorkers : pusher[w].j = j
  IN  /\ pushJob[j].leased /\ pushJob' = [pushJob EXCEPT ![j].leased = FALSE]
      /\ \/ ~held /\ UNCHANGED <<pushLapsed, pushLapses>>
         \/ held /\ pushLapses < MaxPushLapses /\ pushLapses' = pushLapses + 1 /\ pushLapsed' = pushLapsed \union {j}
      /\ UNCHANGED <<others, pusher, pushes>>

PushFallsDue(j) ==
  /\ pushJob[j].status \in Open /\ ~pushJob[j].due /\ pushJob' = [pushJob EXCEPT ![j].due = TRUE]
  /\ UNCHANGED <<others, pusher, pushes, pushLapsed, pushLapses>>

WorkerStep(w) ==
  \/ \E j \in PushJobs : Claim(w, j)
  \/ GetDeliveryJob(w) \/ PutAside(w) \/ Publish(w) \/ RecordOutcome(w)

NtfyNext ==
  \/ \E u \in Subscribers, t \in Topics : GetPreferences(u, t) \/ RotateTopic(u, t)
  \/ \E u \in Subscribers, t \in Topics, on \in BOOLEAN : UpdatePreferences(u, t, on)
  \/ \E m \in Messages : scheduleMessage(m) \/ PushCommitMessage(m)
  \/ \E w \in NtfyWorkers : WorkerStep(w) \/ PushAbandon(w)
  \/ \E j \in PushJobs : Overtaken(j) \/ PushLeaseExpires(j) \/ PushFallsDue(j)

NtfySpec == NtfyInit /\ [][NtfyNext]_ntfyVars
-----------------------------------------------------------------------------
(* The job table implements the promise of a delivery ledger.              *)
Ledger == INSTANCE DeliveryLedger WITH
            Jobs <- PushJobs,
            verdict <- [j \in PushJobs |-> IF pushJob[j].status \in Open THEN "open" ELSE pushJob[j].status],
            left <- [j \in PushJobs |-> pushes[j] > 0]
NtfyImplementsLedger == Ledger!LedgerSpec

(* A second notification for one job needs a worker that lost it.          *)
SecondPushNeedsLapse == \A j \in PushJobs : pushes[j] > 1 => j \in pushLapsed

(* Replacing the topic ends what was waiting for the old one: a job open   *)
(* at that moment is notified later only by a worker that had read it      *)
(* before, never by one that picks it up again.                            *)
RotationCancels ==
  [][\A j \in rotated : pushes'[j] # pushes[j] =>
       \E w \in NtfyWorkers : /\ pusher[w].j = j /\ pusher[w].pc = "publish"
                              /\ ~pusher[w].current]_ntfyVars
=============================================================================
