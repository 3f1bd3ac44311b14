------------------------------- MODULE SignIn -------------------------------
(***************************************************************************)
(* auth: which row of users a GitHub profile signs in as. A login reads    *)
(* the rows that match the profile's id, login or address and decides;     *)
(* its UPDATE, audit row and COMMIT follow later, so that other logins and *)
(* removals commit in between. A profile is a record whose fields may be   *)
(* None; invites are modelled in Membership and are open or refused here.  *)
(***************************************************************************)
EXTENDS Naturals, FiniteSets

CONSTANTS Rows, SeededOwner, Robot,   \* ids of users
          Profiles,                   \* [id, login, email]
          OwnerLogin, OwnerEmail,     \* what the seeded owner is known by
          Logins, None, MaxLeaves

VARIABLES user,     \* users and space_members: gid, login, email, kind, role
          login,    \* per login: its profile, what it read, where it is
          audit,    \* per login: results it left in audit_logs
          leaves    \* members removed so far: bounded

identityVars == <<user, login, audit, leaves>>

NoUser == [gid |-> None, login |-> None, email |-> None, kind |-> "human", role |-> "none"]
NoLogin == [at |-> "new", profile |-> NoUser, row |-> None, open |-> FALSE]
Ended == {"in", "refused", "failed"}
Exists(u) == user[u].login # None

(* The shape of every variable.                                            *)
IdentityTypeOK ==
  /\ \A u \in Rows : user[u].kind \in {"human", "bot"} /\ user[u].role \in {"none", "member", "owner"}
  /\ \A l \in Logins : /\ login[l].at \in {"new", "read", "seeded", "member", "guest"} \union Ended
                       /\ login[l].row \in Rows \union {None}
  /\ audit \in [Logins -> SUBSET {"success", "rejected"}] /\ leaves \in 0..MaxLeaves

IdentityInit ==
  /\ user = [u \in Rows |->
       CASE u = SeededOwner -> [NoUser EXCEPT !.login = OwnerLogin, !.email = OwnerEmail, !.role = "owner"]
         [] u = Robot -> [NoUser EXCEPT !.login = u, !.kind = "bot", !.role = "member"]
         [] OTHER -> NoUser]
  /\ login = [l \in Logins |-> NoLogin] /\ audit = [l \in Logins |-> {}] /\ leaves = 0
-----------------------------------------------------------------------------
ById(p) == {u \in Rows : p.id # None /\ user[u].gid = p.id}
Aliases(p) == {u \in Rows : Exists(u) /\ (user[u].login = p.login \/ (p.email # None /\ user[u].email = p.email))}
Conflict(p) == IF ById(p) # {} THEN ~(Aliases(p) \subseteq ById(p)) ELSE Cardinality(Aliases(p)) > 1
findIdentity(p) == IF ById(p) # {} THEN ById(p) ELSE Aliases(p)
(* A row that is bound belongs to one GitHub id, whatever name it matched. *)
BoundElsewhere(u, p) == user[u].gid # None /\ p.id # None /\ user[u].gid # p.id
isSeededOwnerProfile(p) == p.login = OwnerLogin \/ p.email = OwnerEmail

writeAudit(l, result) == audit' = [audit EXCEPT ![l] = @ \union {result}]
Becomes(l, at) == login' = [login EXCEPT ![l].at = at]
(* A refusal commits: the audit row is the transaction's only write.       *)
rejectAuth(l) == writeAudit(l, "rejected")

NotHuman(u) == user[u].kind # "human"
Resolve(l, u) ==
  LET p == login[l].profile IN
  IF NotHuman(u) \/ BoundElsewhere(u, p)
  THEN Becomes(l, "refused") /\ rejectAuth(l)
  ELSE /\ login' = [login EXCEPT ![l].at = IF user[u].role # "none" THEN "member" ELSE "guest", ![l].row = u]
       /\ UNCHANGED audit

(* open: the pending invite cookie names an invite that can be used.       *)
Begin(l, p, open) ==
  /\ login[l] = NoLogin
  /\ login' = [login EXCEPT ![l] = [NoLogin EXCEPT !.at = "read", !.profile = p, !.open = open]]
  /\ UNCHANGED <<user, audit, leaves>>
ReadIdentity(l) ==
  LET p == login[l].profile IN
  /\ login[l].at = "read"
  /\ \/ Conflict(p) /\ Becomes(l, "refused") /\ rejectAuth(l)
     \/ \E u \in findIdentity(p) : ~Conflict(p) /\ Resolve(l, u)
     \/ /\ ~Conflict(p) /\ findIdentity(p) = {}
        /\ Becomes(l, IF isSeededOwnerProfile(p) THEN "seeded" ELSE "guest") /\ UNCHANGED audit
  /\ UNCHANGED <<user, leaves>>
findSeededOwner(l) ==
  /\ login[l].at = "seeded" /\ Resolve(l, SeededOwner)
  /\ UNCHANGED <<user, leaves>>

Coalesce(new, old) == IF new # None THEN new ELSE old
BindLatest(u, p) == Coalesce(p.id, user[u].gid)
BindOnce(u, p) == Coalesce(user[u].gid, p.id)
Bound(u, p, role) ==
  [user[u] EXCEPT !.gid = BindOnce(u, p), !.login = Coalesce(p.login, @),
                  !.email = Coalesce(p.email, @), !.role = role]
Taken(u, row) ==
  \E v \in Rows \ {u} :
    Exists(v) /\ (user[v].login = row.login \/ (row.gid # None /\ user[v].gid = row.gid))

(* The unique keys of users decide last; a violated one fails the login.   *)
updateUser(l, u, role) ==
  LET row == Bound(u, login[l].profile, role) IN
  IF Taken(u, row) THEN Becomes(l, "failed") /\ UNCHANGED <<user, audit>>
  ELSE /\ user' = [user EXCEPT ![u] = row] /\ writeAudit(l, "success")
       /\ login' = [login EXCEPT ![l].at = "in", ![l].row = u]

(* findActorByID finds no row when the member was removed meanwhile.       *)
AdmitMember(l) ==
  LET u == login[l].row IN
  /\ login[l].at = "member"
  /\ IF user[u].role = "none" THEN Becomes(l, "failed") /\ UNCHANGED <<user, audit>>
     ELSE updateUser(l, u, user[u].role)
  /\ UNCHANGED leaves
RefuseGuest(l) ==
  /\ login[l].at = "guest" /\ ~login[l].open /\ Becomes(l, "refused") /\ writeAudit(l, "rejected")
  /\ UNCHANGED <<user, leaves>>
rejectInvite(l) ==
  /\ login[l].at = "guest" /\ login[l].open /\ Becomes(l, "refused") /\ writeAudit(l, "rejected")
  /\ UNCHANGED <<user, leaves>>
AcceptInvite(l) ==
  /\ login[l].at = "guest" /\ login[l].open
  /\ IF login[l].row # None THEN updateUser(l, login[l].row, "member")
     ELSE \E u \in Rows : ~Exists(u) /\ u \notin {SeededOwner, Robot} /\ updateUser(l, u, "member")
  /\ UNCHANGED leaves

SetRemoved(u) ==
  /\ user[u].role = "member" /\ user[u].kind = "human" /\ leaves < MaxLeaves
  /\ user' = [user EXCEPT ![u].role = "none"] /\ leaves' = leaves + 1
  /\ UNCHANGED <<login, audit>>
-----------------------------------------------------------------------------
IdentityNext ==
  \/ \E l \in Logins : \/ \E p \in Profiles, open \in BOOLEAN : Begin(l, p, open)
                       \/ ReadIdentity(l) \/ findSeededOwner(l) \/ AdmitMember(l)
                       \/ RefuseGuest(l) \/ rejectInvite(l) \/ AcceptInvite(l)
  \/ \E u \in Rows : SetRemoved(u)
-----------------------------------------------------------------------------
(* A row that a GitHub account has signed in with stays that account's,    *)
(* however many logins read it as unbound before the first one committed.  *)
BoundOnce == [][\A u \in Rows : user[u].gid # None => user'[u].gid = user[u].gid]_identityVars

(* The account of a bot has no GitHub identity: a profile that goes by its *)
(* name, or is read while it does, neither signs in nor changes its row.   *)
RobotNeverAdmitted ==
  /\ \A l \in Logins : login[l].at = "in" => login[l].row # Robot
  /\ user[Robot].gid = None

(* Every refusal leaves its audit row, though it is a failure of the       *)
(* login's own transaction.                                                *)
RefusalAudited == \A l \in Logins : login[l].at = "refused" => "rejected" \in audit[l]
-----------------------------------------------------------------------------
(***************************************************************************)
(* auth: signing in through GitHub from one browser, whose tabs share a    *)
(* cookie jar. A start (of a web login, or of a mobile flow opened in the  *)
(* browser) writes the OAuth cookies; GitHub sends the browser back to the *)
(* callback, which carries the cookies the jar holds at that moment; the   *)
(* answer's cookies reach the jar later, or never. GitHub and the clock    *)
(* are external: a call may fail, or hang until the one deadline of        *)
(* Profile passes. Which user a profile is belongs to Identity.            *)
(***************************************************************************)

CONSTANTS Starts,      \* OAuth states ever drawn; a session is named after its start
          MobileStarts,\* the starts made for a mobile flow of the same name
          Targets      \* returnTo targets a start may ask for

VARIABLES jar,      \* cookies: state, flow, ret, invite, session
          start,    \* per start: where it is and what it asked for
          call,     \* per start: its callback and the cookies it carried
          flow,     \* mobile_oauth_flows of the mobile starts
          session,  \* sessions: "none", "live", "revoked"
          landed,   \* ghost, per start: the target its browser was sent to
          refusals, \* starts whose refusal is in audit_logs
          enabled,  \* the Workspace gate
          stale     \* ghost: starts whose flow cookie outlived its 600 seconds

webVars == <<jar, start, call, flow, session, landed, refusals, enabled, stale>>

EmptyJar == [state |-> None, flow |-> None, ret |-> None, invite |-> FALSE, session |-> None]
NoStart == [at |-> "new", ret |-> None]
NoCall == [at |-> "none", cookies |-> EmptyJar]
InFlight == {"token", "profile", "email", "store", "session"}

(* The shape of every variable.                                            *)
WebTypeOK ==
  /\ jar \in [state : Starts \union {None}, flow : Starts \union {None}, ret : Targets \union {None},
              invite : BOOLEAN, session : Starts \union {None}]
  /\ \A s \in Starts : /\ start[s].at \in {"new", "provider", "back"} /\ start[s].ret \in Targets \union {None}
                       /\ call[s].at \in InFlight \union {"none", "answered", "over"}
  /\ flow \in [MobileStarts -> {"saved", "authorized", "lapsed"}]
  /\ session \in [Starts -> {"none", "live", "revoked"}] /\ landed \in [Starts -> Targets \union {None, "app"}]
  /\ refusals \subseteq Starts /\ enabled \in BOOLEAN /\ stale \subseteq Starts

WebInit ==
  /\ jar = EmptyJar /\ start = [s \in Starts |-> NoStart] /\ call = [s \in Starts |-> NoCall]
  /\ flow = [s \in MobileStarts |-> "saved"] /\ session = [s \in Starts |-> "none"]
  /\ landed = [s \in Starts |-> None] /\ refusals = {} /\ enabled = TRUE /\ stale = {}
-----------------------------------------------------------------------------
(* What NormalizeReturnTarget leaves of a returnTo: a path of the          *)
(* Workspace as it is, anything else as none; frontendURL then goes to the *)
(* default target.                                                         *)
NormalizeReturnTarget(asked) == IF asked \in Targets THEN asked ELSE None
frontendURL(ret) == ret

ReturnCookie(ret) == ret
(* The cookies of a start replace those of any earlier one; a pending      *)
(* invite stays when the new start brings none.                            *)
startGitHub(s, asked, invite) ==
  /\ enabled /\ start[s] = NoStart
  /\ start' = [start EXCEPT ![s] = [at |-> "provider", ret |-> NormalizeReturnTarget(asked)]]
  /\ jar' = [jar EXCEPT !.state = s, !.flow = IF s \in MobileStarts THEN s ELSE None,
                        !.ret = ReturnCookie(NormalizeReturnTarget(asked)), !.invite = invite \/ @]
  /\ UNCHANGED <<call, flow, session, landed, refusals, enabled, stale>>
HandleGitHubStart(s) ==
  \E asked \in Targets \union {None}, invite \in BOOLEAN : s \notin MobileStarts /\ startGitHub(s, asked, invite)
(* GetFlow: unused and not expired.                                        *)
HandleMobileAuthorize(s) ==
  s \in MobileStarts /\ flow[s] = "saved" /\ startGitHub(s, None, FALSE)

(* GitHub sends the browser back with the state it was given.              *)
SameState(s) == jar.state = s
HandleGitHubCallback(s) ==
  /\ enabled /\ start[s].at = "provider"
  /\ start' = [start EXCEPT ![s].at = "back"]
  /\ call' = [call EXCEPT ![s] = [at |-> IF SameState(s) THEN "token" ELSE "answered", cookies |-> jar]]
  /\ UNCHANGED <<jar, flow, session, landed, refusals, enabled, stale>>
-----------------------------------------------------------------------------
Goes(s, at) == call' = [call EXCEPT ![s].at = at]
(* One provider call succeeds; the addresses are only asked for when the   *)
(* profile has none.                                                       *)
getJSON(s, at) == \/ at = "token" /\ Goes(s, "profile")
                  \/ at = "profile" /\ (Goes(s, "email") \/ Goes(s, "store"))
                  \/ at = "email" /\ Goes(s, "store")
ProviderAnswers(s) ==
  /\ getJSON(s, call[s].at)
  /\ UNCHANGED <<jar, start, flow, session, landed, refusals, enabled, stale>>
RecordGitHubLoginRejection(s) == refusals' = refusals \union {s}
(* A failure of any of the three, or the deadline that covers them all.    *)
DeadlineCovers(s) == call[s].at \in {"token", "profile", "email"}
recordProviderRejection(s) ==
  /\ DeadlineCovers(s) /\ RecordGitHubLoginRejection(s) /\ Goes(s, "answered")
  /\ UNCHANGED <<jar, start, flow, session, landed, enabled, stale>>

(* AuthenticateGitHub: a refusal, that of an invite code clearing its      *)
(* cookie, or an actor.                                                    *)
AuthRefuses(s) ==
  /\ call[s].at = "store" /\ Goes(s, "answered") /\ refusals' = refusals \union {s}
  /\ UNCHANGED <<jar, start, flow, session, landed, enabled, stale>>
MatchesState(s) == call[s].cookies.flow = call[s].cookies.state
completeMobile(s) ==
  LET f == call[s].cookies.flow IN
  /\ call[s].at = "store" /\ f # None /\ Goes(s, "answered")
  /\ IF MatchesState(s) /\ flow[f] = "saved"
     THEN /\ flow' = [flow EXCEPT ![f] = "authorized"] /\ landed' = [landed EXCEPT ![s] = "app"]
          /\ UNCHANGED refusals
     ELSE refusals' = refusals \union {s} /\ UNCHANGED <<flow, landed>>
  /\ UNCHANGED <<jar, start, session, enabled, stale>>
ActorFound(s) ==
  /\ call[s].at = "store" /\ call[s].cookies.flow = None /\ Goes(s, "session")
  /\ UNCHANGED <<jar, start, flow, session, landed, refusals, enabled, stale>>
(* The INSERT joins the membership: one removed meanwhile gets no session. *)
CreateSession(s) ==
  /\ call[s].at = "session" /\ Goes(s, "answered")
  /\ \/ /\ session' = [session EXCEPT ![s] = "live"]
        /\ landed' = [landed EXCEPT ![s] = frontendURL(call[s].cookies.ret)]
     \/ UNCHANGED <<session, landed>>
  /\ UNCHANGED <<jar, start, flow, refusals, enabled, stale>>

(* The answer reaches the jar: the one-time cookies are cleared whatever   *)
(* the outcome; a login also clears the invite, and sets the session.      *)
AnswerArrives(s, inviteSpent) ==
  LET in == session[s] = "live" IN
  /\ call[s].at = "answered" /\ Goes(s, "over")
  /\ jar' = [state |-> None, flow |-> None, ret |-> None,
             invite |-> jar.invite /\ ~in /\ ~inviteSpent,
             session |-> IF in THEN s ELSE jar.session]
  /\ UNCHANGED <<start, flow, session, landed, refusals, enabled, stale>>
AnswerLost(s) ==
  /\ call[s].at = "answered" /\ Goes(s, "over")
  /\ UNCHANGED <<jar, start, flow, session, landed, refusals, enabled, stale>>

RevokeSession(s) == session' = [session EXCEPT ![s] = IF @ = "live" THEN "revoked" ELSE @]
(* Reachable while the lane is off, when it only clears the cookie.        *)
HandleLogout ==
  LET s == jar.session IN
  /\ s # None /\ jar' = [jar EXCEPT !.session = None]
  /\ IF enabled THEN RevokeSession(s) ELSE UNCHANGED session
  /\ UNCHANGED <<start, call, flow, landed, refusals, enabled, stale>>

(* The flow cookie lives 600 seconds, the state cookie as long as the      *)
(* browser; the flow's row expires with it.                                *)
FlowLapses(s) ==
  /\ start[s].at = "provider" /\ flow[s] = "saved" /\ jar.flow = s
  /\ flow' = [flow EXCEPT ![s] = "lapsed"] /\ jar' = [jar EXCEPT !.flow = None] /\ stale' = stale \union {s}
  /\ UNCHANGED <<start, call, session, landed, refusals, enabled>>
SetGate ==
  /\ enabled' = ~enabled
  /\ UNCHANGED <<jar, start, call, flow, session, landed, refusals, stale>>
-----------------------------------------------------------------------------
Serve(s) == \/ recordProviderRejection(s) \/ AuthRefuses(s) \/ completeMobile(s) \/ ActorFound(s) \/ CreateSession(s)
            \/ \E spent \in BOOLEAN : AnswerArrives(s, spent)
WebNext ==
  \/ \E s \in Starts : \/ HandleGitHubStart(s) \/ HandleMobileAuthorize(s) \/ HandleGitHubCallback(s)
                       \/ ProviderAnswers(s) \/ Serve(s) \/ AnswerLost(s)
  \/ \E s \in MobileStarts : FlowLapses(s)
  \/ HandleLogout \/ SetGate
(* The handler runs on and the deadline passes; nothing is asked of GitHub *)
(* or of the user.                                                         *)
WebFairness == \A s \in Starts : WF_webVars(Serve(s))
-----------------------------------------------------------------------------
(* Starts of two tabs do not mix: a flow is authorised by its own callback *)
(* alone, a mobile start ends in a browser session only when its flow      *)
(* cookie was gone before GitHub sent the browser back, and a start that a *)
(* later one superseded ends in neither.                                   *)
StartsDoNotMix ==
  /\ \A s \in MobileStarts : session[s] # "none" => s \in stale
  /\ \A s \in MobileStarts : flow[s] = "authorized" => landed[s] = "app"
  /\ \A s \in Starts : session[s] # "none" \/ landed[s] = "app" => call[s].cookies.state = s

(* A login returns to the page its own start asked for, never to one left  *)
(* in the jar by a login that was given up.                                *)
ReturnsToOwnPage == \A s \in Starts : session[s] # "none" => landed[s] = start[s].ret

-----------------------------------------------------------------------------
(***************************************************************************)
(* auth: the mobile sign-in of one user. A flow is authorised by the       *)
(* browser's callback and exchanged for a session family; a refresh token  *)
(* rotates the family's tokens under the family's row lock, and one that   *)
(* was used before ends the family. A client may repeat a call whose       *)
(* answer was lost, with the token it still has, beside another call.      *)
(***************************************************************************)

CONSTANTS Flows,            \* mobile_oauth_flows; a flow's family is named after it
          Calls,            \* calls of Exchange and Rotate: a bound
          Pairs,            \* token pairs ever drawn: a bound
          NoFlow, NoToken

ASSUME SignInAssumption ==
  /\ None \notin Rows /\ None \notin Starts /\ None # "app" /\ NoFlow \notin Flows
  /\ {SeededOwner, Robot} \subseteq Rows /\ SeededOwner # Robot
  /\ MobileStarts \subseteq Starts /\ MaxLeaves \in Nat

VARIABLES entitled,         \* the user is an active, human member of the space
          mobileFlow,       \* "new", "saved", "authorized", "consumed"
          flowLapsed,       \* flows whose expires_at has passed
          family,           \* per flow: "none", "live", "revoked", "expired"
          born,             \* ghost: families created from each flow
          refresh, access,  \* tokens: the family; consumed_at is set; access expiry
          mobileCall,       \* the transactions in progress
          reused            \* ghost: families to which a used token was presented

mobileVars == <<entitled, mobileFlow, flowLapsed, family, born, refresh, access, mobileCall, reused>>
NoMobileCall == [at |-> "new", of |-> NoFlow, token |-> NoToken]
Drawn == {t \in Pairs : refresh[t].family # NoFlow}

(* The shape of every variable.                                            *)
MobileTypeOK ==
  /\ entitled \in BOOLEAN /\ flowLapsed \subseteq Flows
  /\ mobileFlow \in [Flows -> {"new", "saved", "authorized", "consumed"}]
  /\ family \in [Flows -> {"none", "live", "revoked", "expired"}] /\ born \in [Flows -> Nat]
  /\ refresh \in [Pairs -> [family : Flows \union {NoFlow}, used : BOOLEAN]]
  /\ access \in [Pairs -> [family : Flows \union {NoFlow}, lapsed : BOOLEAN]]
  /\ \A c \in Calls : mobileCall[c].at \in {"new", "exchange", "rotate", "fresh", "done"}
  /\ reused \subseteq Flows

MobileInit ==
  /\ entitled = TRUE /\ mobileFlow = [f \in Flows |-> "new"] /\ flowLapsed = {}
  /\ family = [f \in Flows |-> "none"] /\ born = [f \in Flows |-> 0]
  /\ refresh = [t \in Pairs |-> [family |-> NoFlow, used |-> FALSE]]
  /\ access = [t \in Pairs |-> [family |-> NoFlow, lapsed |-> FALSE]]
  /\ mobileCall = [c \in Calls |-> NoMobileCall] /\ reused = {}
-----------------------------------------------------------------------------
SaveFlow(f) ==
  /\ mobileFlow[f] = "new" /\ mobileFlow' = [mobileFlow EXCEPT ![f] = "saved"]
  /\ UNCHANGED <<entitled, flowLapsed, family, born, refresh, access, mobileCall, reused>>
(* The provider's callback: the flow is taken once, and lives on a minute. *)
AuthorizeFlow(f) ==
  /\ mobileFlow[f] = "saved" /\ f \notin flowLapsed /\ entitled
  /\ mobileFlow' = [mobileFlow EXCEPT ![f] = "authorized"]
  /\ UNCHANGED <<entitled, flowLapsed, family, born, refresh, access, mobileCall, reused>>

(* FOR UPDATE on the flow, and on the family: one call at a time has it.   *)
LockFree(f, phases) == \A d \in Calls : ~(mobileCall[d].of = f /\ mobileCall[d].at \in phases)
Ends(c) == mobileCall' = [mobileCall EXCEPT ![c].at = "done"]
insertMobileTokens(f, t) ==
  /\ t \notin Drawn
  /\ refresh' = [refresh EXCEPT ![t].family = f]
  /\ access' = [access EXCEPT ![t].family = f]

ExchangeReads(c, f) ==        \* SELECT ... WHERE consumed_at IS NULL FOR UPDATE
  /\ mobileCall[c] = NoMobileCall /\ LockFree(f, {"exchange"})
  /\ mobileFlow[f] = "authorized" /\ f \notin flowLapsed
  /\ mobileCall' = [mobileCall EXCEPT ![c] = [at |-> "exchange", of |-> f, token |-> NoToken]]
  /\ UNCHANGED <<entitled, mobileFlow, flowLapsed, family, born, refresh, access, reused>>
Exchange(c, t) ==
  LET f == mobileCall[c].of IN
  /\ mobileCall[c].at = "exchange" /\ Ends(c)
  /\ \/ /\ entitled /\ mobileFlow' = [mobileFlow EXCEPT ![f] = "consumed"]
        /\ family' = [family EXCEPT ![f] = "live"] /\ born' = [born EXCEPT ![f] = @ + 1]
        /\ insertMobileTokens(f, t)
     \/ UNCHANGED <<mobileFlow, family, born, refresh, access>>    \* no member, wrong verifier, failure
  /\ UNCHANGED <<entitled, flowLapsed, reused>>

RotateReads(c, t) ==          \* SELECT ... FOR UPDATE OF f
  LET f == refresh[t].family IN
  /\ mobileCall[c] = NoMobileCall /\ t \in Drawn /\ LockFree(f, {"rotate", "fresh"})
  /\ mobileCall' = [mobileCall EXCEPT ![c] =
       [at |-> IF family[f] = "live" THEN "rotate" ELSE "done", of |-> f, token |-> t]]
  /\ UNCHANGED <<entitled, mobileFlow, flowLapsed, family, born, refresh, access, reused>>
RevokeReused(f) == [family EXCEPT ![f] = "revoked"]
RotateDecides(c) ==           \* SELECT consumed_at, in a statement of its own
  LET f == mobileCall[c].of used == refresh[mobileCall[c].token].used IN
  /\ mobileCall[c].at = "rotate"
  /\ IF used THEN family' = RevokeReused(f) /\ reused' = reused \union {f} /\ Ends(c)
     ELSE /\ mobileCall' = [mobileCall EXCEPT ![c].at = IF entitled THEN "fresh" ELSE "done"]
          /\ UNCHANGED <<family, reused>>
  /\ UNCHANGED <<entitled, mobileFlow, flowLapsed, born, refresh, access>>
Consume(t) == [refresh EXCEPT ![t].used = TRUE]
Rotate(c, t) ==
  LET old == mobileCall[c].token f == mobileCall[c].of IN
  /\ mobileCall[c].at = "fresh" /\ Ends(c)
  /\ \/ /\ t \notin Drawn
        /\ refresh' = [Consume(old) EXCEPT ![t].family = f]
        /\ access' = [access EXCEPT ![t].family = f]
     \/ UNCHANGED <<refresh, access>>                        \* rolled back
  /\ UNCHANGED <<entitled, mobileFlow, flowLapsed, family, born, reused>>
Revoke(t) ==                  \* logout, with any token of the family; waits for the lock
  LET f == refresh[t].family IN
  /\ t \in Drawn /\ family[f] = "live" /\ LockFree(f, {"rotate", "fresh"})
  /\ family' = [family EXCEPT ![f] = "revoked"]
  /\ UNCHANGED <<entitled, mobileFlow, flowLapsed, born, refresh, access, mobileCall, reused>>
ResolveToken(t) ==
  LET f == access[t].family IN
  f # NoFlow /\ ~access[t].lapsed /\ family[f] = "live" /\ entitled

(* Time, and the space's members.                                          *)
MobileFlowLapses(f) == /\ mobileFlow[f] \in {"saved", "authorized"} /\ f \notin flowLapsed
                       /\ flowLapsed' = flowLapsed \union {f}
                       /\ UNCHANGED <<entitled, mobileFlow, family, born, refresh, access, mobileCall, reused>>
FamilyExpires(f) == /\ family[f] = "live" /\ family' = [family EXCEPT ![f] = "expired"]
                    /\ UNCHANGED <<entitled, mobileFlow, flowLapsed, born, refresh, access, mobileCall, reused>>
AccessLapses(t) == /\ access[t].family # NoFlow /\ ~access[t].lapsed
                   /\ access' = [access EXCEPT ![t].lapsed = TRUE]
                   /\ UNCHANGED <<entitled, mobileFlow, flowLapsed, family, born, refresh, mobileCall, reused>>
ChangeMember == /\ entitled' = ~entitled
                /\ UNCHANGED <<mobileFlow, flowLapsed, family, born, refresh, access, mobileCall, reused>>

MobileNext ==
  \/ \E f \in Flows : SaveFlow(f) \/ AuthorizeFlow(f) \/ MobileFlowLapses(f) \/ FamilyExpires(f)
  \/ \E c \in Calls : \/ RotateDecides(c)
                      \/ \E f \in Flows : ExchangeReads(c, f)
                      \/ \E t \in Pairs : RotateReads(c, t) \/ Exchange(c, t) \/ Rotate(c, t)
  \/ \E t \in Pairs : Revoke(t) \/ AccessLapses(t)
  \/ ChangeMember
-----------------------------------------------------------------------------
(* An authorisation code opens one session, however often it is presented. *)
FlowExchangedOnce == \A f \in Flows : born[f] <= 1

(* A live family has at most one refresh token that may still be used:     *)
(* concurrent refreshes with one token do not fork the session.            *)
OneLiveToken == \A f \in Flows :
  Cardinality({t \in Pairs : refresh[t].family = f /\ ~refresh[t].used}) <= 1

(* Once a used token was presented to a live family none of its access     *)
(* tokens is honoured again, whatever else is under way.                   *)
ReuseEndsFamily == \A t \in Pairs : access[t].family \in reused => ~ResolveToken(t)
=============================================================================
