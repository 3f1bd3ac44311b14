---------------------------- MODULE GatewayProofs ----------------------------
(***************************************************************************)
(* What GatewaySound says of signing in, of event streams, of presence and *)
(* of the sockets of a bot, for any constants: part by part, and then of   *)
(* the composition.                                                        *)
(***************************************************************************)
EXTENDS MCGateway, Sequences, FiniteSetTheorems, TLAPS
-----------------------------------------------------------------------------
(***************************************************************************)
(* The properties above for any rows, profiles, starts, flows and calls.   *)
(***************************************************************************)
IdentitySpec == IdentityInit /\ [][IdentityNext]_identityVars
WebSpec == WebInit /\ [][WebNext]_webVars
MobileSpec == MobileInit /\ [][MobileNext]_mobileVars

(* Rows of users, and logins under way, as the code may leave them.        *)
Account == [gid : {None} \union {p.id : p \in Profiles},
            login : {None, OwnerLogin} \union Rows \union {p.login : p \in Profiles},
            email : {None, OwnerEmail} \union {p.email : p \in Profiles},
            kind : {"human", "bot"}, role : {"none", "member", "owner"}]
Attempt == [at : {"new", "read", "seeded", "member", "guest"} \union Ended,
            profile : Profiles \union {NoUser}, row : Rows \union {None}, open : BOOLEAN]
IdentityTyped == /\ user \in [Rows -> Account] /\ login \in [Logins -> Attempt]
                 /\ audit \in [Logins -> SUBSET {"success", "rejected"}]
                 /\ \A l \in Logins : login[l].at # "new" => login[l].profile \in Profiles
                 /\ \A l \in Logins : login[l].at = "member" => login[l].row # None

(* No login ever settles on the robot, and its row stays a bot's without a *)
(* GitHub id.                                                              *)
RobotApart == /\ user[Robot].kind = "bot" /\ user[Robot].gid = None
              /\ \A l \in Logins : login[l].row # Robot
IdentityInv == IdentityTyped /\ RobotApart /\ RefusalAudited

LEMMA IdentityInitially == IdentityInit => IdentityInv
<1> SUFFICES ASSUME IdentityInit PROVE IdentityInv OBVIOUS
<1>1. user \in [Rows -> Account] BY SignInAssumption DEF IdentityInit, Account, NoUser
<1>2. login \in [Logins -> Attempt] BY DEF IdentityInit, Attempt, NoLogin
<1>3. user[Robot].kind = "bot" /\ user[Robot].gid = None
  BY SignInAssumption DEF IdentityInit, NoUser
<1> QED BY <1>1, <1>2, <1>3, SignInAssumption DEF IdentityInit, IdentityInv, IdentityTyped, RobotApart,
       RefusalAudited, NoLogin

(* A login that only moves on, with or without an audit row.               *)
LEMMA Moves ==
  ASSUME IdentityInv, NEW l \in Logins, NEW at \in {"seeded", "member", "guest"} \union Ended,
         NEW r \in Rows \union {None}, r # Robot, at = "member" => r # None,
         login[l].at # "new",
         login' = [login EXCEPT ![l].at = at, ![l].row = r],
         \/ UNCHANGED audit /\ at # "refused"
         \/ audit' = [audit EXCEPT ![l] = @ \union {"rejected"}]
         \/ audit' = [audit EXCEPT ![l] = @ \union {"success"}] /\ at # "refused",
         UNCHANGED user
  PROVE  IdentityInv'
<1>0. IdentityTyped /\ RobotApart /\ RefusalAudited BY DEF IdentityInv
<1>1. login[l] \in Attempt /\ login[l].profile \in Profiles BY <1>0 DEF IdentityTyped
<1>2. /\ login' \in [Logins -> Attempt]
      /\ login'[l].at = at /\ login'[l].row = r /\ login'[l].profile = login[l].profile
      /\ \A k \in Logins : k # l => login'[k] = login[k]
  BY <1>0, <1>1 DEF IdentityTyped, Attempt
<1>3. /\ audit' \in [Logins -> SUBSET {"success", "rejected"}]
      /\ at = "refused" => "rejected" \in audit'[l]
      /\ \A k \in Logins : audit[k] \subseteq audit'[k]
  BY <1>0 DEF IdentityTyped
<1>4. IdentityTyped' BY <1>0, <1>1, <1>2, <1>3 DEF IdentityTyped
<1>5. RobotApart' BY <1>0, <1>2 DEF RobotApart
<1>6. RefusalAudited' BY <1>0, <1>2, <1>3 DEF RefusalAudited
<1> QED BY <1>4, <1>5, <1>6 DEF IdentityInv

(* A row as a login writes it: a GitHub id that is there stays.            *)
LEMMA BoundRow ==
  ASSUME IdentityTyped, NEW u \in Rows, NEW p \in Profiles, NEW role \in {"none", "member", "owner"}
  PROVE  /\ Bound(u, p, role) \in Account /\ Bound(u, p, role).kind = user[u].kind
         /\ user[u].gid # None => Bound(u, p, role).gid = user[u].gid
BY DEF IdentityTyped, Account, Bound, BindOnce, Coalesce

LEMMA UpdateStep ==
  ASSUME IdentityInv, NEW l \in Logins, login[l].at # "new", NEW u \in Rows, u # Robot,
         NEW role \in {"none", "member", "owner"}, updateUser(l, u, role)
  PROVE  /\ IdentityInv'
         /\ \A v \in Rows : user[v].gid # None => user'[v].gid = user[v].gid
<1>0. IdentityTyped /\ RobotApart /\ RefusalAudited BY DEF IdentityInv
<1>1. login[l] \in Attempt /\ login[l].profile \in Profiles /\ u # None
  BY <1>0, SignInAssumption DEF IdentityTyped
<1> DEFINE written == Bound(u, login[l].profile, role)
<1>2. CASE Taken(u, written)
  <2>1. login' = [login EXCEPT ![l].at = "failed"] /\ UNCHANGED <<user, audit>>
    BY <1>2 DEF updateUser, Becomes
  <2>2. login' = [login EXCEPT ![l].at = "failed", ![l].row = login[l].row] /\ login[l].row # Robot
    BY <1>0, <1>1, <2>1 DEF RobotApart, Attempt, IdentityTyped
  <2>3. login[l].row \in Rows \union {None} BY <1>1 DEF Attempt
  <2> QED BY <2>1, <2>2, <2>3, Moves DEF Ended
<1>3. CASE ~Taken(u, written)
  <2>1. /\ user' = [user EXCEPT ![u] = written] /\ audit' = [audit EXCEPT ![l] = @ \union {"success"}]
        /\ login' = [login EXCEPT ![l].at = "in", ![l].row = u]
    BY <1>3 DEF updateUser, writeAudit
  <2>2. /\ written \in Account /\ written.kind = user[u].kind
        /\ user[u].gid # None => written.gid = user[u].gid
    BY <1>0, <1>1, BoundRow
  <2> HIDE DEF written
  <2>3. /\ user' \in [Rows -> Account] /\ user'[u] = written /\ \A v \in Rows : v # u => user'[v] = user[v]
    BY <1>0, <2>1, <2>2 DEF IdentityTyped
  <2>4. /\ login' \in [Logins -> Attempt]
        /\ login'[l].at = "in" /\ login'[l].row = u /\ login'[l].profile = login[l].profile
        /\ \A k \in Logins : k # l => login'[k] = login[k]
    BY <1>0, <1>1, <2>1 DEF IdentityTyped, Attempt, Ended
  <2>5. /\ audit' \in [Logins -> SUBSET {"success", "rejected"}]
        /\ \A k \in Logins : audit[k] \subseteq audit'[k]
    BY <1>0, <2>1 DEF IdentityTyped
  <2>6. IdentityTyped' BY <1>0, <1>1, <2>3, <2>4, <2>5 DEF IdentityTyped
  <2>7. RobotApart' BY <1>0, <2>3, <2>4, SignInAssumption DEF RobotApart
  <2>8. RefusalAudited' BY <1>0, <2>4, <2>5 DEF RefusalAudited
  <2> QED BY <2>2, <2>3, <2>6, <2>7, <2>8 DEF IdentityInv
<1> QED BY <1>2, <1>3

(* What a login finds never is the robot: NotHuman refuses it.             *)
LEMMA ResolveStep ==
  ASSUME IdentityInv, NEW l \in Logins, login[l].at # "new", NEW u \in Rows, Resolve(l, u), UNCHANGED user
  PROVE  IdentityInv'
<1>0. IdentityTyped /\ RobotApart BY DEF IdentityInv
<1>1. login[l] \in Attempt /\ u # None BY <1>0, SignInAssumption DEF IdentityTyped
<1>2. CASE NotHuman(u) \/ BoundElsewhere(u, login[l].profile)
  <2>1. login' = [login EXCEPT ![l].at = "refused", ![l].row = login[l].row]
    BY <1>0, <1>1, <1>2 DEF Resolve, Becomes, Attempt, IdentityTyped
  <2>2. audit' = [audit EXCEPT ![l] = @ \union {"rejected"}]
    BY <1>2 DEF Resolve, rejectAuth, writeAudit
  <2>3. login[l].row \in Rows \union {None} /\ login[l].row # Robot BY <1>0, <1>1 DEF Attempt, RobotApart
  <2> QED BY <2>1, <2>2, <2>3, Moves DEF Ended
<1>3. CASE ~(NotHuman(u) \/ BoundElsewhere(u, login[l].profile))
  <2> DEFINE at == IF user[u].role # "none" THEN "member" ELSE "guest"
  <2>1. login' = [login EXCEPT ![l].at = at, ![l].row = u] /\ UNCHANGED audit BY <1>3 DEF Resolve
  <2>2. u # Robot BY <1>0, <1>3 DEF RobotApart, NotHuman
  <2>3. at \in {"member", "guest"} OBVIOUS
  <2> HIDE DEF at
  <2> QED BY <1>1, <2>1, <2>2, <2>3, Moves DEF Ended
<1> QED BY <1>2, <1>3

Keeps == \A u \in Rows : user[u].gid # None => user'[u].gid = user[u].gid

LEMMA LoginStep ==
  ASSUME IdentityInv, NEW l \in Logins,
         \/ ReadIdentity(l) \/ findSeededOwner(l) \/ AdmitMember(l)
         \/ RefuseGuest(l) \/ rejectInvite(l) \/ AcceptInvite(l)
  PROVE  IdentityInv' /\ Keeps
<1>0. IdentityTyped /\ RobotApart BY DEF IdentityInv
<1>1. /\ login[l] \in Attempt /\ login[l].row \in Rows \union {None} /\ login[l].row # Robot
      /\ login[l].at \in {"new", "read", "seeded", "member", "guest"} \union Ended
  BY <1>0 DEF IdentityTyped, Attempt, RobotApart
<1>2. ASSUME NEW at \in {"seeded", "guest"} \union Ended, Becomes(l, at), login[l].at # "new", UNCHANGED user,
             (UNCHANGED audit /\ at # "refused") \/ writeAudit(l, "rejected")
      PROVE  IdentityInv' /\ Keeps
  <2>1. login' = [login EXCEPT ![l].at = at, ![l].row = login[l].row]
    BY <1>0, <1>1, <1>2 DEF Becomes, IdentityTyped, Attempt
  <2>2. at # "member" BY DEF Ended
  <2>3. IdentityInv' BY <1>1, <1>2, <2>1, <2>2, Moves DEF writeAudit
  <2> QED BY <1>2, <2>3 DEF Keeps
<1>3. CASE ReadIdentity(l)
  <2>1. login[l].at # "new" /\ UNCHANGED user BY <1>3 DEF ReadIdentity
  <2> DEFINE p == login[l].profile
  <2>2. CASE Becomes(l, "refused") /\ rejectAuth(l)
    BY <1>2, <2>1, <2>2 DEF rejectAuth, Ended
  <2>3. CASE \E u \in findIdentity(p) : Resolve(l, u)
    <3>1. PICK u \in findIdentity(p) : Resolve(l, u) BY <2>3
    <3>2. u \in Rows BY DEF findIdentity, ById, Aliases
    <3> QED BY <2>1, <3>1, <3>2, ResolveStep DEF Keeps
  <2>4. CASE Becomes(l, IF isSeededOwnerProfile(p) THEN "seeded" ELSE "guest") /\ UNCHANGED audit
    <3> DEFINE at == IF isSeededOwnerProfile(p) THEN "seeded" ELSE "guest"
    <3>1. at \in {"seeded", "guest"} OBVIOUS
    <3>2. Becomes(l, at) BY <2>4
    <3> HIDE DEF at
    <3> QED BY <1>2, <2>1, <2>4, <3>1, <3>2 DEF Ended
  <2> QED BY <1>3, <2>2, <2>3, <2>4 DEF ReadIdentity
<1>4. CASE findSeededOwner(l)
  BY <1>4, ResolveStep, SignInAssumption DEF findSeededOwner, Keeps
<1>5. CASE AdmitMember(l)
  <2>1. login[l].at = "member" /\ login[l].row \in Rows BY <1>0, <1>1, <1>5 DEF AdmitMember, IdentityTyped
  <2>2. CASE user[login[l].row].role = "none"
    BY <1>2, <1>5, <2>1, <2>2 DEF AdmitMember, Ended
  <2>3. CASE user[login[l].row].role # "none"
    <3>1. user[login[l].row].role \in {"none", "member", "owner"} BY <1>0, <2>1 DEF IdentityTyped, Account
    <3>2. updateUser(l, login[l].row, user[login[l].row].role) BY <1>5, <2>3 DEF AdmitMember
    <3> QED BY <1>1, <2>1, <3>1, <3>2, UpdateStep DEF Keeps
  <2> QED BY <2>2, <2>3
<1>6. CASE RefuseGuest(l) \/ rejectInvite(l) BY <1>2, <1>6 DEF RefuseGuest, rejectInvite, Ended
<1>7. CASE AcceptInvite(l)
  <2>1. login[l].at # "new" BY <1>7 DEF AcceptInvite
  <2>2. CASE login[l].row # None
    <3>1. updateUser(l, login[l].row, "member") /\ login[l].row \in Rows BY <1>1, <1>7, <2>2 DEF AcceptInvite
    <3> QED BY <1>1, <2>1, <3>1, UpdateStep DEF Keeps
  <2>3. CASE login[l].row = None
    <3>1. PICK u \in Rows : u # Robot /\ updateUser(l, u, "member") BY <1>7, <2>3 DEF AcceptInvite
    <3> QED BY <2>1, <3>1, UpdateStep DEF Keeps
  <2> QED BY <2>2, <2>3
<1> QED BY <1>3, <1>4, <1>5, <1>6, <1>7

LEMMA IdentityStepInv == IdentityInv /\ [IdentityNext]_identityVars => IdentityInv' /\ Keeps
<1> SUFFICES ASSUME IdentityInv, [IdentityNext]_identityVars PROVE IdentityInv' /\ Keeps OBVIOUS
<1>0. IdentityTyped /\ RobotApart /\ RefusalAudited BY DEF IdentityInv
<1>1. ASSUME NEW l \in Logins, NEW p \in Profiles, NEW o \in BOOLEAN, Begin(l, p, o)
      PROVE  IdentityInv' /\ Keeps
  <2>1. /\ login' \in [Logins -> Attempt] /\ login'[l].at = "read" /\ login'[l].row = None
        /\ login'[l].profile = p /\ \A k \in Logins : k # l => login'[k] = login[k]
    BY <1>0, <1>1 DEF Begin, IdentityTyped, Attempt, NoLogin, NoUser
  <2>2. UNCHANGED <<user, audit>> BY <1>1 DEF Begin
  <2>3. IdentityTyped' BY <1>0, <2>1, <2>2 DEF IdentityTyped
  <2>4. RobotApart' BY <1>0, <2>1, <2>2, SignInAssumption DEF RobotApart
  <2>5. RefusalAudited' BY <1>0, <2>1, <2>2 DEF RefusalAudited
  <2> QED BY <2>2, <2>3, <2>4, <2>5 DEF IdentityInv, Keeps
<1>2. ASSUME NEW u \in Rows, SetRemoved(u) PROVE IdentityInv' /\ Keeps
  <2>1. user' = [user EXCEPT ![u] = [user[u] EXCEPT !.role = "none"]] BY <1>0, <1>2 DEF SetRemoved, IdentityTyped
  <2>2. /\ [user[u] EXCEPT !.role = "none"] \in Account
        /\ [user[u] EXCEPT !.role = "none"].gid = user[u].gid
        /\ [user[u] EXCEPT !.role = "none"].kind = user[u].kind
    BY <1>0 DEF IdentityTyped, Account
  <2>3. /\ user' \in [Rows -> Account]
        /\ \A v \in Rows : user'[v].gid = user[v].gid /\ user'[v].kind = user[v].kind
    BY <1>0, <2>1, <2>2 DEF IdentityTyped
  <2>4. UNCHANGED <<login, audit>> BY <1>2 DEF SetRemoved
  <2> QED BY <1>0, <2>3, <2>4, SignInAssumption DEF IdentityInv, IdentityTyped, RobotApart, RefusalAudited, Keeps
<1>3. CASE UNCHANGED identityVars
  BY <1>0, <1>3 DEF identityVars, IdentityInv, IdentityTyped, RobotApart, RefusalAudited, Keeps
<1> QED BY <1>1, <1>2, <1>3, LoginStep DEF IdentityNext

(* A row that is bound to a GitHub id stays bound to it, however many      *)
(* logins read it as unbound before the first of them committed.           *)
THEOREM BoundOnceCorrect == IdentitySpec => BoundOnce
<1>1. IdentityInv /\ [IdentityNext]_identityVars => [Keeps]_identityVars BY IdentityStepInv
<1>2. Keeps <=> (\A u \in Rows : user[u].gid # None => user'[u].gid = user[u].gid) BY DEF Keeps
<1> QED BY <1>1, <1>2, IdentityInitially, IdentityStepInv, PTL DEF IdentitySpec, BoundOnce

(* Nobody signs in as the robot, and every refusal is on record.           *)
THEOREM IdentityCorrect == IdentitySpec => [](RobotNeverAdmitted /\ RefusalAudited)
<1>1. IdentityInv => RobotNeverAdmitted /\ RefusalAudited
  BY DEF IdentityInv, RobotApart, RobotNeverAdmitted
<1> QED BY <1>1, IdentityInitially, IdentityStepInv, PTL DEF IdentitySpec
-----------------------------------------------------------------------------
Jar == [state : Starts \union {None}, flow : MobileStarts \union {None}, ret : Targets \union {None},
        invite : BOOLEAN, session : Starts \union {None}]
Answering == {"answered", "over"}
WebTyped ==
  /\ jar \in Jar
  /\ start \in [Starts -> [at : {"new", "provider", "back"}, ret : Targets \union {None}]]
  /\ call \in [Starts -> [at : InFlight \union Answering \union {"none"}, cookies : Jar]]
  /\ flow \in [MobileStarts -> {"saved", "authorized", "lapsed"}]
  /\ session \in [Starts -> {"none", "live", "revoked"}]
  /\ landed \in [Starts -> Targets \union {None, "app"}]
  /\ stale \subseteq Starts

(* The cookies of one start are together in the jar: the flow is its own,  *)
(* gone only when it went stale, and the target is the one it asked for.   *)
Together(c, s) == /\ c.state = s => c.flow \in {s, None} /\ c.ret = start[s].ret
                  /\ c.state = s /\ c.flow = None /\ s \in MobileStarts => s \in stale
                  /\ c.flow = s => c.state = s
JarTogether == \A s \in Starts : Together(jar, s) /\ (jar.state = s => start[s].at # "new")

(* A callback that is served carries its own start's cookies, and what     *)
(* came of it was made of them.                                            *)
ServedAt(s) ==
  /\ call[s].at # "none" => start[s].at = "back" /\ Together(call[s].cookies, s)
  /\ call[s].at \in InFlight => call[s].cookies.state = s
  /\ call[s].at = "session" => call[s].cookies.flow = None
  /\ session[s] # "none" => /\ call[s].at \in Answering /\ call[s].cookies.state = s
                            /\ call[s].cookies.flow = None /\ landed[s] = call[s].cookies.ret
  /\ landed[s] = "app" => call[s].at \in Answering /\ call[s].cookies.state = s
Served == \A s \in Starts : ServedAt(s)
Authorized == \A s \in MobileStarts : flow[s] = "authorized" => call[s].at \in Answering /\ landed[s] = "app"
WebInv == WebTyped /\ JarTogether /\ Served /\ Authorized

LEMMA WebInitially == WebInit => WebInv
<1> SUFFICES ASSUME WebInit PROVE WebInv OBVIOUS
<1>1. EmptyJar \in Jar BY DEF EmptyJar, Jar
<1>2. WebTyped BY <1>1 DEF WebInit, WebTyped, NoStart, NoCall
<1>3. JarTogether /\ Served /\ Authorized
  BY SignInAssumption DEF WebInit, JarTogether, Together, Served, ServedAt, Authorized, EmptyJar, NoStart, NoCall,
     InFlight, Answering
<1> QED BY <1>2, <1>3 DEF WebInv

LEMMA WebSafe == WebInv => StartsDoNotMix /\ ReturnsToOwnPage
<1> SUFFICES ASSUME WebInv PROVE StartsDoNotMix /\ ReturnsToOwnPage OBVIOUS
<1>1. WebTyped /\ Served /\ Authorized BY DEF WebInv
<1>2. \A s \in Starts : session[s] # "none" =>
        /\ call[s].cookies.state = s /\ landed[s] = start[s].ret
        /\ s \in MobileStarts => s \in stale
  BY <1>1 DEF Served, ServedAt, Together, Answering
<1>3. \A s \in Starts : landed[s] = "app" => call[s].cookies.state = s BY <1>1 DEF Served, ServedAt
<1> QED BY <1>1, <1>2, <1>3, SignInAssumption DEF StartsDoNotMix, ReturnsToOwnPage, Authorized

(* A start brings its cookies.                                             *)
LEMMA StartStep ==
  ASSUME WebInv, NEW s \in Starts, NEW asked \in Targets \union {None}, NEW invite \in BOOLEAN,
         startGitHub(s, asked, invite)
  PROVE  WebInv'
<1>0. WebTyped /\ JarTogether /\ Served /\ Authorized BY DEF WebInv
<1> DEFINE ret == NormalizeReturnTarget(asked)
           f == IF s \in MobileStarts THEN s ELSE None
<1>1. ret \in Targets \union {None} /\ f \in MobileStarts \union {None} BY DEF NormalizeReturnTarget
<1>2. f \in {s, None} /\ (f = None => s \notin MobileStarts) BY SignInAssumption
<1>3. /\ jar' = [jar EXCEPT !.state = s, !.flow = f, !.ret = ret, !.invite = invite \/ @]
      /\ start' = [start EXCEPT ![s] = [at |-> "provider", ret |-> ret]]
      /\ start[s].at = "new" /\ UNCHANGED <<call, flow, session, landed, stale>>
  BY DEF startGitHub, ReturnCookie, NoStart
<1> HIDE DEF ret, f
<1>4. /\ jar' \in Jar /\ jar'.state = s /\ jar'.flow = f /\ jar'.ret = ret
      /\ start'[s] = [at |-> "provider", ret |-> ret] /\ \A x \in Starts : x # s => start'[x] = start[x]
      /\ start' \in [Starts -> [at : {"new", "provider", "back"}, ret : Targets \union {None}]]
  BY <1>0, <1>1, <1>3 DEF WebTyped, Jar
<1>5. WebTyped' BY <1>0, <1>3, <1>4 DEF WebTyped
<1>6. JarTogether'
  BY <1>0, <1>2, <1>4, SignInAssumption DEF JarTogether, Together
<1>7. ServedAt(s) /\ call[s].at = "none" BY <1>0, <1>3 DEF Served, ServedAt
<1>8. Served'
  <2> SUFFICES ASSUME NEW x \in Starts PROVE ServedAt(x)' BY DEF Served
  <2>1. ServedAt(x) BY <1>0 DEF Served
  <2> QED BY <1>3, <1>4, <1>7, <2>1 DEF ServedAt, Together, InFlight, Answering
<1>9. Authorized' BY <1>0, <1>3 DEF Authorized
<1> QED BY <1>5, <1>6, <1>8, <1>9 DEF WebInv

(* The jar and the starts as they were, or with cookies of nobody.         *)
LEMMA JarKept ==
  ASSUME JarTogether, UNCHANGED <<start, stale>>,
         UNCHANGED jar \/ (jar'.state = None /\ jar'.flow = None) \/
         (jar'.state = jar.state /\ jar'.flow = jar.flow /\ jar'.ret = jar.ret)
  PROVE  JarTogether'
BY SignInAssumption DEF JarTogether, Together

(* A callback that moves on, with nothing made of it.                      *)
LEMMA CallMoves ==
  ASSUME WebInv, NEW s \in Starts, NEW at \in InFlight \union Answering,
         call[s].at \in InFlight \/ (call[s].at \in Answering /\ at \in Answering),
         at = "session" => call[s].cookies.flow = None,
         Goes(s, at), UNCHANGED <<jar, start, flow, session, landed, stale>>
  PROVE  WebInv'
<1>0. WebTyped /\ JarTogether /\ Served /\ Authorized BY DEF WebInv
<1>1. /\ call' \in [Starts -> [at : InFlight \union Answering \union {"none"}, cookies : Jar]]
      /\ call'[s].at = at /\ call'[s].cookies = call[s].cookies
      /\ \A x \in Starts : x # s => call'[x] = call[x]
  BY <1>0 DEF Goes, WebTyped
<1>2. WebTyped' BY <1>0, <1>1 DEF WebTyped
<1>3. JarTogether' BY <1>0, JarKept
<1>4. ServedAt(s)'
  <2>1. ServedAt(s) BY <1>0 DEF Served
  <2> QED BY <1>1, <2>1 DEF ServedAt, Together, InFlight, Answering
<1>5. \A x \in Starts : x # s => ServedAt(x)'
  BY <1>0, <1>1 DEF Served, ServedAt, Together
<1>6. Authorized' BY <1>0, <1>1, SignInAssumption DEF Authorized, InFlight, Answering
<1> QED BY <1>2, <1>3, <1>4, <1>5, <1>6 DEF WebInv, Served

LEMMA CallbackStep ==
  ASSUME WebInv, NEW s \in Starts, HandleGitHubCallback(s)
  PROVE  WebInv'
<1>0. WebTyped /\ JarTogether /\ Served /\ Authorized BY DEF WebInv
<1> DEFINE at == IF SameState(s) THEN "token" ELSE "answered"
<1>1. /\ start[s].at = "provider" /\ start' = [start EXCEPT ![s].at = "back"]
      /\ call' = [call EXCEPT ![s] = [at |-> at, cookies |-> jar]]
      /\ UNCHANGED <<jar, flow, session, landed, stale>>
  BY DEF HandleGitHubCallback
<1>2. at \in {"token", "answered"} /\ (at = "token" => jar.state = s) BY DEF SameState
<1> HIDE DEF at
<1>3. /\ start' \in [Starts -> [at : {"new", "provider", "back"}, ret : Targets \union {None}]]
      /\ start'[s].at = "back" /\ start'[s].ret = start[s].ret
      /\ \A x \in Starts : x # s => start'[x] = start[x]
  BY <1>0, <1>1 DEF WebTyped
<1>4. /\ call' \in [Starts -> [at : InFlight \union Answering \union {"none"}, cookies : Jar]]
      /\ call'[s].at = at /\ call'[s].cookies = jar /\ \A x \in Starts : x # s => call'[x] = call[x]
  BY <1>0, <1>1, <1>2 DEF WebTyped, InFlight, Answering
<1>5. WebTyped' BY <1>0, <1>1, <1>3, <1>4 DEF WebTyped
<1>6. JarTogether' BY <1>0, <1>1, <1>3 DEF JarTogether, Together
<1>7. call[s].at = "none" /\ ServedAt(s) /\ Together(jar, s) BY <1>0, <1>1 DEF Served, ServedAt, JarTogether
<1>8. ServedAt(s)'
  BY <1>1, <1>2, <1>3, <1>4, <1>7 DEF ServedAt, Together, InFlight, Answering
<1>9. \A x \in Starts : x # s => ServedAt(x)'
  BY <1>0, <1>1, <1>3, <1>4 DEF Served, ServedAt, Together
<1>10. Authorized' BY <1>0, <1>1, <1>4, <1>7, SignInAssumption DEF Authorized, Answering
<1> QED BY <1>5, <1>6, <1>8, <1>9, <1>10 DEF WebInv, Served

(* A flow is authorised with the cookies of its own start.                 *)
LEMMA FlowStep ==
  ASSUME WebInv, NEW s \in Starts, completeMobile(s)
  PROVE  WebInv'
<1>0. WebTyped /\ JarTogether /\ Served /\ Authorized BY DEF WebInv
<1>1. call[s].at = "store" /\ Goes(s, "answered") /\ UNCHANGED <<jar, start, session, stale>>
  BY DEF completeMobile
<1>2. CASE UNCHANGED <<flow, landed>>
  BY <1>1, <1>2, CallMoves DEF InFlight, Answering
<1>3. CASE ~UNCHANGED <<flow, landed>>
  <2>1. ServedAt(s) BY <1>0 DEF Served
  <2>2. call[s].cookies.state = s BY <1>1, <2>1 DEF ServedAt, InFlight
  <2>3. /\ call[s].cookies.flow = s /\ flow' = [flow EXCEPT ![s] = "authorized"]
        /\ landed' = [landed EXCEPT ![s] = "app"]
    BY <1>3, <2>2 DEF completeMobile, MatchesState
  <2>4. call[s].cookies \in Jar BY <1>0 DEF WebTyped
  <2>5. s \in MobileStarts BY <2>3, <2>4, SignInAssumption DEF Jar
  <2>6. /\ call' \in [Starts -> [at : InFlight \union Answering \union {"none"}, cookies : Jar]]
        /\ call'[s].at = "answered" /\ call'[s].cookies = call[s].cookies
        /\ \A x \in Starts : x # s => call'[x] = call[x]
    BY <1>0, <1>1 DEF Goes, WebTyped, Answering
  <2>7. /\ landed' \in [Starts -> Targets \union {None, "app"}] /\ landed'[s] = "app"
        /\ \A x \in Starts : x # s => landed'[x] = landed[x]
        /\ flow' \in [MobileStarts -> {"saved", "authorized", "lapsed"}] /\ flow'[s] = "authorized"
        /\ \A x \in MobileStarts : x # s => flow'[x] = flow[x]
    BY <1>0, <2>3, <2>5 DEF WebTyped
  <2>8. WebTyped' BY <1>0, <1>1, <2>6, <2>7 DEF WebTyped
  <2>9. JarTogether' BY <1>0, <1>1, JarKept
  <2>10. session[s] = "none" BY <1>1, <2>1 DEF ServedAt, Answering
  <2>11. ServedAt(s)'
    BY <1>1, <2>1, <2>2, <2>6, <2>7, <2>10 DEF ServedAt, Together, InFlight, Answering
  <2>12. \A x \in Starts : x # s => ServedAt(x)' BY <1>0, <1>1, <2>6, <2>7 DEF Served, ServedAt, Together
  <2>13. Authorized'
    BY <1>0, <2>6, <2>7, SignInAssumption DEF Authorized, Answering
  <2> QED BY <2>8, <2>9, <2>11, <2>12, <2>13 DEF WebInv, Served
<1> QED BY <1>2, <1>3

LEMMA SessionStep ==
  ASSUME WebInv, NEW s \in Starts, CreateSession(s)
  PROVE  WebInv'
<1>0. WebTyped /\ JarTogether /\ Served /\ Authorized BY DEF WebInv
<1>1. call[s].at = "session" /\ Goes(s, "answered") /\ UNCHANGED <<jar, start, flow, stale>>
  BY DEF CreateSession
<1>2. CASE UNCHANGED <<session, landed>>
  BY <1>1, <1>2, CallMoves DEF InFlight, Answering
<1>3. CASE ~UNCHANGED <<session, landed>>
  <2> DEFINE c == call[s].cookies
  <2>1. ServedAt(s) BY <1>0 DEF Served
  <2>2. c.state = s /\ c.flow = None BY <1>1, <2>1 DEF ServedAt, InFlight
  <2>3. session' = [session EXCEPT ![s] = "live"] /\ landed' = [landed EXCEPT ![s] = c.ret]
    BY <1>3 DEF CreateSession, frontendURL
  <2>4. c \in Jar /\ c.ret \in Targets \union {None} BY <1>0 DEF WebTyped, Jar
  <2>6. /\ call' \in [Starts -> [at : InFlight \union Answering \union {"none"}, cookies : Jar]]
        /\ call'[s].at = "answered" /\ call'[s].cookies = c
        /\ \A x \in Starts : x # s => call'[x] = call[x]
    BY <1>0, <1>1 DEF Goes, WebTyped, Answering
  <2>7. /\ landed' \in [Starts -> Targets \union {None, "app"}] /\ landed'[s] = c.ret
        /\ \A x \in Starts : x # s => landed'[x] = landed[x]
        /\ session' \in [Starts -> {"none", "live", "revoked"}] /\ session'[s] = "live"
        /\ \A x \in Starts : x # s => session'[x] = session[x]
    BY <1>0, <2>3, <2>4 DEF WebTyped
  <2>8. WebTyped' BY <1>0, <1>1, <2>6, <2>7 DEF WebTyped
  <2>9. JarTogether' BY <1>0, <1>1, JarKept
  <2>11. ServedAt(s)'
    BY <1>1, <2>1, <2>2, <2>6, <2>7 DEF ServedAt, Together, InFlight, Answering
  <2>12. \A x \in Starts : x # s => ServedAt(x)' BY <1>0, <1>1, <2>6, <2>7 DEF Served, ServedAt, Together
  <2>13. Authorized'
    <3>1. s \in MobileStarts => flow[s] # "authorized" BY <1>0, <1>1 DEF Authorized, Answering
    <3> QED BY <1>0, <1>1, <2>6, <2>7, <3>1, SignInAssumption DEF Authorized, Answering
  <2> QED BY <2>8, <2>9, <2>11, <2>12, <2>13 DEF WebInv, Served
<1> QED BY <1>2, <1>3

(* An answer clears the cookies of whoever is in the jar.                  *)
LEMMA AnswerStep ==
  ASSUME WebInv, NEW s \in Starts, NEW spent \in BOOLEAN, AnswerArrives(s, spent)
  PROVE  WebInv'
<1>0. WebTyped /\ JarTogether /\ Served /\ Authorized BY DEF WebInv
<1>1. call[s].at = "answered" /\ Goes(s, "over") /\ UNCHANGED <<start, flow, session, landed, stale>>
  BY DEF AnswerArrives
<1>2. jar' \in Jar /\ jar'.state = None /\ jar'.flow = None
  BY <1>0 DEF AnswerArrives, WebTyped, Jar
<1>3. JarTogether' BY <1>0, <1>1, <1>2, JarKept
<1>4. /\ call' \in [Starts -> [at : InFlight \union Answering \union {"none"}, cookies : Jar]]
      /\ call'[s].at = "over" /\ call'[s].cookies = call[s].cookies
      /\ \A x \in Starts : x # s => call'[x] = call[x]
  BY <1>0, <1>1 DEF Goes, WebTyped, Answering
<1>5. WebTyped' BY <1>0, <1>1, <1>2, <1>4 DEF WebTyped
<1>6. ServedAt(s)'
  <2>1. ServedAt(s) BY <1>0 DEF Served
  <2> QED BY <1>1, <1>4, <2>1 DEF ServedAt, Together, InFlight, Answering
<1>7. \A x \in Starts : x # s => ServedAt(x)' BY <1>0, <1>1, <1>4 DEF Served, ServedAt, Together
<1>8. Authorized' BY <1>0, <1>1, <1>4, SignInAssumption DEF Authorized, Answering
<1> QED BY <1>3, <1>5, <1>6, <1>7, <1>8 DEF WebInv, Served

LEMMA LapseStep ==
  ASSUME WebInv, NEW s \in MobileStarts, FlowLapses(s)
  PROVE  WebInv'
<1>0. WebTyped /\ JarTogether /\ Served /\ Authorized /\ s \in Starts BY SignInAssumption DEF WebInv
<1>1. /\ jar.flow = s /\ flow' = [flow EXCEPT ![s] = "lapsed"] /\ jar' = [jar EXCEPT !.flow = None]
      /\ stale' = stale \union {s} /\ UNCHANGED <<start, call, session, landed>>
  BY DEF FlowLapses
<1>2. /\ jar' \in Jar /\ jar'.flow = None /\ jar'.state = jar.state /\ jar'.ret = jar.ret
      /\ flow' \in [MobileStarts -> {"saved", "authorized", "lapsed"}] /\ flow'[s] = "lapsed"
      /\ \A x \in MobileStarts : x # s => flow'[x] = flow[x]
  BY <1>0, <1>1 DEF WebTyped, Jar
<1>3. WebTyped' BY <1>0, <1>1, <1>2 DEF WebTyped
<1>4. jar.state = s BY <1>0, <1>1 DEF JarTogether, Together
<1>5. JarTogether' BY <1>0, <1>1, <1>2, <1>4, SignInAssumption DEF JarTogether, Together
<1>6. Served' BY <1>0, <1>1 DEF Served, ServedAt, Together
<1>7. Authorized' BY <1>0, <1>1, <1>2 DEF Authorized
<1> QED BY <1>3, <1>5, <1>6, <1>7 DEF WebInv

LEMMA WebStepInv == WebInv /\ [WebNext]_webVars => WebInv'
<1> SUFFICES ASSUME WebInv, [WebNext]_webVars PROVE WebInv' OBVIOUS
<1>0. WebTyped /\ JarTogether /\ Served /\ Authorized BY DEF WebInv
<1>1. ASSUME NEW s \in Starts, HandleGitHubStart(s) \/ HandleMobileAuthorize(s) PROVE WebInv'
  BY <1>1, StartStep DEF HandleGitHubStart, HandleMobileAuthorize
<1>2. ASSUME NEW s \in Starts, ProviderAnswers(s) PROVE WebInv'
  BY <1>2, CallMoves DEF ProviderAnswers, getJSON, InFlight, Answering
<1>3. ASSUME NEW s \in Starts, recordProviderRejection(s) \/ AuthRefuses(s) PROVE WebInv'
  BY <1>3, CallMoves DEF recordProviderRejection, AuthRefuses, DeadlineCovers, InFlight, Answering
<1>4. ASSUME NEW s \in Starts, ActorFound(s) PROVE WebInv'
  BY <1>4, CallMoves DEF ActorFound, InFlight, Answering
<1>5. ASSUME NEW s \in Starts, AnswerLost(s) PROVE WebInv'
  BY <1>5, CallMoves DEF AnswerLost, InFlight, Answering
<1>6. CASE HandleLogout
  <2>1. /\ jar' = [jar EXCEPT !.session = None] /\ jar.session # None
        /\ RevokeSession(jar.session) \/ UNCHANGED session
        /\ UNCHANGED <<start, call, flow, landed, stale>>
    BY <1>6 DEF HandleLogout
  <2>2. jar.session \in Starts BY <1>0, <2>1 DEF WebTyped, Jar
  <2>3. /\ session' \in [Starts -> {"none", "live", "revoked"}]
        /\ \A x \in Starts : session'[x] # "none" => session[x] # "none"
    BY <1>0, <2>1, <2>2 DEF RevokeSession, WebTyped
  <2>4. /\ jar' \in Jar /\ jar'.state = jar.state /\ jar'.flow = jar.flow /\ jar'.ret = jar.ret
    BY <1>0, <2>1 DEF WebTyped, Jar
  <2>5. WebTyped' BY <1>0, <2>1, <2>3, <2>4 DEF WebTyped
  <2>6. JarTogether' BY <1>0, <2>1, <2>4, JarKept
  <2>7. Served' BY <1>0, <2>1, <2>3 DEF Served, ServedAt, Together
  <2> QED BY <1>0, <2>1, <2>5, <2>6, <2>7 DEF WebInv, Authorized
<1>7. CASE SetGate \/ UNCHANGED webVars
  BY <1>0, <1>7 DEF SetGate, webVars, WebInv, WebTyped, JarTogether, Served, ServedAt, Together, Authorized
<1> QED BY <1>1, <1>2, <1>3, <1>4, <1>5, <1>6, <1>7, CallbackStep, FlowStep, SessionStep, AnswerStep, LapseStep
        DEF WebNext, Serve

(* Starts of several tabs do not mix, for any number of them and whatever  *)
(* answers are lost: the state cookie names the start whose other cookies  *)
(* the jar holds (auth/http.go).                                           *)
THEOREM WebLoginCorrect == WebSpec => [](StartsDoNotMix /\ ReturnsToOwnPage)
BY WebInitially, WebStepInv, WebSafe, PTL DEF WebSpec
-----------------------------------------------------------------------------
Token == [family : Flows \union {NoFlow}, used : BOOLEAN]
MobileCall == [at : {"new", "exchange", "rotate", "fresh", "done"},
               of : Flows \union {NoFlow}, token : Pairs \union {NoToken}]
MobileTyped ==
  /\ mobileFlow \in [Flows -> {"new", "saved", "authorized", "consumed"}]
  /\ family \in [Flows -> {"none", "live", "revoked", "expired"}] /\ born \in [Flows -> Nat]
  /\ refresh \in [Pairs -> Token]
  /\ mobileCall \in [Calls -> MobileCall]
  /\ reused \subseteq Flows

(* The row locks: one call at a time exchanges a flow, one rotates a       *)
(* family.                                                                 *)
Rotating == {"rotate", "fresh"}
RowLocks ==
  \A c, d \in Calls : mobileCall[c].of = mobileCall[d].of /\ c # d =>
    /\ ~(mobileCall[c].at = "exchange" /\ mobileCall[d].at = "exchange")
    /\ ~(mobileCall[c].at \in Rotating /\ mobileCall[d].at \in Rotating)

(* What a call read stands as long as it holds its lock.                   *)
ReadStands(c) ==
  /\ mobileCall[c].at = "exchange" =>
       mobileCall[c].of \in Flows /\ mobileFlow[mobileCall[c].of] = "authorized"
  /\ mobileCall[c].at \in Rotating =>
       /\ mobileCall[c].of \in Flows /\ mobileCall[c].token \in Pairs
       /\ refresh[mobileCall[c].token].family = mobileCall[c].of
  /\ mobileCall[c].at = "fresh" => ~refresh[mobileCall[c].token].used
ReadsStand == \A c \in Calls : ReadStands(c)

(* A flow that is not consumed has no family, no tokens and no reuse; a    *)
(* family has one unused token, and ends where a used one came back.       *)
FlowsOnce ==
  \A f \in Flows :
    /\ born[f] = IF mobileFlow[f] = "consumed" THEN 1 ELSE 0
    /\ mobileFlow[f] # "consumed" => f \notin reused /\ \A t \in Pairs : refresh[t].family # f
    /\ f \in reused => family[f] # "live"
TokensOnce ==
  /\ \A t \in Pairs : refresh[t].family = NoFlow => ~refresh[t].used
  /\ \A t, u \in Pairs : /\ refresh[t].family = refresh[u].family /\ refresh[t].family # NoFlow
                         /\ ~refresh[t].used /\ ~refresh[u].used
                         => t = u
MobileInv == MobileTyped /\ RowLocks /\ ReadsStand /\ FlowsOnce /\ TokensOnce

LEMMA MobileInitially == MobileInit => MobileInv
<1> SUFFICES ASSUME MobileInit PROVE MobileInv OBVIOUS
<1>1. MobileTyped BY DEF MobileInit, MobileTyped, Token, NoMobileCall, MobileCall
<1> QED BY <1>1, SignInAssumption DEF MobileInit, MobileInv, RowLocks, ReadsStand, ReadStands, FlowsOnce,
       TokensOnce, NoMobileCall, Rotating

LEMMA MobileSafe == MobileInv => FlowExchangedOnce /\ OneLiveToken /\ ReuseEndsFamily
<1> SUFFICES ASSUME MobileInv PROVE FlowExchangedOnce /\ OneLiveToken /\ ReuseEndsFamily OBVIOUS
<1>0. MobileTyped /\ FlowsOnce /\ TokensOnce BY DEF MobileInv
<1>1. FlowExchangedOnce BY <1>0 DEF FlowsOnce, FlowExchangedOnce
<1>2. OneLiveToken
  <2> SUFFICES ASSUME NEW f \in Flows
               PROVE  Cardinality({t \in Pairs : refresh[t].family = f /\ ~refresh[t].used}) <= 1
    BY DEF OneLiveToken
  <2> DEFINE S == {t \in Pairs : refresh[t].family = f /\ ~refresh[t].used}
  <2>1. \A t, u \in S : t = u BY <1>0, SignInAssumption DEF TokensOnce
  <2>2. CASE S = {} BY <2>2, FS_EmptySet
  <2>3. CASE S # {}
    <3>1. PICK t \in S : S = {t} BY <2>1, <2>3
    <3>2. Cardinality(S) = 1 BY <3>1, FS_Singleton
    <3> QED BY <3>2
  <2> QED BY <2>2, <2>3
<1>3. ReuseEndsFamily BY <1>0 DEF MobileTyped, FlowsOnce, ReuseEndsFamily, ResolveToken
<1> QED BY <1>1, <1>2, <1>3

LEMMA AuthorizeStep ==
  ASSUME MobileInv, NEW f \in Flows, SaveFlow(f) \/ AuthorizeFlow(f)
  PROVE  MobileInv'
<1>0. MobileTyped /\ RowLocks /\ ReadsStand /\ FlowsOnce /\ TokensOnce BY DEF MobileInv
<1>1. /\ mobileFlow[f] \in {"new", "saved"} /\ UNCHANGED <<family, born, refresh, mobileCall, reused>>
      /\ mobileFlow' = [mobileFlow EXCEPT ![f] = "saved"] \/ mobileFlow' = [mobileFlow EXCEPT ![f] = "authorized"]
  BY DEF SaveFlow, AuthorizeFlow
<1>2. /\ mobileFlow' \in [Flows -> {"new", "saved", "authorized", "consumed"}]
      /\ \A g \in Flows : /\ mobileFlow'[g] = "consumed" <=> mobileFlow[g] = "consumed"
                          /\ mobileFlow[g] = "authorized" => mobileFlow'[g] = "authorized"
  BY <1>0, <1>1 DEF MobileTyped
<1>3. MobileTyped' /\ RowLocks' /\ TokensOnce' BY <1>0, <1>1, <1>2 DEF MobileTyped, RowLocks, TokensOnce
<1>4. ReadsStand' BY <1>0, <1>1, <1>2 DEF ReadsStand, ReadStands
<1>5. FlowsOnce' BY <1>0, <1>1, <1>2 DEF FlowsOnce
<1> QED BY <1>3, <1>4, <1>5 DEF MobileInv

(* A family that ends, by its age or by a logout.                          *)
LEMMA EndStep ==
  ASSUME MobileInv, NEW f \in Flows, NEW s \in {"revoked", "expired"}, family' = [family EXCEPT ![f] = s],
         UNCHANGED <<mobileFlow, born, refresh, mobileCall, reused>>
  PROVE  MobileInv'
<1>0. MobileTyped /\ RowLocks /\ ReadsStand /\ FlowsOnce /\ TokensOnce BY DEF MobileInv
<1>1. /\ family' \in [Flows -> {"none", "live", "revoked", "expired"}]
      /\ \A g \in Flows : family'[g] = "live" => family[g] = "live"
  BY <1>0 DEF MobileTyped
<1>2. MobileTyped' /\ RowLocks' /\ TokensOnce' BY <1>0, <1>1 DEF MobileTyped, RowLocks, TokensOnce
<1>3. ReadsStand' BY <1>0 DEF ReadsStand, ReadStands
<1>4. FlowsOnce' BY <1>0, <1>1 DEF FlowsOnce
<1> QED BY <1>2, <1>3, <1>4 DEF MobileInv

(* A call that takes its lock, or ends.                                    *)
LEMMA CallStep ==
  ASSUME MobileInv, NEW c \in Calls,
         NEW r \in MobileCall,
         mobileCall' = [mobileCall EXCEPT ![c] = r],
         r.at = "exchange" => r.of \in Flows /\ mobileFlow[r.of] = "authorized" /\ LockFree(r.of, {"exchange"}),
         r.at \in Rotating => /\ r.of \in Flows /\ r.token \in Pairs /\ refresh[r.token].family = r.of
                              /\ \/ LockFree(r.of, Rotating)
                                 \/ mobileCall[c].at \in Rotating /\ mobileCall[c].of = r.of,
         r.at = "fresh" => ~refresh[r.token].used,
         UNCHANGED <<mobileFlow, family, born, refresh, reused>>
  PROVE  MobileInv'
<1>0. MobileTyped /\ RowLocks /\ ReadsStand /\ FlowsOnce /\ TokensOnce BY DEF MobileInv
<1>1. /\ mobileCall' \in [Calls -> MobileCall]
      /\ mobileCall'[c] = r /\ \A d \in Calls : d # c => mobileCall'[d] = mobileCall[d]
  BY <1>0 DEF MobileTyped
<1>2. MobileTyped' BY <1>0, <1>1 DEF MobileTyped
<1>3. ASSUME NEW d \in Calls, d # c, mobileCall[d].of = r.of
      PROVE  /\ ~(r.at = "exchange" /\ mobileCall[d].at = "exchange")
             /\ ~(r.at \in Rotating /\ mobileCall[d].at \in Rotating)
  BY <1>0, <1>3 DEF RowLocks, LockFree
<1>4. RowLocks' BY <1>0, <1>1, <1>3 DEF RowLocks
<1>5. ReadsStand' BY <1>0, <1>1 DEF ReadsStand, ReadStands, Rotating
<1>6. FlowsOnce' /\ TokensOnce' BY <1>0 DEF FlowsOnce, TokensOnce
<1> QED BY <1>2, <1>4, <1>5, <1>6 DEF MobileInv

(* The one exchange of a flow: it finds no token of the family it opens.   *)
LEMMA ExchangeStep ==
  ASSUME MobileInv, NEW c \in Calls, NEW t \in Pairs, Exchange(c, t)
  PROVE  MobileInv'
<1>0. MobileTyped /\ RowLocks /\ ReadsStand /\ FlowsOnce /\ TokensOnce BY DEF MobileInv
<1>1. PICK f \in Flows : f = mobileCall[c].of /\ mobileFlow[f] = "authorized" /\ mobileCall[c].at = "exchange"
  BY <1>0 DEF Exchange, ReadsStand, ReadStands
<1>2. /\ mobileCall' = [mobileCall EXCEPT ![c] = [mobileCall[c] EXCEPT !.at = "done"]]
      /\ [mobileCall[c] EXCEPT !.at = "done"] \in MobileCall
      /\ [mobileCall[c] EXCEPT !.at = "done"].at = "done" /\ UNCHANGED reused
  BY <1>0 DEF Exchange, Ends, MobileTyped, MobileCall
<1>3. CASE UNCHANGED <<mobileFlow, family, born, refresh>>
  BY <1>2, <1>3, CallStep DEF Rotating
<1>4. CASE ~UNCHANGED <<mobileFlow, family, born, refresh>>
  <2>1. /\ mobileFlow' = [mobileFlow EXCEPT ![f] = "consumed"] /\ family' = [family EXCEPT ![f] = "live"]
        /\ born' = [born EXCEPT ![f] = @ + 1] /\ refresh[t].family = NoFlow
        /\ refresh' = [refresh EXCEPT ![t] = [refresh[t] EXCEPT !.family = f]]
    BY <1>0, <1>1, <1>4 DEF Exchange, insertMobileTokens, Drawn, MobileTyped
  <2>2. born[f] = 0 /\ f \notin reused /\ ~refresh[t].used /\ \A u \in Pairs : refresh[u].family # f
    BY <1>0, <1>1, <2>1 DEF FlowsOnce, TokensOnce
  <2>3. /\ mobileFlow' \in [Flows -> {"new", "saved", "authorized", "consumed"}] /\ mobileFlow'[f] = "consumed"
        /\ \A g \in Flows : g # f => mobileFlow'[g] = mobileFlow[g]
        /\ family' \in [Flows -> {"none", "live", "revoked", "expired"}]
        /\ \A g \in Flows : g # f => family'[g] = family[g]
        /\ born' \in [Flows -> Nat] /\ born'[f] = 1 /\ \A g \in Flows : g # f => born'[g] = born[g]
    BY <1>0, <2>1, <2>2 DEF MobileTyped
  <2>4. /\ refresh' \in [Pairs -> Token] /\ refresh'[t].family = f /\ ~refresh'[t].used
        /\ \A u \in Pairs : u # t => refresh'[u] = refresh[u]
    BY <1>0, <2>1, <2>2 DEF MobileTyped, Token
  <2>5. /\ mobileCall' \in [Calls -> MobileCall]
        /\ mobileCall'[c].at = "done" /\ mobileCall'[c].of = f
        /\ \A d \in Calls : d # c => mobileCall'[d] = mobileCall[d]
    BY <1>0, <1>1, <1>2 DEF MobileTyped
  <2>6. MobileTyped' BY <1>0, <1>2, <2>3, <2>4, <2>5 DEF MobileTyped
  <2>7. RowLocks' BY <1>0, <2>5 DEF RowLocks, Rotating
  <2>8. ASSUME NEW d \in Calls PROVE ReadStands(d)'
    <3>1. CASE d = c BY <2>5, <3>1 DEF ReadStands, Rotating
    <3>2. CASE d # c
      <4>1. ReadStands(d) BY <1>0 DEF ReadsStand
      <4>2. mobileCall[d].at = "exchange" => mobileCall[d].of # f BY <1>0, <1>1, <3>2 DEF RowLocks
      <4>3. mobileCall[d].at \in Rotating => mobileCall[d].token # t
        BY <2>1, <4>1, SignInAssumption DEF ReadStands
      <4> QED BY <2>3, <2>4, <2>5, <3>2, <4>1, <4>2, <4>3 DEF ReadStands, Rotating
    <3> QED BY <3>1, <3>2
  <2>9. FlowsOnce' BY <1>0, <1>2, <2>2, <2>3, <2>4 DEF FlowsOnce
  <2>10. TokensOnce' BY <1>0, <2>2, <2>4, SignInAssumption DEF TokensOnce
  <2> QED BY <2>6, <2>7, <2>8, <2>9, <2>10 DEF MobileInv, ReadsStand
<1> QED BY <1>3, <1>4

(* A rotation uses up the one token that was left, and draws the next.     *)
LEMMA RotateStep ==
  ASSUME MobileInv, NEW c \in Calls, NEW t \in Pairs, Rotate(c, t)
  PROVE  MobileInv'
<1>0. MobileTyped /\ RowLocks /\ ReadsStand /\ FlowsOnce /\ TokensOnce BY DEF MobileInv
<1>1. PICK f \in Flows, old \in Pairs :
        /\ f = mobileCall[c].of /\ old = mobileCall[c].token /\ mobileCall[c].at = "fresh"
        /\ refresh[old].family = f /\ ~refresh[old].used
  BY <1>0 DEF Rotate, ReadsStand, ReadStands, Rotating
<1>2. /\ mobileCall' = [mobileCall EXCEPT ![c] = [mobileCall[c] EXCEPT !.at = "done"]]
      /\ [mobileCall[c] EXCEPT !.at = "done"] \in MobileCall
      /\ [mobileCall[c] EXCEPT !.at = "done"].at = "done" /\ UNCHANGED <<mobileFlow, family, born, reused>>
  BY <1>0 DEF Rotate, Ends, MobileTyped, MobileCall
<1>3. CASE UNCHANGED refresh
  BY <1>2, <1>3, CallStep DEF Rotating
<1>4. CASE ~UNCHANGED refresh
  <2>1. refresh[t].family = NoFlow /\ refresh' = [Consume(old) EXCEPT ![t].family = f] /\ t # old
    BY <1>1, <1>4, SignInAssumption DEF Rotate, Drawn
  <2>2. ~refresh[t].used BY <1>0, <2>1 DEF TokensOnce
  <2>3. /\ refresh' \in [Pairs -> Token] /\ refresh'[t].family = f /\ ~refresh'[t].used
        /\ refresh'[old].used /\ refresh'[old].family = f
        /\ \A u \in Pairs : u # t /\ u # old => refresh'[u] = refresh[u]
    <3> DEFINE a == [refresh[old] EXCEPT !.used = TRUE]
               b == [refresh[t] EXCEPT !.family = f]
    <3>1. refresh[old] \in Token /\ refresh[t] \in Token BY <1>0 DEF MobileTyped
    <3>2. a \in Token /\ a.used = TRUE /\ a.family = f BY <1>1, <3>1 DEF Token
    <3>3. b \in Token /\ b.used = FALSE /\ b.family = f BY <2>2, <3>1 DEF Token
    <3>4. Consume(old) = [refresh EXCEPT ![old] = a] BY <1>0 DEF MobileTyped, Consume
    <3>5. Consume(old) \in [Pairs -> Token] /\ Consume(old)[t] = refresh[t]
      BY <1>0, <2>1, <3>2, <3>4 DEF MobileTyped
    <3>6. refresh' = [Consume(old) EXCEPT ![t] = b] BY <2>1, <3>5
    <3> HIDE DEF a, b
    <3>7. /\ refresh' \in [Pairs -> Token] /\ refresh'[t] = b /\ refresh'[old] = a
          /\ \A u \in Pairs : u # t /\ u # old => refresh'[u] = refresh[u]
      BY <1>0, <2>1, <3>2, <3>4, <3>5, <3>6, <3>3 DEF MobileTyped
    <3> QED BY <3>2, <3>3, <3>7
  <2>4. /\ mobileCall' \in [Calls -> MobileCall]
        /\ mobileCall'[c].at = "done" /\ mobileCall'[c].of = f
        /\ \A d \in Calls : d # c => mobileCall'[d] = mobileCall[d]
    BY <1>0, <1>1, <1>2 DEF MobileTyped
  <2>5. MobileTyped' BY <1>0, <1>2, <2>3, <2>4 DEF MobileTyped
  <2>6. RowLocks' BY <1>0, <2>4 DEF RowLocks, Rotating
  <2>7. ASSUME NEW d \in Calls PROVE ReadStands(d)'
    <3>1. CASE d = c BY <2>4, <3>1 DEF ReadStands, Rotating
    <3>2. CASE d # c
      <4>1. ReadStands(d) BY <1>0 DEF ReadsStand
      <4>2. mobileCall[d].at \in Rotating => mobileCall[d].of # f BY <1>0, <1>1, <3>2 DEF RowLocks, Rotating
      <4>3. mobileCall[d].at \in Rotating => mobileCall[d].token # t /\ mobileCall[d].token # old
        BY <1>1, <2>1, <4>1, <4>2, SignInAssumption DEF ReadStands
      <4> QED BY <1>2, <2>3, <2>4, <3>2, <4>1, <4>3 DEF ReadStands, Rotating
    <3> QED BY <3>1, <3>2
  <2>8. FlowsOnce' BY <1>0, <1>1, <1>2, <2>3 DEF FlowsOnce
  <2>9. TokensOnce' BY <1>0, <1>1, <2>3, SignInAssumption DEF TokensOnce
  <2> QED BY <2>5, <2>6, <2>7, <2>8, <2>9 DEF MobileInv, ReadsStand
<1> QED BY <1>3, <1>4

LEMMA DecideStep ==
  ASSUME MobileInv, NEW c \in Calls, RotateDecides(c)
  PROVE  MobileInv'
<1>0. MobileTyped /\ RowLocks /\ ReadsStand /\ FlowsOnce /\ TokensOnce BY DEF MobileInv
<1>1. PICK f \in Flows, old \in Pairs :
        /\ f = mobileCall[c].of /\ old = mobileCall[c].token /\ mobileCall[c].at = "rotate"
        /\ refresh[old].family = f
  BY <1>0 DEF RotateDecides, ReadsStand, ReadStands, Rotating
<1>2. UNCHANGED <<mobileFlow, born, refresh>> BY DEF RotateDecides
<1>3. CASE refresh[old].used
  <2>1. /\ family' = [family EXCEPT ![f] = "revoked"] /\ reused' = reused \union {f}
        /\ mobileCall' = [mobileCall EXCEPT ![c].at = "done"]
    BY <1>1, <1>3 DEF RotateDecides, RevokeReused, Ends
  <2>2. /\ mobileCall' \in [Calls -> MobileCall]
        /\ mobileCall'[c].at = "done" /\ \A d \in Calls : d # c => mobileCall'[d] = mobileCall[d]
    BY <1>0, <2>1 DEF MobileTyped, MobileCall
  <2>3. /\ family' \in [Flows -> {"none", "live", "revoked", "expired"}] /\ family'[f] = "revoked"
        /\ \A g \in Flows : g # f => family'[g] = family[g]
    BY <1>0, <2>1 DEF MobileTyped
  <2>4. MobileTyped' BY <1>0, <1>2, <2>1, <2>2, <2>3 DEF MobileTyped
  <2>5. RowLocks' BY <1>0, <2>2 DEF RowLocks, Rotating
  <2>6. ReadsStand' BY <1>0, <1>2, <2>2 DEF ReadsStand, ReadStands, Rotating
  <2>7. FlowsOnce'
    <3>1. mobileFlow[f] = "consumed" BY <1>0, <1>1 DEF FlowsOnce
    <3> QED BY <1>0, <1>2, <2>1, <2>3, <3>1 DEF FlowsOnce
  <2>8. TokensOnce' BY <1>0, <1>2 DEF TokensOnce
  <2> QED BY <2>4, <2>5, <2>6, <2>7, <2>8 DEF MobileInv
<1>4. CASE ~refresh[old].used
  <2> DEFINE at == IF entitled THEN "fresh" ELSE "done"
             r == [mobileCall[c] EXCEPT !.at = at]
  <2>1. at \in {"fresh", "done"} OBVIOUS
  <2>2. mobileCall' = [mobileCall EXCEPT ![c].at = at] /\ UNCHANGED <<family, reused>>
    BY <1>1, <1>4 DEF RotateDecides
  <2> HIDE DEF at
  <2>3. mobileCall' = [mobileCall EXCEPT ![c] = r] BY <1>0, <2>2 DEF MobileTyped
  <2>4. /\ r \in MobileCall
        /\ r.at = at /\ r.of = f /\ r.token = old
    BY <1>0, <1>1, <2>1 DEF MobileTyped, MobileCall
  <2> HIDE DEF r
  <2>5. r.at # "exchange" /\ (r.at = "fresh" => ~refresh[r.token].used) BY <1>4, <2>1, <2>4
  <2>6. r.at \in Rotating => /\ r.of \in Flows /\ r.token \in Pairs /\ refresh[r.token].family = r.of
                             /\ mobileCall[c].at \in Rotating /\ mobileCall[c].of = r.of
    BY <1>1, <2>4 DEF Rotating
  <2>7. UNCHANGED <<mobileFlow, family, born, refresh, reused>> BY <1>2, <2>2
  <2> QED BY <2>3, <2>4, <2>5, <2>6, <2>7, CallStep
<1> QED BY <1>3, <1>4

LEMMA ReadStep ==
  ASSUME MobileInv, NEW c \in Calls,
         (\E f \in Flows : ExchangeReads(c, f)) \/ (\E t \in Pairs : RotateReads(c, t))
  PROVE  MobileInv'
<1>0. MobileTyped BY DEF MobileInv
<1>1. ASSUME NEW f \in Flows, ExchangeReads(c, f) PROVE MobileInv'
  <2> DEFINE r == [at |-> "exchange", of |-> f, token |-> NoToken]
  <2>1. mobileCall' = [mobileCall EXCEPT ![c] = r] /\ LockFree(f, {"exchange"}) /\ mobileFlow[f] = "authorized"
    BY <1>1 DEF ExchangeReads
  <2>2. /\ r \in MobileCall
        /\ r.at = "exchange" /\ r.of = f
    BY DEF MobileCall
  <2>3. UNCHANGED <<mobileFlow, family, born, refresh, reused>> BY <1>1 DEF ExchangeReads
  <2> HIDE DEF r
  <2>4. r.at \notin Rotating /\ r.at # "fresh" BY <2>2 DEF Rotating
  <2> QED BY <2>1, <2>2, <2>3, <2>4, CallStep
<1>2. ASSUME NEW t \in Pairs, RotateReads(c, t) PROVE MobileInv'
  <2> DEFINE at == IF family[refresh[t].family] = "live" THEN "rotate" ELSE "done"
  <2>1. PICK f \in Flows : f = refresh[t].family BY <1>0, <1>2 DEF RotateReads, Drawn, MobileTyped, Token
  <2> DEFINE r == [at |-> at, of |-> f, token |-> t]
  <2>2. mobileCall' = [mobileCall EXCEPT ![c] = r] /\ LockFree(f, Rotating)
    BY <1>2, <2>1 DEF RotateReads, Rotating
  <2>3. at \in {"rotate", "done"} OBVIOUS
  <2> HIDE DEF at
  <2>4. /\ r \in MobileCall
        /\ r.at = at /\ r.of = f /\ r.token = t
    BY <2>3 DEF MobileCall
  <2>5. UNCHANGED <<mobileFlow, family, born, refresh, reused>> BY <1>2 DEF RotateReads
  <2> HIDE DEF r
  <2>6. r.at # "exchange" /\ r.at # "fresh" BY <2>3, <2>4
  <2>7. r.of \in Flows /\ r.token \in Pairs /\ refresh[r.token].family = r.of /\ LockFree(r.of, Rotating)
    BY <2>1, <2>2, <2>4
  <2> QED BY <2>2, <2>4, <2>5, <2>6, <2>7, CallStep
<1> QED BY <1>1, <1>2

LEMMA MobileStepInv == MobileInv /\ [MobileNext]_mobileVars => MobileInv'
<1> SUFFICES ASSUME MobileInv, [MobileNext]_mobileVars PROVE MobileInv' OBVIOUS
<1>0. MobileTyped BY DEF MobileInv
<1>u. ASSUME UNCHANGED <<mobileFlow, family, born, refresh, mobileCall, reused>> PROVE MobileInv'
  BY <1>u DEF MobileInv, MobileTyped, RowLocks, ReadsStand, ReadStands, FlowsOnce, TokensOnce
<1>1. ASSUME NEW f \in Flows, SaveFlow(f) \/ AuthorizeFlow(f) PROVE MobileInv' BY <1>1, AuthorizeStep
<1>2. ASSUME NEW f \in Flows, MobileFlowLapses(f) PROVE MobileInv' BY <1>2, <1>u DEF MobileFlowLapses
<1>3. ASSUME NEW f \in Flows, FamilyExpires(f) PROVE MobileInv' BY <1>3, EndStep DEF FamilyExpires
<1>4. ASSUME NEW c \in Calls, RotateDecides(c) PROVE MobileInv' BY <1>4, DecideStep
<1>5. ASSUME NEW c \in Calls, NEW f \in Flows, ExchangeReads(c, f) PROVE MobileInv' BY <1>5, ReadStep
<1>6. ASSUME NEW c \in Calls, NEW t \in Pairs, RotateReads(c, t) PROVE MobileInv' BY <1>6, ReadStep
<1>7. ASSUME NEW c \in Calls, NEW t \in Pairs, Exchange(c, t) PROVE MobileInv' BY <1>7, ExchangeStep
<1>8. ASSUME NEW c \in Calls, NEW t \in Pairs, Rotate(c, t) PROVE MobileInv' BY <1>8, RotateStep
<1>9. ASSUME NEW t \in Pairs, Revoke(t) PROVE MobileInv'
  <2>1. PICK f \in Flows : f = refresh[t].family BY <1>0, <1>9 DEF Revoke, Drawn, MobileTyped, Token
  <2> QED BY <1>9, <2>1, EndStep DEF Revoke
<1>10. ASSUME NEW t \in Pairs, AccessLapses(t) PROVE MobileInv' BY <1>10, <1>u DEF AccessLapses
<1>11. ASSUME ChangeMember PROVE MobileInv' BY <1>11, <1>u DEF ChangeMember
<1>12. ASSUME UNCHANGED mobileVars PROVE MobileInv' BY <1>12, <1>u DEF mobileVars
<1> QED BY <1>1, <1>2, <1>3, <1>4, <1>5, <1>6, <1>7, <1>8, <1>9, <1>10, <1>11, <1>12 DEF MobileNext

(* The three promises of the mobile login hold for any number of flows,    *)
(* calls and tokens: a code opens one session, concurrent refreshes leave  *)
(* one usable token, and a used token that comes back ends the family for  *)
(* every access token of it. They rest on the row locks of the flow and of *)
(* the family, and on reading consumed_at under them.                      *)
THEOREM MobileCorrect == MobileSpec => [](FlowExchangedOnce /\ OneLiveToken /\ ReuseEndsFamily)
<1>1. MobileInit => MobileInv BY MobileInitially
<1>2. MobileInv /\ [MobileNext]_mobileVars => MobileInv' BY MobileStepInv
<1>3. MobileInv => FlowExchangedOnce /\ OneLiveToken /\ ReuseEndsFamily BY MobileSafe
<1> QED BY <1>1, <1>2, <1>3, PTL DEF MobileSpec
-----------------------------------------------------------------------------
(***************************************************************************)
(* The event stream. The row lock of the cursor makes seqs commit in the   *)
(* order they are taken, so what is committed is a prefix of the log; a    *)
(* replay has dealt with everything up to its scan, and its page is the    *)
(* next stretch of the log without a gap.                                  *)
(***************************************************************************)
RealtimeSpec == R!RealtimeInit /\ [][R!RealtimeNext]_(R!realtimeVars)

Seqs == 1..MaxSeq
Conn == [phase : {"closed", "open", "listing", "scanning", "ready"}, hello : BOOLEAN,
         cursor : 0..MaxSeq, current : 0..MaxSeq, scan : 0..MaxSeq,
         rows : Seq(Seqs), full : BOOLEAN, found : Seq(Seqs), more : BOOLEAN]
RealtimeTyped ==
  /\ events \in [Seqs -> R!Scopes \union {"none"}] /\ nextSeq \in 1..(MaxSeq + 1)
  /\ writer \in [Writers -> [seq : 0..MaxSeq, scope : R!Scopes]]
  /\ member \in BOOLEAN /\ scopes \subseteq R!Scopes
  /\ listening \in BOOLEAN /\ wakeup \in BOOLEAN
  /\ conn \in Conn /\ Len(conn.found) <= ReplayLimit
  /\ hellos \in 0..MaxHellos /\ base \in 0..MaxSeq /\ passed \subseteq Seqs /\ sent \in Seq(Seqs)

(* One transaction at a time has a seq that is not committed, the newest.  *)
Serial ==
  /\ \A w \in Writers : writer[w] # R!Idle => writer[w].seq = nextSeq - 1 /\ writer[w].seq # 0
  /\ \A v, w \in Writers : writer[v] # R!Idle /\ writer[w] # R!Idle => v = w
  /\ \A s \in Seqs : events[s] # "none" <=> s < nextSeq /\ \A w \in Writers : writer[w].seq # s
Log == {0} \union R!Committed

Increasing(q) == \A i, j \in DOMAIN q : i < j => q[i] < q[j]
Sent == Increasing(sent) /\ \A i \in DOMAIN sent : sent[i] <= conn.cursor
Busy == {"listing", "scanning"}
Cursors == /\ conn.phase \in Busy \union {"ready"} => conn.cursor \in Log
           /\ conn.phase \in {"closed", "open"} => sent = <<>>
           /\ conn.phase \in Busy => conn.cursor <= conn.scan /\ conn.scan \in Log /\ conn.current \in Log

(* What a replay found: in order, beyond the cursor, and all of the log up *)
(* to its scan that was visible, but for the event the limit left out.     *)
Found == conn.phase \in Busy =>
  /\ Increasing(conn.found)
  /\ \A i \in DOMAIN conn.found : conn.cursor < conn.found[i] /\ conn.found[i] <= conn.scan
  /\ \A i \in DOMAIN conn.found : conn.found[i] \in Log
  /\ conn.more => conn.found # <<>> /\ \A i \in DOMAIN conn.found : conn.found[i] < conn.scan
  /\ \A s \in R!Committed : conn.cursor < s /\ s <= conn.scan =>
       \/ s \in passed \/ \E i \in DOMAIN conn.found : conn.found[i] = s
       \/ conn.more /\ s = conn.scan

(* Its page: the log from the scan on; the last page reaches the newest    *)
(* seq that the replay read when it began.                                 *)
Page ==
  /\ conn.phase = "listing" => ~conn.more
  /\ conn.phase = "scanning" =>
     /\ Increasing(conn.rows)
     /\ \A i \in DOMAIN conn.rows : conn.scan < conn.rows[i] /\ conn.rows[i] \in Log
     /\ \A i \in DOMAIN conn.rows, s \in R!Committed :
          conn.scan < s /\ s <= conn.rows[i] => \E j \in DOMAIN conn.rows : conn.rows[j] = s
     /\ conn.more => conn.rows = <<>>
     /\ conn.full => conn.rows # <<>>
     /\ ~conn.full /\ ~conn.more =>
          \A s \in R!Committed : conn.scan < s /\ s <= conn.current => \E j \in DOMAIN conn.rows : conn.rows[j] = s
RealtimeInv == RealtimeTyped /\ Serial /\ Sent /\ Cursors /\ Found /\ Page /\ R!NothingMissed

LEMMA RealtimeSafe == RealtimeInv => R!RealtimeTypeOK /\ R!NothingMissed /\ R!InOrder
<1> SUFFICES ASSUME RealtimeInv PROVE R!RealtimeTypeOK /\ R!NothingMissed /\ R!InOrder OBVIOUS
<1>0. RealtimeTyped /\ Sent /\ R!NothingMissed BY DEF RealtimeInv
<1>1. R!RealtimeTypeOK
  <2>1. conn.phase \in {"closed", "open", "listing", "scanning", "ready"} /\ conn.cursor \in 0..MaxSeq
        /\ conn.scan \in 0..MaxSeq
    BY <1>0 DEF RealtimeTyped, Conn
  <2>2. sent \in Seq(Seqs) BY <1>0 DEF RealtimeTyped
  <2>3. R!ToSet(sent) \subseteq 1..MaxSeq
    <3>1. \A i \in DOMAIN sent : sent[i] \in Seqs BY <2>2
    <3> QED BY <3>1 DEF R!ToSet, Seqs
  <2> QED BY <1>0, <2>1, <2>3 DEF RealtimeTyped, R!RealtimeTypeOK, Seqs
<1>2. R!InOrder BY <1>0 DEF Sent, Increasing, R!InOrder
<1> QED BY <1>0, <1>1, <1>2

LEMMA RealtimeInitially == R!RealtimeInit => RealtimeInv
<1> SUFFICES ASSUME R!RealtimeInit PROVE RealtimeInv OBVIOUS
<1> USE GatewayAssumption DEF R!RealtimeInit
<1>1. R!Closed \in Conn /\ R!Closed.phase = "closed" /\ R!Closed.found = <<>> BY DEF R!Closed, Conn, Seqs
<1>2. RealtimeTyped
  <2>1. writer \in [Writers -> [seq : 0..MaxSeq, scope : R!Scopes]] BY DEF R!Scopes, R!Idle
  <2>2. conn \in Conn /\ Len(conn.found) = 0 BY <1>1
  <2>3. sent \in Seq(Seqs) OBVIOUS
  <2>4. events \in [Seqs -> R!Scopes \union {"none"}] /\ scopes \subseteq R!Scopes BY DEF R!Scopes, Seqs
  <2>5. Len(conn.found) <= ReplayLimit BY <2>2
  <2>6. nextSeq \in 1..(MaxSeq + 1) /\ hellos \in 0..MaxHellos /\ base \in 0..MaxSeq OBVIOUS
  <2> QED BY <2>1, <2>2, <2>3, <2>4, <2>5, <2>6 DEF RealtimeTyped
<1>3. Serial BY DEF Serial, R!Idle, Seqs
<1>4. Sent /\ Cursors /\ Found /\ Page /\ R!NothingMissed
  BY <1>1 DEF Sent, Cursors, Found, Page, Increasing, Busy, R!NothingMissed
<1> QED BY <1>2, <1>3, <1>4 DEF RealtimeInv

(* What is committed is a prefix of the log, and CurrentSeq its end.       *)
LEMMA Prefix ==
  ASSUME RealtimeTyped, Serial
  PROVE  /\ \A s \in R!Committed, t \in Seqs : t <= s => t \in R!Committed
         /\ R!CurrentSeq \in 0..MaxSeq /\ R!CurrentSeq \in Log
         /\ \A s \in R!Committed : s <= R!CurrentSeq
<1>1. R!Committed \subseteq Seqs /\ \A s \in Seqs : s \in R!Committed <=> events[s] # "none"
  BY DEF R!Committed, Seqs
<1>2. \A w \in Writers : writer[w].seq # 0 => writer[w].seq = nextSeq - 1 BY DEF Serial, R!Idle
<1>3. \A s \in R!Committed, t \in Seqs : t <= s => t \in R!Committed
  <2> SUFFICES ASSUME NEW s \in R!Committed, NEW t \in Seqs, t < s PROVE t \in R!Committed BY <1>1 DEF Seqs
  <2>1. s < nextSeq /\ nextSeq \in Nat /\ s \in Nat /\ t \in Nat /\ t # 0
    BY <1>1, GatewayAssumption DEF Serial, RealtimeTyped, Seqs
  <2>2. t < nextSeq /\ t # nextSeq - 1 BY <2>1
  <2> QED BY <1>1, <1>2, <2>1, <2>2 DEF Serial
<1>4. R!CurrentSeq \in 0..MaxSeq /\ R!CurrentSeq \in Log /\ \A s \in R!Committed : s <= R!CurrentSeq
  <2>1. CASE R!Committed = {} BY <2>1, GatewayAssumption DEF R!CurrentSeq, Log
  <2>2. CASE R!Committed # {}
    <3>1. \E m \in R!Committed : \A s \in R!Committed : s <= m
      <4>1. PICK m \in R!Committed : TRUE BY <2>2
      <4>2. /\ nextSeq \in Nat /\ nextSeq <= MaxSeq + 1 /\ m \in Nat /\ m >= 1
            /\ \A s \in R!Committed : s \in Nat /\ s < nextSeq /\ m < nextSeq
        BY <1>1, GatewayAssumption DEF Serial, RealtimeTyped, Seqs
      <4>3. CASE nextSeq - 1 \in R!Committed BY <4>2, <4>3
      <4>4. CASE nextSeq - 1 \notin R!Committed
        <5>1. \A s \in R!Committed : s <= nextSeq - 2 BY <4>2, <4>4
        <5>2. nextSeq - 2 \in R!Committed
          <6>1. nextSeq - 2 \in Seqs /\ nextSeq - 2 # nextSeq - 1 BY <4>2, <5>1, GatewayAssumption DEF Seqs
          <6>2. nextSeq - 2 < nextSeq /\ nextSeq - 2 # 0 BY <4>2, <5>1
          <6> QED BY <1>1, <1>2, <6>1, <6>2 DEF Serial
        <5> QED BY <5>1, <5>2
      <4> QED BY <4>3, <4>4
    <3> DEFINE top == CHOOSE m \in R!Committed : \A s \in R!Committed : s <= m
    <3>2. R!CurrentSeq = top BY <2>2 DEF R!CurrentSeq
    <3>3. top \in R!Committed /\ \A s \in R!Committed : s <= top BY <3>1
    <3> HIDE DEF top
    <3>4. top \in 0..MaxSeq BY <1>1, <3>3, GatewayAssumption DEF Seqs
    <3> QED BY <3>2, <3>3, <3>4 DEF Log
  <2> QED BY <2>1, <2>2
<1> QED BY <1>3, <1>4

(* A seq that becomes committed is beyond all that are.                    *)
Grows == /\ R!Committed \subseteq R!Committed'
         /\ \A s \in R!Committed' \ R!Committed, t \in R!Committed : t < s

(* A log that grows disturbs no connection.                                *)
LEMMA LogGrows ==
  ASSUME RealtimeInv, RealtimeTyped', Grows, UNCHANGED <<conn, base, sent, passed>>
  PROVE  (Sent /\ Cursors /\ Found /\ Page /\ R!NothingMissed)'
<1>0. RealtimeTyped /\ Serial /\ Sent /\ Cursors /\ Found /\ Page /\ R!NothingMissed BY DEF RealtimeInv
<1>1. Log \subseteq Log' BY DEF Log, Grows
<1>2. \A s \in (R!Committed') \ R!Committed, t \in 0..MaxSeq : t \in Log => ~(s <= t)
  <2> SUFFICES ASSUME NEW s \in (R!Committed') \ R!Committed, NEW t \in 0..MaxSeq, t \in Log PROVE ~(s <= t) OBVIOUS
  <2>1. s \in Nat /\ s >= 1 /\ t \in Nat BY GatewayAssumption DEF R!Committed
  <2> QED BY <2>1 DEF Log, Grows
<1>3. conn \in Conn BY <1>0 DEF RealtimeTyped
<1>4. /\ conn.cursor \in 0..MaxSeq /\ conn.scan \in 0..MaxSeq /\ conn.current \in 0..MaxSeq
      /\ \A i \in DOMAIN conn.rows : conn.rows[i] \in 0..MaxSeq
  <2>1. conn.cursor \in 0..MaxSeq /\ conn.scan \in 0..MaxSeq /\ conn.current \in 0..MaxSeq /\ conn.rows \in Seq(Seqs)
    BY <1>3 DEF Conn
  <2>2. \A i \in DOMAIN conn.rows : conn.rows[i] \in Seqs BY <2>1
  <2> QED BY <2>1, <2>2, GatewayAssumption DEF Seqs
<1>5. Sent' BY <1>0 DEF Sent, Increasing
<1>6. Cursors' BY <1>0, <1>1 DEF Cursors
<1>7. Found'
  <2> SUFFICES ASSUME conn.phase \in Busy PROVE Found' BY DEF Found
  <2>1. conn.scan \in Log BY <1>0 DEF Cursors
  <2>2. \A s \in R!Committed' : s <= conn.scan => s \in R!Committed BY <1>2, <1>4, <2>1
  <2> QED BY <1>0, <1>1, <2>2 DEF Found, Increasing
<1>8. Page'
  <2> SUFFICES ASSUME conn.phase = "scanning" PROVE Page' BY <1>0 DEF Page
  <2>1. \A i \in DOMAIN conn.rows, s \in R!Committed' : s <= conn.rows[i] => s \in R!Committed
    BY <1>0, <1>2, <1>4 DEF Page
  <2>2. conn.current \in Log BY <1>0 DEF Cursors, Busy
  <2>3. \A s \in R!Committed' : s <= conn.current => s \in R!Committed BY <1>2, <1>4, <2>2
  <2> QED BY <1>0, <1>1, <2>1, <2>3 DEF Page, Increasing
<1>9. R!NothingMissed'
  <2> SUFFICES ASSUME conn.phase \in {"listing", "scanning", "ready"},
                      NEW s \in R!Committed', base < s, s <= conn.cursor
               PROVE  s \in R!ToSet(sent) \union passed
    BY DEF R!NothingMissed
  <2>1. conn.cursor \in Log BY <1>0 DEF Cursors, Busy
  <2>2. s \in R!Committed BY <1>2, <1>4, <2>1
  <2> QED BY <1>0, <2>2 DEF R!NothingMissed
<1> QED BY <1>5, <1>6, <1>7, <1>8, <1>9

(* The transactions that append: the log stays a prefix and grows at its   *)
(* end.                                                                    *)
LEMMA WriterStep ==
  ASSUME RealtimeInv, NEW w \in Writers,
         (\E s \in Appended : R!WriteEvent(w, s)) \/ R!Commit(w) \/ R!Rollback(w)
  PROVE  RealtimeInv'
<1>0. RealtimeTyped /\ Serial BY DEF RealtimeInv
<1>1. UNCHANGED <<conn, hellos, base, sent, passed>> /\ UNCHANGED <<member, scopes, listening>>
  BY DEF R!WriteEvent, R!Commit, R!Rollback, R!connVars
<1> USE GatewayAssumption
<1>2. nextSeq \in Nat /\ nextSeq >= 1 /\ nextSeq <= MaxSeq + 1 BY <1>0 DEF RealtimeTyped
<1>3. ASSUME NEW s \in Appended, R!WriteEvent(w, s) PROVE RealtimeTyped' /\ Serial' /\ Grows
  <2> DEFINE taken == [seq |-> nextSeq, scope |-> s]
  <2>1. /\ writer' = [writer EXCEPT ![w] = taken] /\ nextSeq' = nextSeq + 1 /\ UNCHANGED <<events, wakeup>>
        /\ nextSeq <= MaxSeq /\ \A v \in Writers : writer[v] = R!Idle
    BY <1>3 DEF R!WriteEvent, R!CursorRowFree
  <2>2. taken \in [seq : 0..MaxSeq, scope : R!Scopes] /\ taken.seq = nextSeq BY <1>2, <2>1 DEF R!Scopes
  <2> HIDE DEF taken
  <2>3. RealtimeTyped' BY <1>0, <1>1, <1>2, <2>1, <2>2 DEF RealtimeTyped
  <2>4. \A v \in Writers : writer'[v] = IF v = w THEN taken ELSE R!Idle BY <1>0, <2>1 DEF RealtimeTyped
  <2>5. R!Idle.seq = 0 BY DEF R!Idle
  <2>6. \A t \in Seqs : events'[t] # "none" <=> t < nextSeq' /\ \A v \in Writers : writer'[v].seq # t
    <3> TAKE t \in Seqs
    <3>1. t \in Nat /\ t # 0 BY DEF Seqs
    <3>2. events[t] # "none" <=> t < nextSeq BY <1>0, <2>1, <2>5, <3>1 DEF Serial
    <3>3. (\A v \in Writers : writer'[v].seq # t) <=> t # nextSeq BY <2>2, <2>4, <2>5, <3>1
    <3> QED BY <1>2, <2>1, <3>1, <3>2, <3>3
  <2>7. Serial' BY <1>2, <2>1, <2>2, <2>4, <2>6 DEF Serial
  <2>8. Grows BY <2>1 DEF Grows, R!Committed
  <2> QED BY <2>3, <2>7, <2>8
<1>4. ASSUME R!Commit(w) PROVE RealtimeTyped' /\ Serial' /\ Grows
  <2> DEFINE n == writer[w].seq
  <2>1. /\ writer[w] # R!Idle /\ events' = [events EXCEPT ![n] = writer[w].scope]
        /\ writer' = [writer EXCEPT ![w] = R!Idle] /\ UNCHANGED nextSeq
        /\ wakeup' \in {wakeup, conn.phase # "closed"}
    BY <1>4 DEF R!Commit, R!Notify
  <2>2. n = nextSeq - 1 /\ n \in Seqs /\ n \in Nat /\ writer[w].scope \in R!Scopes
    BY <1>0, <1>2, <2>1 DEF Serial, RealtimeTyped, Seqs
  <2>3. writer[w].scope # "none" BY <2>2 DEF R!Scopes
  <2>4. \A v \in Writers : writer[v] # R!Idle => v = w BY <1>0, <2>1 DEF Serial
  <2> HIDE DEF n
  <2>5. RealtimeTyped'
    <3>1. wakeup' \in BOOLEAN BY <1>0, <2>1 DEF RealtimeTyped
    <3>2. R!Idle \in [seq : 0..MaxSeq, scope : R!Scopes] BY DEF R!Idle, R!Scopes
    <3>3. writer' \in [Writers -> [seq : 0..MaxSeq, scope : R!Scopes]] BY <1>0, <2>1, <3>2 DEF RealtimeTyped
    <3>4. events' \in [Seqs -> R!Scopes \union {"none"}] BY <1>0, <2>1, <2>2 DEF RealtimeTyped
    <3> QED BY <1>0, <1>1, <2>1, <3>1, <3>3, <3>4 DEF RealtimeTyped
  <2>6. \A v \in Writers : writer'[v] = R!Idle BY <1>0, <2>1, <2>4 DEF RealtimeTyped
  <2>7. R!Idle.seq = 0 BY DEF R!Idle
  <2>8. \A t \in Seqs : events[t] # "none" <=> t < n
    <3> TAKE t \in Seqs
    <3>1. t \in Nat /\ t # 0 BY DEF Seqs
    <3>2. (\A v \in Writers : writer[v].seq # t) <=> t # n BY <2>4, <2>7, <3>1 DEF n
    <3> QED BY <1>0, <1>2, <2>2, <3>1, <3>2 DEF Serial
  <2>9. \A t \in Seqs : events'[t] # "none" <=> t <= n
    <3>1. \A t \in Seqs : events'[t] = IF t = n THEN writer[w].scope ELSE events[t]
      BY <1>0, <2>1 DEF RealtimeTyped
    <3> TAKE t \in Seqs
    <3>2. t \in Nat BY DEF Seqs
    <3>3. CASE t = n BY <2>2, <2>3, <3>1, <3>3
    <3>4. CASE t # n
      <4>1. t <= n <=> t < n BY <2>2, <3>2, <3>4
      <4> QED BY <2>8, <3>1, <3>4, <4>1
    <3> QED BY <3>3, <3>4
  <2>10. Serial'
    <3>1. \A t \in Seqs : t <= n <=> t < nextSeq' BY <1>2, <2>1, <2>2 DEF Seqs
    <3> QED BY <2>6, <2>7, <2>9, <3>1 DEF Serial, Seqs
  <2>11. Grows
    <3>1. /\ R!Committed = {t \in Seqs : events[t] # "none"}
          /\ R!Committed' = {t \in Seqs : events'[t] # "none"}
      BY DEF R!Committed, Seqs
    <3>2. \A t \in Seqs : t \in Nat BY DEF Seqs
    <3>3. \A t \in Seqs : t < n => t <= n BY <2>2, <3>2
    <3>4. \A s, t \in Seqs : s <= n /\ ~(s < n) /\ t < n => t < s BY <2>2, <3>2
    <3> QED BY <2>8, <2>9, <3>1, <3>3, <3>4 DEF Grows
  <2> QED BY <2>5, <2>10, <2>11
<1>5. ASSUME R!Rollback(w) PROVE RealtimeTyped' /\ Serial' /\ Grows
  <2>1. /\ writer[w] # R!Idle /\ UNCHANGED <<events, wakeup>>
        /\ writer' = [writer EXCEPT ![w] = R!Idle]
        /\ nextSeq' = IF writer[w].seq = nextSeq - 1 THEN nextSeq - 1 ELSE nextSeq
    BY <1>5 DEF R!Rollback
  <2>2. writer[w].seq = nextSeq - 1 /\ writer[w].seq \in 1..MaxSeq
    BY <1>0, <1>2, <2>1 DEF Serial, RealtimeTyped
  <2>3. nextSeq' = nextSeq - 1 /\ nextSeq' \in 1..(MaxSeq + 1) BY <1>2, <2>1, <2>2
  <2>4. \A v \in Writers : writer[v] # R!Idle => v = w BY <1>0, <2>1 DEF Serial
  <2>5. RealtimeTyped'
    <3>1. R!Idle \in [seq : 0..MaxSeq, scope : R!Scopes] BY DEF R!Idle, R!Scopes
    <3>2. writer' \in [Writers -> [seq : 0..MaxSeq, scope : R!Scopes]] BY <1>0, <2>1, <3>1 DEF RealtimeTyped
    <3> QED BY <1>0, <1>1, <2>1, <2>3, <3>2 DEF RealtimeTyped
  <2>6. \A v \in Writers : writer'[v] = R!Idle BY <1>0, <2>1, <2>4 DEF RealtimeTyped
  <2>7. R!Idle.seq = 0 BY DEF R!Idle
  <2>8. \A t \in Seqs : events[t] # "none" <=> t < nextSeq'
    <3> TAKE t \in Seqs
    <3>1. t \in Nat /\ t # 0 BY DEF Seqs
    <3>2. (\A v \in Writers : writer[v].seq # t) <=> t # nextSeq - 1 BY <2>2, <2>4, <2>7, <3>1
    <3> QED BY <1>0, <1>2, <2>3, <3>1, <3>2 DEF Serial
  <2>9. Serial' BY <2>1, <2>6, <2>7, <2>8 DEF Serial, Seqs
  <2>10. Grows BY <2>1 DEF Grows, R!Committed
  <2> QED BY <2>5, <2>9, <2>10
<1>6. RealtimeTyped' /\ Serial' /\ Grows BY <1>3, <1>4, <1>5
<1> QED BY <1>1, <1>6, LogGrows DEF RealtimeInv

(* Members and listeners come and go.                                      *)
LEMMA AroundStep ==
  ASSUME RealtimeInv, R!ChangeMembership \/ R!listen \/ R!ListenFails \/ UNCHANGED R!realtimeVars
  PROVE  RealtimeInv'
<1>0. RealtimeTyped /\ Serial BY DEF RealtimeInv
<1>1. UNCHANGED <<events, nextSeq, writer>> /\ UNCHANGED <<conn, hellos, base, sent, passed>>
  BY DEF R!ChangeMembership, R!listen, R!ListenFails, R!realtimeVars, R!connVars
<1>2. member' \in BOOLEAN /\ scopes' \subseteq R!Scopes /\ listening' \in BOOLEAN /\ wakeup' \in BOOLEAN
  BY <1>0 DEF R!ChangeMembership, R!listen, R!ListenFails, R!Notify, R!realtimeVars, RealtimeTyped, R!Scopes
<1>3. RealtimeTyped' BY <1>0, <1>1, <1>2 DEF RealtimeTyped
<1>4. Serial' BY <1>0, <1>1 DEF Serial
<1>5. Grows BY <1>1 DEF Grows, R!Committed
<1> QED BY <1>1, <1>3, <1>4, <1>5, LogGrows DEF RealtimeInv

(* What a step leaves alone that only moves the connection.                *)
LEMMA LogKept ==
  ASSUME RealtimeInv, UNCHANGED <<events, nextSeq, writer, member, scopes, listening>>
  PROVE  /\ Serial' /\ R!Committed' = R!Committed /\ Log' = Log
         /\ conn' \in Conn /\ Len(conn'.found) <= ReplayLimit /\ wakeup' \in BOOLEAN
            /\ hellos' \in 0..MaxHellos /\ base' \in 0..MaxSeq /\ passed' \subseteq Seqs /\ sent' \in Seq(Seqs)
            => RealtimeTyped'
<1>1. RealtimeTyped /\ Serial BY DEF RealtimeInv
<1>2. Serial' BY <1>1 DEF Serial
<1>3. R!Committed' = R!Committed BY DEF R!Committed
<1>4. Log' = Log BY <1>3 DEF Log
<1>5. /\ conn' \in Conn /\ Len(conn'.found) <= ReplayLimit /\ wakeup' \in BOOLEAN
      /\ hellos' \in 0..MaxHellos /\ base' \in 0..MaxSeq /\ passed' \subseteq Seqs /\ sent' \in Seq(Seqs)
      => RealtimeTyped'
  BY <1>1 DEF RealtimeTyped
<1> QED BY <1>2, <1>3, <1>4, <1>5

LEMMA ClosedConn ==
  /\ R!Closed \in Conn /\ R!Closed.found = <<>> /\ R!Closed.rows = <<>> /\ R!Closed.more = FALSE
  /\ \A ph \in {"closed", "open", "listing", "scanning", "ready"} :
       [R!Closed EXCEPT !.phase = ph] \in Conn
<1>1. <<>> \in Seq(Seqs) /\ 0 \in 0..MaxSeq BY GatewayAssumption
<1> QED BY <1>1 DEF R!Closed, Conn

(* A connection that opens, closes or loses its place starts afresh.       *)
LEMMA FreshStep ==
  ASSUME RealtimeInv, NEW ph \in {"closed", "open"}, conn' = [R!Closed EXCEPT !.phase = ph],
         base' = 0, sent' = <<>>, passed' = {}, wakeup' \in {FALSE, wakeup}, hellos' \in 0..MaxHellos,
         UNCHANGED <<events, nextSeq, writer, member, scopes, listening>>
  PROVE  RealtimeInv'
<1>1. conn' \in Conn /\ conn'.found = <<>> /\ conn'.phase = ph
  BY ClosedConn DEF R!Closed
<1>2. RealtimeTyped' /\ Serial'
  <2>1. wakeup \in BOOLEAN BY DEF RealtimeInv, RealtimeTyped
  <2>2. Len(conn'.found) <= ReplayLimit BY <1>1, GatewayAssumption
  <2>3. base' \in 0..MaxSeq /\ passed' \subseteq Seqs /\ sent' \in Seq(Seqs) BY GatewayAssumption
  <2>4. wakeup' \in BOOLEAN BY <2>1
  <2> QED BY <1>1, <2>2, <2>3, <2>4, LogKept
<1>3. (Sent /\ Cursors /\ Found /\ Page /\ R!NothingMissed)'
  BY <1>1 DEF Sent, Cursors, Found, Page, Increasing, Busy, R!NothingMissed
<1> QED BY <1>2, <1>3 DEF RealtimeInv

(* A replay begins at a cursor within the log.                             *)
LEMMA BeginStep ==
  ASSUME RealtimeInv, NEW hello \in BOOLEAN, NEW lastSeq \in 0..MaxSeq, lastSeq \in Log, R!StartReplay(hello, lastSeq),
         \/ base' = lastSeq /\ sent' = <<>> /\ passed' = {}
         \/ lastSeq = conn.cursor /\ conn.phase = "ready" /\ UNCHANGED <<base, sent, passed>>,
         wakeup' \in {FALSE, wakeup}, hellos' \in 0..MaxHellos,
         UNCHANGED <<events, nextSeq, writer, member, scopes, listening>>
  PROVE  RealtimeInv'
<1> USE GatewayAssumption
<1>0. RealtimeTyped /\ Serial /\ Sent /\ R!NothingMissed BY DEF RealtimeInv
<1>1. conn' = [R!Closed EXCEPT !.phase = "listing", !.hello = hello, !.cursor = lastSeq,
                               !.current = R!CurrentSeq, !.scan = lastSeq]
  BY DEF R!StartReplay
<1>2. /\ conn' \in Conn /\ conn'.found = <<>> /\ conn'.phase = "listing" /\ conn'.cursor = lastSeq
      /\ conn'.scan = lastSeq /\ conn'.current = R!CurrentSeq /\ conn'.more = FALSE
  <2>1. /\ R!CurrentSeq \in 0..MaxSeq /\ <<>> \in Seq(Seqs) /\ 0 \in 0..MaxSeq BY <1>0, Prefix
  <2>2. conn' = [phase |-> "listing", hello |-> hello, cursor |-> lastSeq, current |-> R!CurrentSeq, scan |-> lastSeq,
                 rows |-> <<>>, full |-> FALSE, found |-> <<>>, more |-> FALSE]
    BY <1>1 DEF R!Closed
  <2> QED BY <2>1, <2>2 DEF Conn
<1>3. RealtimeTyped' /\ Serial'
  <2>1. wakeup' \in BOOLEAN BY <1>0 DEF RealtimeTyped
  <2>2. Len(conn'.found) <= ReplayLimit BY <1>2
  <2>3. base' \in 0..MaxSeq /\ passed' \subseteq Seqs /\ sent' \in Seq(Seqs)
    <3>1. base \in 0..MaxSeq /\ passed \subseteq Seqs /\ sent \in Seq(Seqs) /\ <<>> \in Seq(Seqs)
      BY <1>0 DEF RealtimeTyped
    <3> QED BY <3>1
  <2> QED BY <1>2, <2>1, <2>2, <2>3, LogKept
<1>4. Sent' BY <1>0, <1>2 DEF Sent, Increasing
<1>5. Cursors'
  <2>1. lastSeq \in Log /\ R!CurrentSeq \in Log /\ Log' = Log BY <1>0, LogKept, Prefix
  <2> QED BY <1>2, <2>1 DEF Cursors, Busy
<1>6. Found'
  <2>1. R!Committed' \subseteq Nat BY DEF R!Committed
  <2> QED BY <1>2, <2>1 DEF Found, Increasing
<1>7. Page' BY <1>2 DEF Page
<1>8. R!NothingMissed'
  <2>1. R!Committed' = R!Committed /\ R!Committed \subseteq Nat BY LogKept DEF R!Committed
  <2> QED BY <1>0, <1>2, <2>1 DEF R!NothingMissed
<1> QED BY <1>3, <1>4, <1>5, <1>6, <1>7, <1>8 DEF RealtimeInv

LEMMA SameCardinality == ASSUME NEW S PROVE R!Cardinality(S) = Cardinality(S)
BY DEF R!Cardinality, Cardinality

IsOrdered(S) ==
  /\ Cardinality(S) \in Nat /\ R!Ordered(S) \in [1..Cardinality(S) -> S]
  /\ Increasing(R!Ordered(S))
  /\ \A s \in S : \E i \in 1..Cardinality(S) : R!Ordered(S)[i] = s

(* ORDER BY over a stretch of numbers: all of them, each once, in order.   *)
LEMMA OrderedStretch ==
  ASSUME NEW a \in Nat, NEW b \in Nat, NEW S, S = {s \in Nat : a < s /\ s <= b}
  PROVE  IsOrdered(S)
<1> DEFINE n == Cardinality(S)
           Sorted(p) == \A i, j \in DOMAIN p : i < j => p[i] < p[j]
           q == CHOOSE p \in [1..n -> S] : Sorted(p)
<1>1. S = (a + 1)..b OBVIOUS
<1>2. IsFiniteSet(S) /\ n = IF a + 1 > b THEN 0 ELSE b - a
  <2>1. /\ a + 1 \in Int /\ b \in Int OBVIOUS
  <2>2. /\ IsFiniteSet((a + 1)..b)
        /\ Cardinality((a + 1)..b) = IF a + 1 > b THEN 0 ELSE b - (a + 1) + 1
    BY <2>1, FS_Interval
  <2>3. b - (a + 1) + 1 = b - a OBVIOUS
  <2> QED BY <1>1, <2>2, <2>3
<1>3. n \in Nat BY <1>2
<1>4. \E p \in [1..n -> S] : Sorted(p)
  <2>1. [i \in 1..n |-> a + i] \in [1..n -> S] BY <1>2, <1>3
  <2>2. Sorted([i \in 1..n |-> a + i]) BY <1>3
  <2> QED BY <2>1, <2>2
<1>5. q \in [1..n -> S] /\ Sorted(q) BY <1>4
<1>6. R!Ordered(S) = q BY SameCardinality DEF R!Ordered
<1> HIDE DEF q
<1>7. \A i, j \in 1..n : q[i] = q[j] => i = j
  <2>1. \A i \in 1..n : q[i] \in Nat BY <1>5
  <2>2. \A i, j \in 1..n : i < j => q[i] < q[j] BY <1>5
  <2> QED BY <1>3, <2>1, <2>2
<1>8. q \in Injection(1..n, S) BY <1>5, <1>7 DEF Injection, IsInjective
<1>9. IsFiniteSet(1..n) /\ Cardinality(1..n) = n BY <1>3, FS_Interval
<1>10. q \in Surjection(1..n, S) BY <1>2, <1>8, <1>9, FS_Injection
<1>11. \A s \in S : \E i \in 1..n : q[i] = s BY <1>10 DEF Surjection
<1> QED BY <1>3, <1>5, <1>6, <1>11 DEF Increasing, IsOrdered

(* The next page of a replay is the log after its scan, up to the batch.   *)
LEMMA ListStep == ASSUME RealtimeInv, R!ListEventsAfter PROVE RealtimeInv'
<1> USE GatewayAssumption
<1>0. RealtimeTyped /\ Serial /\ Sent /\ Cursors /\ Found /\ Page /\ R!NothingMissed BY DEF RealtimeInv
<1> DEFINE S == {s \in R!Committed : s > conn.scan}
           n == Cardinality(S)
           after == R!Ordered(S)
           k == IF Len(after) < BatchSize THEN Len(after) ELSE BatchSize
           page == SubSeq(after, 1, k)
<1>1. /\ conn.phase = "listing"
      /\ conn' = [conn EXCEPT !.phase = "scanning", !.rows = page, !.full = (Len(page) = BatchSize)]
      /\ UNCHANGED <<events, nextSeq, writer, member, scopes, listening, wakeup, hellos, base, sent, passed>>
  BY DEF R!ListEventsAfter
<1>2. conn \in Conn /\ conn.scan \in 0..MaxSeq /\ conn.scan \in Nat BY <1>0 DEF RealtimeTyped, Conn
<1>3. R!Committed \subseteq Seqs /\ Seqs \subseteq Nat BY DEF R!Committed, Seqs
<1>4. R!CurrentSeq \in Nat /\ S = {s \in Nat : conn.scan < s /\ s <= R!CurrentSeq}
  <2>1. \A s \in Nat : conn.scan < s /\ s <= R!CurrentSeq => s \in R!Committed
    <3> SUFFICES ASSUME NEW s \in Nat, conn.scan < s, s <= R!CurrentSeq PROVE s \in R!Committed OBVIOUS
    <3>1. R!CurrentSeq \in 0..MaxSeq /\ s # 0 /\ s \in Seqs BY <1>0, <1>2, Prefix DEF Seqs
    <3>2. R!CurrentSeq \in R!Committed BY <1>0, <1>2, <3>1, Prefix DEF Log
    <3> QED BY <1>0, <3>1, <3>2, Prefix
  <2>2. R!CurrentSeq \in Nat /\ \A s \in R!Committed : s <= R!CurrentSeq BY <1>0, Prefix
  <2> QED BY <1>2, <1>3, <2>1, <2>2
<1>5. /\ n \in Nat /\ after \in [1..n -> S] /\ Increasing(after) /\ \A s \in S : \E i \in 1..n : after[i] = s
  <2> HIDE DEF S
  <2>1. PICK a \in Nat : a = conn.scan BY <1>2
  <2>2. PICK b \in Nat : b = R!CurrentSeq BY <1>4
  <2>3. PICK Z : Z = S OBVIOUS
  <2>4. Z = {s \in Nat : a < s /\ s <= b} BY <1>4, <2>1, <2>2, <2>3
  <2>5. IsOrdered(Z) BY <2>4, OrderedStretch
  <2> QED BY <2>3, <2>5 DEF IsOrdered
<1> HIDE DEF S, n, after
<1>6. after \in Seq(S) /\ Len(after) = n BY <1>5
<1>7. /\ k \in Nat /\ k <= n /\ k <= BatchSize /\ (k < BatchSize => k = n)
  BY <1>5, <1>6
<1> HIDE DEF k
<1>8. /\ page \in Seq(S) /\ Len(page) = k /\ DOMAIN page = 1..k /\ \A i \in 1..k : page[i] = after[i]
  BY <1>6, <1>7
<1> HIDE DEF page
<1>9. S \subseteq Seqs /\ S \subseteq R!Committed /\ \A s \in S : s > conn.scan BY <1>3 DEF S
<1>10. page \in Seq(Seqs) BY <1>8, <1>9
<1>11. /\ conn' \in Conn /\ conn'.phase = "scanning" /\ conn'.rows = page /\ conn'.full = (k = BatchSize)
       /\ conn'.cursor = conn.cursor /\ conn'.scan = conn.scan /\ conn'.current = conn.current
       /\ conn'.found = conn.found /\ conn'.more = conn.more
  BY <1>1, <1>2, <1>8, <1>10 DEF Conn
<1>12. RealtimeTyped' /\ Serial' /\ R!Committed' = R!Committed /\ Log' = Log
  <2>1. /\ Len(conn'.found) <= ReplayLimit /\ wakeup' \in BOOLEAN
        /\ hellos' \in 0..MaxHellos /\ base' \in 0..MaxSeq /\ passed' \subseteq Seqs /\ sent' \in Seq(Seqs)
    BY <1>0, <1>1, <1>11 DEF RealtimeTyped
  <2> QED BY <1>1, <1>11, <2>1, LogKept
<1>13. Sent' BY <1>0, <1>1, <1>11 DEF Sent, Increasing
<1>14. Cursors' BY <1>0, <1>1, <1>11, <1>12 DEF Cursors, Busy
<1>15. Found' BY <1>0, <1>1, <1>11, <1>12 DEF Found, Increasing, Busy
<1>16. Page'
  <2>1. Increasing(page) BY <1>5, <1>7, <1>8 DEF Increasing
  <2>2. \A i \in DOMAIN page : page[i] \in S BY <1>5, <1>7, <1>8
  <2>3. \A i \in DOMAIN page : conn.scan < page[i] /\ page[i] \in Log BY <1>2, <1>3, <1>9, <2>2 DEF Log
  <2>4. \A i \in DOMAIN page, s \in R!Committed :
          conn.scan < s /\ s <= page[i] => \E j \in DOMAIN page : page[j] = s
    <3> SUFFICES ASSUME NEW i \in 1..k, NEW s \in R!Committed, conn.scan < s, s <= page[i]
                 PROVE  \E j \in 1..k : page[j] = s
      BY <1>8
    <3>1. s \in S /\ s \in Nat BY <1>2, <1>3 DEF S
    <3>2. PICK j \in 1..n : after[j] = s BY <1>5, <3>1
    <3>3. i \in 1..n /\ after[i] = page[i] /\ after[i] \in Nat
      <4>1. i \in 1..n BY <1>5, <1>7
      <4>2. after[i] \in S BY <1>5, <4>1
      <4> QED BY <1>3, <1>8, <1>9, <4>1, <4>2
    <3>4. ~(i < j)
      <4>1. i < j => after[i] < after[j] BY <1>5, <3>3 DEF Increasing
      <4> QED BY <3>1, <3>2, <3>3, <4>1
    <3>5. j \in 1..k BY <1>5, <1>7, <3>4
    <3> QED BY <1>8, <3>2, <3>5
  <2>5. conn.more = FALSE BY <1>0, <1>1, <1>2 DEF Page, Conn
  <2>6. k = BatchSize => page # <<>> BY <1>7, <1>8
  <2>7. k # BatchSize => \A s \in R!Committed : conn.scan < s => \E j \in DOMAIN page : page[j] = s
    <3> SUFFICES ASSUME k # BatchSize, NEW s \in R!Committed, conn.scan < s PROVE \E j \in 1..k : page[j] = s BY <1>8
    <3>1. k = n BY <1>7
    <3>2. s \in S BY <1>2, <1>3 DEF S
    <3>3. PICK j \in 1..n : after[j] = s BY <1>5, <3>2
    <3> QED BY <1>8, <3>1, <3>3
  <2> QED BY <1>11, <1>12, <2>1, <2>3, <2>4, <2>5, <2>6, <2>7 DEF Page
<1>17. R!NothingMissed' BY <1>0, <1>1, <1>11, <1>12 DEF R!NothingMissed
<1> QED BY <1>12, <1>13, <1>14, <1>15, <1>16, <1>17 DEF RealtimeInv

(* One row of the page is looked at: it joins what was found, is passed    *)
(* over as invisible, or is the one the limit leaves out.                  *)
LEMMA ReplayStep == ASSUME RealtimeInv, R!Replay PROVE RealtimeInv'
<1> USE GatewayAssumption
<1>0. RealtimeTyped /\ Serial /\ Sent /\ Cursors /\ Found /\ Page /\ R!NothingMissed BY DEF RealtimeInv
<1> DEFINE head == Head(conn.rows)
           rest == Tail(conn.rows)
           visible == R!EventVisible(events[head])
           next == [conn EXCEPT !.rows = rest, !.scan = head,
                       !.phase = IF Len(conn.rows) = 1 /\ conn.full THEN "listing" ELSE @]
<1>1. /\ conn.phase = "scanning" /\ conn.rows # <<>>
      /\ conn' = IF ~visible THEN next
                 ELSE IF Len(conn.found) < ReplayLimit THEN [next EXCEPT !.found = Append(@, head)]
                 ELSE [next EXCEPT !.phase = "scanning", !.rows = <<>>, !.full = FALSE, !.more = TRUE]
      /\ passed' = IF visible THEN passed ELSE passed \union {head}
      /\ UNCHANGED <<events, nextSeq, writer, member, scopes, listening, wakeup, hellos, base, sent>>
  BY DEF R!Replay
<1>2. /\ conn \in Conn /\ conn.rows \in Seq(Seqs) /\ conn.found \in Seq(Seqs)
      /\ conn.scan \in Nat /\ conn.cursor \in Nat /\ conn.current \in Nat
  BY <1>0 DEF RealtimeTyped, Conn
<1>3. /\ head = conn.rows[1] /\ 1 \in DOMAIN conn.rows /\ head \in Seqs /\ head \in Nat
      /\ rest \in Seq(Seqs) /\ Len(rest) = Len(conn.rows) - 1 /\ DOMAIN rest = 1..(Len(conn.rows) - 1)
      /\ \A i \in DOMAIN rest : rest[i] = conn.rows[i + 1] /\ i + 1 \in DOMAIN conn.rows
  <2>1. head \in Seqs /\ rest \in Seq(Seqs) BY <1>1, <1>2
  <2>2. head \in Nat BY <2>1 DEF Seqs
  <2> QED BY <1>1, <1>2, <2>1, <2>2
<1> HIDE DEF head, rest, visible
<1>4. R!Committed \subseteq Seqs /\ Seqs \subseteq Nat BY DEF R!Committed, Seqs
<1>P. /\ Increasing(conn.rows)
      /\ \A i \in DOMAIN conn.rows : conn.scan < conn.rows[i]
      /\ \A i \in DOMAIN conn.rows : conn.rows[i] \in Log
      /\ \A i \in DOMAIN conn.rows, s \in R!Committed :
           conn.scan < s /\ s <= conn.rows[i] => \E j \in DOMAIN conn.rows : conn.rows[j] = s
      /\ ~conn.full => \A s \in R!Committed :
           conn.scan < s /\ s <= conn.current => conn.more \/ \E j \in DOMAIN conn.rows : conn.rows[j] = s
      /\ ~conn.more
  BY <1>0, <1>1 DEF Page
<1>R. \A i \in DOMAIN conn.rows : conn.rows[i] \in Nat /\ i \in Nat /\ i >= 1
  <2>1. \A i \in DOMAIN conn.rows : conn.rows[i] \in Seqs BY <1>2
  <2>2. \A i \in DOMAIN conn.rows : i \in Nat /\ i >= 1 BY <1>2
  <2> QED BY <1>4, <2>1, <2>2
<1>5. /\ conn.scan < head /\ head \in Log /\ \A s \in R!Committed : conn.scan < s /\ s <= head => s = head
  <2>1. conn.scan < head /\ head \in Log BY <1>3, <1>P
  <2>2. \A j \in DOMAIN conn.rows : head <= conn.rows[j]
    <3> TAKE j \in DOMAIN conn.rows
    <3>1. CASE j = 1 BY <1>3, <1>R, <3>1
    <3>2. CASE j # 1
      <4>1. 1 < j BY <1>R, <3>2
      <4>2. conn.rows[1] < conn.rows[j] BY <1>3, <1>P, <4>1 DEF Increasing
      <4> QED BY <1>3, <1>R, <4>2
    <3> QED BY <3>1, <3>2
  <2>3. ASSUME NEW s \in R!Committed, conn.scan < s, s <= head PROVE s = head
    <3>1. s <= conn.rows[1] BY <1>3, <2>3
    <3>2. PICK j \in DOMAIN conn.rows : conn.rows[j] = s BY <1>3, <1>P, <2>3, <3>1
    <3>3. head <= s BY <2>2, <3>2
    <3>4. s \in Nat BY <1>4
    <3> QED BY <1>3, <2>3, <3>3, <3>4
  <2> QED BY <2>1, <2>3
<1>6. /\ Increasing(rest)
      /\ \A i \in DOMAIN rest : head < rest[i] /\ rest[i] \in Log
      /\ \A j \in DOMAIN conn.rows : conn.rows[j] = head \/ \E i \in DOMAIN rest : rest[i] = conn.rows[j]
  <2>0. /\ DOMAIN conn.rows = 1..Len(conn.rows) /\ Len(conn.rows) \in Nat
        /\ \A i \in DOMAIN rest : i \in Nat /\ i >= 1
    BY <1>2, <1>3
  <2>1. Increasing(rest)
    <3> SUFFICES ASSUME NEW i \in DOMAIN rest, NEW j \in DOMAIN rest, i < j PROVE rest[i] < rest[j] BY DEF Increasing
    <3>1. i + 1 < j + 1 BY <2>0
    <3>2. conn.rows[i + 1] < conn.rows[j + 1] BY <1>3, <1>P, <3>1 DEF Increasing
    <3> QED BY <1>3, <3>2
  <2>2. ASSUME NEW i \in DOMAIN rest PROVE head < rest[i] /\ rest[i] \in Log
    <3>1. 1 < i + 1 BY <2>0
    <3>2. conn.rows[1] < conn.rows[i + 1] BY <1>3, <1>P, <3>1 DEF Increasing
    <3> QED BY <1>3, <1>P, <3>2
  <2>3. ASSUME NEW j \in DOMAIN conn.rows PROVE conn.rows[j] = head \/ \E i \in DOMAIN rest : rest[i] = conn.rows[j]
    <3>2. CASE j = 1 BY <1>3, <3>2
    <3>3. CASE j # 1
      <4>1. j - 1 \in DOMAIN rest /\ (j - 1) + 1 = j BY <1>3, <2>0, <3>3
      <4> QED BY <1>3, <4>1
    <3> QED BY <3>2, <3>3
  <2> QED BY <2>1, <2>2, <2>3
<1>7. conn.more = FALSE BY <1>0, <1>1, <1>2 DEF Page, Conn
<1>8. head \in 0..MaxSeq BY <1>3 DEF Seqs
<1>9. /\ next \in Conn /\ next.rows = rest /\ next.scan = head /\ next.cursor = conn.cursor
      /\ next.current = conn.current /\ next.found = conn.found /\ next.full = conn.full /\ next.more = conn.more
      /\ next.phase = IF Len(conn.rows) = 1 /\ conn.full THEN "listing" ELSE "scanning"
  BY <1>1, <1>2, <1>3, <1>8 DEF Conn
<1> HIDE DEF next
<1>F. /\ Increasing(conn.found)
      /\ \A i \in DOMAIN conn.found : conn.cursor < conn.found[i]
      /\ \A i \in DOMAIN conn.found : conn.found[i] <= conn.scan
      /\ \A i \in DOMAIN conn.found : conn.found[i] \in Log
      /\ \A s \in R!Committed : conn.cursor < s /\ s <= conn.scan =>
           \/ s \in passed \/ \E i \in DOMAIN conn.found : conn.found[i] = s
  BY <1>0, <1>1, <1>7 DEF Found, Busy
<1>G. /\ \A i \in DOMAIN conn.found : conn.found[i] \in Nat
      /\ \A i \in DOMAIN conn.found : conn.found[i] < head
  <2>1. \A i \in DOMAIN conn.found : conn.found[i] \in Seqs BY <1>2
  <2>2. \A i \in DOMAIN conn.found : conn.found[i] \in Nat BY <1>4, <2>1
  <2>3. \A i \in DOMAIN conn.found : conn.found[i] < head BY <1>2, <1>3, <1>5, <1>F, <2>2
  <2> QED BY <2>2, <2>3
<1>C. conn.cursor \in Log /\ conn.current \in Log /\ conn.cursor <= head /\ conn.cursor < head
  <2>1. conn.cursor \in Log /\ conn.current \in Log /\ conn.cursor <= conn.scan BY <1>0, <1>1 DEF Cursors, Busy
  <2>2. conn.cursor <= head /\ conn.cursor < head BY <1>2, <1>3, <1>5, <2>1
  <2> QED BY <2>1, <2>2
<1>S. ASSUME NEW s \in R!Committed, conn.cursor < s, s <= head
      PROVE  s \in passed \/ (\E i \in DOMAIN conn.found : conn.found[i] = s) \/ s = head
  <2>1. s \in Nat BY <1>4
  <2>2. CASE s <= conn.scan BY <1>F, <1>S, <2>2
  <2>3. CASE conn.scan < s BY <1>5, <1>S, <2>3
  <2> QED BY <1>2, <2>1, <2>2, <2>3
<1>K. ASSUME conn'.phase \in Busy, conn'.cursor = conn.cursor, conn'.scan = head, conn'.current = conn.current, Log' = Log
      PROVE  Cursors'
  <2>1. conn'.cursor \in Log' /\ conn'.scan \in Log' /\ conn'.current \in Log' /\ conn'.cursor <= conn'.scan
    BY <1>5, <1>C, <1>K
  <2>2. conn'.phase # "closed" /\ conn'.phase # "open" BY <1>K DEF Busy
  <2> QED BY <2>1, <2>2 DEF Cursors
<1>N. next.phase \in Busy BY <1>9 DEF Busy
<1>T. ASSUME conn'.phase = next.phase, conn'.rows = rest, conn'.scan = head, conn'.current = conn.current,
             conn'.full = conn.full, conn'.more = conn.more, R!Committed' = R!Committed, Log' = Log
      PROVE  Page'
  <2>1. conn'.more = FALSE BY <1>7, <1>T
  <2>2. CASE conn'.phase # "scanning" BY <2>1, <2>2 DEF Page
  <2>3. CASE conn'.phase = "scanning"
    <3>1. ~(Len(conn.rows) = 1 /\ conn.full) BY <1>9, <1>T, <2>3
    <3>2. conn.full => rest # <<>>
      <4> SUFFICES ASSUME conn.full, rest = <<>> PROVE FALSE OBVIOUS
      <4>1. Len(rest) = 0 OBVIOUS
      <4>2. Len(conn.rows) \in Nat BY <1>2
      <4>3. Len(conn.rows) = 1 BY <1>3, <4>1, <4>2
      <4> QED BY <3>1, <4>3
    <3>3. ASSUME NEW s \in R!Committed, head < s, NEW j \in DOMAIN conn.rows, conn.rows[j] = s
          PROVE  \E i \in DOMAIN rest : rest[i] = s
      <4>1. s \in Nat /\ s # head BY <1>3, <1>4, <3>3
      <4> QED BY <1>6, <3>3, <4>1
    <3>4. ASSUME NEW s \in R!Committed, head < s PROVE conn.scan < s
      <4>1. s \in Nat BY <1>4
      <4> QED BY <1>2, <1>3, <1>5, <3>4, <4>1
    <3>5. ASSUME NEW i \in DOMAIN rest, NEW s \in R!Committed, head < s, s <= rest[i]
          PROVE  \E j \in DOMAIN rest : rest[j] = s
      <4>1. i + 1 \in DOMAIN conn.rows /\ s <= conn.rows[i + 1] BY <1>3, <3>5
      <4>2. \E j \in DOMAIN conn.rows : conn.rows[j] = s BY <1>P, <3>4, <3>5, <4>1
      <4> QED BY <3>3, <3>5, <4>2
    <3>6. ASSUME ~conn.full, NEW s \in R!Committed, head < s, s <= conn.current
          PROVE  \E j \in DOMAIN rest : rest[j] = s
      <4>1. \E j \in DOMAIN conn.rows : conn.rows[j] = s BY <1>P, <3>4, <3>6
      <4> QED BY <3>3, <3>6, <4>1
    <3>7. \A i \in DOMAIN rest : head < rest[i] /\ rest[i] \in Log' BY <1>6, <1>T
    <3>8. Increasing(conn'.rows) BY <1>6, <1>T
    <3> QED BY <1>T, <2>1, <2>3, <3>2, <3>5, <3>6, <3>7, <3>8 DEF Page
  <2> QED BY <2>2, <2>3
<1>10. CASE ~visible
  <2>1. conn' = next /\ passed' = passed \union {head} BY <1>1, <1>10
  <2>2. /\ RealtimeTyped' /\ Serial' /\ R!Committed' = R!Committed /\ Log' = Log
    <3>1. /\ Len(conn'.found) <= ReplayLimit /\ wakeup' \in BOOLEAN
          /\ hellos' \in 0..MaxHellos /\ base' \in 0..MaxSeq /\ passed' \subseteq Seqs /\ sent' \in Seq(Seqs)
      BY <1>0, <1>1, <1>3, <1>9, <2>1 DEF RealtimeTyped
    <3> QED BY <1>1, <1>9, <2>1, <3>1, LogKept
  <2>3. Sent' BY <1>0, <1>1, <1>9, <2>1 DEF Sent
  <2>4. Cursors' BY <1>9, <1>K, <1>N, <2>1, <2>2
  <2>5. Found'
    <3>1. \A i \in DOMAIN conn.found : conn.found[i] <= head BY <1>3, <1>G
    <3>2. \A s \in R!Committed : conn.cursor < s /\ s <= head =>
            \/ s \in passed' \/ \E i \in DOMAIN conn.found : conn.found[i] = s
      BY <1>S, <2>1
    <3>3. ~conn'.more BY <1>7, <1>9, <2>1
    <3>4. Increasing(conn'.found) BY <1>9, <1>F, <2>1
    <3> QED BY <1>9, <1>F, <2>1, <2>2, <3>1, <3>2, <3>3, <3>4 DEF Found
  <2>6. Page' BY <1>9, <1>T, <2>1, <2>2
  <2>7. R!NothingMissed' BY <1>0, <1>1, <1>9, <2>1, <2>2 DEF R!NothingMissed
  <2> QED BY <2>2, <2>3, <2>4, <2>5, <2>6, <2>7 DEF RealtimeInv
<1>11. CASE visible /\ Len(conn.found) < ReplayLimit
  <2> DEFINE more == Append(conn.found, head)
  <2>1. conn' = [next EXCEPT !.found = more] /\ passed' = passed BY <1>1, <1>9, <1>11
  <2>2. /\ more \in Seq(Seqs) /\ Len(more) = Len(conn.found) + 1 /\ DOMAIN more = 1..(Len(conn.found) + 1)
        /\ DOMAIN conn.found = 1..Len(conn.found) /\ Len(conn.found) \in Nat
        /\ \A i \in DOMAIN conn.found : more[i] = conn.found[i]
        /\ more[Len(conn.found) + 1] = head
    BY <1>2, <1>3
  <2> HIDE DEF more
  <2>3. /\ conn' \in Conn /\ conn'.rows = rest /\ conn'.scan = head /\ conn'.cursor = conn.cursor
        /\ conn'.current = conn.current /\ conn'.found = more /\ conn'.full = conn.full /\ conn'.more = conn.more
        /\ conn'.phase = next.phase
    BY <1>9, <2>1, <2>2 DEF Conn
  <2>4. RealtimeTyped' /\ Serial' /\ R!Committed' = R!Committed /\ Log' = Log
    <3>1. Len(conn'.found) <= ReplayLimit BY <1>11, <2>2, <2>3
    <3>2. /\ wakeup' \in BOOLEAN
          /\ hellos' \in 0..MaxHellos /\ base' \in 0..MaxSeq /\ passed' \subseteq Seqs /\ sent' \in Seq(Seqs)
      BY <1>0, <1>1, <2>1 DEF RealtimeTyped
    <3> QED BY <1>1, <2>3, <3>1, <3>2, LogKept
  <2>5. Sent' BY <1>0, <1>1, <2>3 DEF Sent
  <2>6. Cursors' BY <1>9, <1>K, <1>N, <2>3, <2>4
  <2>7. Found'
    <3>5. Increasing(more)
      <4> SUFFICES ASSUME NEW i \in DOMAIN more, NEW j \in DOMAIN more, i < j PROVE more[i] < more[j]
        BY DEF Increasing
      <4>1. i \in DOMAIN conn.found BY <2>2
      <4>2. CASE j \in DOMAIN conn.found BY <1>F, <2>2, <4>1, <4>2 DEF Increasing
      <4>3. CASE j = Len(conn.found) + 1 BY <1>G, <2>2, <4>1, <4>3
      <4> QED BY <2>2, <4>2, <4>3
    <3>6. \A i \in DOMAIN more : i \in DOMAIN conn.found \/ i = Len(conn.found) + 1 BY <2>2
    <3>7. ASSUME NEW i \in DOMAIN more PROVE conn.cursor < more[i] /\ more[i] <= head /\ more[i] \in Log
      <4>1. CASE i \in DOMAIN conn.found
        <5>1. conn.found[i] <= head BY <1>3, <1>G, <4>1
        <5> QED BY <1>F, <2>2, <4>1, <5>1
      <4>2. CASE i = Len(conn.found) + 1
        <5>1. head <= head BY <1>3
        <5> QED BY <1>5, <1>C, <2>2, <4>2, <5>1
      <4> QED BY <3>6, <4>1, <4>2
    <3>8. ASSUME NEW s \in R!Committed, conn.cursor < s, s <= head
          PROVE  s \in passed \/ \E i \in DOMAIN more : more[i] = s
      <4>1. DOMAIN conn.found \subseteq DOMAIN more /\ Len(conn.found) + 1 \in DOMAIN more BY <2>2
      <4> QED BY <1>S, <2>2, <3>8, <4>1
    <3>9. ~conn'.more BY <1>7, <2>3
    <3>10. Increasing(conn'.found) BY <2>3, <3>5
    <3> QED BY <2>1, <2>3, <2>4, <3>7, <3>8, <3>9, <3>10 DEF Found
  <2>8. Page' BY <1>T, <2>3, <2>4
  <2>9. R!NothingMissed' BY <1>0, <1>1, <2>1, <2>3, <2>4 DEF R!NothingMissed
  <2> QED BY <2>4, <2>5, <2>6, <2>7, <2>8, <2>9 DEF RealtimeInv
<1>12. CASE visible /\ ~(Len(conn.found) < ReplayLimit)
  <2>1. conn' = [next EXCEPT !.phase = "scanning", !.rows = <<>>, !.full = FALSE, !.more = TRUE] /\ passed' = passed
    BY <1>1, <1>12
  <2>2. /\ conn' \in Conn /\ conn'.rows = <<>> /\ conn'.scan = head /\ conn'.cursor = conn.cursor
        /\ conn'.current = conn.current /\ conn'.found = conn.found /\ conn'.full = FALSE /\ conn'.more = TRUE
        /\ conn'.phase = "scanning"
    <3>1. <<>> \in Seq(Seqs) OBVIOUS
    <3> QED BY <1>9, <2>1, <3>1 DEF Conn
  <2>3. RealtimeTyped' /\ Serial' /\ R!Committed' = R!Committed /\ Log' = Log
    <3>1. /\ Len(conn'.found) <= ReplayLimit /\ wakeup' \in BOOLEAN
          /\ hellos' \in 0..MaxHellos /\ base' \in 0..MaxSeq /\ passed' \subseteq Seqs /\ sent' \in Seq(Seqs)
      BY <1>0, <1>1, <2>1, <2>2 DEF RealtimeTyped
    <3> QED BY <1>1, <2>2, <3>1, LogKept
  <2>4. Sent' BY <1>0, <1>1, <2>2 DEF Sent
  <2>5. Cursors'
    <3>1. conn'.phase \in Busy BY <2>2 DEF Busy
    <3> QED BY <1>K, <2>2, <2>3, <3>1
  <2>6. Found'
    <3>1. \A i \in DOMAIN conn.found : conn.found[i] <= head BY <1>3, <1>G
    <3>2. conn.found # <<>> BY <1>2, <1>12
    <3>3. Increasing(conn'.found) BY <1>F, <2>2
    <3> QED BY <1>F, <1>G, <1>S, <2>1, <2>2, <2>3, <3>1, <3>2, <3>3 DEF Found
  <2>7. Page' BY <2>2 DEF Page, Increasing
  <2>8. R!NothingMissed' BY <1>0, <1>1, <2>1, <2>2, <2>3 DEF R!NothingMissed
  <2> QED BY <2>3, <2>4, <2>5, <2>6, <2>7, <2>8 DEF RealtimeInv
<1> QED BY <1>10, <1>11, <1>12

(* A replay ends: what it found is sent, and the cursor moves to the last  *)
(* of it, or to the newest seq that the replay saw.                        *)
LEMMA WriteStep == ASSUME RealtimeInv, R!writeEvents PROVE RealtimeInv'
<1> USE GatewayAssumption
<1>0. RealtimeTyped /\ Serial /\ Sent /\ Cursors /\ Found /\ Page /\ R!NothingMissed BY DEF RealtimeInv
<1> DEFINE c == R!deliveredCursor
           all == sent \o conn.found
           m == Len(sent)
           n == Len(conn.found)
<1>1. /\ conn.phase = "scanning" /\ conn.rows = <<>> /\ sent' = all
      /\ conn' = [R!Closed EXCEPT !.phase = "ready", !.cursor = c]
      /\ UNCHANGED <<events, nextSeq, writer, member, scopes, listening, wakeup, hellos, base, passed>>
  BY DEF R!writeEvents
<1>2. /\ conn \in Conn /\ conn.found \in Seq(Seqs) /\ sent \in Seq(Seqs)
      /\ conn.scan \in 0..MaxSeq /\ conn.cursor \in 0..MaxSeq /\ conn.current \in 0..MaxSeq
      /\ conn.full \in BOOLEAN /\ conn.more \in BOOLEAN
  BY <1>0 DEF RealtimeTyped, Conn
<1>3. R!Committed \subseteq Seqs /\ Seqs \subseteq Nat /\ Seqs \subseteq 0..MaxSeq BY DEF R!Committed, Seqs
<1>4. /\ Increasing(conn.found)
      /\ \A i \in DOMAIN conn.found : conn.cursor < conn.found[i]
      /\ \A i \in DOMAIN conn.found : conn.found[i] <= conn.scan
      /\ \A i \in DOMAIN conn.found : conn.found[i] \in Log
      /\ conn.more => conn.found # <<>> /\ \A i \in DOMAIN conn.found : conn.found[i] < conn.scan
      /\ \A s \in R!Committed : conn.cursor < s /\ s <= conn.scan =>
           \/ s \in passed \/ \E i \in DOMAIN conn.found : conn.found[i] = s
           \/ conn.more /\ s = conn.scan
  BY <1>0, <1>1 DEF Found, Busy
<1>5. conn.cursor \in Log /\ conn.scan \in Log /\ conn.current \in Log /\ conn.cursor <= conn.scan
  BY <1>0, <1>1 DEF Cursors, Busy
<1>6. /\ DOMAIN conn.found = 1..n /\ n \in Nat /\ DOMAIN sent = 1..m /\ m \in Nat
      /\ all \in Seq(Seqs) /\ DOMAIN all = 1..(m + n)
      /\ \A i \in 1..m : all[i] = sent[i]
      /\ \A i \in 1..n : all[m + i] = conn.found[i]
  <2>1. /\ DOMAIN conn.found = 1..n /\ n \in Nat /\ DOMAIN sent = 1..m /\ m \in Nat BY <1>2
  <2>2. all \in Seq(Seqs) /\ Len(all) = m + n BY <1>2
  <2>3. DOMAIN all = 1..(m + n) BY <2>2
  <2>4. \A i \in 1..m : all[i] = sent[i] BY <1>2, <2>1
  <2>5. \A i \in 1..n : all[m + i] = conn.found[i]
    <3> TAKE i \in 1..n
    <3>1. m + i \in 1..(m + n) /\ m + i > m /\ (m + i) - m = i BY <2>1
    <3> QED BY <1>2, <2>1, <3>1
  <2> QED BY <2>1, <2>2, <2>3, <2>4, <2>5
<1>7. /\ \A i \in 1..n : conn.found[i] \in Seqs /\ conn.found[i] \in Nat
      /\ \A i \in 1..m : sent[i] \in Seqs /\ sent[i] \in Nat
  <2>1. \A i \in 1..n : conn.found[i] \in Seqs BY <1>2, <1>6
  <2>2. \A i \in 1..m : sent[i] \in Seqs BY <1>2, <1>6
  <2> QED BY <1>3, <2>1, <2>2
(* Where the cursor goes.                                                  *)
<1>8. /\ c \in 0..MaxSeq /\ c \in Log /\ conn.cursor <= c
      /\ n # 0 => c = conn.found[n]
      /\ \A i \in 1..n : conn.found[i] <= c
      /\ \A s \in R!Committed : conn.cursor < s /\ s <= c => s \in passed \/ \E i \in 1..n : conn.found[i] = s
  <2>1. CASE n = 0
    <3>1. conn.found = <<>> BY <1>2, <2>1
    <3>2. ~conn.more BY <1>4, <3>1
    <3>3. ~conn.full BY <1>0, <1>1 DEF Page
    <3>4. \A s \in R!Committed : ~(conn.scan < s /\ s <= conn.current)
      <4>1. \A s \in R!Committed : conn.scan < s /\ s <= conn.current => \E j \in DOMAIN conn.rows : conn.rows[j] = s
        BY <1>0, <1>1, <3>2, <3>3 DEF Page
      <4>2. DOMAIN conn.rows = {} BY <1>1
      <4> QED BY <4>1, <4>2
    <3>5. c = IF R!NewestSeen > conn.cursor THEN R!NewestSeen ELSE conn.cursor BY <3>1 DEF R!deliveredCursor
    <3>6. c = IF conn.scan > conn.current THEN conn.scan ELSE IF conn.current > conn.cursor THEN conn.current
                                                           ELSE conn.cursor
      BY <1>2, <1>5, <3>5 DEF R!NewestSeen
    <3>7. c \in 0..MaxSeq /\ c \in Log /\ conn.cursor <= c BY <1>2, <1>5, <3>6
    <3>8. ASSUME NEW s \in R!Committed, conn.cursor < s, s <= c PROVE s \in passed
      <4>1. s \in Nat /\ conn.scan \in Nat /\ conn.current \in Nat /\ conn.cursor \in Nat BY <1>2, <1>3
      <4>2. s <= conn.scan \/ s <= conn.current BY <3>6, <3>8, <4>1
      <4>3. s <= conn.scan BY <3>4, <4>1, <4>2
      <4> QED BY <1>4, <3>1, <3>2, <3>8, <4>3
    <3> QED BY <2>1, <3>7, <3>8
  <2>2. CASE n # 0
    <3>1. n \in 1..n /\ conn.found # <<>> BY <1>2, <1>6, <2>2
    <3>2. R!Last(conn.found) = conn.found[n] BY DEF R!Last
    <3>3. conn.cursor < conn.found[n] BY <1>4, <1>6, <3>1
    <3>4. c = conn.found[n]
      <4>1. conn.found[n] > conn.cursor BY <1>2, <1>7, <3>1, <3>3
      <4> QED BY <3>1, <3>2, <4>1 DEF R!deliveredCursor
    <3>5. c \in 0..MaxSeq /\ c \in Log /\ c \in Nat BY <1>3, <1>4, <1>6, <1>7, <3>1, <3>4
    <3>6. conn.cursor <= c BY <1>2, <3>3, <3>4, <3>5
    <3>7. \A i \in 1..n : conn.found[i] <= c
      <4> TAKE i \in 1..n
      <4>1. CASE i = n BY <3>4, <3>5, <4>1
      <4>2. CASE i # n
        <5>1. i < n BY <1>6, <4>2
        <5>2. conn.found[i] < conn.found[n] BY <1>4, <1>6, <3>1, <5>1 DEF Increasing
        <5> QED BY <1>7, <3>4, <3>5, <5>2
      <4> QED BY <4>1, <4>2
    <3>8. ASSUME NEW s \in R!Committed, conn.cursor < s, s <= c PROVE s \in passed \/ \E i \in 1..n : conn.found[i] = s
      <4>1. s \in Nat /\ conn.scan \in Nat /\ conn.found[n] <= conn.scan BY <1>2, <1>3, <1>4, <1>6, <3>1
      <4>2. s <= conn.scan BY <3>4, <3>5, <3>8, <4>1
      <4>3. conn.more => s # conn.scan
        <5>1. conn.more => conn.found[n] < conn.scan BY <1>4, <1>6, <3>1
        <5> QED BY <3>4, <3>5, <3>8, <4>1, <5>1
      <4> QED BY <1>4, <1>6, <3>8, <4>2, <4>3
    <3> QED BY <3>4, <3>5, <3>6, <3>7, <3>8
  <2> QED BY <2>1, <2>2
<1> HIDE DEF c, all, m, n
<1>9. conn' \in Conn /\ conn'.phase = "ready" /\ conn'.cursor = c /\ conn'.found = <<>>
  <2>1. <<>> \in Seq(Seqs) /\ 0 \in 0..MaxSeq OBVIOUS
  <2>2. conn' = [phase |-> "ready", hello |-> FALSE, cursor |-> c, current |-> 0, scan |-> 0,
                 rows |-> <<>>, full |-> FALSE, found |-> <<>>, more |-> FALSE]
    BY <1>1 DEF R!Closed
  <2> QED BY <1>8, <2>1, <2>2 DEF Conn
<1>10. RealtimeTyped' /\ Serial' /\ R!Committed' = R!Committed /\ Log' = Log
  <2>1. /\ wakeup' \in BOOLEAN /\ hellos' \in 0..MaxHellos /\ base' \in 0..MaxSeq /\ passed' \subseteq Seqs
    BY <1>0, <1>1 DEF RealtimeTyped
  <2>2. Len(conn'.found) <= ReplayLimit BY <1>9
  <2>3. sent' \in Seq(Seqs) BY <1>1, <1>6
  <2> QED BY <1>1, <1>9, <2>1, <2>2, <2>3, LogKept
<1>11. \A i \in 1..(m + n) : i \in 1..m \/ \E j \in 1..n : i = m + j
  <2> TAKE i \in 1..(m + n)
  <2>1. CASE i <= m BY <1>6, <2>1
  <2>2. CASE i > m
    <3>1. i - m \in 1..n /\ i = m + (i - m) BY <1>6, <2>2
    <3> QED BY <3>1
  <2> QED BY <1>6, <2>1, <2>2
<1>12. /\ Increasing(sent) /\ \A i \in 1..m : sent[i] <= conn.cursor BY <1>0, <1>6 DEF Sent
<1>13. Sent'
  <2>1. Increasing(all)
    <3> SUFFICES ASSUME NEW i \in 1..(m + n), NEW j \in 1..(m + n), i < j PROVE all[i] < all[j] BY <1>6 DEF Increasing
    <3>1. CASE i \in 1..m /\ j \in 1..m BY <1>6, <1>12, <3>1 DEF Increasing
    <3>2. ASSUME i \in 1..m, NEW k \in 1..n, j = m + k PROVE all[i] < all[j]
      <4>1. sent[i] <= conn.cursor /\ conn.cursor < conn.found[k] BY <1>4, <1>6, <1>12, <3>2
      <4>2. sent[i] \in Nat /\ conn.cursor \in Nat /\ conn.found[k] \in Nat BY <1>2, <1>7, <3>2
      <4>3. sent[i] < conn.found[k] BY <4>1, <4>2
      <4> QED BY <1>6, <3>2, <4>3
    <3>3. ASSUME NEW h \in 1..n, NEW k \in 1..n, i = m + h, j = m + k PROVE all[i] < all[j]
      <4>1. h < k BY <1>6, <3>3
      <4>2. conn.found[h] < conn.found[k] BY <1>4, <1>6, <4>1 DEF Increasing
      <4> QED BY <1>6, <3>3, <4>2
    <3>4. ~(j \in 1..m /\ i \notin 1..m) BY <1>6
    <3> QED BY <1>11, <3>1, <3>2, <3>3, <3>4
  <2>2. ASSUME NEW i \in 1..(m + n) PROVE all[i] <= c
    <3>1. CASE i \in 1..m
      <4>1. sent[i] <= conn.cursor /\ conn.cursor <= c BY <1>8, <1>12, <3>1
      <4>2. sent[i] \in Nat /\ conn.cursor \in Nat /\ c \in Nat BY <1>2, <1>7, <1>8, <3>1
      <4>3. sent[i] <= c BY <4>1, <4>2
      <4> QED BY <1>6, <3>1, <4>3
    <3>2. ASSUME NEW j \in 1..n, i = m + j PROVE all[i] <= c BY <1>6, <1>8, <3>2
    <3> QED BY <1>11, <3>1, <3>2
  <2> QED BY <1>1, <1>6, <1>9, <2>1, <2>2 DEF Sent
<1>14. Cursors' BY <1>8, <1>9, <1>10 DEF Cursors, Busy
<1>15. Found' /\ Page' BY <1>9 DEF Found, Page, Busy
<1>16. R!NothingMissed'
  <2> SUFFICES ASSUME NEW s \in R!Committed, base < s, s <= c PROVE s \in R!ToSet(all) \union passed
    BY <1>1, <1>9, <1>10 DEF R!NothingMissed
  <2>1. R!ToSet(all) = {all[i] : i \in 1..(m + n)} BY <1>6 DEF R!ToSet
  <2>2. s \in Nat /\ conn.cursor \in Nat BY <1>2, <1>3
  <2>3. CASE s <= conn.cursor
    <3>1. s \in R!ToSet(sent) \union passed BY <1>0, <1>1, <2>3 DEF R!NothingMissed
    <3>2. R!ToSet(sent) = {sent[i] : i \in 1..m} BY <1>6 DEF R!ToSet
    <3>3. 1..m \subseteq 1..(m + n) BY <1>6
    <3>4. ASSUME NEW i \in 1..m, sent[i] = s PROVE s \in R!ToSet(all)
      <4>1. i \in 1..(m + n) /\ all[i] = s BY <1>6, <3>3, <3>4
      <4> QED BY <2>1, <4>1
    <3> QED BY <3>1, <3>2, <3>4
  <2>4. CASE conn.cursor < s
    <3>1. s \in passed \/ \E i \in 1..n : conn.found[i] = s BY <1>8, <2>4
    <3>2. ASSUME NEW i \in 1..n, conn.found[i] = s PROVE s \in R!ToSet(all)
      <4>1. m + i \in 1..(m + n) BY <1>6
      <4>2. all[m + i] = s BY <1>6, <3>2
      <4> QED BY <2>1, <4>1, <4>2
    <3> QED BY <3>1, <3>2
  <2> QED BY <2>2, <2>3, <2>4
<1> QED BY <1>10, <1>13, <1>14, <1>15, <1>16 DEF RealtimeInv

LEMMA ServeStep ==
  ASSUME RealtimeInv, NEW lastSeq \in 0..MaxSeq, R!ServeHTTP(lastSeq)
  PROVE  RealtimeInv'
<1> USE GatewayAssumption
<1>1. RealtimeTyped /\ Serial BY DEF RealtimeInv
<1>2. hellos' \in 0..MaxHellos
  <2>1. hellos \in 0..MaxHellos /\ hellos < MaxHellos /\ hellos' = hellos + 1 BY <1>1 DEF RealtimeTyped, R!ServeHTTP
  <2> QED BY <2>1
<1>3. wakeup' \in {FALSE, wakeup} /\ UNCHANGED <<events, nextSeq, writer, member, scopes, listening>>
  BY DEF R!ServeHTTP
<1>4. CASE lastSeq <= R!CurrentSeq /\ R!StartReplay(TRUE, lastSeq) /\ base' = lastSeq /\ sent' = <<>> /\ passed' = {}
  <2>1. lastSeq \in Log
    <3>1. R!CurrentSeq \in 0..MaxSeq /\ R!CurrentSeq \in Log BY <1>1, Prefix
    <3>2. CASE lastSeq = 0 BY <3>2 DEF Log
    <3>3. CASE lastSeq # 0
      <4>1. lastSeq \in Seqs /\ R!CurrentSeq # 0 BY <1>4, <3>1, <3>3 DEF Seqs
      <4>2. R!CurrentSeq \in R!Committed BY <3>1, <4>1 DEF Log
      <4>3. lastSeq \in R!Committed BY <1>1, <1>4, <4>1, <4>2, Prefix
      <4> QED BY <4>3 DEF Log
    <3> QED BY <3>2, <3>3
  <2>2. TRUE \in BOOLEAN OBVIOUS
  <2> QED BY <1>2, <1>3, <1>4, <2>1, <2>2, BeginStep
<1>5. CASE conn' = [R!Closed EXCEPT !.phase = "open"] /\ base' = 0 /\ sent' = <<>> /\ passed' = {}
  <2>1. PICK ph \in {"closed", "open"} : ph = "open" OBVIOUS
  <2> QED BY <1>2, <1>3, <1>5, <2>1, FreshStep
<1> QED BY <1>4, <1>5 DEF R!ServeHTTP

LEMMA RealtimeStepInv == RealtimeInv /\ [R!RealtimeNext]_(R!realtimeVars) => RealtimeInv'
<1> SUFFICES ASSUME RealtimeInv, [R!RealtimeNext]_(R!realtimeVars) PROVE RealtimeInv' OBVIOUS
<1>1. CASE UNCHANGED R!realtimeVars BY <1>1, AroundStep
<1>2. ASSUME NEW w \in Writers, (\E s \in Appended : R!WriteEvent(w, s)) \/ R!Commit(w) \/ R!Rollback(w)
      PROVE  RealtimeInv'
  BY <1>2, WriterStep
<1>3. CASE R!ChangeMembership \/ R!listen \/ R!ListenFails BY <1>3, AroundStep
<1>4. CASE R!Subscribe
  <2>1. /\ conn' = [R!Closed EXCEPT !.phase = "open"] /\ base' = 0 /\ sent' = <<>> /\ passed' = {}
        /\ wakeup' \in {FALSE, wakeup} /\ UNCHANGED hellos
        /\ UNCHANGED <<events, nextSeq, writer, member, scopes, listening>>
    BY <1>4 DEF R!Subscribe
  <2>2. hellos' \in 0..MaxHellos BY <2>1 DEF RealtimeInv, RealtimeTyped
  <2>3. PICK ph \in {"closed", "open"} : ph = "open" OBVIOUS
  <2> QED BY <2>1, <2>2, <2>3, FreshStep
<1>5. CASE R!Close
  <2>1. /\ conn' = R!Closed /\ base' = 0 /\ sent' = <<>> /\ passed' = {}
        /\ wakeup' \in {FALSE, wakeup} /\ UNCHANGED hellos
        /\ UNCHANGED <<events, nextSeq, writer, member, scopes, listening>>
    BY <1>5 DEF R!Close
  <2>2. hellos' \in 0..MaxHellos BY <2>1 DEF RealtimeInv, RealtimeTyped
  <2>3. PICK ph \in {"closed", "open"} : ph = "closed" OBVIOUS
  <2>4. conn' = [R!Closed EXCEPT !.phase = ph] BY <2>1, <2>3 DEF R!Closed
  <2> QED BY <2>1, <2>2, <2>4, FreshStep
<1>6. CASE R!AccessChanged BY <1>5, <1>6 DEF R!AccessChanged
<1>7. CASE R!deliverCatchUp
  <2>1. /\ conn.phase = "ready" /\ R!StartReplay(FALSE, conn.cursor) /\ wakeup' \in {FALSE, wakeup}
        /\ UNCHANGED <<base, sent, passed>> /\ UNCHANGED hellos
        /\ UNCHANGED <<events, nextSeq, writer, member, scopes, listening>>
    BY <1>7 DEF R!deliverCatchUp
  <2>2. hellos' \in 0..MaxHellos /\ conn.cursor \in 0..MaxSeq BY <2>1 DEF RealtimeInv, RealtimeTyped, Conn
  <2>3. conn.cursor \in Log BY <2>1 DEF RealtimeInv, Cursors
  <2>4. PICK lastSeq \in 0..MaxSeq : lastSeq = conn.cursor BY <2>2
  <2>5. R!StartReplay(FALSE, lastSeq) /\ lastSeq \in Log BY <2>1, <2>3, <2>4
  <2>6. FALSE \in BOOLEAN OBVIOUS
  <2> QED BY <2>1, <2>2, <2>4, <2>5, <2>6, BeginStep
<1>8. CASE \E s \in 0..MaxSeq : R!ServeHTTP(s) BY <1>8, ServeStep
<1>9. CASE R!ReplaySteps BY <1>9, ListStep, ReplayStep, WriteStep DEF R!ReplaySteps
<1> QED BY <1>1, <1>2, <1>3, <1>4, <1>5, <1>6, <1>7, <1>8, <1>9 DEF R!RealtimeNext

(* For any number of writers, any page size and any replay limit: the      *)
(* cursor of a connection never passes a committed event that was neither  *)
(* sent nor found invisible, and what is sent is in order and once each    *)
(* (WriteEvent's row lock, Replay, deliveredCursor).                       *)
THEOREM RealtimeCorrect == RealtimeSpec => [](R!RealtimeTypeOK /\ R!NothingMissed /\ R!InOrder)
<1>1. RealtimeSpec => []RealtimeInv BY RealtimeInitially, RealtimeStepInv, PTL DEF RealtimeSpec
<1> QED BY <1>1, RealtimeSafe, PTL
-----------------------------------------------------------------------------
(***************************************************************************)
(* Presence. No lease is the active or the former one of two sockets, so a *)
(* deletion takes nobody else's away.                                      *)
(***************************************************************************)
PresenceSpec == R!PresenceInit /\ [][R!PresenceNext]_(R!presenceVars)

Own == /\ \A s \in Sockets : active[s] \in drawn \union {NoLease} /\ previous[s] \in drawn \union {NoLease}
       /\ \A l \in Leases : leaseRow[l] # "none" => l \in drawn
       /\ \A s, t \in Sockets : active[s] # NoLease /\ active[s] = active[t] => s = t
       /\ \A s, t \in Sockets : previous[s] # NoLease => previous[s] # active[t]
PresenceInv == R!PresenceTypeOK /\ Own /\ R!LeaseKept

LEMMA PresenceInitially == R!PresenceInit => PresenceInv
<1> SUFFICES ASSUME R!PresenceInit PROVE PresenceInv OBVIOUS
<1> USE DEF R!PresenceInit
<1>1. R!PresenceTypeOK BY DEF R!PresenceTypeOK
<1>2. Own BY DEF Own
<1>3. R!LeaseKept BY DEF R!LeaseKept
<1> QED BY <1>1, <1>2, <1>3 DEF PresenceInv

(* Every hello, deletion, renewal and sweep keeps it, and so does a        *)
(* process that dies.                                                      *)
LEMMA PresenceStepInv == PresenceInv /\ [R!PresenceNext]_(R!presenceVars) => PresenceInv'
<1> SUFFICES ASSUME PresenceInv, [R!PresenceNext]_(R!presenceVars) PROVE PresenceInv' OBVIOUS
<1>0. R!PresenceTypeOK /\ Own /\ R!LeaseKept BY DEF PresenceInv
<1>1. ASSUME NEW s \in Sockets, NEW l \in Leases, R!registerPresence(s, l) PROVE PresenceInv'
  <2> USE <1>1 DEF R!registerPresence, R!Register
  <2>1. R!PresenceTypeOK' BY <1>0 DEF R!PresenceTypeOK
  <2>2. Own' BY <1>0 DEF R!PresenceTypeOK, Own
  <2>3. R!LeaseKept' BY <1>0 DEF R!PresenceTypeOK, Own, R!LeaseKept
  <2> QED BY <2>1, <2>2, <2>3 DEF PresenceInv
<1>2. ASSUME NEW s \in Sockets, R!deletePresence(s) PROVE PresenceInv'
  <2> USE <1>2 DEF R!deletePresence, R!Delete
  <2>1. R!PresenceTypeOK' BY <1>0 DEF R!PresenceTypeOK
  <2>2. Own' BY <1>0 DEF R!PresenceTypeOK, Own
  <2>3. R!LeaseKept' BY <1>0 DEF R!PresenceTypeOK, Own, R!LeaseKept
  <2> QED BY <2>1, <2>2, <2>3 DEF PresenceInv
<1>3. ASSUME NEW s \in Sockets, R!Heartbeat(s) \/ R!Disconnect(s) PROVE PresenceInv'
  <2> USE <1>3 DEF R!Heartbeat, R!Disconnect, R!Delete
  <2>1. R!PresenceTypeOK' BY <1>0 DEF R!PresenceTypeOK
  <2>2. Own' BY <1>0 DEF R!PresenceTypeOK, Own
  <2>3. R!LeaseKept' BY <1>0 DEF R!PresenceTypeOK, Own, R!LeaseKept
  <2> QED BY <2>1, <2>2, <2>3 DEF PresenceInv
<1>4. ASSUME NEW l \in Leases, R!Lapse(l) PROVE PresenceInv'
  <2> USE <1>4 DEF R!Lapse
  <2>1. R!PresenceTypeOK' BY <1>0 DEF R!PresenceTypeOK, Own
  <2>2. Own' BY <1>0 DEF R!PresenceTypeOK, Own
  <2>3. R!LeaseKept' BY <1>0 DEF R!PresenceTypeOK, R!LeaseKept
  <2> QED BY <2>1, <2>2, <2>3 DEF PresenceInv
<1>5. ASSUME R!ProcessDies \/ R!SweepExpired \/ R!ChangeMember \/ UNCHANGED R!presenceVars PROVE PresenceInv'
  <2> USE <1>5 DEF R!ProcessDies, R!SweepExpired, R!Expired, R!ChangeMember, R!presenceVars
  <2>1. R!PresenceTypeOK' BY <1>0 DEF R!PresenceTypeOK
  <2>2. Own' BY <1>0 DEF R!PresenceTypeOK, Own
  <2>3. R!LeaseKept' BY <1>0 DEF R!PresenceTypeOK, Own, R!LeaseKept
  <2> QED BY <2>1, <2>2, <2>3 DEF PresenceInv
<1> QED BY <1>1, <1>2, <1>3, <1>4, <1>5 DEF R!PresenceNext

(* The lease of a served socket is there until it lapses: no other socket  *)
(* of the user, no repeated hello, no clean-up and no sweep deletes it     *)
(* (realtime/handler.go, presence/service.go).                             *)
THEOREM PresenceCorrect == PresenceSpec => [](R!PresenceTypeOK /\ R!LeaseKept)
<1>1. PresenceInv => R!PresenceTypeOK /\ R!LeaseKept BY DEF PresenceInv
<1> QED BY <1>1, PresenceInitially, PresenceStepInv, PTL DEF PresenceSpec
-----------------------------------------------------------------------------
(***************************************************************************)
(* The sockets of a bot. Memory knows exactly the sockets being served,    *)
(* and a nonce that a clean-up will disconnect belongs to a socket that    *)
(* has left: the row of a newer one is out of its reach.                   *)
(***************************************************************************)
BotSpec == B!ConnectionsInit /\ [][B!ConnectionsNext]_(B!connectionVars)

Left == {"leaving", "done"}
Registered == /\ connections = {s \in BotSockets : socket[s] = "serving"}
              /\ latest # NoSocket => latest \in BotSockets /\ socket[latest] \in Left \union {"serving"}
OnlyLeftDisconnected ==
  \A s \in BotSockets : disconnect[s] # NoSocket =>
    disconnect[s] \in BotSockets /\ socket[disconnect[s]] \in Left
AdmissionShut == shutdown # "no" => ~admission
BotInv == /\ B!ConnectionsTypeOK /\ Registered /\ OnlyLeftDisconnected /\ AdmissionShut
          /\ B!NewestStaysConnected /\ B!ShutdownComplete

LEMMA BotInitially == B!ConnectionsInit => BotInv
<1> SUFFICES ASSUME B!ConnectionsInit PROVE BotInv OBVIOUS
<1> USE DEF B!ConnectionsInit
<1>1. B!ConnectionsTypeOK BY DEF B!ConnectionsTypeOK, B!Phases
<1>2. Registered /\ OnlyLeftDisconnected /\ AdmissionShut
  BY DEF Registered, OnlyLeftDisconnected, AdmissionShut
<1>3. B!NewestStaysConnected /\ B!ShutdownComplete BY DEF B!NewestStaysConnected, B!ShutdownComplete
<1> QED BY <1>1, <1>2, <1>3 DEF BotInv

(* Every step of a handler, and Shutdown, keeps it.                        *)
LEMMA BotStepInv == BotInv /\ [B!ConnectionsNext]_(B!connectionVars) => BotInv'
<1> SUFFICES ASSUME BotInv, [B!ConnectionsNext]_(B!connectionVars) PROVE BotInv' OBVIOUS
<1>0. /\ B!ConnectionsTypeOK /\ Registered /\ OnlyLeftDisconnected /\ AdmissionShut
      /\ B!NewestStaysConnected /\ B!ShutdownComplete
  BY DEF BotInv
<1>1. ASSUME NEW s \in BotSockets, B!admit(s) \/ B!ServeHTTP(s) PROVE BotInv'
  <2> USE <1>1 DEF B!admit, B!ServeHTTP, B!stopping
  <2>1. B!ConnectionsTypeOK' BY <1>0 DEF B!ConnectionsTypeOK, B!Phases
  <2>2. Registered' BY <1>0 DEF Registered, B!ConnectionsTypeOK, Left
  <2>3. OnlyLeftDisconnected' BY <1>0 DEF OnlyLeftDisconnected, B!ConnectionsTypeOK, Left
  <2>4. AdmissionShut' BY <1>0 DEF AdmissionShut
  <2>5. B!NewestStaysConnected' BY <1>0 DEF B!NewestStaysConnected, B!ConnectionsTypeOK
  <2>6. B!ShutdownComplete'
    BY <1>0 DEF B!ShutdownComplete, B!ConnectionsTypeOK, B!Active, AdmissionShut
  <2> QED BY <2>1, <2>2, <2>3, <2>4, <2>5, <2>6 DEF BotInv
<1>2. ASSUME NEW s \in BotSockets, B!RegisterConnection(s) PROVE BotInv'
  <2> USE <1>2 DEF B!RegisterConnection, B!RegisterRow, B!stopping
  <2>1. B!ConnectionsTypeOK' BY <1>0 DEF B!ConnectionsTypeOK, B!Phases
  <2>2. Registered' BY <1>0 DEF Registered, B!ConnectionsTypeOK, Left
  <2>3. OnlyLeftDisconnected' BY <1>0 DEF OnlyLeftDisconnected, B!ConnectionsTypeOK, Left
  <2>4. AdmissionShut' BY <1>0 DEF AdmissionShut
  <2>5. B!NewestStaysConnected' BY <1>0 DEF B!NewestStaysConnected, B!ConnectionsTypeOK
  <2>6. B!ShutdownComplete' BY <1>0 DEF B!ShutdownComplete, B!ConnectionsTypeOK, B!Active
  <2> QED BY <2>1, <2>2, <2>3, <2>4, <2>5, <2>6 DEF BotInv
<1>3. ASSUME NEW s \in BotSockets, B!RegisterInMemory(s) PROVE BotInv'
  <2> USE <1>3 DEF B!RegisterInMemory, B!stopping
  <2>1. B!ConnectionsTypeOK' BY <1>0 DEF B!ConnectionsTypeOK, B!Phases
  <2>2. Registered' BY <1>0 DEF Registered, B!ConnectionsTypeOK, Left
  <2>3. OnlyLeftDisconnected' BY <1>0 DEF OnlyLeftDisconnected, B!ConnectionsTypeOK, Left
  <2>4. AdmissionShut' BY <1>0 DEF AdmissionShut
  <2>5. B!NewestStaysConnected' BY <1>0 DEF B!NewestStaysConnected, B!ConnectionsTypeOK
  <2>6. B!ShutdownComplete' BY <1>0 DEF B!ShutdownComplete, B!ConnectionsTypeOK, B!Active
  <2> QED BY <2>1, <2>2, <2>3, <2>4, <2>5, <2>6 DEF BotInv
<1>4. ASSUME NEW s \in BotSockets, B!CleanUpMemory(s) PROVE BotInv'
  <2> USE <1>4 DEF B!CleanUpMemory, B!stopping
  <2>0. /\ socket' = [socket EXCEPT ![s] = "leaving"] /\ socket[s] = "serving"
        /\ connections' = connections \ {s}
    OBVIOUS
  <2>1. B!ConnectionsTypeOK' BY <1>0 DEF B!ConnectionsTypeOK, B!Phases
  <2>2. Registered' BY <1>0 DEF Registered, B!ConnectionsTypeOK, Left
  <2>3. OnlyLeftDisconnected'
    BY <1>0, <2>0 DEF OnlyLeftDisconnected, Registered, B!ConnectionsTypeOK, Left
  <2>4. AdmissionShut' BY <1>0 DEF AdmissionShut
  <2>5. B!NewestStaysConnected' BY <1>0 DEF B!NewestStaysConnected, B!ConnectionsTypeOK
  <2>6. B!ShutdownComplete' BY <1>0 DEF B!ShutdownComplete, B!ConnectionsTypeOK, B!Active
  <2> QED BY <2>1, <2>2, <2>3, <2>4, <2>5, <2>6 DEF BotInv
<1>5. ASSUME NEW s \in BotSockets, B!CleanUpRow(s) PROVE BotInv'
  <2> USE <1>5 DEF B!CleanUpRow, B!DisconnectConnection
  <2>1. B!ConnectionsTypeOK' BY <1>0 DEF B!ConnectionsTypeOK, B!Phases
  <2>2. Registered' BY <1>0 DEF Registered, B!ConnectionsTypeOK, Left
  <2>3. OnlyLeftDisconnected' BY <1>0 DEF OnlyLeftDisconnected, B!ConnectionsTypeOK, Left
  <2>4. AdmissionShut' BY <1>0 DEF AdmissionShut
  <2>5. B!NewestStaysConnected'
    BY <1>0 DEF B!NewestStaysConnected, B!ConnectionsTypeOK, OnlyLeftDisconnected, Left
  <2>6. B!ShutdownComplete' BY <1>0 DEF B!ShutdownComplete, B!ConnectionsTypeOK, B!Active
  <2> QED BY <2>1, <2>2, <2>3, <2>4, <2>5, <2>6 DEF BotInv
<1>6. ASSUME B!Shutdown \/ B!ShutdownEnds \/ UNCHANGED B!connectionVars PROVE BotInv'
  <2> USE <1>6 DEF B!Shutdown, B!ShutdownEnds, B!release, B!connectionVars
  <2>1. B!ConnectionsTypeOK' BY <1>0 DEF B!ConnectionsTypeOK
  <2>2. Registered' /\ OnlyLeftDisconnected' BY <1>0 DEF Registered, OnlyLeftDisconnected
  <2>4. AdmissionShut' BY <1>0 DEF AdmissionShut
  <2>5. B!NewestStaysConnected' BY <1>0 DEF B!NewestStaysConnected
  <2>6. B!ShutdownComplete' BY <1>0 DEF B!ShutdownComplete, B!Active, Registered
  <2> QED BY <2>1, <2>2, <2>4, <2>5, <2>6 DEF BotInv
<1> QED BY <1>1, <1>2, <1>3, <1>4, <1>5, <1>6 DEF B!ConnectionsNext, B!SocketSteps

(* The row of the bot's newest socket stays connected while that socket is *)
(* served, whatever order older sockets register and clean up in, and a    *)
(* clean Shutdown leaves no handler behind (botgateway/service.go,         *)
(* botgateway/websocket.go).                                               *)
THEOREM BotSocketsCorrect ==
  BotSpec => [](B!ConnectionsTypeOK /\ B!NewestStaysConnected /\ B!ShutdownComplete)
<1>1. BotInv => B!ConnectionsTypeOK /\ B!NewestStaysConnected /\ B!ShutdownComplete BY DEF BotInv
<1> QED BY <1>1, BotInitially, BotStepInv, PTL DEF BotSpec
-----------------------------------------------------------------------------
(***************************************************************************)
(* The composition: a behaviour of the gateway is one of every part.       *)
(***************************************************************************)
LEMMA IdentityTypes == IdentitySpec => []IdentityTypeOK
<1> DEFINE Bounded == leaves \in 0..MaxLeaves
<1>0. IdentityInit => Bounded
  <2>1. 0 \in 0..MaxLeaves BY SignInAssumption
  <2> QED BY <2>1 DEF IdentityInit
<1>1. IdentityInit => IdentityInv /\ Bounded BY <1>0, IdentityInitially
<1>2. Bounded /\ [IdentityNext]_identityVars => Bounded'
  <2> SUFFICES ASSUME Bounded, [IdentityNext]_identityVars PROVE Bounded' OBVIOUS
  <2>1. ASSUME NEW u \in Rows, SetRemoved(u) PROVE Bounded' BY <2>1, SignInAssumption DEF SetRemoved
  <2>2. CASE UNCHANGED leaves BY <2>2
  <2> QED BY <2>1, <2>2 DEF IdentityNext, identityVars, Begin, ReadIdentity, findSeededOwner, AdmitMember,
             RefuseGuest, rejectInvite, AcceptInvite
<1>3. IdentityInv /\ Bounded => IdentityTypeOK
  BY DEF IdentityInv, IdentityTyped, IdentityTypeOK, Account, Attempt
<1> HIDE DEF Bounded
<1> QED BY <1>1, <1>2, <1>3, IdentityStepInv, PTL DEF IdentitySpec

LEMMA WebTypes == WebSpec => []WebTypeOK
<1> DEFINE Rest == refusals \subseteq Starts /\ enabled \in BOOLEAN
<1>1. WebInit => WebInv /\ Rest BY WebInitially DEF WebInit
<1>2. Rest /\ [WebNext]_webVars => Rest'
  <2> SUFFICES ASSUME Rest, [WebNext]_webVars PROVE Rest' OBVIOUS
  <2>1. ASSUME NEW s \in Starts, recordProviderRejection(s) \/ AuthRefuses(s) \/ completeMobile(s) PROVE Rest'
    BY <2>1 DEF recordProviderRejection, RecordGitHubLoginRejection, AuthRefuses, completeMobile
  <2>2. CASE SetGate BY <2>2 DEF SetGate
  <2>3. CASE UNCHANGED <<refusals, enabled>> BY <2>3
  <2> QED BY <2>1, <2>2, <2>3 DEF WebNext, webVars, HandleGitHubStart, HandleMobileAuthorize, startGitHub,
             HandleGitHubCallback, ProviderAnswers, Serve, ActorFound, CreateSession, AnswerArrives, AnswerLost,
             FlowLapses, HandleLogout
<1>3. WebInv /\ Rest => WebTypeOK
  <2> SUFFICES ASSUME WebInv, Rest PROVE WebTypeOK OBVIOUS
  <2>1. WebTyped BY DEF WebInv
  <2>2. jar \in [state : Starts \union {None}, flow : Starts \union {None}, ret : Targets \union {None},
                 invite : BOOLEAN, session : Starts \union {None}]
    BY <2>1, SignInAssumption DEF WebTyped, Jar
  <2>3. \A s \in Starts : /\ start[s].at \in {"new", "provider", "back"} /\ start[s].ret \in Targets \union {None}
                          /\ call[s].at \in InFlight \union {"none", "answered", "over"}
    BY <2>1 DEF WebTyped, Answering
  <2> QED BY <2>1, <2>2, <2>3 DEF WebTyped, WebTypeOK
<1> HIDE DEF Rest
<1> QED BY <1>1, <1>2, <1>3, WebStepInv, PTL DEF WebSpec

LEMMA MobileTypes == MobileSpec => []MobileTypeOK
<1> DEFINE Key == [family : Flows \union {NoFlow}, lapsed : BOOLEAN]
           Rest == entitled \in BOOLEAN /\ flowLapsed \subseteq Flows /\ access \in [Pairs -> Key]
<1>1. MobileInit => MobileInv /\ Rest BY MobileInitially DEF MobileInit
<1>2. MobileInv /\ Rest /\ [MobileNext]_mobileVars => Rest'
  <2> SUFFICES ASSUME MobileInv, Rest, [MobileNext]_mobileVars PROVE Rest' OBVIOUS
  <2>0. MobileTyped BY DEF MobileInv
  <2>1. ASSUME NEW f \in Flows \union {NoFlow}, NEW t \in Pairs, access' = [access EXCEPT ![t].family = f],
               UNCHANGED <<entitled, flowLapsed>>
        PROVE  Rest'
    BY <2>1
  <2>2. ASSUME NEW t \in Pairs, AccessLapses(t) PROVE Rest' BY <2>2 DEF AccessLapses
  <2>3. ASSUME NEW f \in Flows, MobileFlowLapses(f) PROVE Rest' BY <2>3 DEF MobileFlowLapses
  <2>4. CASE ChangeMember BY <2>4 DEF ChangeMember
  <2>5. CASE UNCHANGED <<entitled, flowLapsed, access>> BY <2>5
  <2>6. ASSUME NEW c \in Calls, NEW t \in Pairs, Exchange(c, t) \/ Rotate(c, t) PROVE Rest'
    <3>1. mobileCall[c].of \in Flows \union {NoFlow} BY <2>0 DEF MobileTyped, MobileCall
    <3>2. /\ UNCHANGED <<entitled, flowLapsed>>
          /\ UNCHANGED access \/ access' = [access EXCEPT ![t].family = mobileCall[c].of]
      BY <2>6 DEF Exchange, Rotate, insertMobileTokens
    <3> QED BY <2>1, <2>5, <3>1, <3>2
  <2> QED BY <2>2, <2>3, <2>4, <2>5, <2>6 DEF MobileNext, mobileVars, SaveFlow, AuthorizeFlow, FamilyExpires,
             RotateDecides, ExchangeReads, RotateReads, Revoke
<1>3. MobileInv /\ Rest => MobileTypeOK
  BY DEF MobileInv, MobileTyped, MobileTypeOK, Token, MobileCall
<1> HIDE DEF Rest
<1> QED BY <1>1, <1>2, <1>3, MobileStepInv, PTL DEF MobileSpec

LEMMA Components ==
  GatewaySpec => RealtimeSpec /\ PresenceSpec /\ BotSpec /\ IdentitySpec /\ WebSpec /\ MobileSpec
<1> USE DEF Next, vars, RealtimeStep, PresenceStep, BotStep, IdentityStep, WebStep, MobileStep, Only
<1>1. Init => /\ R!RealtimeInit /\ R!PresenceInit /\ B!ConnectionsInit /\ IdentityInit /\ WebInit /\ MobileInit
  BY DEF Init
<1>2. [Next]_vars => [R!RealtimeNext]_(R!realtimeVars) BY DEF realtimeVars, R!realtimeVars
<1>3. [Next]_vars => [R!PresenceNext]_(R!presenceVars) BY DEF presenceVars, R!presenceVars
<1>4. [Next]_vars => [B!ConnectionsNext]_(B!connectionVars) BY DEF connectionVars, B!connectionVars
<1>5. [Next]_vars => [IdentityNext]_identityVars OBVIOUS
<1>6. [Next]_vars => [WebNext]_webVars OBVIOUS
<1>7. [Next]_vars => [MobileNext]_mobileVars OBVIOUS
<1> HIDE DEF Next, vars, RealtimeStep, PresenceStep, BotStep, IdentityStep, WebStep, MobileStep, Only
<1> QED BY <1>1, <1>2, <1>3, <1>4, <1>5, <1>6, <1>7, PTL
        DEF GatewaySpec, RealtimeSpec, PresenceSpec, BotSpec, IdentitySpec, WebSpec, MobileSpec

(* Every conjunct of GatewaySound, beside all other parts: a connection is *)
(* told every event it may see, once and in order; a lease or a row that a *)
(* live socket stands on is not taken away; nobody signs in as someone     *)
(* else, in another tab's place or twice with one authorisation.           *)
THEOREM GatewaySoundCorrect == GatewaySpec => []GatewaySound
<1>1. RealtimeSpec => [](R!RealtimeTypeOK /\ R!NothingMissed /\ R!InOrder) BY RealtimeCorrect
<1> QED BY <1>1, PresenceCorrect, BotSocketsCorrect, IdentityCorrect, WebLoginCorrect, MobileCorrect,
           IdentityTypes, WebTypes, MobileTypes, Components, PTL
        DEF GatewaySound, TypeOK

(* What the gateway promises of identities holds beside its other parts.   *)
THEOREM GatewayBindsOnce == GatewaySpec => BoundOnce
BY Components, BoundOnceCorrect, PTL
=============================================================================
