-------------------------------- MODULE Bots --------------------------------
(***************************************************************************)
(* workspace/bots for one owner: the bots it creates one after another,    *)
(* their tokens, and the setup sessions through which an agent asks for a  *)
(* token. Every operation takes the bot's lifecycle lock first and reads   *)
(* again under it, so it is one step; agents and owner take turns freely.  *)
(***************************************************************************)
EXTENDS Naturals, Sequences, FiniteSets, SequencesExt

CONSTANTS BotIds, Setups, Tokens,   \* ids ever drawn: bounds
          Scopes

VARIABLES owner,       \* the owner is an active member
          bot,         \* workspace_agent_bots.status, "none" before it exists
          token,       \* workspace_agent_bot_tokens
          setup        \* workspace_agent_bot_setup_sessions

botVars == <<owner, bot, token, setup>>

Live == {"created", "awaiting_user", "approved"}
NoToken == [bot |-> "none", scopes |-> {}, live |-> FALSE, from |-> "owner", paused |-> FALSE]
NoSetup == [bot |-> "none", status |-> "none", requested |-> {}, approved |-> {}, expired |-> FALSE,
            paused |-> FALSE]

(* The shape of every variable.                                            *)
BotsTypeOK ==
  /\ owner \in BOOLEAN /\ bot \in [BotIds -> {"none", "active", "paused", "deleting", "deleted"}]
  /\ \A t \in Tokens : token[t].bot \in BotIds \union {"none"} /\ token[t].scopes \subseteq Scopes
  /\ \A s \in Setups : /\ setup[s].status \in Live \union {"none", "denied", "expired", "revoked", "exchanged"}
                       /\ setup[s].approved \subseteq Scopes /\ setup[s].requested \subseteq Scopes

BotsInit ==
  /\ owner = TRUE /\ bot = [b \in BotIds |-> "none"]
  /\ token = [t \in Tokens |-> NoToken] /\ setup = [s \in Setups |-> NoSetup]
-----------------------------------------------------------------------------
(* mutate: the actor is looked up inside the transaction.                  *)
mutate == owner
GetBotByOwner == {b \in BotIds : bot[b] \notin {"none", "deleted"}}

CreateBesideDeleting(b) ==
  /\ mutate /\ bot[b] = "none" /\ \A c \in BotIds : bot[c] \in {"none", "deleting", "deleted"}
  /\ bot' = [bot EXCEPT ![b] = "active"]
  /\ UNCHANGED <<owner, token, setup>>
Create(b) ==
  /\ mutate /\ bot[b] = "none" /\ GetBotByOwner = {}
  /\ bot' = [bot EXCEPT ![b] = "active"]
  /\ UNCHANGED <<owner, token, setup>>
-----------------------------------------------------------------------------
RevokeBotTokens(b) == [t \in Tokens |-> IF token[t].bot = b THEN [token[t] EXCEPT !.live = FALSE] ELSE token[t]]
RevokePendingSetupSessions(b) ==
  [s \in Setups |-> IF setup[s].bot = b /\ setup[s].status \in Live
                    THEN [setup[s] EXCEPT !.status = "revoked"] ELSE setup[s]]
(* Ghost: the session was there when its bot was paused.                   *)
MarkPaused(table, b) ==
  [s \in Setups |-> IF table[s].bot = b THEN [table[s] EXCEPT !.paused = TRUE] ELSE table[s]]

transition(b, target, from) ==
  /\ mutate /\ bot[b] \in from
  /\ bot' = [bot EXCEPT ![b] = target]
  /\ setup' = IF target = "active" THEN setup
              ELSE IF target = "paused" THEN MarkPaused(RevokePendingSetupSessions(b), b)
              ELSE RevokePendingSetupSessions(b)
  /\ token' = IF target \in {"deleting", "deleted"} THEN RevokeBotTokens(b) ELSE token
  /\ UNCHANGED <<owner>>
Pause(b) == transition(b, "paused", {"active"})
Resume(b) == transition(b, "active", {"paused"})
BeginDelete(b) == transition(b, "deleting", {"active", "paused"})
FinalizeDelete(b) == transition(b, "deleted", {"deleting"})
-----------------------------------------------------------------------------
newTokenRecord(b, scopes, from) ==
  [bot |-> b, scopes |-> scopes, live |-> TRUE, from |-> from,
   paused |-> IF from = "owner" THEN FALSE ELSE setup[from].paused]
InsertToken(table, t, record) == [table EXCEPT ![t] = record]

IssueToken(b, t) ==
  /\ mutate /\ bot[b] = "active" /\ token[t] = NoToken
  /\ token' = InsertToken(token, t, newTokenRecord(b, Scopes, "owner"))
  /\ UNCHANGED <<owner, bot, setup>>
RotateToken(b, t) ==
  /\ mutate /\ bot[b] = "active" /\ token[t] = NoToken
  /\ token' = InsertToken(RevokeBotTokens(b), t, newTokenRecord(b, Scopes, "owner"))
  /\ UNCHANGED <<owner, bot, setup>>
RevokeToken(t) ==
  /\ mutate /\ token[t].live
  /\ token' = [token EXCEPT ![t].live = FALSE]
  /\ UNCHANGED <<owner, bot, setup>>
-----------------------------------------------------------------------------
(* Setup sessions. An agent that knows the id acts without an actor.       *)
CreateSetupSession(b, s, scopes) ==
  /\ mutate /\ bot[b] = "active" /\ setup[s] = NoSetup
  /\ setup' = [setup EXCEPT ![s] = [NoSetup EXCEPT !.bot = b, !.status = "created", !.requested = scopes]]
  /\ UNCHANGED <<owner, bot, token>>
UpdateSetupRequest(s) == setup[s].status \in {"created", "awaiting_user"} /\ ~setup[s].expired
RequestSetup(s, scopes) ==
  /\ UpdateSetupRequest(s)
  /\ setup' = [setup EXCEPT ![s].status = "awaiting_user", ![s].requested = scopes]
  /\ UNCHANGED <<owner, bot, token>>

(* Without a list of its own the approval takes all that is requested.     *)
ValidateSetupApprovalScopes(s, given) == given \subseteq setup[s].requested
ApproveSetupSession(s, given) ==
  /\ mutate /\ setup[s].status \in {"created", "awaiting_user"} /\ ~setup[s].expired
  /\ bot[setup[s].bot] = "active"
  /\ ValidateSetupApprovalScopes(s, given)
  /\ setup' = [setup EXCEPT ![s].status = "approved", ![s].approved = IF given = {} THEN setup[s].requested ELSE given]
  /\ UNCHANGED <<owner, bot, token>>
DenySetupSession(s) ==
  /\ mutate /\ setup[s].status \in {"created", "awaiting_user"} /\ ~setup[s].expired
  /\ setup' = [setup EXCEPT ![s].status = "denied"]
  /\ UNCHANGED <<owner, bot, token>>

Exchangeable(s) == setup[s].status = "approved"
ExchangeSetupSession(s, t) ==
  /\ Exchangeable(s) /\ ~setup[s].expired /\ owner /\ bot[setup[s].bot] = "active" /\ token[t] = NoToken
  /\ token' = InsertToken(token, t, newTokenRecord(setup[s].bot, setup[s].approved, s))
  /\ setup' = [setup EXCEPT ![s].status = "exchanged"]
  /\ UNCHANGED <<owner, bot>>

(* Time runs out for a session; whoever looks at it next marks it.         *)
SetupExpires(s) ==
  /\ setup[s].status \in Live /\ ~setup[s].expired
  /\ setup' = [setup EXCEPT ![s].expired = TRUE]
  /\ UNCHANGED <<owner, bot, token>>
expireSetupIfNeeded(s) ==
  /\ setup[s].status \in Live /\ setup[s].expired
  /\ setup' = [setup EXCEPT ![s].status = "expired"]
  /\ UNCHANGED <<owner, bot, token>>
OwnerChanges == owner' = ~owner /\ UNCHANGED <<bot, token, setup>>

BotsNext ==
  \/ \E b \in BotIds : \/ Create(b) \/ Pause(b) \/ Resume(b) \/ BeginDelete(b) \/ FinalizeDelete(b)
                       \/ \E t \in Tokens : IssueToken(b, t) \/ RotateToken(b, t)
                       \/ \E s \in Setups, x \in SUBSET Scopes \ {{}} : CreateSetupSession(b, s, x)
  \/ \E t \in Tokens : RevokeToken(t)
  \/ \E s \in Setups : \/ DenySetupSession(s) \/ SetupExpires(s) \/ expireSetupIfNeeded(s)
                       \/ \E x \in SUBSET Scopes : ApproveSetupSession(s, x)
                       \/ \E x \in SUBSET Scopes \ {{}} : RequestSetup(s, x)
                       \/ \E t \in Tokens : ExchangeSetupSession(s, t)
  \/ OwnerChanges
BotsSpec == BotsInit /\ [][BotsNext]_botVars
-----------------------------------------------------------------------------
(* An owner never has two bots that are not deleted (the lock of Create    *)
(* and the partial unique index).                                          *)
OneBotPerOwner == Cardinality(GetBotByOwner) <= 1

(* From the moment a deletion is asked for, no token of the bot is live,   *)
(* whichever setups were approved before (transition).                     *)
DeletedHasNoToken == \A t \in Tokens : token[t].live => bot[token[t].bot] \in {"active", "paused"}

(* A session gives at most one token, and none if its bot was paused since *)
(* it was opened, resumed or not.                                          *)
SetupUsedOnce ==
  /\ \A t, u \in Tokens : token[t].from = token[u].from /\ token[t].from \in Setups => t = u
  /\ \A t \in Tokens : ~token[t].paused

(* A token never carries more than the session's last request, however the *)
(* agent's requests, the approval and the exchange follow one another: the *)
(* request cannot change between the approval and the exchange.            *)
TokenWithinConsent ==
  \A t \in Tokens : token[t].from \in Setups => token[t].scopes \subseteq setup[token[t].from].requested
-----------------------------------------------------------------------------
(***************************************************************************)
(* What a bot may read of a conversation: bots.UpdateSettings,             *)
(* UpdateContextGrant and UpdateGroupPolicy, by which the owner decides    *)
(* it, and botgateway.GetContext, which reads it. An edit holds the bot's  *)
(* advisory lock from its reads to its COMMIT; GetContext takes no lock    *)
(* and reads each row in a statement of its own. Settings are the fields   *)
(* that decide a context; a message is what it costs and how it is         *)
(* filtered, its number its place in the conversation.                     *)
(***************************************************************************)

CONSTANTS Conversations,      \* "direct" and "group"
          SettingsPatches,    \* patches of settings: functions of some fields
          GrantPatches,       \* patches of a grant
          Kinds,              \* messages: [size, reply, system]
          Limits,             \* limits a bot may ask for; 0 is no limit
          MaxMessages,        \* bound on the messages of the conversation
          MaxEdits,           \* bound on the owner's edits
          ReplayLimit,        \* MaxReplayLimit
          Editors, Reads

VARIABLES status, contextToken,      \* of the bot; its token is live
          settings, policy,   \* workspace_agent_bot_settings, bots.conversation_policy
          grant,              \* per conversation: context grant
          group,              \* workspace_agent_bot_group_policies: status
          inside,             \* conversations the bot is a member of
          messages, recalled, \* of the conversation read; numbers of recalled ones
          edit, edits, asked, \* edits under way; their number; ghost: last value written
          read,               \* per GetContext
          used                \* ghost: a revoked token was marked used

contextVars == <<status, contextToken, settings, policy, grant, group, inside, messages, recalled, edit, edits, asked, read, used>>

defaultSettings == [allowDirect |-> TRUE, allowGroup |-> FALSE, messages |-> 3, chars |-> 8, replies |-> TRUE, system |-> FALSE]
Bounds == [messages |-> 3, chars |-> 8]       \* the limits of applySettingsPatch, scaled down
NoGrant == [context |-> FALSE, max |-> 0]
NoEdit == [op |-> "none", conv |-> "none", patch |-> <<>>]
NoRead == [at |-> "new", conv |-> "none", limit |-> 0, grant |-> NoGrant, by |-> defaultSettings, rows |-> <<>>,
           answer |-> <<>>, permitted |-> {}, gone |-> {}]

(* The shape of every variable.                                            *)
ContextTypeOK ==
  /\ status \in {"active", "paused", "deleted"} /\ contextToken \in BOOLEAN /\ policy \in {"direct-only", "group-capable"}
  /\ DOMAIN settings = DOMAIN defaultSettings /\ \A f \in DOMAIN Bounds : settings[f] \in 1..Bounds[f]
  /\ grant \in [Conversations -> [context : BOOLEAN, max : 0..ReplayLimit]]
  /\ group \in {"none", "active", "removed"} /\ inside \subseteq Conversations
  /\ Len(messages) <= MaxMessages /\ recalled \subseteq 1..MaxMessages /\ edits \in 0..MaxEdits /\ used \in BOOLEAN
  /\ \A r \in Reads : read[r].at \in {"new", "token", "member", "policy", "grant", "limits", "list", "answered", "refused"}

ContextInit ==
  /\ status = "active" /\ contextToken = TRUE /\ settings = defaultSettings /\ policy = "direct-only"
  /\ grant = [c \in Conversations |-> NoGrant] /\ group = "none" /\ inside = Conversations \ {"group"}
  /\ messages = <<>> /\ recalled = {} /\ edit = [e \in Editors |-> NoEdit] /\ edits = 0
  /\ asked = [s |-> defaultSettings, g |-> [c \in Conversations |-> NoGrant]]
  /\ read = [r \in Reads |-> NoRead] /\ used = FALSE
-----------------------------------------------------------------------------
(* A patch names some fields; a field it does not name keeps its value,    *)
(* and one value out of bounds refuses the whole.                          *)
hasPatch(patch, f) == f \in DOMAIN patch
Valid(patch) == \A f \in DOMAIN Bounds : hasPatch(patch, f) => patch[f] \in 1..Bounds[f]
Apply(current, patch) == [f \in DOMAIN current |-> IF hasPatch(patch, f) THEN patch[f] ELSE current[f]]
applySettingsPatch(current, patch) == Apply(current, patch)

LockFree(op) == \A e \in Editors : edit[e] = NoEdit

(* The lock, the owner's bot and its status, and the row the patch is for. *)
EditReads(e, op, c, patch) ==
  /\ edit[e] = NoEdit /\ edits < MaxEdits /\ LockFree(op) /\ edits' = edits + 1
  /\ status \in (IF op = "settings" THEN {"active", "paused"} ELSE {"active"})
  /\ edit' = [edit EXCEPT ![e] = [op |-> op, conv |-> c,
                patch |-> IF op = "settings" THEN applySettingsPatch(settings, patch) ELSE Apply(grant[c], patch)]]
  /\ asked' = IF op = "settings" THEN [asked EXCEPT !.s = Apply(@, patch)] ELSE [asked EXCEPT !.g[c] = Apply(@, patch)]
  /\ UNCHANGED <<status, contextToken, settings, policy, grant, group, inside, messages, recalled, read, used>>
UpdateSettings(e, patch) == Valid(patch) /\ EditReads(e, "settings", "none", patch)
(* Direct conversations of the owner and the bot only.                     *)
UpdateContextGrant(e, patch) ==
  settings.allowDirect /\ "direct" \in inside /\ EditReads(e, "grant", "direct", patch)

insertSettings(e) ==
  /\ edit[e].op = "settings" /\ settings' = edit[e].patch
  /\ policy' = IF edit[e].patch.allowGroup THEN "group-capable" ELSE "direct-only"
  /\ edit' = [edit EXCEPT ![e] = NoEdit]
  /\ UNCHANGED <<status, contextToken, grant, group, inside, messages, recalled, edits, asked, read, used>>
UpsertContextGrant(e) ==
  /\ edit[e].op = "grant" /\ grant' = [grant EXCEPT ![edit[e].conv] = edit[e].patch]
  /\ edit' = [edit EXCEPT ![e] = NoEdit]
  /\ UNCHANGED <<status, contextToken, settings, policy, group, inside, messages, recalled, edits, asked, read, used>>

(* Policy, grant and membership of a group change in one transaction.      *)
UpdateGroupPolicy(next, context) ==
  /\ edits < MaxEdits /\ LockFree("group") /\ edits' = edits + 1
  /\ next = "active" => settings.allowGroup
  /\ group' = next /\ grant' = [grant EXCEPT !["group"] = [context |-> context, max |-> 0]]
  /\ inside' = IF next = "active" THEN inside \union {"group"} ELSE inside \ {"group"}
  /\ asked' = [asked EXCEPT !.g["group"] = [context |-> context, max |-> 0]]
  /\ UNCHANGED <<status, contextToken, settings, policy, messages, recalled, edit, read, used>>

SetStatus(next) ==            \* bots.transition, bots.RevokeToken: module Bots
  /\ status # "deleted" /\ next # status /\ edits < MaxEdits /\ edits' = edits + 1 /\ LockFree("status")
  /\ status' = next /\ contextToken' = (contextToken /\ next # "deleted")
  /\ UNCHANGED <<settings, policy, grant, group, inside, messages, recalled, edit, asked, read, used>>
Post(k) ==
  /\ Len(messages) < MaxMessages /\ messages' = Append(messages, k)
  /\ UNCHANGED <<status, contextToken, settings, policy, grant, group, inside, recalled, edit, edits, asked, read, used>>
Recall(n) ==
  /\ n \in 1..Len(messages) /\ recalled' = recalled \union {n}
  /\ UNCHANGED <<status, contextToken, settings, policy, grant, group, inside, messages, edit, edits, asked, read, used>>
-----------------------------------------------------------------------------
(* What is true at any moment of a call counts as permission for it.       *)
Permissions(c) == {p \in {"token", "member", "grant"} :
                     /\ p = "token" => contextToken /\ status = "active"
                     /\ p = "member" => c \in inside
                     /\ p = "grant" => grant[c].context}
Note(r) == [r EXCEPT !.permitted = @ \union Permissions(r.conv)]
Goes(r, at) == read' = [read EXCEPT ![r] = [Note(@) EXCEPT !.at = at]]
ReadsOnly == UNCHANGED <<status, contextToken, settings, policy, grant, group, inside, messages, recalled, edit, edits, asked>>

getTokenByHash(r, c, limit) ==
  /\ read[r] = NoRead
  /\ read' = [read EXCEPT ![r] = Note([NoRead EXCEPT !.at = IF contextToken /\ status = "active" THEN "token" ELSE "refused",
                                                     !.conv = c, !.limit = limit, !.gone = recalled])]
  /\ UNCHANGED used /\ ReadsOnly
MarkTokenUsed(r) == contextToken /\ status = "active"
AuthenticateToken(r) ==
  /\ read[r].at = "token" /\ Goes(r, IF MarkTokenUsed(r) THEN "member" ELSE "refused")
  /\ used' = (used \/ (MarkTokenUsed(r) /\ ~contextToken)) /\ ReadsOnly
(* Member of the conversation, and what the settings say of its type.      *)
requireConversationCurrent(r) ==
  LET c == read[r].conv
      allowed == /\ c \in inside
                 /\ c = "direct" => settings.allowDirect
                 /\ c = "group" => settings.allowGroup /\ policy = "group-capable" IN
  /\ read[r].at = "member" /\ Goes(r, IF ~allowed THEN "refused" ELSE IF c = "group" THEN "policy" ELSE "grant")
  /\ UNCHANGED used /\ ReadsOnly
GetGroupPolicy(r) ==
  /\ read[r].at = "policy" /\ Goes(r, IF group = "active" THEN "grant" ELSE "refused")
  /\ UNCHANGED used /\ ReadsOnly
Granted(r) == grant[read[r].conv].context
RequireContextGrant(r) ==
  /\ read[r].at = "grant"
  /\ IF Granted(r) THEN read' = [read EXCEPT ![r] = [Note(@) EXCEPT !.at = "limits", !.grant = grant[read[r].conv]]]
     ELSE Goes(r, "refused")
  /\ UNCHANGED used /\ ReadsOnly
getSettings(r) ==
  /\ read[r].at = "limits" /\ read' = [read EXCEPT ![r] = [Note(@) EXCEPT !.at = "list", !.by = settings]]
  /\ UNCHANGED used /\ ReadsOnly

Least(a, b) == IF a < b THEN a ELSE b
(* The bot's own limit, the grant's, and the constant; then the call's.    *)
ContextLimit(v) ==
  LET own == IF v.grant.max > 0 THEN Least(v.grant.max, v.by.messages) ELSE v.by.messages
      cap == Least(own, ReplayLimit) IN IF v.limit > 0 THEN Least(v.limit, cap) ELSE cap
(* Newest first: the numbers of the messages the SELECT returns.           *)
listContextMessages(v) ==
  LET shown == SelectSeq([n \in 1..Len(messages) |-> n],
                 LAMBDA n : /\ n \notin recalled
                            /\ messages[n].reply => v.by.replies
                            /\ messages[n].system => v.by.system) IN
  SubSeq(Reverse(shown), 1, Least(ContextLimit(v), Len(shown)))
(* One message of the loop: it is taken while the JSON array still fits.   *)
BudgetStep(acc, n) ==
  LET next == acc.used + messages[n].size + (IF acc.taken = <<>> THEN 0 ELSE 1) IN
  IF acc.full \/ next > acc.limit THEN [acc EXCEPT !.full = TRUE]
  ELSE [acc EXCEPT !.used = next, !.taken = Append(@, n)]
applyContextBudgets(rows, limit) ==
  Reverse(FoldLeft(BudgetStep, [used |-> 2, taken |-> <<>>, limit |-> limit, full |-> FALSE], rows).taken)
GetContext(r) ==
  LET v == read[r] rows == listContextMessages(v) IN
  /\ v.at = "list"
  /\ read' = [read EXCEPT ![r] = [Note(@) EXCEPT !.at = "answered", !.rows = rows,
                                                 !.answer = applyContextBudgets(rows, v.by.chars)]]
  /\ UNCHANGED used /\ ReadsOnly
-----------------------------------------------------------------------------
ContextNext ==
  \/ \E e \in Editors : \/ \E p \in SettingsPatches : UpdateSettings(e, p)
                        \/ \E p \in GrantPatches : UpdateContextGrant(e, p)
                        \/ insertSettings(e) \/ UpsertContextGrant(e)
  \/ \E next \in {"active", "removed"}, context \in BOOLEAN : UpdateGroupPolicy(next, context)
  \/ \E next \in {"active", "paused", "deleted"} : SetStatus(next)
  \/ \E k \in Kinds : Post(k)
  \/ \E n \in 1..MaxMessages : Recall(n)
  \/ \E r \in Reads : \/ \E c \in Conversations, l \in Limits : getTokenByHash(r, c, l)
                      \/ AuthenticateToken(r) \/ requireConversationCurrent(r) \/ GetGroupPolicy(r)
                      \/ RequireContextGrant(r) \/ getSettings(r) \/ GetContext(r)
-----------------------------------------------------------------------------
(* Two edits that name different fields, made at once, both take effect:   *)
(* neither writes back a field as it was before the other.                 *)
NoLostPatch ==
  (\A e \in Editors : edit[e] = NoEdit) =>
    /\ settings = asked.s /\ grant = asked.g
    /\ policy = (IF settings.allowGroup THEN "group-capable" ELSE "direct-only")

(* Whoever gets a context had, at some moment of the call, a live token,   *)
(* the conversation and the owner's grant; nothing recalled before the     *)
(* call is in it.                                                          *)
ContextPermitted ==
  \A r \in Reads : read[r].at = "answered" =>
    /\ {"token", "member", "grant"} \subseteq read[r].permitted
    /\ \A n \in read[r].gone : n \notin {read[r].answer[i] : i \in DOMAIN read[r].answer}

JsonSize(s) == LET sizes == [i \in DOMAIN s |-> messages[s[i]].size]
               IN 2 + FoldLeft(LAMBDA a, b : a + b, 0, sizes) + (IF s = <<>> THEN 0 ELSE Len(s) - 1)
(* A context is the newest run of the rows listed, in the order of the     *)
(* conversation, that fits the budget as the JSON array it becomes, and    *)
(* no longer run would.                                                    *)
ContextIsNewestRun ==
  \A r \in Reads : read[r].at = "answered" =>
    LET v == read[r] oldestFirst == Reverse(v.rows) n == Len(v.answer) IN
    /\ v.answer = SubSeq(oldestFirst, Len(oldestFirst) - n + 1, Len(oldestFirst))
    /\ v.answer # <<>> => JsonSize(v.answer) <= v.by.chars
    /\ n < Len(v.rows) => JsonSize(SubSeq(oldestFirst, Len(oldestFirst) - n, Len(oldestFirst))) > v.by.chars

(* A token revoked between its lookup and the mark is not marked used.     *)
RevokedNeverUsed == ~used
=============================================================================
