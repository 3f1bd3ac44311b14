------------------------------- MODULE MCBots -------------------------------
(***************************************************************************)
(* What acts for a member and what is shown to one: bots with their        *)
(* tokens, what they may read, send and are sent, cards (also the ones in  *)
(* Feishu's format), command lines, commands, workflows, and what an event *)
(* shows each viewer.  part says which of them a behaviour is about; the   *)
(* others stand still.                                                     *)
(***************************************************************************)
EXTENDS Naturals, Sequences

CONSTANTS BotIds, Setups, Tokens, Scopes,
          Requests, Keys, Contents, NoAnswer,
          MaxSeq, ReplayLimit, ScanFactor, BacklogLimit, Cursors, MaxReplays, MaxChanges,
          CardCalls, NoAction, MaxCardRevision,
          Invocations, Hashes, Callers, NoCaller,
          Workflows, Steps, NoWorkflow, MaxRevision,
          Conversations, Limits, MaxMessages, MaxEdits, MaxContext, Editors, ContextReads,
          MaxLine, MaxTokens, MaxBytes,
          Registered, MaxNodes, MaxDepth, MaxText, MaxClicks, MaxUpdates,
          Readers, Author, Kind, PoolSize, MaxEventChanges

VARIABLES part,
          owner, bot, token, setup,
          live, request, answer, written, late,
          current, granted, row, overdue, replay, cursor, open, replays, changes, known, skipped,
          card, cardOverdue, actionRun, effects, cardCall, cardWritten,
          run, executed, caller,
          workflow, workflowOverdue, step, advanced, submitted,
          status, contextToken, settings, policy, grant, group, inside, messages,
          recalled, edit, edits, asked, read, used,
          line, scan, parsed,
          feishuBot, feishuCard, refused, click, events, clicks,
          eRole, conv, everConv, eJoined, eGrants, eMessage, reactors, file, listener, proj, eChanges

SettingsPatches == {[allowGroup |-> TRUE], [chars |-> 6, replies |-> FALSE], [messages |-> 9]}
GrantPatches == {[context |-> TRUE], [context |-> FALSE], [max |-> 1]}
Kinds == {[size |-> 2, reply |-> FALSE, system |-> FALSE], [size |-> 3, reply |-> TRUE, system |-> FALSE]}

(* Feishu cards: every leaf, in columns, in columns of columns, in pairs.  *)
Text(w, p) == [word |-> w, padded |-> p]
Button(id, data) == [text |-> Text("b", TRUE), id |-> id, style |-> "default", data |-> data]
Div(f, p) == [tag |-> "div", format |-> f, text |-> Text("a", p)]
Actions(bs) == [tag |-> "action", actions |-> bs]
Leaves == {Div("plain", TRUE), Div("markdown", FALSE), [tag |-> "markdown", text |-> Text("<", FALSE)],
           [tag |-> "hr"], [tag |-> "video"],
           [tag |-> "note", parts |-> <<[format |-> "markdown", text |-> Text("n", FALSE)],
                                        [format |-> "plain", text |-> Text("m", TRUE)]>>],
           Actions(<<Button("confirm", "d1")>>), Actions(<<Button(" Confirm", "d2"), Button("cancel", "d3")>>),
           Actions(<<Button("other", "d3")>>)}
Column(e, w) == [width |-> w, weight |-> 3, elements |-> <<e>>]
ColumnSet(x, y) == [tag |-> "column_set", columns |-> <<Column(x, "auto"), Column(y, "weighted")>>]
Flat == {ColumnSet(x, y) : x, y \in Leaves}
Nested == {ColumnSet([tag |-> "hr"], c) : c \in Flat}
Bodies == {<<>>} \cup {<<x>> : x \in Leaves \cup Flat \cup Nested} \cup {<<x, y>> : x \in Leaves, y \in Leaves \cup Flat}
Headers == {{}} \cup {{[title |-> Text("h", TRUE), template |-> t]} : t \in {"", "red", "grey", "pink"}}
Sources == {[wide |-> "absent", header |-> {}, elements |-> e] : e \in Bodies} \cup
           {[wide |-> w, header |-> h, elements |-> <<x>>] : w \in {"absent", "yes"}, h \in Headers, x \in Leaves}

(* The events whose projection is watched, and who may be what.            *)
Event(type, inTopic, of) == [type |-> type, topic |-> inTopic, card |-> FALSE, user |-> of]
Events == {Event("message.created", FALSE, "u1"), Event("message.created", TRUE, "u1"),
           Event("reaction.added", FALSE, "u1"), Event("workspace.member_updated", FALSE, "u1"),
           Event("conversation.notification_updated", FALSE, "u2"),
           Event("workspace.member_removed", FALSE, "u2"), Event("attachment.available", FALSE, "u1")}
Positions == {[u \in Readers |-> IF u = Author THEN "member" ELSE "owner"],
              [u \in Readers |-> IF u = Author THEN "owner" ELSE "auditor"]}

B == INSTANCE Bots WITH ReplayLimit <- MaxContext, Reads <- ContextReads
G == INSTANCE BotGateway
K == INSTANCE Cards WITH Requests <- CardCalls, NoRequest <- NoAction, MaxRevision <- MaxCardRevision, overdue <- cardOverdue,
       run <- actionRun, request <- cardCall, written <- cardWritten
I == INSTANCE Interactions WITH overdue <- workflowOverdue
E == INSTANCE EventProjection WITH Users <- Readers, Roles <- Positions, MaxChanges <- MaxEventChanges,
       role <- eRole, joined <- eJoined, grants <- eGrants, message <- eMessage, changes <- eChanges

botVars == <<owner, bot, token, setup>>
sendVars == <<live, request, answer, written, late>>
deliveryVars == <<current, granted, row, overdue, replay, cursor, open, replays,
                  changes, known, skipped>>
cardVars == <<card, cardOverdue, actionRun, effects, cardCall, cardWritten>>
commandVars == <<run, executed, caller>>
workflowVars == <<workflow, workflowOverdue, step, advanced, submitted>>
contextVars == <<status, contextToken, settings, policy, grant, group, inside, messages, recalled, edit,
                 edits, asked, read, used>>
lineVars == <<line, scan, parsed>>
feishuVars == <<feishuBot, feishuCard, refused, click, events, clicks>>
projectionVars == <<eRole, conv, everConv, eJoined, eGrants, eMessage, reactors, file, listener,
                    proj, eChanges>>
vars == <<part, botVars, sendVars, deliveryVars, cardVars, commandVars,
          workflowVars, contextVars, lineVars, feishuVars, projectionVars>>

Init == /\ part \in {"bots", "send", "delivery", "cards", "commands", "workflows", "context", "line", "feishu",
                     "events"}
        /\ B!BotsInit /\ G!BotSendInit /\ G!DeliveryInit
        /\ K!CardsInit /\ I!CommandsInit /\ I!WorkflowsInit
        /\ B!ContextInit /\ I!LineInit /\ K!FeishuInit /\ E!ProjectionInit
        /\ part # "events" => conv = Readers /\ eRole[Author] = "member"

(* A step of part p: the other parts stand still.                          *)
Only(p) ==
  /\ part = p /\ UNCHANGED part
  /\ IF p = "bots" THEN TRUE ELSE UNCHANGED botVars
  /\ IF p = "send" THEN TRUE ELSE UNCHANGED sendVars
  /\ IF p = "delivery" THEN TRUE ELSE UNCHANGED deliveryVars
  /\ IF p = "cards" THEN TRUE ELSE UNCHANGED cardVars
  /\ IF p = "commands" THEN TRUE ELSE UNCHANGED commandVars
  /\ IF p = "workflows" THEN TRUE ELSE UNCHANGED workflowVars
  /\ IF p = "context" THEN TRUE ELSE UNCHANGED contextVars
  /\ IF p = "line" THEN TRUE ELSE UNCHANGED lineVars
  /\ IF p = "feishu" THEN TRUE ELSE UNCHANGED feishuVars
  /\ IF p = "events" THEN TRUE ELSE UNCHANGED projectionVars

BotStep == Only("bots") /\ B!BotsNext
SendStep == Only("send") /\ G!BotSendNext
DeliveryStep == Only("delivery") /\ G!DeliveryNext
CardStep == Only("cards") /\ K!CardsNext
CommandStep == Only("commands") /\ I!CommandsNext
WorkflowStep == Only("workflows") /\ I!WorkflowsNext
ContextStep == Only("context") /\ B!ContextNext
LineStep == Only("line") /\ I!LineNext
FeishuStep == Only("feishu") /\ K!FeishuNext
EventStep == Only("events") /\ E!ProjectionNext

Next == BotStep \/ SendStep \/ DeliveryStep \/ CardStep \/ CommandStep
     \/ WorkflowStep \/ ContextStep \/ LineStep \/ FeishuStep \/ EventStep
BotsSpec == Init /\ [][Next]_vars

TypeOK == /\ part = "bots" => B!BotsTypeOK
          /\ part = "send" => G!BotSendTypeOK
          /\ part = "delivery" => G!DeliveryTypeOK
          /\ part = "cards" => K!CardsTypeOK
          /\ part = "commands" => I!CommandsTypeOK
          /\ part = "workflows" => I!WorkflowsTypeOK
          /\ part = "context" => B!ContextTypeOK
          /\ part = "line" => I!LineTypeOK
          /\ part = "feishu" => K!FeishuTypeOK
          /\ part = "events" => E!ProjectionTypeOK

(* A bot acts with a token its owner granted, on what the owner granted,   *)
(* and with no other.                                                      *)
BotsWithinConsent ==
  /\ TypeOK
  /\ part = "bots" => B!OneBotPerOwner /\ B!DeletedHasNoToken /\ B!SetupUsedOnce /\ B!TokenWithinConsent
  /\ part = "context" => /\ B!NoLostPatch /\ B!ContextPermitted /\ B!ContextIsNewestRun
                         /\ B!RevokedNeverUsed
  /\ part = "send" => G!NoWriteAfterRevocation
  /\ part = "feishu" => K!EventsForActiveBot
(* An event shows a viewer, person or bot, nothing the viewer may not see  *)
(* at that moment, and projecting it for one viewer never starves others   *)
(* of connections.                                                         *)
EventsWithinSight ==
  part = "events" => /\ E!RecalledNeverSent /\ E!NothingAfterLeaving /\ E!MasksHold
                     /\ E!TopicsByReference /\ E!FailsOnlyOnChange /\ E!PoolSuffices
(* What a request asks for happens once, its answer says what happened,    *)
(* and a card or a command line that is taken apart comes out whole.       *)
RequestsTakeEffectOnce ==
  /\ part = "send" => G!OneWritePerKey
  /\ part = "delivery" => G!DeliveredOrTold
  /\ part = "cards" => K!NoLostUpdate /\ K!EffectMatchesRun
  /\ part = "commands" => I!CommandOnce /\ I!ResultFrozenOnce
  /\ part = "workflows" => I!RefusedStartLeavesNothing
  /\ part = "feishu" => K!ConversionStable /\ K!ButtonsWork
  /\ part = "line" => I!NothingLost /\ I!TokensCapped
(* A card that was invalidated, or a workflow that ended, stays so.        *)
FinalStaysFinal == K!InvalidatedIsFinal /\ I!EndedIsFinal
=============================================================================
