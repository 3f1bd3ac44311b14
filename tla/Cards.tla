-------------------------------- MODULE Cards --------------------------------
(***************************************************************************)
(* workspace/cards: one interactive card. Every kind of writer (a member's *)
(* action, the bot that owns it, an invalidation, Echo's projection) takes *)
(* an advisory lock of its own, so writers of two kinds run side by side,  *)
(* each reading the row first, and only the revision in UPDATE ... WHERE   *)
(* revision = $6 decides between them. A payload is the set of requests    *)
(* whose content it holds.                                                 *)
(***************************************************************************)
EXTENDS Naturals, Sequences, FiniteSets, SequencesExt

CONSTANTS Requests, NoRequest,
          Keys,             \* clientActionIds of one actor
          MaxRevision       \* bound

VARIABLES card,             \* workspace_cards: the row
          overdue,          \* expires_at has passed
          run, effects,     \* workspace_card_action_runs; ghost: executions that took effect, by key
          request,          \* the calls: what each does, has seen, has read
          written           \* ghost: requests whose content was committed

cardVars == <<card, overdue, run, effects, request, written>>
Kinds == {"custom_bot", "echo"}
Ops == {"action", "botUpdate", "botInvalidate", "invalidate", "upsert"}
Row(kind, status, revision, payload) ==
  [kind |-> kind, status |-> status, revision |-> revision, payload |-> payload]
Absent == Row("none", "none", 0, {})
Unread == [at |-> "new", op |-> "none", key |-> NoRequest, seen |-> Absent, read |-> Absent]

(* The shape of every variable.                                            *)
CardsTypeOK ==
  /\ card.kind \in Kinds \union {"none"} /\ card.status \in {"none", "active", "invalidated"}
  /\ card.revision \in 0..MaxRevision /\ card.payload \subseteq Requests /\ overdue \in BOOLEAN
  /\ run \in [Keys -> {"none", "succeeded", "failed"}] /\ effects \in [Keys -> Nat]
  /\ \A r \in Requests : request[r].at \in {"new", "asked", "read", "done"}
  /\ written \subseteq Requests

CardsInit ==
  /\ card = Absent /\ overdue = FALSE /\ run = [k \in Keys |-> "none"] /\ effects = [k \in Keys |-> 0]
  /\ request = [r \in Requests |-> Unread] /\ written = {}
-----------------------------------------------------------------------------
effectiveStatus(row) == IF row.status = "active" /\ overdue THEN "expired" ELSE row.status
(* UPDATE ... SET revision = revision + 1 WHERE id = $5 AND revision = $6. *)
UpdateCard(expected, next) ==
  /\ card.revision = expected /\ card.revision < MaxRevision
  /\ card' = [next EXCEPT !.revision = card.revision + 1]
Conflict(expected) == card.revision # expected /\ UNCHANGED card

LockFree(r, op) == \A s \in Requests : ~(request[s].at = "read" /\ request[s].op = op)
Ends(r) == request' = [request EXCEPT ![r].at = "done"]
Reads(r, op) ==
  /\ request[r].at = "asked" /\ request[r].op = op /\ LockFree(r, op)
  /\ request' = [request EXCEPT ![r].at = "read", ![r].read = card]
  /\ UNCHANGED <<card, overdue, run, effects, written>>
InTx(r, op) == request[r].at = "read" /\ request[r].op = op

(* The caller builds its request on the card as it sees it.                *)
Ask(r, op, k) ==
  /\ request[r].at = "new" /\ card # Absent
  /\ op \in {"botUpdate", "botInvalidate"} => card.kind = "custom_bot"
  /\ op = "upsert" => card.kind = "echo"
  /\ request' = [request EXCEPT ![r] = [at |-> "asked", op |-> op, key |-> k, seen |-> card, read |-> Absent]]
  /\ UNCHANGED <<card, overdue, run, effects, written>>
createWithRevision(r, kind) ==
  /\ request[r].at = "new" /\ Ends(r)
  /\ IF card = Absent THEN card' = Row(kind, "active", 1, {r}) /\ written' = {r}
     ELSE UNCHANGED <<card, written>>          \* the source is bound: the same card, or a conflict
  /\ UNCHANGED <<overdue, run, effects>>

(* ExecuteAction: the run is inserted first; a repeated key is answered    *)
(* from the run.                                                           *)
InsertActionRun(r) == run[request[r].key] = "none"
Replayed(r) ==
  /\ request[r].at = "asked" /\ request[r].op = "action" /\ LockFree(r, "action")
  /\ ~InsertActionRun(r) /\ Ends(r)
  /\ UNCHANGED <<card, overdue, run, effects, written>>
ActionReads(r) == Reads(r, "action") /\ InsertActionRun(r)
FailActionRun(r) == run' = [run EXCEPT ![request[r].key] = "failed"]
CompleteActionRun(r) == run' = [run EXCEPT ![request[r].key] = "succeeded"]
Applied(r) == effects' = [effects EXCEPT ![request[r].key] = @ + 1]
Actionable(r) == /\ effectiveStatus(request[r].read) = "active"
                 /\ request[r].read.revision = request[r].seen.revision
RolledBack(r) == UNCHANGED effects          \* ROLLBACK TO SAVEPOINT
ActionRejected(r) ==                        \* not actionable, not allowed, or execute refuses
  /\ InTx(r, "action") /\ Ends(r)
  /\ FailActionRun(r) /\ UNCHANGED <<card, overdue, effects, written>>
(* The action ran, and then the card's revision turns out to have moved:   *)
(* the savepoint takes the action back, the failed run stays.              *)
ActionConflicts(r) ==
  /\ InTx(r, "action") /\ Actionable(r) /\ Conflict(request[r].read.revision) /\ Ends(r)
  /\ RolledBack(r) /\ FailActionRun(r) /\ UNCHANGED <<overdue, written>>
ActionUpdates(r) ==
  LET row == request[r].read IN
  /\ InTx(r, "action") /\ Actionable(r) /\ Ends(r)
  /\ \E status \in {"active", "invalidated"} :
       UpdateCard(row.revision, Row(row.kind, status, 0, row.payload \union {r}))
  /\ Applied(r) /\ CompleteActionRun(r) /\ written' = written \union {r} /\ UNCHANGED overdue
ActionLeavesCard(r) ==                      \* neither payload nor status: no update, no conflict
  /\ InTx(r, "action") /\ Actionable(r) /\ Ends(r)
  /\ Applied(r) /\ CompleteActionRun(r) /\ UNCHANGED <<card, overdue, written>>
TxFails(r) ==                               \* anything else fails: all of it is undone
  /\ request[r].at = "read" /\ Ends(r) /\ UNCHANGED <<card, overdue, run, effects, written>>

AnyStatus(r) == TRUE
StillActive(r) == effectiveStatus(request[r].read) = "active"
updateCustomBot(r) ==
  LET row == request[r].read seen == request[r].seen IN
  /\ InTx(r, "botUpdate") /\ Ends(r)
  /\ \/ /\ StillActive(r)
        /\ UpdateCard(seen.revision, Row(row.kind, "active", 0, seen.payload \union {r}))
        /\ written' = written \union {r}
     \/ ~StillActive(r) /\ UNCHANGED <<card, written>>
     \/ Conflict(seen.revision) /\ UNCHANGED written
  /\ UNCHANGED <<overdue, run, effects>>
InvalidateCustomBotCard(r) ==
  LET row == request[r].read seen == request[r].seen IN
  /\ InTx(r, "botInvalidate") /\ Ends(r)
  /\ UpdateCard(seen.revision, Row(row.kind, "invalidated", 0, row.payload)) \/ Conflict(seen.revision)
  /\ UNCHANGED <<overdue, run, effects, written>>
Invalidate(r) ==                            \* without an expected revision: the one it read
  LET row == request[r].read IN
  /\ InTx(r, "invalidate") /\ Ends(r)
  /\ UpdateCard(row.revision, Row(row.kind, "invalidated", 0, row.payload)) \/ Conflict(row.revision)
  /\ UNCHANGED <<overdue, run, effects, written>>
(* Echo's projection replaces the content, and makes the card active.      *)
UpsertEchoCardInTx(r) ==
  LET row == request[r].read IN
  /\ InTx(r, "upsert") /\ Ends(r)
  /\ \/ UpdateCard(row.revision, Row(row.kind, "active", 0, {r})) /\ written' = {r}
     \/ row.status = "active" /\ UNCHANGED <<card, written>>      \* the same revision and content
     \/ Conflict(row.revision) /\ UNCHANGED written
  /\ UNCHANGED <<overdue, run, effects>>
Expires == /\ card.kind # "none" /\ card.kind # "echo" /\ ~overdue /\ overdue' = TRUE
           /\ UNCHANGED <<card, run, effects, request, written>>

CardsNext ==
  \/ \E r \in Requests :
       \/ \E kind \in Kinds : createWithRevision(r, kind)
       \/ \E op \in Ops \ {"action"} : Ask(r, op, NoRequest) \/ Reads(r, op)
       \/ \E k \in Keys : Ask(r, "action", k)
       \/ Replayed(r) \/ ActionReads(r) \/ ActionRejected(r) \/ ActionConflicts(r)
       \/ ActionUpdates(r) \/ ActionLeavesCard(r) \/ TxFails(r)
       \/ updateCustomBot(r) \/ InvalidateCustomBotCard(r) \/ Invalidate(r) \/ UpsertEchoCardInTx(r)
  \/ Expires
-----------------------------------------------------------------------------
(* Writers of different kinds hold different locks, and yet none undoes    *)
(* what another committed: the payload holds every content written since   *)
(* Echo last replaced it.                                                  *)
NoLostUpdate == card.payload = written

(* An action takes effect once per client action id, and exactly when its  *)
(* run says so: a rejection or a revision conflict leaves nothing behind.  *)
EffectMatchesRun == \A k \in Keys : effects[k] = IF run[k] = "succeeded" THEN 1 ELSE 0

(* A card of a bot that was invalidated stays so; only Echo's own cards    *)
(* are revived.                                                            *)
InvalidatedIsFinal ==
  [][card.status = "invalidated" /\ card.kind # "echo" => card'.status = "invalidated"]_cardVars
-----------------------------------------------------------------------------
(***************************************************************************)
(* feishucards: a bot hands in a card in Feishu's format; it is converted, *)
(* stored, and validated again (by rebuilding a source card and converting *)
(* that) whenever it is written or read. A click on one of its buttons     *)
(* becomes an event for the bot, written in the transaction of the click.  *)
(* A text is a word, perhaps padded; "" and "<" are refused. A header is a *)
(* set of at most one record. Which error a refused card gets is left out. *)
(***************************************************************************)

CONSTANTS Sources,            \* the cards a bot may hand in: [wide, header, elements]
          Registered,         \* ActionIDs
          MaxNodes, MaxDepth, MaxText, MaxClicks, MaxUpdates

VARIABLES feishuBot,                \* "active" or "paused"
          feishuCard,               \* [payload, revision]; revision 0 is no card
          refused,            \* ghost: a converted card was refused when validated
          click,              \* the transaction of a click
          events, clicks

feishuVars == <<feishuBot, feishuCard, refused, click, events, clicks>>

NoPayload == [wide |-> "no", header |-> {}, elements |-> <<>>]
NoClick == [pc |-> "none", id |-> "", data |-> "", revision |-> 0]

(* The shape of every variable.                                            *)
FeishuTypeOK ==
  /\ feishuBot \in {"active", "paused"} /\ feishuCard.revision \in 0..MaxUpdates /\ refused \in BOOLEAN /\ clicks \in 0..MaxClicks
  /\ click.pc \in {"none", "found", "bound", "written"} /\ Len(events) <= MaxClicks

FeishuInit ==
  /\ feishuBot = "active" /\ feishuCard = [payload |-> NoPayload, revision |-> 0] /\ refused = FALSE
  /\ click = NoClick /\ events = <<>> /\ clicks = 0
-----------------------------------------------------------------------------
(* convertButton accepts the id in any case and with spaces around it.     *)
normalizeActionID(id) == CASE id = " Confirm" -> "confirm" [] OTHER -> id
normalizeText(text) == [text EXCEPT !.padded = FALSE]
TextOK(text) == text.word \notin {"", "<"}
Sum(s, f(_)) == FoldLeft(LAMBDA acc, x : acc + f(x), 0, s)
All(s, P(_)) == \A i \in DOMAIN s : P(s[i])
Map(s, f(_)) == [i \in DOMAIN s |-> f(s[i])]

None == {}

RECURSIVE Buttons(_), Nodes(_), Depth(_), Texts(_), convertElement(_), Accepts(_)
(* Every button of an element, wherever it is.                             *)
Buttons(e) ==
  CASE e.tag = "action" -> e.actions
    [] e.tag = "column_set" -> FlattenSeq(Map(e.columns, LAMBDA c : FlattenSeq(Map(c.elements, Buttons))))
    [] OTHER -> <<>>
(* What count sees: elements, buttons and columns.                         *)
Nodes(e) ==
  CASE e.tag = "action" -> 1 + Len(e.actions)
    [] e.tag = "column_set" -> 1 + Sum(e.columns, LAMBDA c : 1 + Sum(c.elements, Nodes))
    [] OTHER -> 1
Texts(e) ==
  CASE e.tag \in {"div", "markdown"} -> <<e.text>>
    [] e.tag = "note" -> Map(e.parts, LAMBDA p : p.text)
    [] e.tag = "action" -> Map(e.actions, LAMBDA b : b.text)
    [] e.tag = "column_set" -> FlattenSeq(Map(e.columns, LAMBDA c : FlattenSeq(Map(c.elements, Texts))))
    [] OTHER -> <<>>
Depth(e) ==
  CASE e.tag = "action" -> 2
    [] e.tag = "column_set" ->
         2 + FoldLeft(LAMBDA acc, c : FoldLeft(LAMBDA a, x : IF Depth(x) > a THEN Depth(x) ELSE a, acc, c.elements), 0, e.columns)
    [] OTHER -> 1
convertButton(b) ==
  [type |-> "button", label |-> normalizeText(b.text), actionId |-> normalizeActionID(b.id), style |-> b.style, data |-> b.data]
convertText(text, format) == [type |-> "text", format |-> format, text |-> normalizeText(text)]
convertColumns(columns) ==
  [type |-> "columns",
   columns |-> Map(columns, LAMBDA c : [width |-> c.width, weight |-> IF c.width = "weighted" THEN c.weight ELSE 0,
                                        elements |-> Map(c.elements, convertElement)])]
convertElement(e) ==
  CASE e.tag = "div" -> convertText(e.text, e.format)
    [] e.tag = "markdown" -> convertText(e.text, "markdown")
    [] e.tag = "note" -> [type |-> "note", parts |-> Map(e.parts, LAMBDA p : [format |-> p.format, text |-> normalizeText(p.text)])]
    [] e.tag = "hr" -> [type |-> "divider"]
    [] e.tag = "action" -> [type |-> "actions", buttons |-> Map(e.actions, convertButton)]
    [] e.tag = "column_set" -> convertColumns(e.columns)
(* The limits of one element and, for columns, of what they hold.          *)
Accepts(e) ==
  CASE e.tag = "note" -> Len(e.parts) \in 1..8
    [] e.tag = "action" -> Len(e.actions) \in 1..6 /\ All(e.actions, LAMBDA b : b.style \in {"default", "primary", "danger"})
    [] e.tag = "column_set" ->
         /\ Len(e.columns) \in 2..4
         /\ All(e.columns, LAMBDA c : /\ c.width \in {"auto", "weighted"} /\ (c.width = "weighted" => c.weight \in 1..12)
                                      /\ Len(c.elements) \in 1..8 /\ All(c.elements, LAMBDA x : Accepts(x)))
    [] OTHER -> e.tag \in {"div", "markdown", "hr"}
seenActions(ids) == Cardinality({normalizeActionID(i) : i \in Range(ids)}) = Len(ids)
(* count: the config and the header count when the source has them.       *)
Counted(source) == Sum(source.elements, Nodes) + (IF source.wide = "absent" THEN 0 ELSE 1) + (IF source.header = None THEN 0 ELSE 1)
(* convertConfig: an absent config is the narrow one.                      *)
convertConfig(wide) == IF wide = "absent" THEN "no" ELSE wide
headerTones == [blue |-> "info", red |-> "danger", grey |-> "neutral", gray |-> "neutral"]
convertHeader(header) ==
  IF header = None THEN None
  ELSE {[title |-> normalizeText(h.title), tone |-> IF h.template = "" THEN "neutral" ELSE headerTones[h.template]] : h \in header}
(* normalizeValue visits every value of the converted card.                *)
RECURSIVE Values(_)
Values(e) ==
  CASE e.type = "text" -> 4
    [] e.type = "note" -> 3 + 3 * Len(e.parts)
    [] e.type = "divider" -> 2
    [] e.type = "actions" -> 3 + 6 * Len(e.buttons)
    [] e.type = "columns" -> 3 + Sum(e.columns, LAMBDA c : (IF c.width = "weighted" THEN 4 ELSE 3) + Sum(c.elements, Values))
normalizePayload(payload) ==
  7 + (IF payload.header = None THEN 0 ELSE 2) + Sum(payload.elements, Values) <= MaxNodes
convertParsed(source) ==
  [wide |-> convertConfig(source.wide), header |-> convertHeader(source.header), elements |-> Map(source.elements, convertElement)]
Convertible(source) ==
  LET buttons == FlattenSeq(Map(source.elements, Buttons))
      texts == FlattenSeq(Map(source.elements, Texts)) \o SetToSeq({h.title : h \in source.header})
  IN /\ Len(source.elements) > 0 /\ All(source.elements, LAMBDA e : Accepts(e) /\ Depth(e) <= MaxDepth)
     /\ Counted(source) <= MaxNodes /\ All(texts, TextOK) /\ Len(texts) <= MaxText
     /\ \A h \in source.header : h.template \in DOMAIN headerTones \union {""}
     /\ All(buttons, LAMBDA b : normalizeActionID(b.id) \in Registered) /\ seenActions(Map(buttons, LAMBDA b : b.id))
     /\ normalizePayload(convertParsed(source))
-----------------------------------------------------------------------------
RECURSIVE reconstructElement(_)
reconstructButton(b) == [text |-> b.label, id |-> b.actionId, style |-> b.style, data |-> b.data]
reconstructPart(p) == [format |-> p.format, text |-> p.text]
reconstructElement(e) ==
  CASE e.type = "text" -> IF e.format = "markdown" THEN [tag |-> "markdown", text |-> e.text]
                          ELSE [tag |-> "div", format |-> "plain", text |-> e.text]
    [] e.type = "note" -> [tag |-> "note", parts |-> Map(e.parts, reconstructPart)]
    [] e.type = "divider" -> [tag |-> "hr"]
    [] e.type = "actions" -> [tag |-> "action", actions |-> Map(e.buttons, reconstructButton)]
    [] e.type = "columns" -> [tag |-> "column_set", columns |-> Map(e.columns, LAMBDA c :
                                [width |-> c.width, weight |-> c.weight, elements |-> Map(c.elements, reconstructElement)])]
reverseToneValue(tone) == IF tone = "neutral" THEN "" ELSE CHOOSE t \in DOMAIN headerTones : headerTones[t] = tone
reconstructHeader(header) == {[title |-> h.title, template |-> reverseToneValue(h.tone)] : h \in header}
ValidateConverted(payload) ==
  LET source == [wide |-> payload.wide, header |-> reconstructHeader(payload.header),
                 elements |-> Map(payload.elements, reconstructElement)]
  IN  [ok |-> Convertible(source), payload |-> convertParsed(source)]
-----------------------------------------------------------------------------
(* Create and update: the gateway converts, the card service validates.    *)
WriteCard(source) ==
  /\ feishuBot = "active" /\ feishuCard.revision < MaxUpdates /\ Convertible(source)
  /\ LET validated == ValidateConverted(convertParsed(source))
     IN /\ refused' = (refused \/ ~validated.ok \/ validated.payload # convertParsed(source))
        /\ feishuCard' = IF validated.ok THEN [payload |-> validated.payload, revision |-> feishuCard.revision + 1] ELSE feishuCard
  /\ UNCHANGED <<feishuBot, click, events, clicks>>
-----------------------------------------------------------------------------
RECURSIVE findButtons(_)
InColumns(e) == FlattenSeq(Map(e.columns, LAMBDA c : FlattenSeq(Map(c.elements, findButtons))))
findButtons(e) ==
  CASE e.type = "actions" -> e.buttons [] e.type = "columns" -> InColumns(e) [] OTHER -> <<>>
Candidates(payload, id) == SelectSeq(FlattenSeq(Map(payload.elements, findButtons)), LAMBDA b : b.actionId = id)
findActionButton(payload, id) == Candidates(payload, id)[1]

(* ExecuteAction: the button in the stored payload, then the bot, whose    *)
(* row is held (FOR SHARE) to the end of the transaction, then the event.  *)
ExecuteAction(id) ==
  /\ click.pc = "none" /\ clicks < MaxClicks /\ clicks' = clicks + 1 /\ feishuCard.revision > 0
  /\ LET id2 == normalizeActionID(id) IN
     IF Candidates(feishuCard.payload, id2) = <<>> THEN UNCHANGED click
     ELSE click' = [pc |-> "found", id |-> id2, data |-> findActionButton(feishuCard.payload, id2).data, revision |-> feishuCard.revision]
  /\ UNCHANGED <<feishuBot, feishuCard, refused, events>>
FindActiveBotForCard ==
  /\ click.pc = "found" /\ click' = IF feishuBot = "active" THEN [click EXCEPT !.pc = "bound"] ELSE NoClick
  /\ UNCHANGED <<feishuBot, feishuCard, refused, events, clicks>>
(* The event is visible once the transaction commits.                      *)
WriteCardActionEvent ==
  /\ click.pc = "bound" /\ click' = [click EXCEPT !.pc = "written"]
  /\ UNCHANGED <<feishuBot, feishuCard, refused, events, clicks>>
CommitClick ==
  /\ click.pc = "written" /\ click' = NoClick
  /\ events' = Append(events, [id |-> click.id, data |-> click.data, revision |-> click.revision, bot |-> feishuBot])
  /\ UNCHANGED <<feishuBot, feishuCard, refused, clicks>>
WithTx ==
  /\ click.pc \in {"bound", "written"} /\ click' = NoClick
  /\ UNCHANGED <<feishuBot, feishuCard, refused, events, clicks>>
ShareLockFree == click.pc \notin {"bound", "written"}
SetStatus ==
  /\ ShareLockFree /\ feishuBot' = (IF feishuBot = "active" THEN "paused" ELSE "active")
  /\ UNCHANGED <<feishuCard, refused, click, events, clicks>>
-----------------------------------------------------------------------------
FeishuNext ==
  \/ \E source \in Sources : WriteCard(source)
  \/ \E id \in Registered \union {" Confirm"} : ExecuteAction(id)
  \/ FindActiveBotForCard \/ WriteCardActionEvent \/ CommitClick \/ WithTx \/ SetStatus
-----------------------------------------------------------------------------
(* What the gateway converted is accepted, unchanged, by the validation    *)
(* that runs before every write and read: no card is stored that can no    *)
(* longer be shown, and validating twice changes nothing.                  *)
ConversionStable ==
  /\ ~refused
  /\ feishuCard.revision > 0 => LET again == ValidateConverted(feishuCard.payload) IN again.ok /\ again.payload = feishuCard.payload

RECURSIVE Shown(_)
Shown(e) == IF e.type = "actions" THEN Range(e.buttons)
            ELSE IF e.type = "columns" THEN UNION {UNION {Shown(c.elements[i]) : i \in DOMAIN c.elements} : c \in Range(e.columns)} ELSE {}
(* Every button a stored card shows, in columns too, can be clicked, and   *)
(* the click carries the data of that button and of no other.              *)
ButtonsWork ==
  LET shown == UNION {Shown(feishuCard.payload.elements[i]) : i \in DOMAIN feishuCard.payload.elements} IN
  /\ \A b \in shown : Candidates(feishuCard.payload, b.actionId) = <<b>>
  /\ \A i \in DOMAIN events : events[i].id \in Registered

(* No event reaches a bot that was paused when the click was committed.    *)
EventsForActiveBot == \A i \in DOMAIN events : events[i].bot = "active"
=============================================================================
