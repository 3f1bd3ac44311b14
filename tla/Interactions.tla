---------------------------- MODULE Interactions ----------------------------
(***************************************************************************)
(* workspace/interactions: the commands of one member. A command runs once *)
(* per invocation id, whatever retries there are; the result of a release  *)
(* command is replaced once more, after its delivery was committed.        *)
(***************************************************************************)
EXTENDS Naturals, Sequences, SequencesExt

CONSTANTS Invocations,      \* client invocation ids
          Hashes,           \* what a command asks for
          Callers, NoCaller \* calls of ExecuteCommand and FinalizeCommandResult

VARIABLES run, executed,    \* workspace_command_runs; ghost: executions committed
          caller            \* the calls

commandVars == <<run, executed, caller>>
NoRun == [status |-> "none", hash |-> NoCaller, result |-> NoCaller, frozen |-> FALSE]
NewCaller == [at |-> "new", of |-> NoCaller, hash |-> NoCaller, original |-> NoCaller, told |-> NoCaller]

(* The shape of every variable.                                            *)
CommandsTypeOK ==
  /\ \A i \in Invocations : run[i].status \in {"none", "succeeded", "failed"} /\ run[i].frozen \in BOOLEAN
  /\ executed \in [Invocations -> Nat]
  /\ \A c \in Callers : caller[c].at \in {"new", "accepted", "finalized", "refused"}

CommandsInit == /\ run = [i \in Invocations |-> NoRun] /\ executed = [i \in Invocations |-> 0]
                /\ caller = [c \in Callers |-> NewCaller]
-----------------------------------------------------------------------------
(* ExecuteCommand, under the invocation's lock: answered from the run when *)
(* there is one, else executed. The result is named after the caller.      *)
Answer(c, i, h, at, result) ==
  caller' = [caller EXCEPT ![c] = [at |-> at, of |-> i, hash |-> h, original |-> result, told |-> NoCaller]]
GetCommandRun(i) == run[i].status # "none"
ExecuteCommand(c, i, h) ==
  /\ caller[c].at = "new"
  /\ \/ /\ GetCommandRun(i) /\ UNCHANGED <<run, executed>>
        /\ IF run[i].hash = h /\ run[i].status = "succeeded"
           THEN Answer(c, i, h, "accepted", run[i].result) ELSE Answer(c, i, h, "refused", NoCaller)
     \/ /\ ~GetCommandRun(i)
        /\ run' = [run EXCEPT ![i] = [status |-> "succeeded", hash |-> h, result |-> c, frozen |-> FALSE]]
        /\ executed' = [executed EXCEPT ![i] = @ + 1] /\ Answer(c, i, h, "accepted", c)
     \/ /\ ~GetCommandRun(i)                \* authorisation or the executor refuses, in its savepoint
        /\ run' = [run EXCEPT ![i] = [status |-> "failed", hash |-> h, result |-> NoCaller, frozen |-> FALSE]]
        /\ UNCHANGED executed /\ Answer(c, i, h, "refused", NoCaller)
     \/ UNCHANGED <<run, executed>> /\ Answer(c, i, h, "refused", NoCaller)   \* rolled back, rate limited
(* FinalizeCommandResult: the summary this caller's delivery produced      *)
(* (named after the caller) is frozen, unless another one's was.           *)
Frozen(i) == run[i].frozen                  \* and WHERE result_finalized_at IS NULL
FinalizeCommandResult(c) ==
  LET i == caller[c].of IN
  /\ caller[c].at = "accepted"
  /\ \/ /\ Frozen(i) /\ UNCHANGED run
        /\ caller' = [caller EXCEPT ![c].at = "finalized", ![c].told = run[i].result]
     \/ /\ ~Frozen(i) /\ run[i].result = caller[c].original
        /\ run' = [run EXCEPT ![i].result = c, ![i].frozen = TRUE]
        /\ caller' = [caller EXCEPT ![c].at = "finalized", ![c].told = c]
     \/ ~Frozen(i) /\ caller' = [caller EXCEPT ![c].at = "refused"] /\ UNCHANGED run  \* not the stored original
  /\ UNCHANGED executed

CommandsNext == \E c \in Callers : \/ FinalizeCommandResult(c)
                                   \/ \E i \in Invocations, h \in Hashes : ExecuteCommand(c, i, h)
-----------------------------------------------------------------------------
(* A command takes effect once per invocation id, and only with the        *)
(* request it was first used for.                                          *)
CommandOnce == \A i \in Invocations : executed[i] = IF run[i].status = "succeeded" THEN 1 ELSE 0

(* Every caller who is given a final result is given the same one ("the    *)
(* one authoritative post-commit result", interactions/finalization.go:17). *)
ResultFrozenOnce == \A c, d \in Callers :
  caller[c].at = "finalized" /\ caller[d].at = "finalized" /\ caller[c].of = caller[d].of => caller[c].told = caller[d].told
-----------------------------------------------------------------------------
(***************************************************************************)
(* workspace/echo/automation: how the text after a command becomes its     *)
(* arguments. The parser reads one character at a time and keeps the       *)
(* token it builds, the tokens it has and the quote it is in; characters   *)
(* are classes: a space, a letter and the two quotes.                      *)
(***************************************************************************)

CONSTANTS MaxLine,          \* bound on the characters of a line
          MaxTokens, MaxBytes  \* the parser's limits: 16 tokens, 4 KiB

VARIABLES line,             \* the characters read so far
          scan,             \* the parser after them
          parsed            \* what the line means, once it ended

lineVars == <<line, scan, parsed>>
Chars == {" ", "a", "'", "\""}
Quotes == {"'", "\""}
Fresh == [quote |-> "none", current |-> <<>>, tokens |-> <<>>, refused |-> FALSE]

(* The shape of every variable.                                            *)
LineTypeOK == /\ line \in Seq(Chars) /\ Len(line) <= MaxLine /\ scan.quote \in Quotes \union {"none"}
              /\ scan.refused \in BOOLEAN /\ parsed \in {"reading", "refused", "none", "one", "many"}

LineInit == line = <<>> /\ scan = Fresh /\ parsed = "reading"
-----------------------------------------------------------------------------
(* One character. Inside a quote nothing is counted.                       *)
isNodeWhitespace(c) == c = " " /\ scan.quote = "none"
Flush(s) == IF s.current = <<>> THEN s ELSE [s EXCEPT !.tokens = Append(@, s.current), !.current = <<>>]
Limited(s) == [s EXCEPT !.refused = Len(s.tokens) > MaxTokens \/ Len(s.current) > MaxBytes]
tokenize(c) ==
  IF isNodeWhitespace(c) THEN Limited(Flush(scan))
  ELSE IF scan.quote # "none"
  THEN IF c = scan.quote THEN [scan EXCEPT !.quote = "none"] ELSE [scan EXCEPT !.current = Append(@, c)]
  ELSE IF c \in Quotes THEN Limited([scan EXCEPT !.quote = c])
  ELSE Limited([scan EXCEPT !.current = Append(@, c)])
Read(c) ==
  /\ parsed = "reading" /\ ~scan.refused /\ Len(line) < MaxLine
  /\ line' = Append(line, c) /\ scan' = tokenize(c)
  /\ parsed' = IF tokenize(c).refused THEN "refused" ELSE parsed
(* The end of the line: an open quote, or one token too many, refuses.     *)
Incomplete(s) == s.quote # "none" \/ Len(s.tokens) > MaxTokens
End ==
  /\ parsed = "reading" /\ ~scan.refused
  /\ LET s == [Flush(scan) EXCEPT !.quote = scan.quote]
     IN /\ scan' = s
        /\ parsed' = IF Incomplete(s) THEN "refused"
                     ELSE IF Len(s.tokens) = 0 THEN "none" ELSE IF Len(s.tokens) = 1 THEN "one" ELSE "many"
  /\ UNCHANGED line

LineNext == End \/ \E c \in Chars : Read(c)
-----------------------------------------------------------------------------
(* The arguments, put together again, are the line without its quotes and  *)
(* the spaces between them: nothing typed inside a quote is lost or split. *)
InQuote(n) ==
  LET step(q, c) == IF q = "none" THEN (IF c \in Quotes THEN c ELSE q) ELSE IF c = q THEN "none" ELSE q
  IN FoldLeft(step, "none", SubSeq(line, 1, n))
Kept == {n \in 1..Len(line) : LET q == InQuote(n - 1) IN
           IF q = "none" THEN line[n] = "a" ELSE line[n] # q}
NothingLost ==
  parsed \in {"none", "one", "many"} =>
    FlattenSeq(scan.tokens) = [i \in 1..Len(SetToSortSeq(Kept, <)) |-> line[SetToSortSeq(Kept, <)[i]]]

(* No accepted line has more arguments than the limit ("a 16-token cap",   *)
(* echo/automation/parser.go:164), wherever the last one ends.             *)
TokensCapped == parsed \in {"none", "one", "many"} => Len(scan.tokens) <= MaxTokens
-----------------------------------------------------------------------------
(***************************************************************************)
(* workspace/interactions: the guided workflows of one member with one bot *)
(* in one conversation (a lane). A workflow is started under the lane's    *)
(* lock and continued or cancelled under its own, while ExpireWorkflows    *)
(* runs under whichever lock its caller has.                               *)
(***************************************************************************)

CONSTANTS Workflows,        \* workflow ids, named after their start's invocation id
          Steps, NoWorkflow,\* calls of Start, Continue and Cancel
          MaxRevision       \* bound

VARIABLES workflow,         \* workspace_workflow_sessions: status and revision
          overdue,          \* workflows whose expires_at has passed
          step,             \* the calls
          advanced, submitted \* ghosts: steps that moved a workflow; steps whose domain effects are committed

workflowVars == <<workflow, overdue, step, advanced, submitted>>
NewStep == [at |-> "new", op |-> "none", of |-> NoWorkflow, revision |-> 0]

(* The shape of every variable.                                            *)
WorkflowsTypeOK ==
  /\ \A w \in Workflows : /\ workflow[w].status \in {"none", "active", "completed", "cancelled", "expired"}
                          /\ workflow[w].revision \in 0..(MaxRevision + 1)
  /\ overdue \subseteq Workflows /\ \A s \in Steps : step[s].at \in {"new", "read", "found", "done"}
  /\ advanced \subseteq Steps /\ submitted \subseteq Steps

WorkflowsInit ==
  /\ workflow = [w \in Workflows |-> [status |-> "none", revision |-> 0]] /\ overdue = {}
  /\ step = [s \in Steps |-> NewStep] /\ advanced = {} /\ submitted = {}
-----------------------------------------------------------------------------
(* The locks: "lane", or a workflow's own.                                 *)
Needs(s) == IF step[s].op = "start" THEN "lane" ELSE step[s].of
Held(key) == \E s \in Steps : step[s].at = "read" /\ step[s].op # "none" /\ Needs(s) = key
LockFree(key) == ~Held(key)
Active == {w \in Workflows : workflow[w].status = "active"}
Expired == {w \in Active : w \in overdue}
ExpireWorkflows == [w \in Workflows |-> IF w \in Expired THEN [status |-> "expired", revision |-> workflow[w].revision + 1]
                                        ELSE workflow[w]]
Goes(s, at, op, w) == step' = [step EXCEPT ![s] = [at |-> at, op |-> op, of |-> w, revision |-> workflow[w].revision]]
Ends(s) == step' = [step EXCEPT ![s].at = "done"]

(* StartWorkflow: what is overdue expires; an invocation seen before is    *)
(* answered with its workflow; an active workflow of the lane refuses.     *)
StartReads(s, w) ==
  /\ step[s].at = "new" /\ LockFree("lane")
  /\ \/ /\ workflow[w].status # "none" \/ Active \ Expired # {}
        /\ workflow' = ExpireWorkflows /\ Goes(s, "done", "start", w)
     \/ /\ workflow[w].status = "none" /\ Active \subseteq Expired
        /\ Goes(s, "read", "start", w) /\ UNCHANGED workflow
  /\ UNCHANGED <<overdue, advanced, submitted>>
(* INSERT ... ON CONFLICT DO NOTHING: unique by invocation and, while it   *)
(* is active, by lane.                                                     *)
InsertWorkflow(w) == workflow[w].status = "none" /\ Active \subseteq Expired
(* definition.Initialize has run when the row is inserted.                 *)
StartWorkflow(s) ==
  LET w == step[s].of IN
  /\ step[s].at = "read" /\ step[s].op = "start" /\ Ends(s)
  /\ \/ /\ InsertWorkflow(w)
        /\ \E status \in {"active", "completed"} :
             workflow' = [ExpireWorkflows EXCEPT ![w] = [status |-> status, revision |-> 1]]
        /\ advanced' = advanced \union {s} /\ submitted' = submitted \union {s}
     \/ /\ ~InsertWorkflow(w) /\ workflow' = ExpireWorkflows
        /\ submitted' = submitted \union {s} /\ UNCHANGED advanced
     \/ workflow' \in {ExpireWorkflows, workflow} /\ UNCHANGED <<advanced, submitted>>   \* refused; or rolled back
  /\ UNCHANGED overdue

InTime(w) == w \notin overdue
ContinueReads(s, w, expected) ==
  /\ step[s].at = "new" /\ LockFree(w) /\ workflow[w].status = "active"
  /\ \/ InTime(w) /\ workflow[w].revision = expected /\ Goes(s, "read", "continue", w) /\ UNCHANGED workflow
     \/ ~InTime(w) /\ workflow' = ExpireWorkflows /\ Goes(s, "done", "continue", w)
  /\ UNCHANGED <<overdue, advanced, submitted>>
(* UPDATE ... WHERE status = 'active' AND revision = $5.                   *)
UpdateWorkflow(s) == workflow[step[s].of].status = "active" /\ workflow[step[s].of].revision = step[s].revision
Moves(s, status) == workflow' = [workflow EXCEPT ![step[s].of] = [status |-> status, revision |-> @.revision + 1]]
(* definition.Continue has run in this transaction when the update misses: *)
(* the conflict is audited and the transaction commits.                    *)
ContinueWorkflow(s) ==
  /\ step[s].at = "read" /\ step[s].op = "continue" /\ Ends(s)
  /\ \/ /\ UpdateWorkflow(s) /\ workflow[step[s].of].revision < MaxRevision
        /\ Moves(s, "completed") /\ submitted' = submitted \union {s} /\ advanced' = advanced \union {s}
     \/ /\ UpdateWorkflow(s) /\ workflow[step[s].of].revision < MaxRevision
        /\ Moves(s, "active") /\ advanced' = advanced \union {s} /\ UNCHANGED submitted
     \/ /\ ~UpdateWorkflow(s) /\ submitted' = submitted \union {s} /\ UNCHANGED <<workflow, advanced>>
     \/ UNCHANGED <<workflow, submitted, advanced>>          \* Continue refuses, or the transaction fails
  /\ UNCHANGED overdue

(* CancelWorkflow without an id: what is overdue expires, and the active   *)
(* one is looked up in transactions of their own.                          *)
CancelFinds(s, w) ==
  /\ step[s].at = "new"
  /\ \/ Expired # {} /\ workflow' = ExpireWorkflows /\ UNCHANGED step
     \/ w \in Active \ Expired /\ Goes(s, "found", "cancel", w) /\ UNCHANGED workflow
  /\ UNCHANGED <<overdue, advanced, submitted>>
CancelReads(s) ==
  LET w == step[s].of IN
  /\ step[s].at = "found" /\ LockFree(w)
  /\ Goes(s, IF workflow[w].status = "active" THEN "read" ELSE "done", "cancel", w)
  /\ UNCHANGED <<workflow, overdue, advanced, submitted>>
CancelWorkflow(s) ==
  /\ step[s].at = "read" /\ step[s].op = "cancel" /\ Ends(s)
  /\ \/ UpdateWorkflow(s) /\ Moves(s, "cancelled") /\ advanced' = advanced \union {s}
     \/ UNCHANGED <<workflow, advanced>>                     \* the conflict, or a refusal
  /\ UNCHANGED <<overdue, submitted>>
TimePasses(w) == /\ w \in Active /\ w \notin overdue /\ overdue' = overdue \union {w}
                 /\ UNCHANGED <<workflow, step, advanced, submitted>>

WorkflowsNext ==
  \/ \E s \in Steps : \/ StartWorkflow(s) \/ ContinueWorkflow(s) \/ CancelReads(s) \/ CancelWorkflow(s)
                      \/ \E w \in Workflows : \/ StartReads(s, w) \/ CancelFinds(s, w)
                                              \/ \E e \in 1..MaxRevision : ContinueReads(s, w, e)
  \/ \E w \in Workflows : TimePasses(w)
-----------------------------------------------------------------------------
(* A start that is refused because of another one leaves nothing of what   *)
(* its initialisation wrote: under the lane's lock the row it is about to  *)
(* insert cannot be taken (StartWorkflow).                                 *)
RefusedStartLeavesNothing == \A s \in submitted : step[s].op = "start" => s \in advanced

(* A workflow that ended is not continued, and never comes back.           *)
EndedIsFinal ==
  [][\A w \in Workflows : workflow[w].status \in {"completed", "cancelled", "expired"} => workflow'[w] = workflow[w]]_workflowVars

=============================================================================
