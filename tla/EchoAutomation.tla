--------------------------- MODULE EchoAutomation ---------------------------
(***************************************************************************)
(* workspace/echo/automation: what Echo's commands and guided workflows do *)
(* inside the transaction of the interaction that runs them. The work of   *)
(* several domains happens behind one savepoint. A domain's rejection is   *)
(* rolled back to it and only its evidence is kept; any infrastructure     *)
(* failure, also one joined to a rejection, undoes the whole transaction.  *)
(* An error is the set of its leaves.                                      *)
(***************************************************************************)
EXTENDS Naturals, Sequences

CONSTANTS Calls,            \* requests of clients, retries included
          Keys              \* client invocation ids, and workflow ids with their revision

VARIABLES db,               \* committed rows: <<kind, key>>
          run,              \* per key: "none", "failed" or "done": the command run, or the workflow's status
          evidence,         \* committed audit rows: <<call, result>>
          call              \* the transactions

automationVars == <<db, run, evidence, call>>

(* What each handler writes, one set per domain operation it calls; the    *)
(* control around them is the same in all five.                            *)
continuePublishWorkflow(key) == <<{<<"draft", key>>}, {<<"published", key>>}>>
continueRequirementWorkflow(key) == <<{<<"requirement", key>>}>>
releaseCommand(key) == <<{<<"release", key>>}>>
transitionRequirementCommand(key) == <<{<<"moved", key>>}>>
CancelWorkflowInTx(key) == {<<"cancelled", key>>}
cancelCommand(key) == <<CancelWorkflowInTx(key)>>
commandDefinitions == [publish |-> "owner", need |-> "nonAuditor", release |-> "owner", transition |-> "owner", cancel |-> "anyone"]
Operations == DOMAIN commandDefinitions
Guided == {"publish", "need"}          \* done by confirming a workflow; the others are commands
Writes(op, key) ==
  CASE op = "publish" -> continuePublishWorkflow(key)
    [] op = "need" -> continueRequirementWorkflow(key)
    [] op = "release" -> releaseCommand(key)
    [] op = "transition" -> transitionRequirementCommand(key)
    [] op = "cancel" -> cancelCommand(key)
Authorized(op, role) == CASE commandDefinitions[op] = "owner" -> role = "owner"
                          [] commandDefinitions[op] = "nonAuditor" -> role # "auditor"
                          [] OTHER -> TRUE
Leaves == {"rejection", "invalid", "server", "driver"}
NewCall == [pc |-> "new", op |-> "publish", key |-> "none", step |-> 1, writes |-> {}, saved |-> {},
            audit |-> {}, err |-> {}, rejection |-> FALSE, trouble |-> FALSE, answer |-> "none"]

(* The shape of every variable.                                            *)
AutomationTypeOK ==
  /\ \A w \in db : w[2] \in Keys
  /\ \A k \in Keys : run[k] \in {"none", "failed", "done"}
  /\ evidence \subseteq Calls \X {"echo", "refused", "success"}
  /\ \A c \in Calls : /\ call[c].pc \in {"new", "begun", "saved", "undo", "judge", "finish", "over"}
                      /\ call[c].err \subseteq Leaves \union {"savepoint"}
                      /\ call[c].answer \in {"none", "ok", "refused", "unavailable"}

AutomationInit == /\ db = {} /\ run = [k \in Keys |-> "none"] /\ evidence = {} /\ call = [c \in Calls |-> NewCall]
-----------------------------------------------------------------------------
(* The invocation's or the workflow's lock is held from begin to end.      *)
Locked(k) == \E c \in Calls : call[c].key = k /\ call[c].pc \notin {"new", "over"}
SameOperation(k, op) == \A c \in Calls : call[c].key = k => call[c].op = op
Begin(c, op, k, role) ==
  /\ call[c].pc = "new" /\ ~Locked(k) /\ SameOperation(k, op)
  /\ LET new == [NewCall EXCEPT !.op = op, !.key = k]
     IN call' = [call EXCEPT ![c] =
          IF run[k] # "none" THEN [new EXCEPT !.pc = "over", !.answer = IF run[k] = "done" THEN "ok" ELSE "refused"]
          ELSE IF ~Authorized(op, role) THEN [new EXCEPT !.pc = "finish", !.err = {"invalid"}]
          ELSE [new EXCEPT !.pc = "begun"]]
  /\ UNCHANGED <<db, run, evidence>>
(* SAVEPOINT, or its failure, which is infrastructure.                     *)
OpenSavepoint(c) ==
  /\ call[c].pc = "begun"
  /\ \/ call' = [call EXCEPT ![c].pc = "saved", ![c].saved = call[c].writes]
     \/ call' = [call EXCEPT ![c].pc = "judge", ![c].err = {"savepoint"}, ![c].trouble = TRUE]
  /\ UNCHANGED <<db, run, evidence>>
(* One domain operation inside: a publication is two. It writes, or fails  *)
(* with one or several errors joined, after having written or not.         *)
Fails(c, leaves, w) == call' = [call EXCEPT ![c].pc = "undo", ![c].err = leaves, ![c].writes = @ \union w,
                                            ![c].trouble = leaves \intersect {"server", "driver"} # {}]
DomainStep(c) ==
  LET steps == Writes(call[c].op, call[c].key)
      w == steps[call[c].step]
  IN /\ call[c].pc = "saved"
     /\ \/ /\ call[c].step < Len(steps)
           /\ call' = [call EXCEPT ![c].writes = @ \union w, ![c].step = @ + 1]
        \/ /\ call[c].step = Len(steps)
           /\ call' = [call EXCEPT ![c].writes = @ \union w, ![c].pc = "finish"]
        \/ \E leaves \in (SUBSET Leaves) \ {{}} : \E done \in {{}, w} : Fails(c, leaves, done)
     /\ UNCHANGED <<db, run, evidence>>
(* ROLLBACK TO SAVEPOINT and RELEASE: the error is passed on unchanged, or *)
(* joined with the failure of the cleanup.                                 *)
RollbackTo(c) == call[c].saved
WithEchoSavepoint(c) ==
  /\ call[c].pc = "undo"
  /\ \/ call' = [call EXCEPT ![c].pc = "judge", ![c].writes = RollbackTo(c)]
     \/ call' = [call EXCEPT ![c].pc = "judge", ![c].err = @ \union {"savepoint"}, ![c].trouble = TRUE]
  /\ UNCHANGED <<db, run, evidence>>
(* Infrastructure has precedence over every expected error joined to it.   *)
hasInfrastructureLeaf(leaves) == leaves \intersect {"server", "driver", "savepoint"} # {}
asRejection(leaves) == ~hasInfrastructureLeaf(leaves) /\ "rejection" \in leaves
(* A rejection is witnessed outside the savepoint; the write may fail too. *)
preserveRejection(c) == IF asRejection(call[c].err) THEN {<<c, "echo">>} ELSE {}
(* What is not infrastructure becomes a plain refusal of the interaction.  *)
publicDomainError(c) ==
  /\ call[c].pc = "judge"
  /\ \/ call' = [call EXCEPT ![c].pc = "finish", ![c].audit = preserveRejection(c),
                             ![c].rejection = asRejection(call[c].err),
                             ![c].err = IF hasInfrastructureLeaf(@) THEN @ ELSE {"invalid"}]
     \/ asRejection(call[c].err) /\ call' = [call EXCEPT ![c].pc = "finish", ![c].err = @ \union {"driver"},
                                                         ![c].trouble = TRUE]
  /\ UNCHANGED <<db, run, evidence>>
(* The interaction's own reading of the error it is left with.             *)
classifyFailure(leaves) == leaves \intersect {"server", "driver", "savepoint"} # {}
Over(c, answer) == call' = [call EXCEPT ![c].pc = "over", ![c].answer = answer]
(* The interaction ends: committed with its success, or with the refusal   *)
(* recorded on the run, or rolled back; the commit itself may fail.        *)
CompleteRun(c) ==
  /\ call[c].pc = "finish" /\ call[c].err = {} /\ Over(c, "ok")
  /\ db' = db \union call[c].writes /\ run' = [run EXCEPT ![call[c].key] = "done"]
  /\ evidence' = evidence \union {<<c, "success">>}
failCommand(c) ==
  /\ call[c].pc = "finish" /\ call[c].err # {} /\ ~classifyFailure(call[c].err) /\ Over(c, "refused")
  /\ db' = db \union call[c].writes
  /\ run' = IF call[c].op \in Guided THEN run ELSE [run EXCEPT ![call[c].key] = "failed"]
  /\ evidence' = evidence \union call[c].audit \union {<<c, "refused">>}
Rollback(c) == call[c].pc = "finish" /\ Over(c, "unavailable") /\ UNCHANGED <<db, run, evidence>>

AutomationNext ==
  \E c \in Calls : \/ OpenSavepoint(c) \/ DomainStep(c) \/ WithEchoSavepoint(c) \/ publicDomainError(c)
                   \/ CompleteRun(c) \/ failCommand(c) \/ Rollback(c)
                   \/ \E k \in Keys, op \in Operations, role \in {"owner", "member", "auditor"} : Begin(c, op, k, role)
-----------------------------------------------------------------------------
(* A refused command or step leaves no business row behind, whichever of   *)
(* its domain operations had already written (WithEchoSavepoint).          *)
RefusalLeavesNoRows ==
  \A c \in Calls : call[c].answer = "refused" /\ call[c].err # {} =>
    call[c].writes = {} /\ \A w \in db : w[2] = call[c].key => \E d \in Calls \ {c} : call[d].key = w[2] /\ call[d].answer = "ok"

(* The rejection of a domain survives the rollback to the savepoint as     *)
(* evidence, and nothing else does.                                        *)
RejectionWitnessed ==
  \A c \in Calls : call[c].answer = "refused" /\ call[c].rejection => <<c, "echo">> \in evidence

(* A call that met an infrastructure failure commits nothing, not even     *)
(* that it failed: its invocation id can be tried again ("errors.Join(4xx, *)
(* infra) cannot be mistaken for a commit-safe rejection",                 *)
(* interactions/errors.go:96).                                             *)
TroubleIsNoRefusal == \A c \in Calls : call[c].trouble => call[c].answer \in {"none", "unavailable"}
=============================================================================
