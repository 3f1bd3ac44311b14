------------------------------ MODULE Processes ------------------------------
(***************************************************************************)
(* cmd/workspace and cmd/worker: one process from its start to its exit.   *)
(* newApplication composes the dependencies one by one, each of which may  *)
(* fail; httpserver.Serve runs until a signal or its own failure; then the *)
(* main goroutine cancels, waits and closes the pool, while handlers, the  *)
(* listener, bot sockets and worker cycles still run. Closing the pool     *)
(* refuses new connections and waits for those in use (pgxpool).           *)
(***************************************************************************)
EXTENDS Naturals, Sequences, FiniteSets

CONSTANTS Modes,              \* [kind, work]: passive is candidate-health-only or validate-only
          Requests, Sockets, Processors

VARIABLES mode,
          main,               \* where the main goroutine is
          pool,               \* "none", "open", "closing", "closed"
          signalled, cancelled,  \* SIGTERM; the context handed to the goroutines
          failedServe,        \* ListenAndServe returned an error
          late,               \* deadlines that passed: "http", "gateway"
          listener,           \* PGListener.Run: "none", "idle", "holds", "ended"
          request,            \* per HTTP request: [at, left]: statements left to do
          socket,             \* per bot socket
          processor           \* per worker processor

lifeVars == <<mode, main, pool, signalled, cancelled, failedServe, late, listener, request, socket, processor>>

Worker == mode.kind = "worker"
Active == mode.work = "active"
Stages == <<"catalogs", "pool", "schema", "services", "runtime">>
Exits == {"exited", "failed"}
NoRequest == [at |-> "none", left |-> 0]

(* The shape of every variable.                                            *)
LifeTypeOK ==
  /\ mode \in Modes /\ pool \in {"none", "open", "closing", "closed"} /\ late \subseteq {"http", "gateway"}
  /\ main \in {"catalogs", "pool", "schema", "services", "runtime", "serving", "draining", "cancel",
                "gateway", "background", "close", "wait"} \union Exits
  /\ listener \in {"none", "idle", "holds", "ended"}
  /\ \A r \in Requests : request[r].at \in {"none", "run", "query", "done", "failed"} /\ request[r].left \in 0..2
  /\ \A s \in Sockets : socket[s] \in {"none", "live", "cleaning", "cleaned", "cut"}
  /\ \A p \in Processors : processor[p] \in {"off", "wait", "check", "work", "ended"}

LifeInit ==
  /\ mode \in Modes /\ main = "catalogs" /\ pool = "none" /\ signalled = FALSE /\ cancelled = FALSE
  /\ failedServe = FALSE /\ late = {} /\ listener = "none" /\ request = [r \in Requests |-> NoRequest]
  /\ socket = [s \in Sockets |-> "none"] /\ processor = [p \in Processors |-> "off"]
-----------------------------------------------------------------------------
Work == <<listener, request, socket, processor>>
(* A stage that fails closes the pool the earlier ones opened and cancels. *)
ClosePool == IF pool = "open" THEN "closed" ELSE pool
StartFails(stage) ==
  /\ main = stage /\ main' = "failed" /\ pool' = ClosePool /\ cancelled' = TRUE
  /\ UNCHANGED <<mode, signalled, failedServe, late, Work>>
LoadCatalogs ==
  /\ main = "catalogs" /\ main' = IF mode.work = "disabled" THEN "services" ELSE "pool"
  /\ UNCHANGED <<mode, pool, signalled, cancelled, failedServe, late, Work>>
OpenPoolFromEnv ==
  /\ main = "pool" /\ main' = "schema" /\ pool' = "open"
  /\ UNCHANGED <<mode, signalled, cancelled, failedServe, late, Work>>
CheckSchema ==
  /\ main = "schema" /\ main' = "services"
  /\ UNCHANGED <<mode, pool, signalled, cancelled, failedServe, late, Work>>
(* The rest of the composition; its last act starts the listener, unless   *)
(* the process only answers health checks. The worker's goroutines are     *)
(* started by run, before it serves.                                       *)
composeServices ==
  /\ main = "services" /\ ~Worker /\ main' = "runtime"
  /\ UNCHANGED <<mode, pool, signalled, cancelled, failedServe, late, Work>>
newWorkspace ==
  /\ main = "runtime" /\ main' = "serving"
  /\ listener' = IF Active THEN "idle" ELSE "none"
  /\ UNCHANGED <<mode, pool, signalled, cancelled, failedServe, late, request, socket, processor>>
newWorker ==
  /\ main = "services" /\ Worker /\ main' = "serving"
  /\ processor' = [p \in Processors |-> IF Active THEN "wait" ELSE "off"]
  /\ UNCHANGED <<mode, pool, signalled, cancelled, failedServe, late, listener, request, socket>>
-----------------------------------------------------------------------------
Accepting == main = "serving"
CanAcquire == pool = "open"
Arrive(r, left) ==
  /\ Accepting /\ request[r] = NoRequest /\ (pool = "none" => left = 0) /\ request' = [request EXCEPT ![r] = [at |-> "run", left |-> left]]
  /\ UNCHANGED <<mode, main, pool, signalled, cancelled, failedServe, late, listener, socket, processor>>
Acquire(r) ==
  /\ request[r].at = "run" /\ request[r].left > 0
  /\ request' = [request EXCEPT ![r].at = IF CanAcquire THEN "query" ELSE "failed"]
  /\ UNCHANGED <<mode, main, pool, signalled, cancelled, failedServe, late, listener, socket, processor>>
Release(r) ==
  /\ request[r].at = "query" /\ request' = [request EXCEPT ![r] = [at |-> "run", left |-> @.left - 1]]
  /\ UNCHANGED <<mode, main, pool, signalled, cancelled, failedServe, late, listener, socket, processor>>
Respond(r) ==
  /\ request[r].at = "run" /\ request[r].left = 0 /\ request' = [request EXCEPT ![r].at = "done"]
  /\ UNCHANGED <<mode, main, pool, signalled, cancelled, failedServe, late, listener, socket, processor>>

(* PGListener.Run: it holds a connection while it listens, and comes back  *)
(* after a failure until the context ends.                                 *)
Listen ==
  /\ listener = "idle" /\ ~cancelled /\ CanAcquire /\ listener' = "holds"
  /\ UNCHANGED <<mode, main, pool, signalled, cancelled, failedServe, late, request, socket, processor>>
ConnectionLost ==
  /\ listener = "holds" /\ ~cancelled /\ listener' = "idle"
  /\ UNCHANGED <<mode, main, pool, signalled, cancelled, failedServe, late, request, socket, processor>>
ListenerEnds ==
  /\ listener \in {"idle", "holds"} /\ cancelled /\ listener' = "ended"
  /\ UNCHANGED <<mode, main, pool, signalled, cancelled, failedServe, late, request, socket, processor>>

(* A hijacked socket is out of the server's sight; it is admitted until    *)
(* the gateway's Shutdown, and cleans its durable row up when it ends.     *)
Admission == main \in {"serving", "draining", "cancel"}
SocketOpens(s) ==
  /\ Admission /\ ~Worker /\ Active /\ socket[s] = "none"
  /\ socket' = [socket EXCEPT ![s] = "live"]
  /\ UNCHANGED <<mode, main, pool, signalled, cancelled, failedServe, late, listener, request, processor>>
SocketEnds(s) ==
  /\ socket[s] = "live" /\ socket' = [socket EXCEPT ![s] = "cleaning"]
  /\ UNCHANGED <<mode, main, pool, signalled, cancelled, failedServe, late, listener, request, processor>>
SocketCleans(s) ==
  /\ socket[s] = "cleaning" /\ socket' = [socket EXCEPT ![s] = IF CanAcquire THEN "cleaned" ELSE "cut"]
  /\ UNCHANGED <<mode, main, pool, signalled, cancelled, failedServe, late, listener, request, processor>>
-----------------------------------------------------------------------------
(* The worker's loops: a timer, the schema check of every tick, the cycle. *)
tick(p) ==
  /\ processor[p] = "wait" /\ ~cancelled /\ processor' = [processor EXCEPT ![p] = "check"]
  /\ UNCHANGED <<mode, main, pool, signalled, cancelled, failedServe, late, listener, request, socket>>
schemaReady(p) ==
  /\ processor[p] = "check"
  /\ \E ready \in BOOLEAN : processor' = [processor EXCEPT ![p] = IF ready /\ CanAcquire THEN "work" ELSE "wait"]
  /\ UNCHANGED <<mode, main, pool, signalled, cancelled, failedServe, late, listener, request, socket>>
CycleEnds(p) ==
  /\ processor[p] = "work" /\ processor' = [processor EXCEPT ![p] = "wait"]
  /\ UNCHANGED <<mode, main, pool, signalled, cancelled, failedServe, late, listener, request, socket>>
runProcessor(p) ==
  /\ processor[p] = "wait" /\ cancelled /\ processor' = [processor EXCEPT ![p] = "ended"]
  /\ UNCHANGED <<mode, main, pool, signalled, cancelled, failedServe, late, listener, request, socket>>
-----------------------------------------------------------------------------
(* A signal during the start fails whatever stage uses the context next;   *)
(* afterwards it cancels every goroutine at once.                          *)
Signal ==
  /\ ~signalled /\ main = "serving" /\ signalled' = TRUE /\ cancelled' = TRUE
  /\ UNCHANGED <<mode, main, pool, failedServe, late, Work>>
ServerFails ==
  /\ main = "serving" /\ ~signalled /\ failedServe' = TRUE /\ main' = "cancel"
  /\ UNCHANGED <<mode, pool, signalled, cancelled, late, Work>>
Running == {r \in Requests : request[r].at \in {"run", "query"}}
ServeShutdown ==
  /\ main = "serving" /\ signalled /\ main' = "draining"
  /\ UNCHANGED <<mode, pool, signalled, cancelled, failedServe, late, Work>>
(* server.Shutdown waits for the handlers, or for its deadline.            *)
Drained == Running = {}
Serve ==
  /\ main = "draining" /\ Drained /\ main' = "cancel"
  /\ UNCHANGED <<mode, pool, signalled, cancelled, failedServe, late, Work>>
ServeTimesOut ==
  /\ main = "draining" /\ Running # {} /\ late' = late \union {"http"} /\ main' = "cancel"
  /\ failedServe' = TRUE
  /\ UNCHANGED <<mode, pool, signalled, cancelled, Work>>
KeepContext == cancelled
Cancel == TRUE
(* app.Close, or the end of the worker's main.                             *)
CancelAll ==
  /\ main = "cancel" /\ cancelled' = Cancel /\ main' = IF Worker THEN "background" ELSE "gateway"
  /\ UNCHANGED <<mode, pool, signalled, failedServe, late, Work>>
Open == {s \in Sockets : socket[s] \in {"live", "cleaning"}}
GatewayDone == Open = {}
shutdownBotGateway ==
  /\ main = "gateway" /\ GatewayDone /\ main' = "background"
  /\ UNCHANGED <<mode, pool, signalled, cancelled, failedServe, late, Work>>
GatewayTimesOut ==
  /\ main = "gateway" /\ Open # {} /\ late' = late \union {"gateway"} /\ main' = "background"
  /\ UNCHANGED <<mode, pool, signalled, cancelled, failedServe, Work>>
(* backgroundDone and workerDone are waited for without a deadline.        *)
BackgroundDone == listener \in {"none", "ended"} /\ \A p \in Processors : processor[p] \in {"off", "ended"}
Close ==
  /\ main = "background" /\ BackgroundDone /\ main' = "close"
  /\ UNCHANGED <<mode, pool, signalled, cancelled, failedServe, late, Work>>
(* There is no pool, or os.Exit skips the worker's deferred Close.         *)
PoolCloses ==
  /\ main = "close"
  /\ IF pool = "none" \/ (Worker /\ failedServe) THEN main' = "exited" /\ UNCHANGED pool ELSE main' = "wait" /\ pool' = "closing"
  /\ UNCHANGED <<mode, signalled, cancelled, failedServe, late, Work>>
InUse == \/ listener = "holds" \/ \E r \in Requests : request[r].at = "query"
         \/ \E p \in Processors : processor[p] = "work"
PoolClosed ==
  /\ main = "wait" /\ ~InUse /\ pool' = "closed" /\ main' = "exited"
  /\ UNCHANGED <<mode, signalled, cancelled, failedServe, late, Work>>
-----------------------------------------------------------------------------
MainStep == \/ LoadCatalogs \/ OpenPoolFromEnv \/ CheckSchema \/ composeServices \/ newWorkspace \/ newWorker
            \/ ServeShutdown \/ Serve \/ ServeTimesOut \/ CancelAll \/ shutdownBotGateway \/ GatewayTimesOut
            \/ Close \/ PoolCloses \/ PoolClosed
RequestStep(r) == Acquire(r) \/ Release(r) \/ Respond(r)
SocketStep(s) == (cancelled /\ SocketEnds(s)) \/ SocketCleans(s)
ProcessorStep(p) == schemaReady(p) \/ CycleEnds(p) \/ runProcessor(p)
LifeNext ==
  \/ main \notin Exits /\ \/ MainStep \/ Signal \/ ServerFails
                          \/ \E i \in 1..Len(Stages) : StartFails(Stages[i])
                          \/ \E r \in Requests : RequestStep(r) \/ \E left \in 0..2 : Arrive(r, left)
                          \/ Listen \/ ConnectionLost \/ ListenerEnds
                          \/ \E s \in Sockets : SocketOpens(s) \/ SocketEnds(s) \/ SocketCleans(s)
                          \/ \E p \in Processors : tick(p) \/ ProcessorStep(p)
-----------------------------------------------------------------------------
(* What needs the database is over before the pool closes: the listener    *)
(* and the worker's cycles always, the cleanup of bot sockets unless its   *)
(* deadline passed ("Their nonce-scoped durable cleanup must finish while  *)
(* the pool remains open", cmd/workspace/main.go:101).                     *)
PoolOutlivesWork ==
  /\ pool \in {"closing", "closed"} =>
       listener \in {"none", "ended"} /\ \A p \in Processors : processor[p] \in {"off", "ended"}
  /\ \A s \in Sockets : socket[s] = "cut" => "gateway" \in late

(* A request the server took is served with the pool open, from its first  *)
(* statement to its last, unless it outlived the server's deadline or the  *)
(* server had failed.                                                      *)
RequestsNotCut == \A r \in Requests : request[r].at = "failed" => "http" \in late \/ failedServe

(* A start that fails leaves nothing open behind, whichever dependency it  *)
(* was and whatever it had composed before.                                *)
FailedStartClean == main = "failed" => pool \in {"none", "closed"} /\ cancelled /\ listener = "none"

-----------------------------------------------------------------------------
(***************************************************************************)
(* Schema migrations (platform/migrations).  Processes of different        *)
(* releases start against one database: a runner applies the files it      *)
(* carries as one transaction under an advisory lock, a server checks the  *)
(* schema without the lock before it serves.                               *)
(*                                                                         *)
(* Migrations are numbered; the directory of a release holds 1..n.  The    *)
(* reviewed exceptions let the baseline release serve on a schema with the *)
(* first reviewed migration, and the release after it on one with the      *)
(* second.                                                                 *)
(***************************************************************************)

CONSTANTS Processes, NoProcess,
          Baseline,       \* number of the last migration of the baseline release
          Latest,         \* number of the newest migration: at most Baseline + 2
          MaxFailures     \* bound on failing statements and crashes

VARIABLES history,   \* schema_migrations, in the order of the inserts
          schema,    \* how often each migration's statements have taken effect
          holder,    \* the transaction that holds the advisory lock
          proc,      \* the processes
          failures

vars == <<history, schema, holder, proc, failures>>

Numbers == 1 .. Latest
Releases == Baseline .. Latest
SetOf(s) == {s[i] : i \in DOMAIN s}
Fresh == [pc |-> "off", release |-> Baseline, applied |-> {}, batch |-> << >>, seen |-> {}]

MigrationsInit == /\ history = [i \in 1 .. Baseline |-> i]
        /\ schema = [n \in Numbers |-> IF n <= Baseline THEN 1 ELSE 0]
        /\ holder = NoProcess
        /\ proc = [p \in Processes |-> Fresh]
        /\ failures = 0

Become(p, s) == proc' = [proc EXCEPT ![p] = s]
Files(p) == 1 .. proc[p].release

\* Discover reads the directory before the transaction begins.
Discover(p, b) == /\ proc[p].pc = "off"
                  /\ \/ Become(p, [Fresh EXCEPT !.pc = "begin", !.release = b])
                     \/ Become(p, [Fresh EXCEPT !.pc = "check", !.release = b])
                  /\ UNCHANGED <<history, schema, holder, failures>>

AdvisoryLock(p) ==
  /\ proc[p].pc = "begin" /\ holder = NoProcess
  /\ holder' = p
  /\ Become(p, [proc[p] EXCEPT !.pc = "read"])
  /\ UNCHANGED <<history, schema, failures>>

readApplied(p) == /\ proc[p].pc = "read"
                  /\ Become(p, [proc[p] EXCEPT !.pc = "validate", !.applied = SetOf(history)])
                  /\ UNCHANGED <<history, schema, holder, failures>>

\* Rolled back: nothing of the batch has happened.
Abort(p) == Become(p, Fresh) /\ holder' = IF holder = p THEN NoProcess ELSE holder

KnownPrefix(applied, files) ==
  applied \subseteq files /\ \A n \in applied, m \in files \ applied : n < m
validateHistory(p) ==
  /\ proc[p].pc = "validate"
  /\ IF KnownPrefix(proc[p].applied, Files(p))
       THEN Become(p, [proc[p] EXCEPT !.pc = "apply"]) /\ UNCHANGED holder
       ELSE Abort(p)
  /\ UNCHANGED <<history, schema, failures>>

Pending(p) == Files(p) \ (proc[p].applied \cup SetOf(proc[p].batch))
NextFile(p) == CHOOSE m \in Pending(p) : \A k \in Pending(p) : m <= k
Apply(p) == /\ proc[p].pc = "apply" /\ Pending(p) # {}
            /\ Become(p, [proc[p] EXCEPT !.batch = Append(@, NextFile(p))])
            /\ UNCHANGED <<history, schema, holder, failures>>
\* The primary key of schema_migrations refuses a batch recorded meanwhile.
Commit(p) == /\ proc[p].pc = "apply" /\ Pending(p) = {}
             /\ IF SetOf(proc[p].batch) \cap SetOf(history) = {}
                  THEN /\ history' = history \o proc[p].batch
                       /\ schema' = [n \in Numbers |-> IF n \in SetOf(proc[p].batch) THEN schema[n] + 1
                                                                                      ELSE schema[n]]
                  ELSE UNCHANGED <<history, schema>>
             /\ Abort(p)
             /\ UNCHANGED failures
\* A statement fails, or the process dies and PostgreSQL rolls back.
Fails(p) == /\ proc[p].pc # "off" /\ failures < MaxFailures /\ failures' = failures + 1
            /\ Abort(p)
            /\ UNCHANGED <<history, schema>>
-----------------------------------------------------------------------------
\* The exception of exactly the release before it.
allowsAfter(required, n) == n = required + 1 /\ n \in {Baseline + 1, Baseline + 2}

\* The history is read, then the columns of the reviewed migrations: two
\* statements between which a batch may commit.
CheckReads(p) == /\ proc[p].pc = "check"
                 /\ Become(p, [proc[p] EXCEPT !.pc = "inspect", !.seen = SetOf(history)])
                 /\ UNCHANGED <<history, schema, holder, failures>>
Compatible(p) == /\ Files(p) \subseteq proc[p].seen
                 /\ \A n \in proc[p].seen \ Files(p) : allowsAfter(proc[p].release, n)
inspectCompatibleMigrationSchema(p) ==
  \A n \in proc[p].seen \cap {Baseline + 1, Baseline + 2} : schema[n] = 1
Check(p) == /\ proc[p].pc = "inspect"
            /\ Become(p, IF Compatible(p) /\ inspectCompatibleMigrationSchema(p)
                           THEN [proc[p] EXCEPT !.pc = "serving"] ELSE Fresh)
            /\ UNCHANGED <<history, schema, holder, failures>>
Stops(p) == /\ proc[p].pc = "serving" /\ Become(p, Fresh)
            /\ UNCHANGED <<history, schema, holder, failures>>

MigrationsNext ==
  \E p \in Processes :
    \/ \E b \in Releases : Discover(p, b)
    \/ AdvisoryLock(p) \/ readApplied(p) \/ validateHistory(p) \/ Apply(p) \/ Commit(p) \/ Fails(p)
    \/ CheckReads(p) \/ Check(p) \/ Stops(p)
-----------------------------------------------------------------------------
MigrationsTypeOK == /\ SetOf(history) \subseteq Numbers
                    /\ holder \in Processes \cup {NoProcess}
                    /\ \A p \in Processes : proc[p].applied \subseteq Numbers

\* Whatever releases start together and whatever fails, every migration takes
\* effect once, in order, and the history says exactly which have.
AppliedOnce ==
  /\ \A i \in DOMAIN history : history[i] = i
  /\ \A n \in Numbers : schema[n] = IF n \in SetOf(history) THEN 1 ELSE 0

\* A process that serves found every migration it needs, and none newer than
\* the one its release was reviewed for.
ServesOnReviewedSchema ==
  \A p \in Processes : proc[p].pc = "serving" =>
    /\ Files(p) \subseteq SetOf(history)
    /\ proc[p].seen \subseteq 1 .. (proc[p].release + 1)
=============================================================================
