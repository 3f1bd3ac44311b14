------------------------------ MODULE BlobStore ------------------------------
(***************************************************************************)
(* One content-addressed object in the hybrid store (platform/storage): S3 *)
(* is the source of truth, a local directory may mirror writes and serve   *)
(* what S3 says is missing.                                                *)
(*                                                                         *)
(* Calls of several requests interleave at every provider and file-system  *)
(* call.  Put and Delete of one object are made under the object's lock by *)
(* the files, avatars and emotes services; Open takes no lock.  Either     *)
(* copy may be damaged at rest: its size and metadata stay, its bytes do   *)
(* not match the digest.  Damage between the validation and the opening of *)
(* a local file is left out.                                               *)
(***************************************************************************)
EXTENDS Naturals, FiniteSets

CONSTANTS Calls,
          MaxMishaps,   \* bound on failing provider and file calls, crashes and damage
          MaxOps        \* bound on the calls ever made

VARIABLES flags,     \* LocalMirrorWrite and LocalReadFallback
          s3, local, \* the copies: none, good or bad
          temps,     \* temporary files left by a crash
          call,
          promise,   \* what the last Put or Delete told its caller
          mishaps, ops

blobVars == <<flags, s3, local, temps, call, promise, mishaps, ops>>

Unset == [set |-> FALSE, mirror |-> FALSE, fallback |-> FALSE]
Free == [op |-> "idle", pc |-> "idle", failed |-> FALSE, got |-> "none"]
localEnabled == flags.mirror \/ flags.fallback

BlobInit == /\ flags = Unset
            /\ s3 = "none" /\ local = "none"
            /\ temps = 0
            /\ call = [c \in Calls |-> Free]
            /\ promise = "nothing"
            /\ mishaps = 0 /\ ops = 0

NewHybridBlobStore(m, f) ==
  /\ ~flags.set
  /\ flags' = [set |-> TRUE, mirror |-> m, fallback |-> f]
  /\ UNCHANGED <<s3, local, temps, call, promise, mishaps, ops>>
-----------------------------------------------------------------------------
Mishap == mishaps < MaxMishaps /\ mishaps' = mishaps + 1
Fine == UNCHANGED mishaps
At(c, op, pc) == call[c].op = op /\ call[c].pc = pc
Go(c, pc) == call' = [call EXCEPT ![c].pc = pc]
Fails(c, pc) == call' = [call EXCEPT ![c].pc = pc, ![c].failed = TRUE]
Still == UNCHANGED <<flags, temps, promise, ops>>

LockFree == \A c \in Calls : call[c].op \notin {"put", "delete"}

Begin(c, op, pc) ==
  /\ flags.set /\ call[c] = Free /\ ops < MaxOps
  /\ op # "open" => LockFree
  /\ ops' = ops + 1
  /\ call' = [call EXCEPT ![c] = [Free EXCEPT !.op = op, !.pc = pc]]
  \* A Put of what is stored leaves it stored, whether it succeeds or not.
  /\ promise' = IF op = "open" \/ (op = "put" /\ promise = "stored") THEN promise ELSE "nothing"
  /\ Fine /\ UNCHANGED <<flags, s3, local, temps>>

\* The answer to the caller.
Return(c) ==
  /\ call[c].pc = "return"
  /\ call' = [call EXCEPT ![c] = Free]
  /\ promise' = CASE call[c].op = "put" /\ ~call[c].failed -> "stored"
                  [] call[c].op = "delete" /\ ~call[c].failed -> "deleted"
                  [] OTHER -> promise
  /\ Fine /\ UNCHANGED <<flags, s3, local, temps, ops>>
-----------------------------------------------------------------------------
\* S3BlobStore.Put: HEAD, a conditional PUT of the staged and verified bytes,
\* HEAD again; the mirror follows.
AfterPrimary == IF flags.mirror THEN "mirror" ELSE "return"

PutHead(c) ==
  /\ At(c, "put", "head")
  /\ \/ s3 = "none" /\ Go(c, "send") /\ Fine
     \/ s3 # "none" /\ Go(c, AfterPrimary) /\ Fine
     \/ Mishap /\ Fails(c, "return")
  /\ UNCHANGED <<s3, local>> /\ Still

\* A failing PUT may have been carried out; one the client library repeats
\* after a lost answer is refused as a conflict with itself.
PutSend(c) ==
  /\ At(c, "put", "send")
  /\ \/ s3' = "good" /\ Go(c, "verify") /\ Fine
     \/ s3' \in {s3, "good"} /\ Go(c, "resolve") /\ Mishap
     \/ s3' \in {s3, "good"} /\ Fails(c, "return") /\ Mishap
  /\ UNCHANGED local /\ Still

resolveConditionalPut(c) ==
  /\ At(c, "put", "resolve")
  /\ \/ s3 # "none" /\ Go(c, AfterPrimary) /\ Fine
     \/ s3 = "none" /\ Fails(c, "return") /\ Fine
     \/ Mishap /\ Fails(c, "return")
  /\ UNCHANGED <<s3, local>> /\ Still

\* Under the lock the HEAD finds what was just put, or fails.
PutVerify(c) ==
  /\ At(c, "put", "verify")
  /\ \/ s3 # "none" /\ Go(c, AfterPrimary) /\ Fine
     \/ Mishap /\ Fails(c, "undo")
  /\ UNCHANGED <<s3, local>> /\ Still

cleanupAfterPutError(c) ==
  /\ At(c, "put", "undo")
  /\ \/ s3' = "none" /\ Fine
     \/ UNCHANGED s3 /\ Mishap
  /\ Go(c, "return")
  /\ UNCHANGED local /\ Still

\* HybridBlobStore.Put reopens the primary and copies it; the local store
\* hashes what it writes and compares it before the rename.
MirrorOpen(c) ==
  /\ At(c, "put", "mirror")
  /\ \/ s3 # "none" /\ call' = [call EXCEPT ![c].pc = "local_put", ![c].got = s3] /\ Fine
     \/ Mishap /\ Fails(c, "return")
  /\ UNCHANGED <<s3, local>> /\ Still
\* A mirror that cannot be written leaves the primary alone.
KeepPrimary(c) == Fails(c, "return")
MirrorWrite(c) ==
  /\ At(c, "put", "local_put")
  /\ \/ local = "good" /\ Go(c, "return") /\ Fine
     \/ local = "bad" /\ KeepPrimary(c) /\ Fine
     \/ local = "none" /\ call[c].got = "good" /\ Go(c, "rename") /\ Fine
     \/ local = "none" /\ call[c].got = "bad" /\ KeepPrimary(c) /\ Fine
     \/ Mishap /\ KeepPrimary(c)
  /\ UNCHANGED <<s3, local>> /\ Still
MirrorRename(c) ==
  /\ At(c, "put", "rename")
  /\ \/ local' = call[c].got /\ Go(c, "return") /\ Fine
     \/ UNCHANGED local /\ Fails(c, "return") /\ Mishap
  /\ UNCHANGED s3 /\ Still
-----------------------------------------------------------------------------
\* The verified reader fails at the end of bytes that do not match.
s3Verified(v) == v = "good"
validateFile(v) == v = "good"

Missing(c) == IF flags.fallback THEN Go(c, "local_open") ELSE Fails(c, "return")
OpenHead(c) ==
  /\ At(c, "open", "head")
  /\ \/ s3 # "none" /\ Go(c, "get") /\ Fine
     \/ s3 = "none" /\ Missing(c) /\ Fine
     \/ Mishap /\ Fails(c, "return")
  /\ UNCHANGED <<s3, local>> /\ Still
OpenGet(c) ==
  /\ At(c, "open", "get")
  /\ \/ s3 = "none" /\ Missing(c) /\ Fine
     \/ /\ s3 # "none" /\ Fine
        /\ IF s3Verified(s3) THEN call' = [call EXCEPT ![c].pc = "return", ![c].got = s3]
                             ELSE Fails(c, "return")
     \/ Mishap /\ Fails(c, "return")
  /\ UNCHANGED <<s3, local>> /\ Still
\* The file is hashed, then opened: it may have gone in between.
LocalValidate(c) ==
  /\ At(c, "open", "local_open")
  /\ IF local # "none" /\ validateFile(local) THEN Go(c, "read") ELSE Fails(c, "return")
  /\ Fine /\ UNCHANGED <<s3, local>> /\ Still
LocalRead(c) ==
  /\ At(c, "open", "read")
  /\ IF local = "none" THEN Fails(c, "return")
     ELSE call' = [call EXCEPT ![c].pc = "return", ![c].got = local]
  /\ Fine /\ UNCHANGED <<s3, local>> /\ Still
-----------------------------------------------------------------------------
\* Delete tries every enabled endpoint and reports any failure.
mergeStorageErrors(first, second) == first \/ second
DeletePrimary(c) ==
  LET next(failed) == call' = [call EXCEPT ![c].pc = IF localEnabled THEN "local" ELSE "return",
                                           ![c].failed = failed]
  IN /\ At(c, "delete", "primary")
     /\ \/ s3' = "none" /\ next(FALSE) /\ Fine
        \/ s3' \in {s3, "none"} /\ next(TRUE) /\ Mishap
     /\ UNCHANGED local /\ Still
DeleteLocal(c) ==
  LET next(failed) == call' = [call EXCEPT ![c].pc = "return",
                                           ![c].failed = mergeStorageErrors(@, failed)]
  IN /\ At(c, "delete", "local")
     /\ \/ local' = "none" /\ next(FALSE) /\ Fine
        \/ UNCHANGED local /\ next(TRUE) /\ Mishap
     /\ UNCHANGED s3 /\ Still

\* A crash of the caller leaves the temporary file of a Put behind.
Crash(c) ==
  /\ call[c] # Free /\ Mishap
  /\ temps' = IF call[c].pc = "rename" THEN temps + 1 ELSE temps
  /\ call' = [call EXCEPT ![c] = Free]
  /\ UNCHANGED <<flags, s3, local, promise, ops>>
Damage ==
  /\ Mishap
  /\ \/ s3 = "good" /\ s3' = "bad" /\ UNCHANGED local
     \/ local = "good" /\ local' = "bad" /\ UNCHANGED s3 /\ \A c \in Calls : ~At(c, "open", "read")
  /\ UNCHANGED call /\ Still

CallStep(c) ==
  \/ PutHead(c) \/ PutSend(c) \/ resolveConditionalPut(c) \/ PutVerify(c) \/ cleanupAfterPutError(c)
  \/ MirrorOpen(c) \/ MirrorWrite(c) \/ MirrorRename(c)
  \/ OpenHead(c) \/ OpenGet(c) \/ LocalValidate(c) \/ LocalRead(c)
  \/ DeletePrimary(c) \/ DeleteLocal(c) \/ Return(c)
BlobNext ==
  \/ \E m, f \in BOOLEAN : NewHybridBlobStore(m, f)
  \/ \E c \in Calls :
       \/ Begin(c, "put", "head") \/ Begin(c, "open", "head") \/ Begin(c, "delete", "primary")
       \/ CallStep(c) \/ Crash(c)
  \/ Damage
-----------------------------------------------------------------------------
\* After a Put that succeeded the object is in the primary, and in the mirror
\* when there is one, until a Delete is asked for: no other Put, not even one
\* that fails and cleans up after itself, takes it away.
StoredStays == promise = "stored" => s3 # "none" /\ (flags.mirror => local # "none")

\* After a Delete that succeeded neither endpoint has a copy for a fallback
\* to find: a failure at either one is reported (mergeStorageErrors).
DeletedStays == promise = "deleted" => s3 = "none" /\ (localEnabled => local = "none")

\* A reader that is told of no error has read the contents of the digest,
\* from either endpoint, whatever is damaged, missing or being replaced.
NoDamagedRead ==
  \A c \in Calls : At(c, "open", "return") /\ ~call[c].failed => call[c].got = "good"
-----------------------------------------------------------------------------
(***************************************************************************)
(* The reader of an object in S3 (s3VerifiedReadCloser): the bytes are     *)
(* handed on as they arrive and judged at the end.  Reads exclude each     *)
(* other (readMu); Close and a failing Read run concurrently with them and *)
(* share the verdict (stateMu).  The reader does not know what the body    *)
(* holds: the right bytes, other bytes, too few, too many, or an error.    *)
(***************************************************************************)

CONSTANTS Readers, Closers, Expected

VARIABLES body,      \* kind of body and bytes left in it
          count,     \* bytes hashed
          terminal,  \* the verdict
          closed,
          closeOnce, \* how often the body was closed
          thread,    \* the calls
          told       \* what the calls returned: bytes handed out, and the verdicts

readerVars == <<body, count, terminal, closed, closeOnce, thread, told>>

Bodies == {"unset", "good", "other", "short", "long", "broken"}
Idle == [pc |-> "idle", n |-> 0, err |-> "nil"]
LengthOf(kind) == CASE kind \in {"good", "other"} -> Expected
                    [] kind = "long" -> Expected + 1
                    [] OTHER -> Expected - 1

ReaderInit == /\ body = [kind |-> "unset", left |-> 0]
              /\ count = 0 /\ terminal = "nil" /\ closed = FALSE /\ closeOnce = 0
              /\ thread = [t \in Readers \cup Closers |-> Idle]
              /\ told = [bytes |-> 0, verdicts |-> {}]

newS3VerifiedReadCloser(kind) ==
  /\ body.kind = "unset" /\ kind # "unset"
  /\ body' = [kind |-> kind, left |-> LengthOf(kind)]
  /\ UNCHANGED <<count, terminal, closed, closeOnce, thread, told>>
-----------------------------------------------------------------------------
ReaderAt(t, pc) == thread[t].pc = pc
readMuFree == \A r \in Readers : thread[r].pc = "idle"
ReaderReturns(t, n, err) == /\ thread' = [thread EXCEPT ![t] = Idle]
                     /\ told' = [bytes |-> told.bytes + n, verdicts |-> told.verdicts \cup {err}]

ReadBegins(t) ==
  /\ body.kind # "unset" /\ readMuFree
  /\ IF terminal # "nil" THEN ReaderReturns(t, 0, terminal)
     ELSE /\ thread' = [thread EXCEPT ![t].pc = "read"] /\ UNCHANGED told
  /\ UNCHANGED <<body, count, terminal, closed, closeOnce>>

\* The body gives some bytes, or its end, or an error; a closed one an error.
BodyRead(t) ==
  /\ ReaderAt(t, "read")
  /\ \E n \in 0 .. body.left :
       /\ n = 0 <=> (body.left = 0 \/ closeOnce > 0)
       /\ body' = [body EXCEPT !.left = @ - n]
       /\ thread' = [thread EXCEPT ![t] = [pc |-> "record", n |-> n,
            err |-> IF n > 0 THEN "nil"
                    ELSE IF closeOnce > 0 \/ body.kind = "broken" THEN "provider" ELSE "EOF"]]
  /\ UNCHANGED <<count, terminal, closed, closeOnce, told>>

boundedReadCount(n) == IF n > Expected - count THEN Expected - count ELSE n
\* Under stateMu: what was read is bounded and counted.
Record(t) ==
  LET n == thread[t].n
      over == terminal = "nil" /\ n > Expected - count
  IN /\ ReaderAt(t, "record")
     /\ count' = IF terminal = "nil" THEN count + boundedReadCount(n) ELSE count
     /\ IF terminal # "nil" THEN ReaderReturns(t, boundedReadCount(n), terminal)
        ELSE IF over \/ thread[t].err = "provider"
          THEN /\ thread' = [thread EXCEPT ![t] = [pc |-> "fail", n |-> boundedReadCount(n),
                                err |-> IF over THEN "mismatch" ELSE "provider"]]
               /\ UNCHANGED told
        ELSE IF thread[t].err = "nil" THEN ReaderReturns(t, n, "nil")
        ELSE /\ thread' = [thread EXCEPT ![t].pc = "judge"] /\ UNCHANGED told
     /\ UNCHANGED <<body, terminal, closed, closeOnce>>

\* All the bytes, and their digest is the expected one.
valid == count = Expected /\ body.kind = "good"
Judge(t) ==
  /\ ReaderAt(t, "judge")
  /\ IF terminal # "nil" THEN ReaderReturns(t, 0, terminal) /\ UNCHANGED terminal
     ELSE IF valid THEN terminal' = "EOF" /\ ReaderReturns(t, 0, "EOF")
     ELSE /\ thread' = [thread EXCEPT ![t] = [pc |-> "fail", n |-> 0, err |-> "mismatch"]]
          /\ UNCHANGED <<terminal, told>>
  /\ UNCHANGED <<body, count, closed, closeOnce>>

\* The first verdict stands.
firstVerdict(err) == IF terminal # "nil" THEN terminal ELSE err
fail(t) ==
  /\ ReaderAt(t, "fail")
  /\ terminal' = firstVerdict(thread[t].err)
  /\ IF terminal # "nil"
       THEN ReaderReturns(t, thread[t].n, terminal) /\ UNCHANGED <<closed, closeOnce>>
       ELSE ReaderReturns(t, thread[t].n, thread[t].err) /\ closed' = TRUE /\ closeOnce' = 1
  /\ UNCHANGED <<body, count>>

Close(t) ==
  /\ body.kind # "unset" /\ ReaderAt(t, "idle") /\ ~closed
  /\ closed' = TRUE
  /\ terminal' = firstVerdict("closed")
  /\ thread' = [thread EXCEPT ![t].pc = "close_body"]
  /\ UNCHANGED <<body, count, closeOnce, told>>
closeBody(t) ==
  /\ ReaderAt(t, "close_body")
  /\ closeOnce' = 1
  /\ thread' = [thread EXCEPT ![t] = Idle]
  /\ UNCHANGED <<body, count, terminal, closed, told>>

ReaderNext ==
  \/ \E kind \in Bodies : newS3VerifiedReadCloser(kind)
  \/ \E t \in Readers : ReadBegins(t) \/ BodyRead(t) \/ Record(t) \/ Judge(t) \/ fail(t)
  \/ \E t \in Closers : Close(t) \/ closeBody(t)
-----------------------------------------------------------------------------
\* A caller that reads to the end has been handed exactly the expected bytes,
\* however Close and failing Reads interleave; it never gets more of them.
EndMeansVerified ==
  /\ told.bytes <= Expected
  /\ "EOF" \in told.verdicts => body.kind = "good" /\ told.bytes = Expected

\* The verdict never changes, so calls after the first that failed, ended or
\* closed the reader are told the same.
VerdictStands == [][terminal # "nil" => terminal' = terminal]_readerVars
=============================================================================
