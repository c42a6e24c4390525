----------------------------- MODULE RenderJob ------------------------------
(***************************************************************************)
(* One export job, from the request that pays for it to the file in the    *)
(* bucket, across the four programs that share its Redis keys:             *)
(*                                                                         *)
(*   - the API's export handler and the dispatch helper it calls;          *)
(*   - Cloud Tasks, which delivers a task at least once and at most        *)
(*     Deliveries times (external, modelled from how the code uses it);    *)
(*   - the request-bound render workers;                                   *)
(*   - the user's cancel request and the operator's retry of a dead job.   *)
(*                                                                         *)
(* A step is one Redis, queue or bucket call.  Adjacent calls of a process *)
(* are one step where the later one neither reads anything back nor can    *)
(* change what the earlier one decided.  Rendering itself, progress        *)
(* percentages, key expiry other than the lock's, metrics and log lines    *)
(* are left out.  The local RQ fallback is not modelled: production        *)
(* dispatches through Cloud Tasks only.                                    *)
(***************************************************************************)
EXTENDS Integers

CONSTANTS
  Workers,      \* render handlers that can be executing at one time
  Retries,      \* operator retries of a dead job; each is a task and a run id
  Cancels,      \* cancel requests
  Export,       \* the export request: its task, and its run id if it has one
  NamedRun,     \* does the client send a runId with the export request?
  NoRun,        \* no run id
  CancelTag,    \* the value a cancel writes to render:runid
  NoWorker,     \* the queue awaits no answer
  Deliveries,   \* times Cloud Tasks delivers a task that keeps failing
  MaxAttempts,  \* the attempt the handler takes for the last one: MAX_RETRIES of
                \* the worker, CLOUD_TASKS_MAX_ATTEMPTS of the service around it,
                \* which the deployment gives the same value
  Faults        \* the failures that may happen in this run

Tasks == {Export} \union Retries

FaultKinds == {"crash", "timeout", "clients", "render", "storage", "redis", "dispatch"}

ASSUME RenderAssumption ==
  /\ Export \notin Retries
  /\ NoRun \notin Tasks /\ CancelTag \notin Tasks \union {NoRun}
  /\ NoWorker \notin Workers
  /\ NamedRun \in BOOLEAN
  /\ Deliveries \in Nat \ {0} /\ MaxAttempts \in Nat \ {0}
  /\ Faults \subseteq FaultKinds

VARIABLES
  \* render:meta:{job} -- the status hash
  status, tried, stamped,
  \* render:runid, render:args, render:lock, render:pending, render:credit_refund
  owner, args, lock, pending, claimed,
  \* the queue, per task: its state, deliveries made, handler whose answer it awaits
  task, tries, flight,
  \* the handlers: program counter, task served, attempt number
  pc, job, attempt,
  \* the dispatches (one per task): program counter, status read by _record_dispatch
  dpc, seen,
  \* the cancel requests: program counter, what the first read returned
  cpc, view,
  \* the world: charges, refunds, uploads made, has any verdict been published?
  charges, refunds, uploads, told

metaVars   == <<status, tried, stamped>>
keyVars    == <<owner, args, lock, pending, claimed>>
queueVars  == <<task, tries, flight>>
workerVars == <<pc, job, attempt>>
dispVars   == <<dpc, seen>>
cancelVars == <<cpc, view>>
worldVars  == <<charges, refunds, uploads, told>>
vars == <<metaVars, keyVars, queueVars, workerVars, dispVars, cancelVars, worldVars>>

(***************************************************************************)
(* The statuses the code writes.  "rendering" also stands for "executing", *)
(* the name the same step has when the job carries a production plan.      *)
(***************************************************************************)
Terminal == {"success", "dead", "cancelled", "superseded", "duplicate"}
Statuses == Terminal \union {"none", "queued", "processing", "preparing", "rendering",
                             "verifying", "complete", "retry_pending"}

RunId(t) == IF t = Export /\ ~NamedRun THEN NoRun ELSE t

\* render:runid names another run, or a cancel: this handler's result is stale.
Stale(w) == RunId(job[w]) # NoRun /\ owner \notin {NoRun, RunId(job[w])}

\* What writing the run id of task t to render:runid leaves there.
OwnerAfter(t) == IF RunId(t) = NoRun THEN owner ELSE RunId(t)

\* The value a best-effort Redis write may leave behind instead of its own.
MayKeep(x) == IF "redis" \in Faults THEN {x} ELSE {}

DispatchPcs == {"idle", "flip", "claim", "enqueue", "read", "record", "rerun", "stamp",
                "done", "abort", "failed"}
CancelPcs   == {"idle", "mark", "bump", "drop", "publish", "refund", "done"}
WorkerPcs   == {"idle", "start", "probe", "mark", "prepare", "own", "render", "encode",
                "verify", "recheck", "supersede", "lock", "duplicate", "upload", "unlock",
                "complete", "publish", "result", "fail", "raise", "record", "clean",
                "ack", "reply", "nack"}

Init ==
  /\ status = "none" /\ tried = 0 /\ stamped = FALSE
  /\ owner = NoRun /\ args = FALSE /\ lock = FALSE /\ pending = FALSE /\ claimed = FALSE
  /\ task = [t \in Tasks |-> "none"]
  /\ tries = [t \in Tasks |-> 0]
  /\ flight = [t \in Tasks |-> NoWorker]
  /\ pc = [w \in Workers |-> "idle"]
  /\ job = [w \in Workers |-> Export]
  /\ attempt = [w \in Workers |-> 0]
  /\ dpc = [t \in Tasks |-> "idle"]
  /\ seen = [t \in Tasks |-> "none"]
  /\ cpc = [c \in Cancels |-> "idle"]
  /\ view = [c \in Cancels |-> [status |-> "none", stamped |-> FALSE]]
  /\ charges = 0 /\ refunds = 0 /\ uploads = 0 /\ told = FALSE

-----------------------------------------------------------------------------
(***************************************************************************)
(* Dispatch.  The export handler and the operator's retry share            *)
(* dispatch_render_task: claim the run id, create the task, then record    *)
(* status and pending work on a best-effort basis.                         *)
(***************************************************************************)
DispatchStep(t, from, to) == dpc[t] = from /\ dpc' = [dpc EXCEPT ![t] = to]

\* The export request is admitted and pays.
StartExport ==
  /\ DispatchStep(Export, "idle", "claim")
  /\ charges' = charges + 1
  /\ UNCHANGED <<metaVars, keyVars, queueVars, workerVars, seen, cancelVars,
                 refunds, uploads, told>>

\* The operator's retry finds the stored payload and a dead job ...
RetryLoad(t) ==
  /\ args /\ status = "dead"
  /\ DispatchStep(t, "idle", "flip")
  /\ UNCHANGED <<metaVars, keyVars, queueVars, workerVars, seen, cancelVars, worldVars>>

\* ... and, in a second call, reopens it.
RetryFlip(t) ==
  /\ DispatchStep(t, "flip", "claim")
  /\ status' = "queued" /\ tried' = 0
  /\ UNCHANGED <<stamped, keyVars, queueVars, workerVars, seen, cancelVars, worldVars>>

ClaimRun(t) ==
  /\ DispatchStep(t, "claim", "enqueue")
  /\ owner' = OwnerAfter(t)
  /\ UNCHANGED <<metaVars, args, lock, pending, claimed, queueVars, workerVars, seen,
                 cancelVars, worldVars>>

Enqueue(t) ==
  /\ DispatchStep(t, "enqueue", "read")
  /\ task' = [task EXCEPT ![t] = "queued"]
  /\ UNCHANGED <<metaVars, keyVars, tries, flight, workerVars, seen, cancelVars, worldVars>>

\* Claiming or creating the task raises.  The task may exist all the same: the
\* call can time out after the queue has accepted it.
DispatchFails(t) ==
  /\ "dispatch" \in Faults
  /\ \/ DispatchStep(t, "claim", "abort") /\ UNCHANGED task
     \/ /\ DispatchStep(t, "enqueue", "abort")
        /\ task' \in {task, [task EXCEPT ![t] = "queued"]}
  /\ UNCHANGED <<metaVars, keyVars, tries, flight, workerVars, seen, cancelVars, worldVars>>

\* The export handler gives the price back (best effort), the retry handler
\* declares the job dead again; both answer 503.
Abort(t) ==
  /\ DispatchStep(t, "abort", "failed")
  /\ IF t = Export
       THEN refunds' \in {refunds, refunds + 1} /\ UNCHANGED status
       ELSE status' \in {"dead"} \union MayKeep(status) /\ UNCHANGED refunds
  /\ UNCHANGED <<tried, stamped, keyVars, queueVars, workerVars, seen, cancelVars,
                 charges, uploads, told>>

RecordRead(t) ==
  /\ DispatchStep(t, "read", "record")
  /\ seen' = [seen EXCEPT ![t] = status]
  /\ UNCHANGED <<metaVars, keyVars, queueVars, workerVars, cancelVars, worldVars>>

\* Decides by the status it read one call ago.
Record(t) ==
  /\ DispatchStep(t, "record", "rerun")
  /\ args' = TRUE
  /\ pending' = (pending \/ seen[t] \notin Terminal)
  /\ status' = IF seen[t] = "none" THEN "queued" ELSE status
  /\ UNCHANGED <<tried, stamped, owner, lock, claimed, queueVars, workerVars, seen,
                 cancelVars, worldVars>>

\* The run id is written a second time, whatever the status was.
RecordRun(t) ==
  /\ DispatchStep(t, "rerun", "stamp")
  /\ owner' = OwnerAfter(t)
  /\ UNCHANGED <<metaVars, args, lock, pending, claimed, queueVars, workerVars, seen,
                 cancelVars, worldVars>>

\* A Redis failure while recording is swallowed: the task is already durable.
RecordSkipped(t) ==
  /\ "redis" \in Faults
  /\ \E from \in {"read", "record", "rerun"} : DispatchStep(t, from, "stamp")
  /\ UNCHANGED <<metaVars, keyVars, queueVars, workerVars, seen, cancelVars, worldVars>>

\* The export handler notes what the job cost (best effort) and answers.
Stamp(t) ==
  /\ DispatchStep(t, "stamp", "done")
  /\ stamped' \in {stamped \/ t = Export} \union MayKeep(stamped)
  /\ UNCHANGED <<status, tried, keyVars, queueVars, workerVars, seen, cancelVars, worldVars>>

Dispatch(t) ==
  \/ t = Export /\ StartExport
  \/ t \in Retries /\ (RetryLoad(t) \/ RetryFlip(t))
  \/ ClaimRun(t) \/ Enqueue(t) \/ DispatchFails(t) \/ Abort(t)
  \/ RecordRead(t) \/ Record(t) \/ RecordRun(t) \/ RecordSkipped(t) \/ Stamp(t)

-----------------------------------------------------------------------------
(***************************************************************************)
(* Cancel.  The client learns the job id from the export response, so a    *)
(* cancel starts after it.  What it read first decides the refund last.    *)
(***************************************************************************)
CancelStep(c, from, to) == cpc[c] = from /\ cpc' = [cpc EXCEPT ![c] = to]

CancelRead(c) ==
  /\ dpc[Export] = "done"
  /\ CancelStep(c, "idle", "mark")
  /\ view' = [view EXCEPT ![c] = [status |-> status, stamped |-> stamped]]
  /\ UNCHANGED <<metaVars, keyVars, queueVars, workerVars, dispVars, worldVars>>

CancelMark(c) ==
  /\ CancelStep(c, "mark", "bump")
  /\ status' = "cancelled"
  /\ UNCHANGED <<tried, stamped, keyVars, queueVars, workerVars, dispVars, view, worldVars>>

CancelBump(c) ==
  /\ CancelStep(c, "bump", "drop")
  /\ owner' = CancelTag
  /\ UNCHANGED <<metaVars, args, lock, pending, claimed, queueVars, workerVars, dispVars,
                 view, worldVars>>

CancelDrop(c) ==
  /\ CancelStep(c, "drop", "publish")
  /\ pending' = FALSE
  /\ UNCHANGED <<metaVars, owner, args, lock, claimed, queueVars, workerVars, dispVars,
                 view, worldVars>>

\* A Redis failure in the three writes above skips the rest of them.
CancelSkips(c) ==
  /\ "redis" \in Faults
  /\ \E from \in {"mark", "bump", "drop"} : CancelStep(c, from, "publish")
  /\ UNCHANGED <<metaVars, keyVars, queueVars, workerVars, dispVars, view, worldVars>>

CancelPublish(c) ==
  /\ CancelStep(c, "publish", "refund")
  /\ told' \in {TRUE} \union MayKeep(told)
  /\ UNCHANGED <<metaVars, keyVars, queueVars, workerVars, dispVars, view,
                 charges, refunds, uploads>>

\* Mutant of MayRefund: no claim_once around the refund.
RefundUnclaimed(c) == view[c].status # "success" /\ view[c].stamped

MayRefund(c) == view[c].status # "success" /\ view[c].stamped /\ ~claimed

\* claim_once, then a refund that may fail: the claim is not given back.
CancelRefund(c) ==
  /\ CancelStep(c, "refund", "done")
  /\ \/ /\ MayRefund(c)
        /\ claimed' = TRUE
        /\ refunds' \in {refunds, refunds + 1}
     \/ /\ ~MayRefund(c) \/ "redis" \in Faults
        /\ UNCHANGED <<claimed, refunds>>
  /\ UNCHANGED <<metaVars, owner, args, lock, pending, queueVars, workerVars, dispVars,
                 view, charges, uploads, told>>

Cancel(c) ==
  \/ CancelRead(c) \/ CancelMark(c) \/ CancelBump(c) \/ CancelDrop(c) \/ CancelSkips(c)
  \/ CancelPublish(c) \/ CancelRefund(c)

-----------------------------------------------------------------------------
(***************************************************************************)
(* Cloud Tasks.  A delivery that is not answered in time is delivered      *)
(* again while the first handler keeps running.                            *)
(***************************************************************************)
Deliver(t, w) ==
  /\ task[t] = "queued" /\ flight[t] = NoWorker /\ pc[w] = "idle"
  /\ flight' = [flight EXCEPT ![t] = w]
  /\ tries' = [tries EXCEPT ![t] = @ + 1]
  /\ pc' = [pc EXCEPT ![w] = "start"]
  /\ job' = [job EXCEPT ![w] = t]
  /\ attempt' = [attempt EXCEPT ![w] = tries[t] + 1]
  /\ UNCHANGED <<metaVars, keyVars, task, dispVars, cancelVars, worldVars>>

\* Mutant of GivesUp: one attempt too many.
GivesUpLate(t) ==
  /\ flight' = [flight EXCEPT ![t] = NoWorker]
  /\ task' = [task EXCEPT ![t] = IF tries[t] > Deliveries THEN "exhausted" ELSE "queued"]
  /\ UNCHANGED tries

\* The queue stops waiting for the handler of t: another attempt, or none is left.
GivesUp(t) ==
  /\ flight' = [flight EXCEPT ![t] = NoWorker]
  /\ task' = [task EXCEPT ![t] = IF tries[t] >= Deliveries THEN "exhausted" ELSE "queued"]
  /\ UNCHANGED tries

Timeout(t) ==
  /\ "timeout" \in Faults
  /\ flight[t] # NoWorker
  /\ GivesUp(t)
  /\ UNCHANGED <<metaVars, keyVars, workerVars, dispVars, cancelVars, worldVars>>

\* The handler ends; w's answer counts only if the queue still awaits it.
Ends(w) ==
  /\ pc' = [pc EXCEPT ![w] = "idle"]
  /\ job' = [job EXCEPT ![w] = Export]
  /\ attempt' = [attempt EXCEPT ![w] = 0]

AnswerOk(w) ==
  /\ pc[w] = "reply"
  /\ Ends(w)
  /\ IF flight[job[w]] = w
       THEN /\ task' = [task EXCEPT ![job[w]] = "acked"]
            /\ flight' = [flight EXCEPT ![job[w]] = NoWorker]
       ELSE UNCHANGED <<task, flight>>
  /\ UNCHANGED <<tries, metaVars, keyVars, dispVars, cancelVars, worldVars>>

\* Mutant of AnswerError: the queue never learns of the 500.
AnswerErrorUnnoticed(w) ==
  /\ pc[w] = "nack"
  /\ Ends(w)
  /\ UNCHANGED <<queueVars, metaVars, keyVars, dispVars, cancelVars, worldVars>>

AnswerError(w) ==
  /\ pc[w] = "nack"
  /\ Ends(w)
  /\ IF flight[job[w]] = w THEN GivesUp(job[w]) ELSE UNCHANGED queueVars
  /\ UNCHANGED <<metaVars, keyVars, dispVars, cancelVars, worldVars>>

\* The instance dies: no cleanup runs, the queue sees an error.
Crash(w) ==
  /\ "crash" \in Faults
  /\ pc[w] # "idle"
  /\ Ends(w)
  /\ IF flight[job[w]] = w THEN GivesUp(job[w]) ELSE UNCHANGED queueVars
  /\ UNCHANGED <<metaVars, keyVars, dispVars, cancelVars, worldVars>>

\* render:lock expires an hour after a handler died holding it.  A live holder
\* is out of the upload long before: the whole request is given 15 minutes.
LockExpires ==
  /\ lock /\ \A w \in Workers : pc[w] \notin {"upload", "unlock"}
  /\ lock' = FALSE
  /\ UNCHANGED <<metaVars, owner, args, pending, claimed, queueVars, workerVars, dispVars,
                 cancelVars, worldVars>>

-----------------------------------------------------------------------------
(***************************************************************************)
(* The render handler, in the order of the code.                           *)
(***************************************************************************)
WorkerStep(w, from, to) ==
  /\ pc[w] = from
  /\ pc' = [pc EXCEPT ![w] = to]
  /\ UNCHANGED <<job, attempt, queueVars, dispVars, cancelVars>>

\* Nothing but the program counter changes.
Silent(w, from, to) ==
  /\ WorkerStep(w, from, to)
  /\ UNCHANGED <<metaVars, keyVars, worldVars>>

\* Writes a status; a failure of the write is swallowed.
SetsStatus(w, from, to, s) ==
  /\ WorkerStep(w, from, to)
  /\ status' \in {s} \union MayKeep(status)
  /\ UNCHANGED <<tried, stamped, keyVars, worldVars>>

Publishes(w, from, to) ==
  /\ WorkerStep(w, from, to)
  /\ told' \in {TRUE} \union MayKeep(told)
  /\ UNCHANGED <<metaVars, keyVars, charges, refunds, uploads>>

\* The clients may fail to initialise (raise).  Otherwise the early stale-run
\* guard decides; its own Redis failure is ignored.
Start(w) ==
  \/ "clients" \in Faults /\ Silent(w, "start", "raise")
  \/ Stale(w) /\ Silent(w, "start", "supersede")
  \/ (~Stale(w) \/ "redis" \in Faults) /\ Silent(w, "start", "probe")

\* A failed existence probe counts as "not there".
Probe(w) ==
  \/ uploads > 0 /\ Publishes(w, "probe", "ack")
  \/ (uploads = 0 \/ "storage" \in Faults) /\ Silent(w, "probe", "mark")

\* The recovery marker: payload and "processing", then "preparing", then the
\* run id.  A Redis failure skips what is left of it.
Mark(w) ==
  \/ /\ WorkerStep(w, "mark", "prepare")
     /\ args' = TRUE /\ status' = "processing"
     /\ UNCHANGED <<tried, stamped, owner, lock, pending, claimed, worldVars>>
  \/ "redis" \in Faults /\ Silent(w, "mark", "render")

Prepare(w) == SetsStatus(w, "prepare", "own", "preparing")

Own(w) ==
  \/ /\ WorkerStep(w, "own", "render")
     /\ owner' = OwnerAfter(job[w])
     /\ UNCHANGED <<metaVars, args, lock, pending, claimed, worldVars>>
  \/ "redis" \in Faults /\ Silent(w, "own", "render")

Render(w) == SetsStatus(w, "render", "encode", "rendering")

Encode(w) ==
  \/ SetsStatus(w, "encode", "verify", "verifying")
  \/ "render" \in Faults /\ Silent(w, "encode", "fail")

\* The verifier looks at the file; a second progress write reports the verdict.
Verify(w) ==
  \/ SetsStatus(w, "verify", "recheck", "verifying")
  \/ "render" \in Faults /\ SetsStatus(w, "verify", "fail", "verifying")

\* The late stale-run guard.  Its Redis failure is not caught here: the job fails.
Recheck(w) ==
  \/ Stale(w) /\ Silent(w, "recheck", "supersede")
  \/ ~Stale(w) /\ Silent(w, "recheck", "lock")
  \/ "redis" \in Faults /\ Silent(w, "recheck", "fail")

\* Both stale-run guards write their status in a call after the one that read.
Supersede(w) == SetsStatus(w, "supersede", "ack", "superseded")

\* Mutant of TakeLock: SET without NX.
TakeLockAlways(w) ==
  /\ WorkerStep(w, "lock", "upload")
  /\ lock' = TRUE
  /\ UNCHANGED <<metaVars, owner, args, pending, claimed, worldVars>>

TakeLock(w) ==
  \/ /\ ~lock
     /\ WorkerStep(w, "lock", "upload")
     /\ lock' = TRUE
     /\ UNCHANGED <<metaVars, owner, args, pending, claimed, worldVars>>
  \/ lock /\ Silent(w, "lock", "duplicate")
  \/ "redis" \in Faults /\ Silent(w, "lock", "fail")

\* The holder of the lock may have gone on, or finished, by now.
Duplicate(w) == SetsStatus(w, "duplicate", "ack", "duplicate")

\* Mutants of Upload: a failed upload is swallowed; a failed upload keeps the lock.
UploadUnchecked(w) ==
  /\ WorkerStep(w, "upload", "unlock")
  /\ uploads' \in {uploads, uploads + 1}
  /\ UNCHANGED <<metaVars, keyVars, charges, refunds, told>>

UploadKeepsLock(w) ==
  \/ /\ WorkerStep(w, "upload", "unlock")
     /\ uploads' = uploads + 1
     /\ UNCHANGED <<metaVars, keyVars, charges, refunds, told>>
  \/ "storage" \in Faults /\ Silent(w, "upload", "fail")

Upload(w) ==
  \/ /\ WorkerStep(w, "upload", "unlock")
     /\ uploads' = uploads + 1
     /\ UNCHANGED <<metaVars, keyVars, charges, refunds, told>>
  \/ /\ "storage" \in Faults
     /\ WorkerStep(w, "upload", "fail")
     /\ lock' \in {FALSE} \union MayKeep(lock)
     /\ UNCHANGED <<metaVars, owner, args, pending, claimed, worldVars>>

\* The delete may fail; the lock then lasts until it expires.
Unlock(w) ==
  /\ WorkerStep(w, "unlock", "complete")
  /\ lock' \in {FALSE} \union MayKeep(lock)
  /\ UNCHANGED <<metaVars, owner, args, pending, claimed, worldVars>>

Complete(w) == SetsStatus(w, "complete", "publish", "complete")

PublishDone(w) == Publishes(w, "publish", "result")

PushResult(w) == SetsStatus(w, "result", "ack", "success")

\* Mutant of Fail: the failure is recorded but not published.
FailUntold(w) ==
  /\ WorkerStep(w, "fail", "ack")
  /\ status' \in {"dead"} \union MayKeep(status)
  /\ UNCHANGED <<tried, stamped, keyVars, worldVars>>

\* The worker's exception handler: publish the failure, push a "failed" result
\* with attempt number 3 (there is no RQ job here to ask), persist, and return.
Fail(w) ==
  /\ WorkerStep(w, "fail", "ack")
  /\ told' \in {TRUE} \union MayKeep(told)
  /\ status' \in {"dead"} \union MayKeep(status)
  /\ UNCHANGED <<tried, stamped, keyVars, charges, refunds, uploads>>

AlreadyRecorded(w) ==
  \/ status = "dead"
  \/ status = "retry_pending" /\ tried >= attempt[w]

LastAttempt(w) == attempt[w] >= MaxAttempts

\* The handler's own exception path: is the failed attempt recorded already? ...
Raise(w) ==
  \/ AlreadyRecorded(w) /\ Silent(w, "raise", "clean")
  \/ ~AlreadyRecorded(w) /\ Silent(w, "raise", "record")
  \/ "redis" \in Faults /\ Silent(w, "raise", "clean")

\* Mutant of RecordFailedAttempt: the last failure is not published.
RecordUntold(w) ==
  /\ WorkerStep(w, "record", "clean")
  /\ \/ LastAttempt(w) /\ status' = "dead" /\ UNCHANGED tried
     \/ ~LastAttempt(w) /\ status' = "retry_pending" /\ tried' = attempt[w]
  /\ UNCHANGED <<stamped, keyVars, worldVars>>

\* ... then, in later calls, record it: the last one as dead, and published ...
RecordFailedAttempt(w) ==
  /\ WorkerStep(w, "record", "clean")
  /\ \/ /\ LastAttempt(w)
        /\ status' = "dead"
        /\ told' \in {TRUE} \union MayKeep(told)
        /\ UNCHANGED tried
     \/ /\ ~LastAttempt(w)
        /\ status' = "retry_pending" /\ tried' = attempt[w]
        /\ UNCHANGED told
     \/ "redis" \in Faults /\ UNCHANGED <<status, tried, told>>
  /\ UNCHANGED <<stamped, keyVars, charges, refunds, uploads>>

\* ... and drop the pending work after the last; then 500.
Clean(w) ==
  /\ WorkerStep(w, "clean", "nack")
  /\ pending' \in {pending /\ ~LastAttempt(w)} \union MayKeep(pending)
  /\ UNCHANGED <<metaVars, owner, args, lock, claimed, worldVars>>

\* The handler's normal end: pending work is dropped, then 200.
Ack(w) ==
  /\ WorkerStep(w, "ack", "reply")
  /\ pending' \in {FALSE} \union MayKeep(pending)
  /\ UNCHANGED <<metaVars, owner, args, lock, claimed, worldVars>>

Work(w) ==
  \/ Start(w) \/ Probe(w) \/ Mark(w) \/ Prepare(w) \/ Own(w) \/ Render(w) \/ Encode(w)
  \/ Verify(w) \/ Recheck(w) \/ Supersede(w) \/ TakeLock(w) \/ Duplicate(w) \/ Upload(w)
  \/ Unlock(w) \/ Complete(w) \/ PublishDone(w) \/ PushResult(w) \/ Fail(w)
  \/ Raise(w) \/ RecordFailedAttempt(w) \/ Clean(w) \/ Ack(w)
  \/ AnswerOk(w) \/ AnswerError(w)

-----------------------------------------------------------------------------
Next ==
  \/ \E t \in Tasks : Dispatch(t)
  \/ \E c \in Cancels : Cancel(c)
  \/ \E t \in Tasks, w \in Workers : Deliver(t, w)
  \/ \E t \in Tasks : Timeout(t)
  \/ \E w \in Workers : Work(w)
  \/ \E w \in Workers : Crash(w)
  \/ LockExpires

Spec == Init /\ [][Next]_vars

(***************************************************************************)
(* Handlers that were started run on; the queue keeps delivering a queued  *)
(* task.  Cancels and operator retries need not happen, but one that       *)
(* started finishes.                                                       *)
(***************************************************************************)
Fairness ==
  /\ \A t \in Tasks : WF_vars(dpc[t] # "idle" /\ Dispatch(t))
  /\ \A c \in Cancels : WF_vars(cpc[c] # "idle" /\ Cancel(c))
  /\ \A t \in Tasks : WF_vars(\E w \in Workers : Deliver(t, w))
  /\ \A w \in Workers : WF_vars(Work(w))

FairSpec == Spec /\ Fairness

-----------------------------------------------------------------------------
(***************************************************************************)
(* Properties that hold.                                                   *)
(***************************************************************************)
FlagsOK == {stamped, args, lock, pending, claimed, told} \subseteq BOOLEAN

TypeOK ==
  /\ FlagsOK
  /\ status \in Statuses /\ tried \in 0..Deliveries
  /\ owner \in Tasks \union {NoRun, CancelTag}
  /\ task \in [Tasks -> {"none", "queued", "acked", "exhausted"}]
  /\ tries \in [Tasks -> 0..Deliveries]
  /\ flight \in [Tasks -> Workers \union {NoWorker}]
  /\ pc \in [Workers -> WorkerPcs]
  /\ job \in [Workers -> Tasks]
  /\ attempt \in [Workers -> 0..Deliveries]
  /\ dpc \in [Tasks -> DispatchPcs] /\ seen \in [Tasks -> Statuses]
  /\ cpc \in [Cancels -> CancelPcs]
  /\ view \in [Cancels -> [status : Statuses, stamped : BOOLEAN]]
  /\ charges \in Nat /\ refunds \in Nat /\ uploads \in Nat

Uploading == {"upload", "unlock"}

\* render:lock keeps two handlers of one job out of the upload at the same time,
\* whichever tasks they serve, and though it carries no owner and its delete is
\* unconditional (render_worker.py:700-748).
UploadExclusive ==
  \A v, w \in Workers : pc[v] \in Uploading /\ pc[w] \in Uploading => v = w

\* A job the status endpoint reports as finished has its file in the bucket
\* (main.py:1289-1314 builds the download link from the status alone).
FinishedMeansStored == status \in {"complete", "success"} => uploads > 0

\* The job keeps the books an export promises: paid once before anything is
\* delivered, given back at most once, over every failure of dispatch, every
\* concurrent cancel and every retry.
Ledger == INSTANCE ExportLedger
            WITH charged <- charges, refunded <- refunds, delivered <- uploads > 0

KeepsLedger == Ledger!LedgerSpec

Quiet ==
  /\ \A t \in Tasks : task[t] # "queued" /\ dpc[t] \in {"idle", "done", "failed"}
  /\ \A w \in Workers : pc[w] = "idle"
  /\ \A c \in Cancels : cpc[c] \in {"idle", "done"}

\* While handlers do not die and Redis answers, nobody goes home without a
\* verdict: once nothing of the job is left running, an accepted export has
\* published a completion or a failure.  No single handler guarantees it: one
\* that meets the lock or a newer run leaves silently, trusting another to speak.
QuietMeansTold == Quiet /\ task[Export] # "none" => told

\* Under the same conditions the upload lock is never stranded: it is held only
\* while some handler is inside the upload.
LockNeverStranded == lock => \E w \in Workers : pc[w] \in Uploading

\* An accepted export is eventually answered with a published verdict.
EventuallyTold == task[Export] = "queued" ~> told

\* Whatever fails or times out, the queue lets go of every task and the job comes
\* to rest: the retries are bounded, and each exit of the handler is answered.
EventuallyQuiet == <>[]Quiet
=============================================================================
