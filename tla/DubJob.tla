------------------------------- MODULE DubJob -------------------------------
(***************************************************************************)
(* One dub job (services/dub_service.py, routers/dub_router.py), from the  *)
(* request that pays for it to its last status: the API's handler, Cloud   *)
(* Tasks and the workers, or the API itself when the task cannot be made,  *)
(* and cancels.                                                            *)
(*                                                                         *)
(* The job is one JSON document that every program reads, keeps a copy of  *)
(* and writes back whole.  A step is one Redis, provider, queue or bucket  *)
(* call.  Progress numbers, notifications, the reuse of a finished job of  *)
(* the same fingerprint and the expiry of keys are left out.               *)
(***************************************************************************)
EXTENDS Naturals

CONSTANTS
  Workers,     \* task handlers that can be executing at one time
  Inline,      \* the API processing the job itself
  NoWorker,    \* the queue awaits no answer
  Cancels,     \* cancel requests
  Segments,    \* segments of the transcript
  Deliveries,  \* times Cloud Tasks delivers a task that keeps failing
  Faults       \* the failures that may happen in this run

Runners == Workers \union {Inline}

FaultKinds == {"crash", "timeout", "redis", "dispatch", "provider", "storage", "credits"}

ASSUME DubAssumption ==
  /\ Inline \notin Workers /\ NoWorker \notin Runners
  /\ Segments \in Nat /\ Deliveries \in Nat \ {0} /\ Faults \subseteq FaultKinds

VARIABLES
  doc,      \* dub:job:{id}
  flag,     \* dub:cancel:{id}
  claimed,  \* dub:credit_refund:{id}
  maker,    \* where the request that made the job is
  queue,    \* the task: its state, deliveries made, the handler it awaits
  work,     \* each process_dub_job: where it is, its copy, segments left
  cancels,  \* each cancel: where it is, what it read
  charges, refunds,  \* times the price was taken and given back
  made      \* what has been made: captions, a voice track in the bucket

vars == <<doc, flag, claimed, maker, queue, work, cancels, charges, refunds, made>>

Final    == {"ready", "degraded", "failed", "cancelled"}
Statuses == Final \union {"none", "queued", "translating", "synthesizing", "aligning",
                          "subtitling"}
Document == [status : Statuses, charged : BOOLEAN, captionsOnly : BOOLEAN,
             segments : BOOLEAN, audio : BOOLEAN]

Fresh(captionsOnly) == [status |-> "queued", charged |-> FALSE, captionsOnly |-> captionsOnly,
                        segments |-> FALSE, audio |-> FALSE]
NoDoc == [Fresh(FALSE) EXCEPT !.status = "none"]
Rest  == [at |-> "idle", job |-> NoDoc, left |-> 0]

MakerPcs  == {"new", "charge", "refuse", "stamp", "enqueue", "inline", "giveup", "refund",
              "answered", "denied", "unavailable", "error"}
RunnerPcs == {"idle", "load", "check", "begin", "translate", "translated", "check2", "voice",
              "segment", "speak", "align", "merge", "upload", "subtitle", "ready", "degrade",
              "cancel", "reload", "failed", "over", "raised"}
CancelPcs == {"idle", "flag", "claim", "refund", "write", "cancelled", "late", "error"}

Init ==
  /\ doc = NoDoc /\ flag = FALSE /\ claimed = FALSE /\ maker = "new"
  /\ queue = [state |-> "none", tries |-> 0, flight |-> NoWorker]
  /\ work = [r \in Runners |-> Rest]
  /\ cancels = [c \in Cancels |-> [at |-> "idle", job |-> NoDoc]]
  /\ charges = 0 /\ refunds = 0 /\ made = {}

\* A write that raises may have been made or not.
MayBe(x) == IF "redis" \in Faults THEN {x} ELSE {}

-----------------------------------------------------------------------------
(***************************************************************************)
(* The request: make the job, charge, note the price, dispatch.            *)
(***************************************************************************)
MakerStep(from, to) == maker = from /\ maker' = to

CreateJob(captionsOnly) ==
  /\ MakerStep("new", "charge")
  /\ doc' = Fresh(captionsOnly)
  /\ UNCHANGED <<flag, claimed, queue, work, cancels, charges, refunds, made>>

\* Mutant of Deduct: the job is dispatched before its price is noted.
DeductOnly ==
  /\ MakerStep("charge", "enqueue") /\ charges' = charges + 1
  /\ UNCHANGED <<doc, flag, claimed, queue, work, cancels, refunds, made>>

Deduct ==
  /\ MakerStep("charge", "stamp") /\ charges' = charges + 1
  /\ UNCHANGED <<doc, flag, claimed, queue, work, cancels, refunds, made>>

\* Too few credits, or no answer of the credit service, which may have taken
\* the price; it is not given back.
DeductFails ==
  /\ MakerStep("charge", "refuse")
  /\ charges' = charges \/ ("credits" \in Faults /\ charges' = charges + 1)
  /\ UNCHANGED <<doc, flag, claimed, queue, work, cancels, refunds, made>>

Refuse ==
  /\ MakerStep("refuse", "denied") /\ flag' = TRUE
  /\ UNCHANGED <<doc, claimed, queue, work, cancels, charges, refunds, made>>

Stamp ==
  /\ MakerStep("stamp", "enqueue")
  /\ doc' = [Fresh(doc.captionsOnly) EXCEPT !.charged = TRUE]
  /\ UNCHANGED <<flag, claimed, queue, work, cancels, charges, refunds, made>>

Enqueue ==
  /\ MakerStep("enqueue", "answered")
  /\ queue' = [queue EXCEPT !.state = "queued"]
  /\ UNCHANGED <<doc, flag, claimed, work, cancels, charges, refunds, made>>

\* create_task raises, though the task may have been made: the request
\* processes the job itself before it answers.
EnqueueFails ==
  /\ "dispatch" \in Faults /\ MakerStep("enqueue", "inline")
  /\ queue' \in {queue, [queue EXCEPT !.state = "queued"]}
  /\ work' = [work EXCEPT ![Inline] = [Rest EXCEPT !.at = "load"]]
  /\ UNCHANGED <<doc, flag, claimed, cancels, charges, refunds, made>>

InlineEnds ==
  /\ work[Inline].at \in {"over", "raised"}
  /\ MakerStep("inline", IF work[Inline].at = "over" THEN "answered" ELSE "giveup")
  /\ work' = [work EXCEPT ![Inline] = Rest]
  /\ UNCHANGED <<doc, flag, claimed, queue, cancels, charges, refunds, made>>

GiveUp ==
  /\ MakerStep("giveup", "refund") /\ flag' = TRUE
  /\ UNCHANGED <<doc, claimed, queue, work, cancels, charges, refunds, made>>

\* refund_credits_best_effort.
MayRefund == \/ refunds' = refunds + 1
             \/ "credits" \in Faults /\ refunds' = refunds

MakerRefund ==
  /\ MakerStep("refund", "unavailable") /\ MayRefund
  /\ UNCHANGED <<doc, flag, claimed, queue, work, cancels, charges, made>>

\* A Redis call of the request raises: the answer is a 500.
MakerFails ==
  /\ "redis" \in Faults /\ maker \in {"refuse", "stamp", "giveup"} /\ maker' = "error"
  /\ \/ UNCHANGED <<doc, flag>>
     \/ maker = "stamp" /\ doc' = [Fresh(doc.captionsOnly) EXCEPT !.charged = TRUE]
        /\ UNCHANGED flag
     \/ maker # "stamp" /\ flag' = TRUE /\ UNCHANGED doc
  /\ UNCHANGED <<claimed, queue, work, cancels, charges, refunds, made>>

Make ==
  \/ \E captionsOnly \in BOOLEAN : CreateJob(captionsOnly)
  \/ Deduct \/ DeductFails \/ Refuse \/ Stamp \/ Enqueue \/ EnqueueFails
  \/ InlineEnds \/ GiveUp \/ MakerRefund \/ MakerFails

-----------------------------------------------------------------------------
(***************************************************************************)
(* Cancels.  The client has the id of a job from the request's answer.     *)
(***************************************************************************)
CancelStep(c, from, to) ==
  cancels[c].at = from /\ cancels' = [cancels EXCEPT ![c].at = to]

CancelRead(c) ==
  /\ maker = "answered" /\ cancels[c].at = "idle"
  /\ cancels' = [cancels EXCEPT ![c] = [at |-> IF doc.status \in Final THEN "late" ELSE "flag",
                                        job |-> doc]]
  /\ UNCHANGED <<doc, flag, claimed, maker, queue, work, charges, refunds, made>>

CancelMark(c) ==
  /\ CancelStep(c, "flag", IF cancels[c].job.charged THEN "claim" ELSE "write")
  /\ flag' = TRUE
  /\ UNCHANGED <<doc, claimed, maker, queue, work, charges, refunds, made>>

\* Mutant of CancelClaim: whoever asks may refund.
CancelClaimAlways(c) ==
  /\ CancelStep(c, "claim", "refund") /\ claimed' = TRUE
  /\ UNCHANGED <<doc, flag, maker, queue, work, charges, refunds, made>>

\* claim_once: without Redis nobody may refund.
CancelClaim(c) ==
  /\ \/ CancelStep(c, "claim", IF claimed THEN "write" ELSE "refund") /\ claimed' = TRUE
     \/ "redis" \in Faults /\ CancelStep(c, "claim", "write") /\ claimed' \in {claimed, TRUE}
  /\ UNCHANGED <<doc, flag, maker, queue, work, charges, refunds, made>>

CancelRefund(c) ==
  /\ CancelStep(c, "refund", "write") /\ MayRefund
  /\ UNCHANGED <<doc, flag, claimed, maker, queue, work, charges, made>>

CancelWrite(c) ==
  /\ CancelStep(c, "write", "cancelled")
  /\ doc' = [cancels[c].job EXCEPT !.status = "cancelled"]
  /\ UNCHANGED <<flag, claimed, maker, queue, work, charges, refunds, made>>

CancelFails(c) ==
  /\ "redis" \in Faults
  /\ \/ CancelStep(c, "flag", "error") /\ flag' \in {flag, TRUE} /\ UNCHANGED doc
     \/ CancelStep(c, "write", "error") /\ UNCHANGED flag
        /\ doc' \in {doc, [cancels[c].job EXCEPT !.status = "cancelled"]}
  /\ UNCHANGED <<claimed, maker, queue, work, charges, refunds, made>>

Cancel(c) ==
  \/ CancelRead(c) \/ CancelMark(c) \/ CancelClaim(c) \/ CancelRefund(c)
  \/ CancelWrite(c) \/ CancelFails(c)

-----------------------------------------------------------------------------
(***************************************************************************)
(* process_dub_job.                                                        *)
(***************************************************************************)
At(r, from)   == work[r].at = from
Goes(r, to)   == work' = [work EXCEPT ![r].at = to]
Copy(r, status) == [work[r].job EXCEPT !.status = status]

\* _update: the copy is changed and written over the document; if that
\* raises, the exception ends the processing.
Save(r, copy, to) ==
  \/ /\ doc' = copy
     /\ work' = [work EXCEPT ![r].at = to, ![r].job = copy]
  \/ /\ doc' \in MayBe(doc) \union MayBe(copy)
     /\ Goes(r, "reload")

Load(r) ==
  /\ At(r, "load")
  /\ work' = [work EXCEPT ![r] = [at |-> IF doc.status \in Final THEN "over" ELSE "check",
                                  job |-> doc, left |-> Segments]]
  /\ UNCHANGED <<doc, made>>

Begin(r) ==
  /\ \/ At(r, "check") /\ Goes(r, IF flag THEN "cancel" ELSE "begin") /\ UNCHANGED doc
     \/ At(r, "begin") /\ Save(r, Copy(r, "translating"), "translate")
  /\ UNCHANGED made

\* The segments of the transcript come from the provider or from a cache.
Translate(r) ==
  \/ /\ At(r, "translate")
     /\ Goes(r, "translated") \/ ("provider" \in Faults /\ Goes(r, "reload"))
     /\ UNCHANGED <<doc, made>>
  \/ /\ At(r, "translated")
     /\ Save(r, [work[r].job EXCEPT !.segments = TRUE], "check2")
     /\ made' = IF doc' = doc THEN made ELSE made \union {"captions"}

\* Without a provider of voices the job ends with captions.
Voice(r) ==
  /\ \/ At(r, "check2") /\ UNCHANGED doc
        /\ Goes(r, IF flag THEN "cancel" ELSE IF work[r].job.captionsOnly THEN "ready" ELSE "voice")
     \/ At(r, "voice") /\ Goes(r, "degrade") /\ UNCHANGED doc
     \/ At(r, "voice") /\ Save(r, Copy(r, "synthesizing"), "segment")
  /\ UNCHANGED made

\* After the last segment: too many without a voice, or on to the timing.
Segment(r) ==
  /\ At(r, "segment")
  /\ IF work[r].left = 0 THEN Goes(r, "align") \/ Goes(r, "degrade")
     ELSE work' = [work EXCEPT ![r].at = IF flag THEN "cancel" ELSE "speak",
                               ![r].left = @ - 1]
  /\ UNCHANGED <<doc, made>>

\* A segment without a voice is skipped; one with a voice is progress.
Speak(r) ==
  /\ At(r, "speak")
  /\ \/ Goes(r, "segment") /\ UNCHANGED doc
     \/ Save(r, work[r].job, "segment")
     \/ "provider" \in Faults /\ Goes(r, "reload") /\ UNCHANGED doc
  /\ UNCHANGED made

Align(r) ==
  /\ \/ At(r, "align") /\ Save(r, Copy(r, "aligning"), "merge")
     \/ At(r, "merge") /\ (Goes(r, "upload") \/ Goes(r, "degrade")) /\ UNCHANGED doc
  /\ UNCHANGED made

\* Mutant of Upload: an upload that fails is taken for one that was made.
UploadAnyway(r) ==
  /\ At(r, "upload") /\ Goes(r, "subtitle")
  /\ made' \in {made, made \union {"voice"}}
  /\ UNCHANGED doc

Upload(r) ==
  /\ At(r, "upload")
  /\ \/ Goes(r, "subtitle") /\ made' = made \union {"voice"}
     \/ "storage" \in Faults /\ Goes(r, "reload") /\ UNCHANGED made
  /\ UNCHANGED doc

Finish(r) ==
  /\ \/ At(r, "subtitle")
        /\ Save(r, [Copy(r, "subtitling") EXCEPT !.audio = TRUE], "ready")
     \/ At(r, "ready")   /\ Save(r, Copy(r, "ready"), "over")
     \/ At(r, "degrade") /\ Save(r, Copy(r, "degraded"), "over")
     \/ At(r, "cancel")  /\ Save(r, Copy(r, "cancelled"), "over")
  /\ UNCHANGED made

\* Mutant of Fail: the exception is logged and nothing else.
FailQuietly(r) == At(r, "reload") /\ Goes(r, "over") /\ UNCHANGED <<doc, made>>

\* The handler of exceptions reads the document again and marks it failed;
\* if Redis fails there too, the exception leaves process_dub_job.
Fail(r) ==
  /\ \/ At(r, "reload") /\ work' = [work EXCEPT ![r].at = "failed", ![r].job = doc]
        /\ UNCHANGED doc
     \/ At(r, "failed") /\ doc' = Copy(r, "failed")
        /\ work' = [work EXCEPT ![r].at = "over", ![r].job = Copy(r, "failed")]
     \/ At(r, "failed") /\ Goes(r, "raised")
        /\ doc' \in MayBe(doc) \union MayBe(Copy(r, "failed"))
  /\ UNCHANGED made

\* A read of Redis that raises.
ReadFails(r) ==
  /\ "redis" \in Faults
  /\ \/ work[r].at \in {"load", "reload"} /\ Goes(r, "raised")
     \/ work[r].at \in {"check", "check2", "segment", "translate"} /\ Goes(r, "reload")
  /\ UNCHANGED <<doc, made>>

Process(r) ==
  /\ \/ Load(r) \/ Begin(r) \/ Translate(r) \/ Voice(r) \/ Segment(r) \/ Speak(r)
     \/ Align(r) \/ Upload(r) \/ Finish(r) \/ Fail(r) \/ ReadFails(r)
  /\ UNCHANGED <<flag, claimed, maker, queue, cancels, charges, refunds>>

-----------------------------------------------------------------------------
(***************************************************************************)
(* The queue and the instances (external, as in RenderJob).                *)
(***************************************************************************)
Deliver(w) ==
  /\ queue.state = "queued" /\ queue.flight = NoWorker /\ At(w, "idle")
  /\ queue' = [queue EXCEPT !.tries = @ + 1, !.flight = w]
  /\ work' = [work EXCEPT ![w] = [Rest EXCEPT !.at = "load"]]
  /\ UNCHANGED <<doc, flag, claimed, maker, cancels, charges, refunds, made>>

GivesUp == queue' = [queue EXCEPT !.flight = NoWorker,
                                  !.state = IF queue.tries < Deliveries THEN "queued" ELSE "gone"]

\* The queue stops waiting for a handler, which works on.
Timeout ==
  /\ "timeout" \in Faults /\ queue.flight # NoWorker /\ GivesUp
  /\ UNCHANGED <<doc, flag, claimed, maker, work, cancels, charges, refunds, made>>

\* An answer counts while the queue waits for it: 200 takes the task away,
\* 500 has it delivered again.
Answer(w) ==
  /\ work[w].at \in {"over", "raised"}
  /\ work' = [work EXCEPT ![w] = Rest]
  /\ IF queue.flight # w THEN UNCHANGED queue
     ELSE IF At(w, "raised") THEN GivesUp
     ELSE queue' = [queue EXCEPT !.flight = NoWorker, !.state = "gone"]
  /\ UNCHANGED <<doc, flag, claimed, maker, cancels, charges, refunds, made>>

\* An instance dies; with the API's, the request dies too.
Crash(r) ==
  /\ "crash" \in Faults /\ ~At(r, "idle")
  /\ work' = [work EXCEPT ![r] = Rest]
  /\ IF queue.flight = r THEN GivesUp ELSE UNCHANGED queue
  /\ maker' = IF r = Inline THEN "error" ELSE maker
  /\ UNCHANGED <<doc, flag, claimed, cancels, charges, refunds, made>>

Next ==
  \/ Make
  \/ \E c \in Cancels : Cancel(c)
  \/ \E r \in Runners : Process(r) \/ Crash(r)
  \/ \E w \in Workers : Deliver(w) \/ Answer(w)
  \/ Timeout

Spec == Init /\ [][Next]_vars

\* Requests and handlers run on, and a queued task is delivered while a
\* handler is free.  Users need not cancel.
Fairness ==
  /\ WF_vars(maker # "new" /\ Make)
  /\ \A c \in Cancels : WF_vars(cancels[c].at # "idle" /\ Cancel(c))
  /\ \A r \in Runners : WF_vars(Process(r))
  /\ WF_vars(\E w \in Workers : Deliver(w)) /\ \A w \in Workers : WF_vars(Answer(w))

FairSpec == Spec /\ Fairness

-----------------------------------------------------------------------------
(***************************************************************************)
(* Properties.                                                             *)
(***************************************************************************)
TypeOK ==
  /\ doc \in Document /\ flag \in BOOLEAN /\ claimed \in BOOLEAN /\ maker \in MakerPcs
  /\ queue \in [state : {"none", "queued", "gone"}, tries : 0..Deliveries,
                flight : Workers \union {NoWorker}]
  /\ work \in [Runners -> [at : RunnerPcs, job : Document, left : 0..Segments]]
  /\ cancels \in [Cancels -> [at : CancelPcs, job : Document]]
  /\ charges \in 0..1 /\ refunds \in 0..1 /\ made \subseteq {"captions", "voice"}

\* However many programs write the whole document back from copies of
\* different ages, once the job can be processed the document and every copy
\* of it have the price, so that a cancel finds what to give back
\* (start_dub_job, _update, cancel_dub_job).
PriceKept ==
  /\ queue.state # "none" \/ work[Inline].at # "idle" => charges = 1 /\ doc.charged
  /\ \A r \in Runners : work[r].job.status # "none" => work[r].job.charged
  /\ \A c \in Cancels : cancels[c].job.status # "none" => cancels[c].job.charged

\* A document that says ready has what was asked for: the captions, and
\* unless only these were asked for, a voice track that is in the bucket,
\* whatever another handler, a cancel or a failure wrote in between (ADR-014,
\* "Never fake voice").
ReadyIsComplete ==
  /\ doc.status = "ready" => doc.segments /\ (doc.captionsOnly \/ doc.audio)
  /\ doc.segments => "captions" \in made
  /\ doc.audio => "voice" \in made

\* Nobody is paid back while the workers have not been told to stop.
RefundIsCancelled == refunds > 0 => flag

\* A dub is an export as far as money goes: the price is taken once and
\* first, and given back at most once, also when two cancels race.
Ledger == INSTANCE ExportLedger
  WITH charged <- charges, refunded <- refunds, delivered <- made # {}
KeepsLedger == Ledger!LedgerSpec

\* A job that was dispatched comes to a last status and stays there, though
\* handlers overlap and one may fall back to an earlier status after another
\* has finished (process_dub_job, run_translate_stage).
EventuallyFinal == maker = "answered" ~> [](doc.status \in Final)
=============================================================================
