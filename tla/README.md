# QuickAI Short: a verification project

TLA+ models of the protocol core of QuickAI Short, checked with TLC and, where
it matters most, proved with TLAPS. Paths below are relative to the repository
(`src/`).

## 1. The system

QuickAI Short turns long videos into short clips. A Next.js editor talks to a
FastAPI service; renders run in a second, request-bound service behind Google
Cloud Tasks; Redis holds job state, admission counters and pub/sub; Firestore
holds projects and credit balances; a bucket holds the videos.

| Part | State it keeps | Operations | Talks to |
|---|---|---|---|
| Export, cancel, retry endpoints (`fastapi/main.py:1089-1466`) | none of its own | admit and charge, dispatch, note the price, cancel, reopen a dead job | credits, dispatch, status hash, event bus |
| Render dispatch (`services/render_dispatch.py`) | `render:args`, `render:runid`, `render:pending` | claim the run id, create the task, record the dispatch, drop pending work | Redis, Cloud Tasks |
| Request-bound renderer (`render_service_app.py`) | initialised clients | `POST /tasks/render`; records attempts that raise | worker, status hash, Cloud Tasks' retry |
| Render worker (`render_worker.py`) | `render:lock`, recovery marker | stale-run guards, existence probe, render, verify, lock, upload, publish | Redis, bucket, event bus |
| Render status, dead letters (`services/render_queue.py`) | `render:meta`, result and dead streams | progress, push_result, retry_dead_job | Redis |
| Credits (`services/credit_guard.py`, `stats_service.py`) | balance, claim keys | require, refund, claim_once | Firestore, Redis |
| Project kernel (`services/project_kernel.py`) | head document, event log | create, accept_command (edit, note, undo, redo, revert), delete | Firestore |
| Orchestrator (`services/orchestrator_service.py`, `decision_*.py`) | plans, execution lock | plan, decide, execute step by step | kernel, Redis |
| Gemini admission (`gemini_spend_cap.py`, `gemini_backpressure.py`, `gemini_client.py`) | hourly and daily counters, cooldowns | admit, record a 429, clear | Redis |
| Cost guard (`middleware/cost_guard.py`) | similar-query cache, token bucket | lookup, store, release, acquire, defer | Redis, Cloud Tasks |
| Plan limits (`core/limits.py`) | daily usage | reserve | Redis |
| Circuit breaker, proxies (`circuit_breaker.py`, `proxy_rotator.py`) | breaker state, cooldowns | allow, record | memory, Redis |
| Queue admission (`queue_service.py`) | pending set | depth, is_overloaded | Redis |
| Event bus and bridge (`events.py`, `main.py:268-396`) | none | publish, fan out, count statistics | Redis pub/sub, Pusher |
| Ingest lifecycle (`hooks/useIngestLifecycle.ts`, `hooks/useMediaPipeline.ts`, `lib/studio/ingestFsm.ts`, `ingestArtifacts.ts`) | stage, source, generation, run, timers, saved artifacts | open a file or a link, analyse, cancel, retry, restore a session | API, workers, IndexedDB |
| Export client (`hooks/useServerExport.ts`, `ServerExportHost.tsx`) | active job, channel, poll, verdict | export, watch, cancel | API, Pusher, bucket |
| Timeline (`stores/editorStore.ts`, `AIPanel.tsx`, `TranscriptEditor.tsx`, `BottomDock.tsx`) | clips, selection, undo and redo, the assistant's snapshots | split, delete, trim, assist, plan, undo, redo | project kernel, ingest |
| Dubbing (`routers/dub_router.py`, `services/dub_service.py`) | dub job document, cancel flag, refund claim | create, charge, note the price, dispatch, process, cancel | Redis, Cloud Tasks, credits, translation and voice providers, bucket |
| Dub client (`hooks/useDubVideo.ts`) | active dub, poll | dub, watch | API, Pusher |

What is hard: at-least-once delivery with a handler that outlives its timeout;
four programs that write one status hash without transactions; reads that
decide writes several calls later (dispatch record, refund, lock loser); an
ownerless lock; best-effort Redis writes; answers that are lost and commands
that are sent again; undo stacks that name revisions whose snapshots may be
gone; in the editor, awaited answers that come after another video has been
opened, five timers that can each end an ingest, polls that overlap, and two
undo histories over one list of clips; in dubbing, one document that five
programs write back whole from copies of their own age. What makes each part
correct is stated as properties below for the modelled parts, and in the plan
for the others. `PROJECT.json` lists every component and every hazard with its
line.

## 2. Modules

### RenderJob.tla: one export job

| Model | Code |
|---|---|
| `status`, `tried`, `stamped` | fields `status`, `attempt`, `credits_charged` of `render:meta:{job}` |
| `owner`, `args`, `lock`, `pending`, `claimed` | `render:runid`, `render:args`, `render:lock`, membership in `render:pending`, `render:credit_refund` |
| `task`, `tries`, `flight` | Cloud Tasks: state of a task, deliveries so far, the handler it waits for |
| `pc`, `job`, `attempt` | render handlers (`handle_render_task` and the worker inside it) |
| `dpc`, `seen` | one dispatch per task: the export's and each operator retry's; the status `_record_dispatch` read |
| `cpc`, `view` | cancel requests; what `get_render_status` returned first |
| `charges`, `refunds`, `uploads`, `told` | credits taken and given back, uploads made, whether a completion or failure was published |

Actions follow the code call by call: `StartExport ... Stamp` (dispatch),
`CancelRead ... CancelRefund`, `Deliver`, `Timeout`, `AnswerOk`, `AnswerError`,
`Crash`, `LockExpires` (environment), and `Start ... Ack` (handler). A status
written in a call after the read that decided it is an action of its own
(`Supersede`, `Duplicate`, `RecordFailedAttempt`, `Record`). "A write that is
swallowed when Redis fails" is `MayKeep`: with `"redis"` in `Faults` the old
value may stay. Writes that nothing reads back in between (payload and
recovery status; publish and push of a failure) are one step.

Cloud Tasks is external: a queued task is delivered to some idle handler; when
the queue stops waiting (timeout, error answer, death of the instance) the task
is queued again until it has been delivered `Deliveries` times; an answer
counts only while the queue still waits for that handler, which is how a
timed-out handler keeps working beside its successor. `Deliveries` and the
handler's own idea of the last attempt (`MaxAttempts`, 3 in the code) are two
constants because the queue's configuration and the code's constant are two
settings. The code has the constant twice, as `MAX_RETRIES` (`render_queue.py:33`)
and as `CLOUD_TASKS_MAX_ATTEMPTS` (`render_service_app.py:17`); both are 3 in the
deployment, and the model has one.

Abstractions: rendering and verification succeed or fail; the RQ fallback
(local development) is left out; keys do not expire, except the lock, which
expires only when no live handler is inside the upload (its hour is four times
a request's life); a dispatch is answered before a cancel, which needs the job
id from the answer.

### ExportLedger.tla: what an export promises

Paid once, before anything is delivered; given back at most once. `RenderJob`
implements it (`KeepsLedger`), with `charged <- charges`,
`refunded <- refunds`, `delivered <- uploads > 0`. It does not promise that a
delivered export keeps its price: the code breaks that (section 3, other
disagreements).

### ProjectKernel.tla: one studio project

| Model | Code |
|---|---|
| `revision`, `manifest`, `snaps`, `undo`, `redo`, `status` | head document: `revision`, `snapshot_manifest` (and its hash), `revision_snapshots`, `undo_stack`, `redo_stack`, `status` |
| `recent` | `recent_command_ids`, as a function from each id of the ring to the revision it made: the list's order is the order of these revisions |
| `log`, `initial` | the `events` collection (revision = position); the manifest the project was created with |
| `pc`, `req`, `answer` | command requests: before the head is read, between that read and the transaction; body; last answer |

`Judge` is everything `accept_command` decides from its first read; `ApplyEdit`,
`ApplyNote`, `ApplyUndo`, `ApplyRedo`, `ApplyRevert` and `ApplyFails` are the
transaction; `Commit` is the part every accepted command shares; `Remember` and
`Restored` are `_remember_snapshot` and `_restore_revision`. A capability that
mutates the project and an import with a manifest are edits; a title, an asset,
a capability that does not mutate, an import without a manifest are notes. The
hash of a manifest is the manifest. `Lose` is a handler that dies or an answer
that does not arrive. Invalid commands and a claimed hash that differs from the
head's are choices of the environment in `Judge`.

### EditHistory.tla: what a project promises

A current composition, a past for undo, a future for redo, and the numbered
versions the project has had (`made`), with the latest operation and the version
it says it returns to (`last`); a deleted project changes no more.
`ProjectKernel` implements it (`IsHistory`): the past is what the log says of the
revisions on the undo stack, the versions are what it says of all revisions, and
`last` is the op of the latest event. So the property says that an undo or redo
which is granted restores what was there, and a revert the composition of the
revision it names, although the kernel keeps numbers and a map of snapshots that
loses its oldest. A refused command is a stutter, so the history does not say
that an undo or a revert is ever granted: one to a revision without a snapshot
never is.

### GeminiCall.tla: calls of the model provider

| Model | Code |
|---|---|
| `used` | the counters `gemini:spend:daily:*` and `gemini:spend:hourly:*`, by window |
| `hard`, `transient`, `failures` | `gemini:backpressure:hard`, `:transient` (the time each blocks until, and the end of its key) and `:failures` |
| `pc`, `at`, `tries`, `kind`, `level`, `cooldown` | one `call_gemini` each: its next Redis call, the time `admit` read, failed attempts, the 429 it met, the failure count it got back and the cooldown it is about to store |
| `now`, `admitted`, `faults` | clock; calls let through by window; faults so far |

`Begin ... CompensateDay` are `admit`, `CheckHard ... DropSoft` are `check`,
`Send` is the attempts and the answer, `Record`, `Decide` and `Block` are
`record_429`: the failure is counted, the clock is read, which fixes the end of the
block, and the block is stored in a call of its own, so that two instances may store
in the other order. `Clear` is `clear_after_success`. Redis and the clock are external. An error of
Redis ends the call (`Fail`, `HourLost`) except where the code swallows it
(`Shrug`). A cooldown is stored with a time in whole seconds and, under a key that
lasts as long as the delay from the moment it is stored, so that it may be read
after it is over: `Lapse` is the end of the key, and time does not pass (`Tick`)
before it.

### Ingest.tla: bringing a video into the editor

| Model | Code |
|---|---|
| `store` | the editor store's `ingestStage`, `isProcessing`, `ingestFromCache`, `sourceFile`, `sourceUrl`, `ingestFingerprint`, `transcript`, `suggestions` |
| `gen`, `flows` | `ingestGenRef`; each call of `ingestFile` or `ingestUrl` and the await it stands at |
| `hardTimer` | `ingestHardTimeoutRef` |
| `runs` | each call of `runPipeline`: the signed link, the audio, its signal |
| `pipe` | the refs and timers of `useMediaPipeline`; the transcription worker: its jobs, `lastMessage`, `error`; the error of the analysis |
| `analyses`, `saves`, `cache`, `restore` | requests to `/api/analyze`; artifacts being saved and saved; the session of a former page |

JavaScript runs one continuation at a time, so an action is the code between
two awaits, a timer's callback, a worker's message or an effect. A transcript
or a list of clips is the video it was derived from, which is what makes a mix
of two videos visible. `Waits` names the awaited calls, `Hangs` those that may
never answer. Fingerprints are taken to be those of their videos. Silence
segments, waveforms, progress and the upload signal, which no code uses any
more, are left out. `fastapi/services/ingest_fsm.py` states the same table of
stages; the client's is the one that runs.

### ExportClient.tla: the editor's side of an export

| Model | Code |
|---|---|
| `editor` | the video shown and its edits, `sourceFile`, `sourceGcsPath`, `compiledManifest` |
| `ui` | `isExporting`, `activeJobId`, `exportDone`/`exportError` |
| `flows` | each call of `exportClip`: upload, bind, request; the source and manifest it sends |
| `watch`, `polls`, `events` | `channelRef` and the open channels, `pollRef` and its deadline; requests under way; events not handled yet |
| `server`, `told` | what a status request can see of each job; what the user was told |

An event `complete` carries the link: the bridge adds it (`main.py:395`), so the
branch of `useServerExport.ts:232` that polls when it is missing is left out.
The server is external here: it is what `RenderJob` lets a watcher see, the
state `duplicate` included, which the status endpoint shows as a failure and
which may still be followed by a file. An answer of a poll may be older than the
job's state. The deadline is a flag (`TenMinutes`), since nothing else is timed.

### Timeline.tla: clips and the two undo histories

| Model | Code |
|---|---|
| `editor` | `suggestions`, `selectedClipId`, `undoStack`, `redoStack`; `surface` for the rest of what a snapshot of the assistant holds |
| `ai` | `aiUndoStack`, `aiRedoStack` |
| `plan` | `confirmPendingEditPlan` between its local edit and the project's answer |

The operations on lists are written as operators (`Split`, `RippleDelete`,
`TrimmedOut`, ...) that the user's actions and the assistant's tools share. A
batch of tools is a fold over the set of editors each tool may leave; a tool
reads the store as the batch found it (`old`), which is what
`dispatchAIActions` does. Times are in units of which `Margin` is a second and
`Slack` a hundredth: a clip that ends no more than `Slack` after a deleted range
counts as within it (`TranscriptEditor.tsx:65`). Ids are sequences: a split
appends 0 or 1, a copy the number of its edit. The rest of the editor that the
assistant changes (captions, elements, marks, filters, settings) is one token per
batch, so that the property of the history can tell which batches are in effect.

### DubJob.tla: one dub job

| Model | Code |
|---|---|
| `doc`, `flag`, `claimed` | the JSON document `dub:job:{id}`; `dub:cancel:{id}`; `dub:credit_refund:{id}` |
| `maker` | the request `start_dub_job` with `dispatch_dub_job` |
| `queue` | Cloud Tasks, as in `RenderJob` |
| `work` | each `process_dub_job` (a worker's, or the API's own when the task cannot be made): its step, its copy of the document, segments left |
| `cancels` | each `cancel_dub_job`: its step and the copy it read |
| `charges`, `refunds`, `made` | credits taken and given back; captions translated, a voice track in the bucket |

There are no partial updates in this component: every `Save` writes a whole
copy, which is why the copies are state. `Load`, `Begin`, `Translate`, `Voice`,
`Segment`, `Speak`, `Align`, `Upload` and `Finish` are the stages in order, and
the flag is looked at where the code looks; `Fail` is the handler of exceptions,
which reads the document again. A write that raises may have been made
(`MayBe`). `DubJob` implements `ExportLedger` too, with
`delivered <- made # {}`: the first thing made is what the price was for. A
credit service that raises may have taken the price (`DeductFails`).
Left out: the reuse of a finished job of the same fingerprint, the translation
cache, progress numbers, notifications and the expiry of keys.

### PlanRun.tla: executing a plan of the assistant

| Model | Code |
|---|---|
| `plan`, `lock`, `expired` | the JSON document `studio:orch:plan:{id}`; `orch:exec:{id}`, and whether it has ever run out |
| `mode`, `kinds` | `decision_id` with `decision_mode`; what each step is: the client's own (`local`; `transport` if the registry nevertheless calls it a change of the project: seek, play, pause), of no known capability, a note, or a change of the composition (`edit`) |
| `log` | the events of the project; its length is the head's revision |
| `run` | each request `execute_plan`: the await it stands at, `base_revision` of its body, the revision of the next command, the next step, its copy of the plan |

`Read` is everything up to the lock, `Touch` puts back a plan that is not to be
executed, `TakeLock` and `Reread` are the lock and the answer without it,
`Begin` marks the plan as executing, `Evidence` and `Refuse` are the check of a
gated plan, `Local`, `Accept` and `Reject` are one step of the loop each, and
`Store` is the outcome. `Sends` is what the loop sends: every note, and the last
edit, unless a transport step comes after it (section 3, other disagreements). As in `DubJob` every write is a whole copy. A request
that raises or an instance that dies cleans nothing up (`Dies`); the lock is
never deleted, it runs out after 180 seconds whoever holds it (`LockExpires`).
The kernel is taken at its word: a command is accepted only on the revision it
was built on, which is `LogChained` of `ProjectKernel`; the other commands of
the project are `Other`. A command that was accepted and whose answer was lost
is `Accept` followed by `Dies`.
Left out: planning itself, messages and timestamps, the integrity report that
is stored beside the outcome, a request with another project than the plan's
(of a gated plan it is refused without a write, `orchestrator_service.py:528`; of
another plan it goes on, and its commands go to the project of the request), the
two hours after which a plan is forgotten, and the lock that fails open outside
production.

### MC modules

`MCRenderJob.tla`, `MCProjectKernel.tla`, `MCGeminiCall.tla`, `MCDubJob.tla` and
`MCPlanRun.tla` add symmetry sets and the constraints named in the cfg files; `MCIngest.tla`,
`MCExportClient.tla` and `MCTimeline.tla` are plain instances. Symmetry is used
in runs of invariants and of the refinements (safety properties over symmetric
values), never with fairness.

## 3. Runs

| Run | Bounds | Shows |
|---|---|---|
| `render_redis` | 1 handler, 2 cancels, 1 delivery; every Redis call, client or dispatch may fail, the handler may die | a finished status has a file behind it; the ledger, with racing cancels and whatever write is lost |
| `render_retry` | 2 handlers, 1 operator retry, no run id sent, 2 deliveries, each retry's task delivered at most once (`RetriedOnce`); deaths, timeouts, failing clients and dispatches | types; the lock alone keeps two tasks of one job apart |
| `render_live` | 2 handlers, 2 deliveries though the handler counts 1 as last, fairness; timeouts, failing clients, dispatches, renders and uploads; no deaths, no Redis failures | an accepted export is answered with a verdict and the job comes to rest; at rest, a verdict was published and no lock is stranded |
| `kernel_race` | 2 handlers, ring of 2, 2 snapshots, 4 revisions; two edits and an undo, and besides them one other command per session (`OneOther`); lost answers, resent and rebased commands, deletion | types, no lost update, true acknowledgements, the ring as a window, the refinement of EditHistory with evictions |
| `gemini_calls` | 2 calls at once, again and again; caps of 2 a day and 1 an hour, a day of 3 hours and the next one; 2 attempts; 1 fault | types; no cap is exceeded; every counted slot is owned; no success lifts a hard block, and what lifts or shortens one is a late drop or a late store of an older one |
| `ingest` | one file, one YouTube link, one direct link, a session to restore; 2 ingests, cancels and retries, 1 analysis; policy, project, cache and worker may hang; fairness | types; ready means there is a video; source and clips are of the latest ingest and run; an ingest of a file settles |
| `export_client` | one file and one link, 2 exports, 1 other video or edit, 2 polls of a job at once; realtime configured; fairness | types; an active job is watched; a file is announced only when it is there; an export ends |
| `timeline` | a video of 10 s in hundredths, cuts at 4 and 6, trims by a hundredth, 2 edits (a batch has up to 2 tools), 2 presses of undo and redo, histories of depth 2 | types; distinct ids; bounded histories; one line of history; a range delete takes nothing else, but for the hundredth it tolerates |
| `dub_job` | 1 worker and the API, 2 cancels, 1 segment, 1 delivery; every fault | types; the price stays in the document and in every copy; ready means complete; the ledger |
| `dub_live` | 2 workers, 1 cancel, 2 deliveries, fairness; timeouts, failing providers and storage | an accepted dub comes to a last status and stays there |
| `plan_run` | 2 requests, plans of up to 3 steps of every kind, gated or not, 4 revisions; deaths, a lock that runs out, other commands | types; an execution's commands stand together on their base; what is shown as accepted was done, and of a completed plan the notes and the last edit, unless a transport step comes after it; until a lock runs out a final plan is exact |

Two handlers are enough for every race between a handler and its successor: a
third would need the queue to give up on two, and an upload excludes the others
pairwise. Two cancels race for the claim; two deliveries give one redelivery.
The ring and the snapshot map are as small as their limits make sense (2), so
that short sequences pass both. Two calls overshoot a cap while
one of them takes back, with the hour or the day ending in between; earlier
calls and the fault have used up slots by then. The bounds are constants of the modules or
constraints named in the cfg files; the proofs of section 4 have none of them.

Two ingests with a cancel or a retry in the place of one give every overtaking
of one flow by another: a flow looks at nothing but the latest generation. Two
exports give a late answer of the first during the second; two polls overlap.
Two edits of two tools each pass the depth of a history and put an edit
between a batch and its undo; cuts at 4 and 6 of 10 s leave clips that can and
clips that cannot be cut again, and a trim by a hundredth makes a clip that ends
just after the range that is then deleted.

In `dub_job` the worker and the API give two overlapping runs over one
document, and two cancels race for the claim; in `dub_live` a timed-out handler
works beside its successor. Each segment is treated alike, so one is enough to
look at the flag between segments. In `plan_run` two requests are one past the
lock and one before it, or, when the lock has run out, both past it; three
steps give a batch with a step before, between or after its changes; four
revisions let both executions commit with others between. `dub_live` excludes deaths and Redis
failures: a dub whose deliveries are used up by them stays as it is.

`render_live` excludes deaths and Redis failures because its properties do not
hold under them: publication is fire and forget, the lock's delete is best
effort, and a handler may die between its last write and its answer.
`CHECK_DEADLOCK FALSE` is set everywhere: a job that is done stops, and so do
a project at its revision bound, calls at the end of the clock, and an editor
whose user does nothing more.

One run expects a violation, of a sentence of the repository:

| Run | Sentence | What happens |
|---|---|---|
| `ingest_link_trapped` | `useMediaPipeline.ts:22`, a hung decode or worker must never trap the editor | a YouTube link leaves the editor marked as processing, so its pipeline never starts and no timeout is armed; every call answers and the stage stays `analyze` |

Other disagreements seen while modelling, without a run of their own.

In the services: a cancel decides the refund by the status it read before its
own writes, and the upload can finish in between, so a delivered export is paid
back (`main.py:1396`, under "Refund only when work was not delivered",
`main.py:1394`); an undo needs a snapshot of exactly the revision it goes back
to, which a revision made by a metadata command does not have, so every undo
from then on is refused (`project_kernel.py:852`, against "load nearest snapshot
<= R + replay events to R", `EP-002-server-authoritative-project-document.md:458`);
a check deletes a cooldown it read as over, in a later call, and another
instance may have stored a hard one meanwhile (`gemini_backpressure.py:170`,
against "must stay until TTL expires", `:221`); and a 429 fixes the end of its
block (`:193`) before it is stored (`:200`), so that one which is slow to store may
shorten or lift the later block of another instance: these are the two exceptions
`HardOutlivesSuccess` makes; a handler between its early guard and its recovery marker takes
the run id back after a cancel and uploads (`render_worker.py:523`, against
`main.py:1346`); the first failed render is dead-lettered, because the attempt
number comes from an RQ job that does not exist (`render_worker.py:829`, against
`render_queue.py:102`);
`_record_dispatch` can overwrite a terminal status with `queued`, because it
reads the status several calls before it writes (`render_dispatch.py:131`); two
handlers may upload in turn, because the existence probe is minutes older than
the lock (`render_worker.py:700`); the lock of a dead handler turns its
successor away as a duplicate; a command id that has left the ring is applied
again (the ring is a window, which is what `AppliedOncePerWindow` says); a
repeated command is acknowledged with the current revision, not with its own
(`AcksTrue` says what remains true of it); attempts over transport errors are
not counted against the caps, though `gemini_spend_cap.py:105` speaks of every
paid HTTP call (`CapsHold` is about calls, not attempts); a call that a cooldown
refuses has spent a slot, because `admit` comes before `check`.

In plans: an edit that is followed by a seek, a play or a pause is never sent. The
registry marks these as changes of the project
(`capabilities/registry.v1.json:425-500`), so one of them is taken for the last
mutating step (`orchestrator_service.py:610`); it is then skipped as a non-event
(`:621`), and the edits before it are skipped as batched into it (`:640`), against
"only the last mutating step commits manifest" (`:609`). The plan is stored as
completed with nothing committed, and one that is not gated is reported as "Saved to
project" (`AIPanel.tsx:835`); the integrity report of a gated one says that the
execution failed. Each execution makes fresh command ids (`orchestrator_service.py:632`,
against "Plan execution uses idempotent `command_id`s per step",
`EP-002-server-authoritative-project-document.md:570`), and a plan whose
execution died after its commands were committed stays executing, so the
kernel applies it a second time when it is sent again with the newer revision
after the lock has run out; a second execution after the lock has run out may
also store failed or partial over a completed plan (`OutcomeExact` is about the
time before that); a request that does not get the lock is answered with the
plan still executing, which the editor reports as "Saved to project"
(`AIPanel.tsx:819`, `:835`).

In dubbing: a cancel sets the flag, refunds and writes the document as
cancelled, but a handler that has looked at the flag for the last time
(`dub_service.py:308`, `:343`) writes its copy over it, up to ready: the
refunded dub is delivered ("Cancel in-flight job",
`docs/studio/20-api-reference.md:30`); a dub that fails is not refunded, only one that cannot be started
or is cancelled; a credit service that raises after it has taken the price answers
503 and nothing is refunded (`dub_router.py:104`); a dub whose price cannot be noted (`dub_router.py:112`) has been
charged and answers 500; "Credits were not charged — try again"
(`dub_router.py:130`) is answered also when the best-effort refund failed; a
redelivery can take a ready document back to failed or translating for a while
(`dub_service.py:157`).

In the editor: an export sends the manifest of before a manual edit or of the
video before, because the manifest is compiled only when there is none
(`useServerExport.ts:278`, under the comment "ensure we have a fresh
manifest"); a link opened after a file leaves the file in place, and the
pipeline and the export prefer the file (`editorStore.ts:986`,
`useMediaPipeline.ts:190`, `useServerExport.ts:295`); the last message of a
terminated worker, or audio that arrives after a cancel, can become the
transcript of another video (`useMediaPipeline.ts:256`, `:332`); the watchdog of
`EditorLayout.tsx:297` waits longer than every timer it backs up; "Delete &
Close Gap" usually deletes nothing, because after the first cut the left half
is selected and the second cut misses (`TranscriptEditor.tsx:59`); a refused
plan takes back the last batch, which need not be its own (`AIPanel.tsx:857`);
a snapshot is said to hold "the full AI-mutable surface"
(`editorStore.ts:464`), but colour, masks, ducking, groups and mattes are not
in it; trimming the start of a clip outwards can push later clips on, and
inwards can pull them before 0 (`editorStore.ts:1154`); undo takes the
assistant's batches back before any newer manual edit, and discards that edit
(`BottomDock.tsx:659`, against "Step backward through edits",
`shortcutsStore.ts:33`).

### Fairness

`FairSpec` of `RenderJob` gives weak fairness to every step of a started
dispatch, a started cancel and a running handler (they are straight-line code
of a request that the platform keeps executing; timeouts of their calls are
faults of the model) and to the delivery of each queued task (Cloud Tasks
delivers while the queue is not paused). Users need not cancel and operators
need not retry. Nothing is assumed of crashes, timeouts or the lock's expiry.

`FairSpec` of `Ingest`: an awaited call answers or fails unless it is in
`Hangs`; the audio settles, because the code races it against 20 seconds; a
browser runs its timers, effects and IndexedDB transactions. `FileSettles` lets
the policy, the project, the cache and the worker hang; the analysis must
answer, since the axios default of 30 seconds (`lib/api.ts:63`) ends it. A
YouTube link has no bound of its own on the project and the cache, so
`ingest_link_trapped` lets nothing hang and finds the violation all the same.

`FairSpec` of `ExportClient`: requests answer or fail (axios, as above; the
upload is an XMLHttpRequest without a timeout that ends with its connection,
`lib/api.ts:442`), the interval keeps asking, and of the polls of one job that
are asked again and again one succeeds in the end. Nothing is assumed of the
server or of the realtime service.

`FairSpec` of `DubJob`: a started request, a started cancel and a running
handler run on, and a queued task is delivered while a handler is free, as in
`RenderJob`. Nothing is assumed of users, timeouts, providers or storage.

## 4. Proofs

`RenderJobProofs.tla`, for every set of handlers, retries and cancels, every
limit and every set of faults, from `RenderAssumption` alone (the constants are
distinct, the limits positive):

- `TypeCorrect`: `TypeOK`. The inductive strengthening is `QueueInv`: a queued
  task nobody handles has deliveries left, and a task exists only after its
  dispatch got that far; without it `tries` could pass its limit. Booleans are
  proved apart (`FlagsOK`), which keeps each obligation within one prover.
- `UploadsExclude`: `UploadExclusive`, from `LockInv`: whoever is inside the
  upload implies the lock is set. A handler step either takes a free lock,
  stays inside, leaves and releases, or does not touch it (`HandlerLockEffect`);
  the expiry needs nobody inside.
- `FinishedIsStored`: `FinishedMeansStored`, from `StoredInv`: a handler past
  its upload implies an upload happened; only those handlers write a finished
  status (`HandlerStoreEffect`).
- `LedgerKept`: `KeepsLedger`, the refinement of `ExportLedger`. `LedgerInv`
  says that nothing at all has happened before the export paid, and that a
  refund comes from a failed dispatch or from a claim, never both, because only
  an answered export can be cancelled.

`ProjectKernelProofs.tla`, for every set of handlers, commands and manifests
and every size of stacks, ring and snapshot map, from `KernelAssumption`:

- The inductive invariant is `KernelInv`: `TypeOK`, `LogChained`, `RingInv` (each id
  of the ring stands at a revision whose event carries it, and a command about
  to be applied to the head it was based on is not in the ring) and `SnapInv` (a snapshot is the composition its revision had). `TypeOK`
  alone is not inductive: that a restored composition is one the log knows
  comes from `SnapInv`.
- `KernelTypes`, `NoLostUpdate` (`LogChained`) follow from it; `AcksAreTrue`
  adds that a handler past its first read may answer only from what the
  transaction reads.
- `RingIsWindow`: `AppliedOncePerWindow`, from `WindowInv`: the id of each of
  the last `RingSize` events is in the ring. The step is a counting argument
  (`YoungerFew`): the ids younger than a given event inject into the revisions
  after it, so an id is dropped only when `RingSize` newer ones exist.
- `KernelIsHistory`: `IsHistory`, the refinement of `EditHistory` with past and
  future mapped from the stacks through the log, and the versions from the whole of
  it. Each action maps to an edit, a note, an undo, a redo, a revert, a deletion or
  a stutter; the stacks are cut at their limit on both sides (`MapSeq`,
  `Compositions`), and every event adds a version and names the one it returns to
  (`VersionsAfter`).

`GeminiCallProofs.tla`, for every set of callers, every cap, length of the
windows and number of faults, from `GeminiAssumption`:

- The inductive invariant is `GeminiInv`: `TypeOK`, `SlotsAccounted`, and
  `PassInv`, which strengthens the cap to calls admitted plus calls that have
  passed the day and not the hour. That a counter is exactly the calls admitted,
  the callers that still hold a slot, and at most one slot lost to each fault is
  what makes a count below the cap mean that there is room. A step moves one caller, so it changes the
  set of holders of a window by one element at most (`CardinalityStep`,
  `MoveCounts`); each action is then arithmetic on one window (`Account`).
- `GeminiTypes`, `CapsKept`, `SlotsKept`: `TypeOK`, `CapsHold`,
  `SlotsAccounted`.
- `HardBlockKept`: the action property `HardOutlivesSuccess`, from `HardInv`: no
  stored hard block, and none about to be stored, reaches further than one decided
  now would, and a block is over before its key ends. So a 429 that is stored in the
  second it was decided in shortens nothing, and the key's end lifts nothing.

The second part of `RenderJobProofs.tla` is under `Reliable`: neither `"crash"`
nor `"redis"` is a fault, and the queue delivers at least as often as the handler
counts (`MaxAttempts <= Deliveries`):

- `LockReleased`: `LockNeverStranded`. The lock is set only while some handler is
  inside the upload, and a handler that leaves the upload releases it
  (`LeavingReleases`, `LockStep`).
- `QuietIsTold`: `QuietMeansTold`, from `UntoldInv` and `FlightInv`: while
  nothing has been published, whoever left silently has left somebody speaking,
  that is, a handler in or after the upload or on its way to publish a failure,
  or a cancel about to publish. An acknowledged task implies such a speaker; an
  exhausted task implies one or a handler on its last attempt; a run is
  superseded, while nothing is told, only by a cancel that has yet to speak.

`IngestProofs.tla`, for every set of videos, every set of calls that hang and
every bound, from `IngestAssumption`:

- The inductive invariant is `IngestInv`: `TypeOK`, `MediaInv`, `SourceInv` and
  `RunsInv`. `ReadyHasMedia` is not inductive: a save, a transcript, an
  analysis, an active run or a download that is still under way can each declare
  an ingest ready later, so `MediaInv` says that none of them exists before there
  is a video. `SourceInv` says the same of flows that have passed their bind.
  `RunsInv` says that a run is started once and retries are numbered in order,
  which bounds `Steps` by a counting argument over an interval.
- `IngestTypes`, `ReadyIsMedia`, `SourceStaysLatest`, `ClipsAreOfRun`: `TypeOK`,
  `ReadyHasMedia`, `SourceIsLatest`, `ClipsOfRun`.

`ExportClientProofs.tla`, for every set of files, links and jobs, any number of
polls and events, from the assumption of `ExportClient`:

- The inductive invariant is `ClientInv`: `TypeOK`, `UploadsFile` (an upload under way
  is of a file, so the cloud copy it leaves is one), `ActiveIsWatched`, and
  `EventsTrue` (a complete event not yet handled names a job that has its file),
  without which `DoneMeansFinished` is not inductive.
- `TypesKept`, `ActiveJobWatched`, `DoneIsTrue`: `TypeOK`, `ActiveIsWatched`,
  `DoneMeansFinished`.

`DubJobProofs.tla`, for every set of workers and cancels, any number of segments
and deliveries and every set of faults, from `DubAssumption`:

- The inductive invariant is `DubInv`. Its parts about copies are what the
  properties lack: `CopiesInv` says that every copy which may still be written
  over the document has the price, `MadeInv` that whatever the document or a copy
  claims has been made, `InlineInv` that the API works on a dub only while its
  request waits for it, and `RefundInv` that a refund comes from a failed
  dispatch or from the one claim, with the flag set before.
- `DubTypes`, `PriceIsKept`, `ReadyMeansComplete`, `RefundMeansCancelled`,
  `DubLedger`: `TypeOK`, `PriceKept`, `ReadyIsComplete`, `RefundIsCancelled`
  (proved only, in no run), and the refinement `KeepsLedger`.

`PlanRunProofs.tla`, for every set of requests, plans of any length and any
number of other commands, from `PlanAssumption`:

- Each action is first brought into the form "request `e` moves to `to`, with
  this copy" (`ExecuteMoves`); the invariants are then shown on these forms.
- `PlanTypes` and `AppliedOnItsBase`: `TypeOK` and `AppliedOnBase`, from
  `PlaceInv`: the revision of a request's next command is its base plus the
  commands it has sent, a count that grows by one exactly at a step that sends
  (`BeforeNext`).
- `OutcomeIsTrue`: `OutcomeTrue`, from `WalkInv`: an execution in the loop has
  rejected a step or done every command before the next one. Without it
  completed would not mean done. What a completed plan owes is spelled out by the
  kinds of its steps, not by `Sends` (`SendsAre`): the edits before a seek are not
  among it.
- `OutcomeIsExact`: `OutcomeExact`, from `LockInv`, which holds until a lock runs
  out: one request at most is past the lock, nothing is in the log before it
  enters the loop and only what its copy shows after that; and a final plan, or
  a copy of one that may still be put back, means that nobody is inside.

`TimelineProofs.tla`, for every video, every depth of the histories, all times at
which anybody may cut, batches of any tools and length, and any number of edits and
presses, from `TimelineAssumption`:

- The inductive invariant is `TimelineInv`. Distinct ids alone are not inductive:
  a split of clip `x` makes `x0` and `x1`, and a clip named `x0` may already be in
  the list. So every list, in the editor, in its histories and in the snapshots,
  is of clips none of which is a piece of another (`Apart`), and after `n` edits no
  part of an id that a copy made is more than `n + 1`, so that the next copy, which
  appends `n + 2`, is new. The other parts are the depths, and `InLine`: the
  surfaces grow from the oldest snapshot to the editor's and on to what redo holds.
- `TimelineTypes`, `TimelineUniqueIds`, `TimelineBounded`, `TimelineOneLine`:
  `TypeOK`, `UniqueIds`, `HistoryBounded`, `OneLine`.
- `TimelineKeepsRest`: the action property `KeepsRest`. The two cuts of a range
  split one clip at most, into two: a cut selects the left half, so the second cut
  can only meet that half, which ends before it, and does nothing (`RangeCuts`). What is deleted is known
  by its ids, and since these are unique a deletion takes out no other clip
  (`EachDeletedLeft`); moving what follows changes no length (`ClosedLeft`). What
  remains of a clip is therefore none, one or two pieces (`MatchNone`, `MatchOne`,
  `MatchTwo`), and the rest is arithmetic on the end points (`RangeKeepsRest`), for
  any tolerance `Slack`.

Filters, range deletes and batches are recursive functions over a list. The
library's induction theorems cannot be used with the installed provers, but that a
set of naturals has a least element can (`WFMin`), and from it follows that what
holds at 0 and climbs by 1 holds up to any `n` (`Climb`). By that the function the
recursion describes exists (`Iterates`), and the `CHOOSE` that a recursive
definition stands for has its equations; `KeptIs`, `EachDeletedIs`, `DispatchedIs`
and `LengthIs` state them for each. Sorting by start is shown to be a permutation
by counting (`CountTo`, `SortShuffles`); that the result is in order no property
needs.

Only model-checked: liveness (`EventuallyTold`, `EventuallyQuiet`,
`FileSettles`, `ExportEnds`, `EventuallyFinal`, and the violation of
`YoutubeSettles`), which is out of the prover's reach. Every invariant and every
action property of the runs is the statement of a theorem.

## 5. Plan

Done: the export job, the project kernel, the calls of the provider, the dub
job, plan execution, and of the editor the ingest, the export and the timeline.
Left, in this order:

1. Export of a project: the manifest that is baked against the revision that is
   answered (`main.py:1096-1131`), composed with `ProjectKernel` and
   `ExportClient`.
2. `CircuitBreaker` ("one probe is allowed"), `DailyUsage`, the cost guard's
   single flight and token bucket, the pending set with admission.
3. The client of dubbing; the event bridge and its statistics.
4. Proofs: daily usage.

## 6. Not modelled

Media processing, prompts, billing, e-mail, authentication, the user
interface, the extension, and deployment scripts: calls to external services or
data without protocol. In the timeline, rolling trim and slide (two-clip
variants of the trims that are modelled), the source points of clips, captions,
elements and filters. `recover_stale_jobs` and the RQ worker belong to local
development.
