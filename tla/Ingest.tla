------------------------------- MODULE Ingest -------------------------------
(***************************************************************************)
(* Bringing a video into the editor: the staged lifecycle                  *)
(* (hooks/useIngestLifecycle.ts over lib/studio/ingestFsm.ts and the store *)
(* setters of stores/editorStore.ts), and the analysis pipeline it starts  *)
(* (hooks/useMediaPipeline.ts with useTranscription, useWorker and         *)
(* useAnalysis).  JavaScript runs one continuation at a time, so an action *)
(* is the code between two awaits; everything that is awaited may answer   *)
(* late, when another video has been opened or the user has cancelled.     *)
(*                                                                         *)
(* A transcript or a set of clips is represented by the video it was       *)
(* derived from.  Transcripts are never empty here; waveforms, progress    *)
(* bars and toasts are left out.                                           *)
(***************************************************************************)
EXTENDS Naturals, FiniteSets

CONSTANTS
  Files,         \* local files
  Youtube,       \* YouTube links
  Direct,        \* direct links to a media file
  Restorable,    \* links a former page may have left in the session storage
  None,          \* null
  Hangs,         \* awaited calls that may never answer (see Waits)
  MaxSteps,      \* bound: ingests, cancels and retries
  MaxAnalyses    \* bound: calls of the analysis

Videos == Files \union Youtube \union Direct
Links  == Youtube \union Direct
Waits  == {"policy", "meta", "bind", "cache", "token", "whisper", "analyze"}

ASSUME IngestAssumption ==
  /\ Files \intersect Links = {} /\ Youtube \intersect Direct = {}
  /\ Restorable \subseteq Links /\ None \notin Videos /\ Hangs \subseteq Waits
  /\ MaxSteps \in Nat /\ MaxAnalyses \in Nat

VARIABLES
  store,      \* the fields of the editor store that take part
  gen,        \* ingestGenRef: ingests and cancels so far
  flows,      \* each ingest, by its generation: what it waits for, its video
  hardTimer,  \* the generation the timeout of a whole ingest is armed for
  runs,       \* each run of the pipeline: how far its audio has come, its source
  pipe,       \* the refs and timers of useMediaPipeline, its worker and its errors
  analyses,   \* calls of /api/analyze under way: the run and the transcript's video
  saves,      \* artifacts being saved, each followed by the step to ready
  cache,      \* artifacts in IndexedDB by fingerprint
  restore     \* the link a restored session is looking up

vars == <<store, gen, flows, hardTimer, runs, pipe, analyses, saves, cache, restore>>

Gens == 1..MaxSteps
\* The run that ingest g starts is run g; the others are retries.
Runs == 1..(2 * MaxSteps)

Retries == Cardinality({r \in Runs : r > MaxSteps /\ runs[r].at # "none"})
Steps   == gen + Retries

-----------------------------------------------------------------------------
(***************************************************************************)
(* The stages and the store.                                               *)
(***************************************************************************)
Stages == {"idle", "identify", "validate", "acquire_meta", "projectize",
           "analyze", "ready", "failed"}
Terminal == {"ready", "failed"}

\* Steps forward, and the ways out of a finished ingest.
Allowed == {<<"idle", "identify">>, <<"identify", "validate">>,
            <<"validate", "acquire_meta">>, <<"acquire_meta", "projectize">>,
            <<"projectize", "analyze">>, <<"analyze", "ready">>}
           \union (Terminal \X {"identify", "idle", "analyze"})

CanTransition(s, t) == \/ s = t
                       \/ t = "failed" /\ s \notin Terminal
                       \/ <<s, t>> \in Allowed

Maybe(S) == S \union {None}
Store == [stage : Stages, processing : BOOLEAN, fromCache : BOOLEAN,
          file : Maybe(Files), url : Maybe(Videos), fp : Maybe(Videos),
          transcript : Maybe(Videos), clips : Maybe(Videos)]

\* setIngestStage: a transition that is not allowed is ignored.
SetStage(s, t) == IF CanTransition(s.stage, t) THEN [s EXCEPT !.stage = t] ELSE s

FailIngest(s) == [s EXCEPT !.stage = "failed", !.processing = FALSE]

ResetLifecycle(s) == [s EXCEPT !.stage = "idle", !.fp = None, !.fromCache = FALSE]

DropDerived(s) == [s EXCEPT !.transcript = None, !.clips = None]

SetSourceFile(s, v) == [DropDerived(s) EXCEPT !.file = v, !.url = v]
\* A link leaves the file of an earlier ingest in place.
SetSourceUrl(s, v) == [DropDerived(s) EXCEPT !.url = v]

HasMedia(s) == s.file # None \/ s.url # None

\* advanceIngestToReady walks the allowed edges one by one.
AdvanceToReady(s) ==
  IF s.stage \in {"idle"} \union Terminal THEN s ELSE [s EXCEPT !.stage = "ready"]

-----------------------------------------------------------------------------
Init ==
  /\ store = [stage |-> "idle", processing |-> FALSE, fromCache |-> FALSE,
              file |-> None, url |-> None, fp |-> None,
              transcript |-> None, clips |-> None]
  /\ gen = 0 /\ hardTimer = 0
  /\ flows = [g \in Gens |-> [at |-> "none", video |-> None]]
  /\ runs = [r \in Runs |-> [at |-> "none", audio |-> None]]
  /\ pipe = [control |-> 0, active |-> 0, timer |-> 0, whisper |-> FALSE,
             jobs |-> {}, message |-> None, asked |-> 0,
             broken |-> FALSE, analysisError |-> FALSE, due |-> FALSE]
  /\ analyses = {} /\ saves = {}
  /\ restore \in Maybe(Restorable)
  /\ cache = [v \in Videos |-> IF v = restore THEN v ELSE None]

Pipe == [control : {0} \union Runs, active : {0} \union Runs, timer : {0} \union Runs,
         whisper : BOOLEAN, jobs : SUBSET Videos, message : Maybe(Videos),
         asked : 0..MaxAnalyses, broken : BOOLEAN, analysisError : BOOLEAN,
         due : BOOLEAN]

TypeOK ==
  /\ store \in Store /\ gen \in 0..MaxSteps /\ hardTimer \in 0..MaxSteps
  /\ flows \in [Gens -> [at : {"none", "policy", "meta", "bind", "cache", "done"},
                         video : Maybe(Videos)]]
  /\ runs \in [Runs -> [at : {"none", "token", "audio", "aborted", "done"},
                        audio : Maybe(Videos)]]
  /\ pipe \in Pipe
  /\ pipe.active # 0 => runs[pipe.active].at = "done"
  /\ analyses \subseteq [n : 1..MaxAnalyses, run : Runs, of : Videos]
  /\ saves \subseteq [fp : Videos, of : Videos] /\ cache \in [Videos -> Maybe(Videos)]
  /\ restore \in Maybe(Restorable)

-----------------------------------------------------------------------------
(***************************************************************************)
(* The pipeline.                                                           *)
(***************************************************************************)
\* cancelPipeline: abort the download, forget the run, stop the timers and
\* the worker.  The last message of the worker stays.
Cancelled(p) == [p EXCEPT !.control = 0, !.active = 0, !.timer = 0,
                          !.whisper = FALSE, !.jobs = {}]
RunsAborted == [r \in Runs |-> IF r = pipe.control /\ runs[r].at = "audio"
                               THEN [runs[r] EXCEPT !.at = "aborted"] ELSE runs[r]]

\* persistArtifactsAndReady: what there is to save is saved before the
\* ingest is declared ready; without a transcript it is ready at once.
PersistAndReady(s) ==
  IF s.fp # None /\ s.transcript # None
  THEN saves' = saves \union {[fp |-> s.fp, of |-> s.transcript]} /\ store' = s
  ELSE store' = AdvanceToReady(s) /\ UNCHANGED saves

\* Mutant of EnterReady: a failed analysis makes any ingest ready.
EnterReadyAlways(s) ==
  PersistAndReady([s EXCEPT !.processing = FALSE])

\* enterReadyPreservingMedia: an analysis that fails leaves the video usable.
EnterReady(s) ==
  IF HasMedia(s)
  THEN PersistAndReady(LET quiet == [s EXCEPT !.processing = FALSE]
                       IN IF s.stage = "failed" THEN SetStage(quiet, "analyze") ELSE quiet)
  ELSE store' = FailIngest(s) /\ UNCHANGED saves

\* The part of runPipeline that takes effect at once: a new run, unless one
\* is under way.  It prefers the file of the store over its link.
Starts(r, s, p, rs) ==
  LET source == IF s.file # None THEN s.file ELSE s.url
      staged == SetStage(s, IF s.stage = "ready" THEN "ready" ELSE "analyze")
  IN IF s.processing \/ (s.fromCache /\ s.stage = "ready")
     THEN store' = s /\ pipe' = p /\ runs' = rs
     ELSE IF source = None
     THEN store' = FailIngest(s) /\ pipe' = p /\ runs' = rs
     ELSE /\ IF source \in Youtube
             THEN store' = staged /\ pipe' = p
             ELSE /\ store' = [staged EXCEPT !.processing = TRUE]
                  /\ pipe' = [p EXCEPT !.control = r, !.timer = r]
          /\ runs' = [rs EXCEPT ![r] = [at |-> IF source \in Youtube THEN "token" ELSE "audio",
                                        audio |-> source]]

\* The link to a YouTube video's audio has been signed.
TokenAnswers(r) ==
  /\ runs[r].at = "token"
  /\ runs' = [runs EXCEPT ![r].at = "audio"]
  /\ store' = [store EXCEPT !.processing = TRUE]
  /\ pipe' = [pipe EXCEPT !.control = r, !.timer = r]
  /\ UNCHANGED <<gen, flows, hardTimer, analyses, saves, cache, restore>>

\* Mutant of AudioArrives: a download that can settle twice.
AudioArrivesTwice(r) ==
  /\ runs[r].at \in {"audio", "aborted"}
  /\ store' = [store EXCEPT !.processing = TRUE]
  /\ pipe' = [pipe EXCEPT !.active = r, !.jobs = @ \union {runs[r].audio}, !.whisper = TRUE]
  /\ UNCHANGED <<gen, flows, hardTimer, runs, analyses, saves, cache, restore>>

\* The audio is there; it is transcribed, whatever became of the run, for
\* decoding does not heed the signal.
AudioArrives(r) ==
  /\ runs[r].at \in {"audio", "aborted"}
  /\ runs' = [runs EXCEPT ![r] = [at |-> "done", audio |-> None]]
  /\ store' = [store EXCEPT !.processing = TRUE]
  /\ pipe' = [pipe EXCEPT !.active = r, !.jobs = @ \union {runs[r].audio}, !.whisper = TRUE]
  /\ UNCHANGED <<gen, flows, hardTimer, analyses, saves, cache, restore>>

\* It failed, was aborted or took 20 seconds.
AudioFails(r) ==
  /\ runs[r].at \in {"audio", "aborted"}
  /\ runs' = [runs EXCEPT ![r] = [at |-> "done", audio |-> None]]
  /\ EnterReady(store)
  /\ UNCHANGED <<gen, flows, hardTimer, pipe, analyses, cache, restore>>

\* The worker reports how far it is, and then a transcript.  Both replace
\* the message before.
WorkerBegins ==
  /\ pipe.jobs # {} /\ pipe.message # None
  /\ pipe' = [pipe EXCEPT !.message = None]
  /\ UNCHANGED <<store, gen, flows, hardTimer, runs, analyses, saves, cache, restore>>

WorkerCompletes ==
  /\ \E v \in pipe.jobs : pipe' = [pipe EXCEPT !.message = v, !.jobs = @ \ {v}]
  /\ UNCHANGED <<store, gen, flows, hardTimer, runs, analyses, saves, cache, restore>>

\* The worker fails.  The message of the error is never cleared, so a second
\* error is noticed only if it reads differently.
WorkerFails ==
  /\ \E v \in pipe.jobs, seen \in {TRUE, ~pipe.broken} :
       pipe' = [pipe EXCEPT !.jobs = @ \ {v}, !.broken = TRUE, !.due = @ \/ seen]
  /\ UNCHANGED <<store, gen, flows, hardTimer, runs, analyses, saves, cache, restore>>

\* The effect of a transcript.  It runs after any render that finds the
\* message of a worker and a run, so a message may be taken more than once,
\* and for a run it was not made for.  A new analysis forgets the error of
\* the last one.
TranscriptEffect ==
  /\ pipe.message # None /\ pipe.active # 0 /\ pipe.asked < MaxAnalyses
  /\ store' = [store EXCEPT !.transcript = pipe.message, !.processing = TRUE]
  /\ pipe' = [pipe EXCEPT !.whisper = FALSE, !.asked = @ + 1, !.analysisError = FALSE,
                          !.due = @ \/ pipe.analysisError]
  /\ analyses' = analyses \union
       {[n |-> pipe.asked + 1, run |-> pipe.active, of |-> pipe.message]}
  /\ UNCHANGED <<gen, flows, hardTimer, runs, saves, cache, restore>>

\* Mutant of Live: an answer of an analysis is always heeded.
LiveAlways(a) == a \in analyses

Live(a) == pipe.active = a.run

\* The analysis answers, with clips or without; only the active run heeds it.
AnalysisAnswers(a) ==
  /\ a \in analyses /\ analyses' = analyses \ {a}
  /\ IF Live(a)
     THEN /\ \E clips \in {a.of, None} :
               PersistAndReady([store EXCEPT !.processing = FALSE,
                                  !.clips = IF clips = None THEN @ ELSE clips])
          /\ pipe' = [pipe EXCEPT !.timer = 0]
     ELSE UNCHANGED <<store, saves, pipe>>
  /\ UNCHANGED <<gen, flows, hardTimer, runs, cache, restore>>

AnalysisFails(a) ==
  /\ a \in analyses /\ analyses' = analyses \ {a}
  /\ \E seen \in {TRUE, ~pipe.analysisError} :
       pipe' = [pipe EXCEPT !.analysisError = TRUE, !.due = @ \/ seen,
                            !.timer = IF Live(a) THEN 0 ELSE @]
  /\ IF Live(a) THEN PersistAndReady([store EXCEPT !.processing = FALSE])
                ELSE UNCHANGED <<store, saves>>
  /\ UNCHANGED <<gen, flows, hardTimer, runs, cache, restore>>

\* The effect of an error, of the worker's before the analysis's.  It runs
\* after a render that finds either of them changed, and knows no run.
ErrorEffect ==
  /\ pipe.due
  /\ IF pipe.broken
     THEN IF pipe.active = 0
          THEN pipe' = [pipe EXCEPT !.due = FALSE] /\ UNCHANGED <<store, saves>>
          ELSE /\ pipe' = [pipe EXCEPT !.due = FALSE, !.active = 0, !.whisper = FALSE]
               /\ EnterReady(store)
     ELSE /\ pipe' = [pipe EXCEPT !.due = FALSE]
          /\ IF ~pipe.analysisError THEN UNCHANGED <<store, saves>>
             ELSE IF store.transcript # None
             THEN PersistAndReady([store EXCEPT !.processing = FALSE])
             ELSE EnterReady(store)
  /\ UNCHANGED <<gen, flows, hardTimer, runs, analyses, cache, restore>>

\* 45 seconds without a transcript, 75 without an end of the run.  By then
\* the run's own audio has settled, after 20 seconds at the latest.
WhisperTimeout ==
  /\ pipe.whisper
  /\ pipe' = [pipe EXCEPT !.whisper = FALSE, !.jobs = {}]
  /\ EnterReady(store)
  /\ UNCHANGED <<gen, flows, hardTimer, runs, analyses, cache, restore>>

PipelineTimeout ==
  /\ pipe.timer # 0 /\ ~pipe.whisper /\ runs[pipe.timer].at = "done"
  /\ pipe' = Cancelled(pipe) /\ runs' = RunsAborted
  /\ EnterReady(store)
  /\ UNCHANGED <<gen, flows, hardTimer, analyses, cache, restore>>

\* An artifact is saved; the ingest of the day is declared ready.
SaveDone(s) ==
  /\ s \in saves /\ saves' = saves \ {s}
  /\ cache' = [cache EXCEPT ![s.fp] = s.of]
  /\ store' = AdvanceToReady(store)
  /\ UNCHANGED <<gen, flows, hardTimer, runs, pipe, analyses, restore>>

-----------------------------------------------------------------------------
(***************************************************************************)
(* The lifecycle.                                                          *)
(***************************************************************************)
\* beginIngest: a new generation, the pipeline cancelled, the stages reset.
Begun(v, at) ==
  /\ Steps < MaxSteps /\ gen' = gen + 1
  /\ flows' = [flows EXCEPT ![gen + 1] = [at |-> at, video |-> v]]
  /\ pipe' = Cancelled(pipe) /\ runs' = RunsAborted

Fresh(stage) == [ResetLifecycle(store) EXCEPT !.processing = FALSE, !.stage = stage]

\* Mutant of IngestFile: the timeout of the whole ingest is not armed.
IngestFileUnarmed(v) ==
  /\ v \in Files /\ Begun(v, "policy")
  /\ store' = [Fresh("validate") EXCEPT !.fp = v]
  /\ UNCHANGED <<hardTimer, analyses, saves, cache, restore>>

IngestFile(v) ==
  /\ v \in Files /\ Begun(v, "policy")
  /\ hardTimer' = gen + 1
  /\ store' = [Fresh("validate") EXCEPT !.fp = v]
  /\ UNCHANGED <<analyses, saves, cache, restore>>

\* A direct link needs no answer before it becomes the source.
OpenLink(v) ==
  /\ v \in Links /\ Begun(v, IF v \in Youtube THEN "meta" ELSE "bind")
  /\ store' = IF v \in Youtube
              THEN [Fresh("acquire_meta") EXCEPT !.processing = TRUE]
              ELSE [SetSourceUrl(Fresh("projectize"), v) EXCEPT !.fp = v]

IngestLink(v) ==
  /\ OpenLink(v)
  /\ UNCHANGED <<hardTimer, analyses, saves, cache, restore>>

\* A link of an unknown kind.  (No caller passes an empty one.)
IngestUnsupported ==
  /\ Begun(None, "done")
  /\ store' = FailIngest(Fresh("identify"))
  /\ UNCHANGED <<hardTimer, analyses, saves, cache, restore>>

\* Mutant of IsCurrent: an answer is applied whatever happened meanwhile.
AlwaysCurrent(g) == g \in Gens

IsCurrent(g) == g = gen

\* What happens to flow g when its answer comes too late.
GoesOn(g, at) == flows' = [flows EXCEPT ![g].at = IF IsCurrent(g) THEN at ELSE "done"]

\* The policy says whether the file is taken; a policy that cannot be had
\* falls back to a default.
PolicyAnswers(g) ==
  /\ flows[g].at = "policy"
  /\ \E taken \in BOOLEAN :
       /\ GoesOn(g, IF taken THEN "bind" ELSE "done")
       /\ store' = IF ~IsCurrent(g) THEN store
                   ELSE IF ~taken THEN FailIngest(store)
                   ELSE [SetSourceFile(SetStage(SetStage(store, "acquire_meta"), "projectize"),
                                       flows[g].video) EXCEPT !.fp = flows[g].video]
  /\ UNCHANGED <<gen, hardTimer, runs, pipe, analyses, saves, cache, restore>>

\* The details of a YouTube video, or a failure to get them.
MetaAnswers(g) ==
  /\ flows[g].at = "meta"
  /\ \E found \in BOOLEAN :
       /\ GoesOn(g, IF found THEN "bind" ELSE "done")
       /\ store' = IF ~IsCurrent(g) THEN store
                   ELSE IF ~found THEN FailIngest(store)
                   ELSE [SetStage(SetSourceUrl(store, flows[g].video), "projectize")
                         EXCEPT !.fp = flows[g].video]
  /\ UNCHANGED <<gen, hardTimer, runs, pipe, analyses, saves, cache, restore>>

\* The project is bound, or that is put off.
BindAnswers(g) ==
  /\ flows[g].at = "bind"
  /\ GoesOn(g, "cache")
  /\ UNCHANGED <<store, gen, hardTimer, runs, pipe, analyses, saves, cache, restore>>

Restored(s, v, clips) ==
  SetStage(SetStage([s EXCEPT !.fromCache = TRUE, !.fp = v, !.processing = FALSE,
                              !.transcript = cache[v], !.clips = clips],
                    "analyze"), "ready")

\* What an earlier ingest of the same video has saved replaces the pipeline.
\* Artifacts expire, so there may be none.
CacheAnswers(g) ==
  /\ flows[g].at = "cache"
  /\ GoesOn(g, "done")
  /\ LET v == flows[g].video
     IN IF ~IsCurrent(g) THEN UNCHANGED <<store, runs, pipe>>
        ELSE \/ /\ cache[v] # None
                /\ \E clips \in {cache[v], None} : store' = Restored(store, v, clips)
                /\ UNCHANGED <<runs, pipe>>
             \/ Starts(g, SetStage(store, "analyze"), pipe, runs)
  /\ UNCHANGED <<gen, hardTimer, analyses, saves, cache, restore>>

\* 75 seconds after a file was chosen.
HardTimeout ==
  /\ hardTimer # 0 /\ hardTimer' = 0
  /\ IF hardTimer # gen \/ store.stage \in Terminal
     THEN UNCHANGED <<store, saves, pipe, runs>>
     ELSE /\ pipe' = Cancelled(pipe) /\ runs' = RunsAborted
          /\ EnterReady(store)
  /\ UNCHANGED <<gen, flows, analyses, cache, restore>>

\* The cancel button of an ingest that is busy.
CancelAnalyze ==
  /\ store.processing \/ store.stage \notin {"idle"} \union Terminal
  /\ Steps < MaxSteps /\ gen' = gen + 1 /\ hardTimer' = 0
  /\ pipe' = Cancelled(pipe) /\ runs' = RunsAborted
  /\ store' = FailIngest(store)
  /\ UNCHANGED <<flows, analyses, saves, cache, restore>>

\* The analysis again, without a new ingest; every stage leads to analyze.
RetryAnalyze ==
  /\ IF ~HasMedia(store)
     THEN store' = FailIngest(store) /\ UNCHANGED <<pipe, runs>>
     ELSE /\ Steps < MaxSteps
          /\ Starts(MaxSteps + Retries + 1,
                    [store EXCEPT !.processing = FALSE, !.fromCache = FALSE,
                                  !.stage = "analyze"],
                    Cancelled(pipe), RunsAborted)
  /\ UNCHANGED <<gen, flows, hardTimer, analyses, saves, cache, restore>>

\* Replace, and the dismissal of an error: the stages begin again while
\* whatever is under way goes on.
Replace ==
  /\ HasMedia(store)
  /\ store' = ResetLifecycle(store)
  /\ UNCHANGED <<gen, flows, hardTimer, runs, pipe, analyses, saves, cache, restore>>

\* A reload finds a link; if its artifact is still there and nothing has
\* been opened by link or file, the link is opened.
SessionRestore ==
  /\ restore # None /\ restore' = None
  /\ \/ store.url = None /\ OpenLink(restore)
     \/ UNCHANGED <<store, gen, flows, runs, pipe>>
  /\ UNCHANGED <<hardTimer, analyses, saves, cache>>

-----------------------------------------------------------------------------
UserStep ==
  \/ \E v \in Files : IngestFile(v)
  \/ \E v \in Links : IngestLink(v)
  \/ IngestUnsupported \/ CancelAnalyze \/ RetryAnalyze \/ Replace

Answer ==
  \/ \E g \in Gens : PolicyAnswers(g) \/ MetaAnswers(g) \/ BindAnswers(g) \/ CacheAnswers(g)
  \/ \E r \in Runs : TokenAnswers(r) \/ AudioArrives(r) \/ AudioFails(r)
  \/ \E a \in analyses : AnalysisAnswers(a) \/ AnalysisFails(a)
  \/ \E s \in saves : SaveDone(s)
  \/ SessionRestore

Worker == WorkerBegins \/ WorkerCompletes \/ WorkerFails
Effect == TranscriptEffect \/ ErrorEffect
Timer  == WhisperTimeout \/ PipelineTimeout \/ HardTimeout

Next == UserStep \/ Answer \/ Worker \/ Effect \/ Timer

Spec == Init /\ [][Next]_vars

\* What is awaited answers, unless it is among Hangs; audio settles within
\* 20 seconds; the browser runs its timers, effects and transactions.
Heard(wait) == wait \notin Hangs

Fairness ==
  /\ \A g \in Gens : WF_vars(\/ Heard("policy") /\ PolicyAnswers(g)
                             \/ Heard("meta") /\ MetaAnswers(g)
                             \/ Heard("bind") /\ BindAnswers(g)
                             \/ Heard("cache") /\ CacheAnswers(g))
  /\ \A r \in Runs : WF_vars(\/ Heard("token") /\ TokenAnswers(r)
                             \/ AudioArrives(r) \/ AudioFails(r))
  /\ WF_vars(Heard("whisper") /\ (WorkerCompletes \/ WorkerFails))
  /\ WF_vars(Heard("analyze") /\ \E a \in analyses : AnalysisAnswers(a) \/ AnalysisFails(a))
  /\ WF_vars(\E s \in saves : SaveDone(s))
  /\ WF_vars(TranscriptEffect) /\ WF_vars(ErrorEffect)
  /\ WF_vars(WhisperTimeout) /\ WF_vars(PipelineTimeout) /\ WF_vars(HardTimeout)

FairSpec == Spec /\ Fairness

-----------------------------------------------------------------------------
(***************************************************************************)
(* Properties.                                                             *)
(***************************************************************************)
\* An ingest is ready only with a video to edit: an analysis that fails or
\* times out must not declare ready an ingest that never got its file
\* (enterReadyPreservingMedia), whichever of the timers, errors and late
\* answers comes first.
ReadyHasMedia == store.stage = "ready" => HasMedia(store)

\* From the moment the latest ingest has set its source until its pipeline
\* starts, the source stays its own: no answer an earlier ingest still
\* waits for replaces the video (ingestGenRef).
SourceIsLatest ==
  gen > 0 /\ flows[gen].at \in {"bind", "cache"} =>
    /\ store.url = flows[gen].video
    /\ flows[gen].video \in Files => store.file = store.url

\* Clips come from the run that is active or from the artifact of the latest
\* ingest: an analysis that was cancelled or superseded proposes nothing
\* (activeRunIdRef).
ClipsOfRun ==
  [][store'.clips # store.clips /\ store'.clips # None =>
       \/ \E a \in analyses \ analyses' : a.run = pipe.active /\ a.of = store'.clips
       \/ store'.fromCache /\ flows[gen] # flows'[gen]]_vars

\* Whatever of an ingest hangs or fails, but the analysis, an ingest of a file
\* comes to an end: nothing traps the editor in a stage of work.
Latest(S) == gen > 0 /\ flows[gen].video \in S
Settled   == store.stage \in {"idle"} \union Terminal

FileSettles == Latest(Files) ~> (Settled \/ ~Latest(Files))

\* The same of a YouTube link.  It does not hold: ingestUrl marks the editor
\* as processing before it asks for the details, and runPipeline returns at
\* once because of it.
YoutubeSettles == Latest(Youtube) ~> (Settled \/ ~Latest(Youtube))

=============================================================================
