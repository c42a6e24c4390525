---------------------------- MODULE IngestProofs ----------------------------
(***************************************************************************)
(* What Ingest.tla keeps for every set of videos, every number of ingests, *)
(* retries and analyses, and whatever hangs.                               *)
(***************************************************************************)
EXTENDS Ingest, FiniteSetTheorems, TLAPS

SavesOK == saves \subseteq [fp : Videos, of : Videos]

\* What most steps leave alone of the store: the video and what it has.
Keeps(s, t) == t.file = s.file /\ t.url = s.url /\ t.transcript = s.transcript

(***************************************************************************)
(* The operations on the store.                                            *)
(***************************************************************************)
LEMMA SetStageEffect ==
  ASSUME NEW s \in Store, NEW t \in Stages
  PROVE  /\ SetStage(s, t) \in Store /\ Keeps(s, SetStage(s, t))
         /\ SetStage(s, t).stage \in {s.stage, t}
         /\ SetStage(s, t).processing = s.processing /\ SetStage(s, t).clips = s.clips
         /\ SetStage(s, t).fp = s.fp /\ SetStage(s, t).fromCache = s.fromCache
  BY DEF SetStage, Store, Keeps

LEMMA FailEffect ==
  ASSUME NEW s \in Store
  PROVE  FailIngest(s) \in Store /\ Keeps(s, FailIngest(s)) /\ FailIngest(s).stage = "failed"
  BY DEF FailIngest, Store, Keeps, Stages

LEMMA ResetEffect ==
  ASSUME NEW s \in Store
  PROVE  /\ ResetLifecycle(s) \in Store /\ Keeps(s, ResetLifecycle(s))
         /\ ResetLifecycle(s).stage = "idle"
  BY DEF ResetLifecycle, Store, Keeps, Stages, Maybe

LEMMA SourceEffect ==
  ASSUME NEW s \in Store, NEW v \in Videos
  PROVE  /\ SetSourceUrl(s, v) \in Store
         /\ SetSourceUrl(s, v).url = v /\ SetSourceUrl(s, v).stage = s.stage
         /\ v \in Files => /\ SetSourceFile(s, v) \in Store
                           /\ SetSourceFile(s, v).url = v /\ SetSourceFile(s, v).file = v
                           /\ SetSourceFile(s, v).stage = s.stage
  BY DEF SetSourceUrl, SetSourceFile, DropDerived, Store, Maybe

LEMMA AdvanceEffect ==
  ASSUME NEW s \in Store
  PROVE  AdvanceToReady(s) \in Store /\ Keeps(s, AdvanceToReady(s))
  BY DEF AdvanceToReady, Store, Keeps, Stages, Terminal

\* Only a store with a video is declared ready or saved.
LEMMA PersistEffect ==
  ASSUME NEW s \in Store, SavesOK, PersistAndReady(s)
  PROVE  store' \in Store /\ Keeps(s, store') /\ SavesOK'
<1>1. CASE s.fp # None /\ s.transcript # None
  <2>1. [fp |-> s.fp, of |-> s.transcript] \in [fp : Videos, of : Videos]
    BY <1>1 DEF Store, Maybe
  <2>2. QED  BY <1>1, <2>1 DEF PersistAndReady, SavesOK, Keeps
<1>2. CASE ~(s.fp # None /\ s.transcript # None)
  BY <1>2, AdvanceEffect DEF PersistAndReady, SavesOK
<1>3. QED  BY <1>1, <1>2

LEMMA EnterEffect ==
  ASSUME store \in Store, SavesOK, EnterReady(store)
  PROVE  /\ store' \in Store /\ Keeps(store, store') /\ SavesOK'
         /\ ~HasMedia(store) => store'.stage = "failed" /\ saves' = saves
<1> DEFINE quiet == [store EXCEPT !.processing = FALSE]
           again == IF store.stage = "failed" THEN SetStage(quiet, "analyze") ELSE quiet
<1>1. quiet \in Store /\ Keeps(store, quiet)
  BY DEF Store, Keeps
<1> HIDE DEF quiet
<1>2. again \in Store /\ Keeps(store, again)
  BY <1>1, SetStageEffect DEF Stages, Keeps
<1>3. CASE HasMedia(store)
  <2>1. PersistAndReady(again)  BY <1>3 DEF EnterReady, quiet
  <2> HIDE DEF again
  <2>2. QED  BY <1>2, <1>3, <2>1, PersistEffect DEF Keeps
<1>4. CASE ~HasMedia(store)
  BY <1>4, FailEffect DEF EnterReady, SavesOK
<1>5. QED  BY <1>3, <1>4

LEMMA MediaKept ==
  ASSUME NEW s, NEW t, Keeps(s, t)
  PROVE  HasMedia(s) <=> HasMedia(t)
  BY DEF Keeps, HasMedia

(***************************************************************************)
(* The inductive invariants.                                               *)
(***************************************************************************)
\* Without a video nothing is under way that could make the ingest ready.
MediaInv ==
  /\ ReadyHasMedia
  /\ HasMedia(store) \/
       /\ store.transcript = None /\ saves = {} /\ analyses = {} /\ pipe.active = 0
       /\ \A r \in Runs : runs[r].at \in {"none", "done"}
       /\ \A g \in Gens : flows[g].at \notin {"bind", "cache"}
  /\ \A g \in Gens : flows[g].at \in {"policy", "meta", "bind", "cache"} => flows[g].video \in Videos

SourceInv ==
  /\ SourceIsLatest
  /\ \A g \in Gens : g > gen => flows[g].at = "none"
  /\ \A g \in Gens : /\ flows[g].at = "policy" => flows[g].video \in Files
                     /\ flows[g].at = "meta" => flows[g].video \in Links

\* A run is started once: that of an ingest by its own flow, and the retries
\* in order.
Retried == {r \in Runs : r > MaxSteps /\ runs[r].at # "none"}

Downloads == {"token", "audio", "aborted"}

RunsInv ==
  /\ \A r \in Runs : runs[r].at \in Downloads => runs[r].audio \in Videos
  /\ \A g \in Gens : flows[g].at # "done" => runs[g].at = "none"
  /\ Retried = (MaxSteps + 1)..(MaxSteps + Retries) /\ Retries \in Nat

IngestInv == TypeOK /\ MediaInv /\ SourceInv /\ RunsInv

LEMMA Begins == Init => IngestInv
<1> SUFFICES ASSUME Init PROVE IngestInv
  OBVIOUS
<1> USE IngestAssumption DEF IngestAssumption, Init
<1>1. TypeOK
  BY DEF TypeOK, Pipe, Store, Stages, Maybe, Gens, Runs, Videos, Links
<1>2. MediaInv
  BY DEF MediaInv, ReadyHasMedia, HasMedia, Gens, Runs
<1>3. SourceInv
  BY DEF SourceInv, SourceIsLatest, Gens
<1>4. RunsInv
  <2>1. Retried = {}  BY DEF Retried, Runs
  <2>2. Retries = 0
    BY <2>1, FS_EmptySet DEF Retries, Retried
  <2>3. QED  BY <2>1, <2>2 DEF RunsInv, Gens, Runs, Downloads
<1>5. QED  BY <1>1, <1>2, <1>3, <1>4 DEF IngestInv

(***************************************************************************)
(* Parts of the invariant that a step leaves alone.                        *)
(***************************************************************************)
\* What is known of a run that goes on, and of the count of the retries.
LEMMA RunGoesOn ==
  ASSUME IngestInv, UNCHANGED flows, NEW r \in Runs, runs[r].at # "none", NEW x, x.at # "none",
         x.at \in Downloads => x.audio \in Videos,
         runs' = [runs EXCEPT ![r] = x]
  PROVE  RunsInv'
<1>1. \A q \in Runs : runs'[q].at # "none" <=> runs[q].at # "none"
  BY DEF IngestInv, TypeOK
<1>2. Retried' = Retried
  BY <1>1 DEF Retried
<1>3. Retries' = Retries
  BY <1>2 DEF Retries, Retried
<1>4. \A g \in Gens : g \in Runs
  BY IngestAssumption DEF IngestAssumption, Gens, Runs
<1>5. \A q \in Runs : runs'[q].at \in Downloads => runs'[q].audio \in Videos
  BY DEF IngestInv, RunsInv, TypeOK
<1>6. QED  BY <1>1, <1>2, <1>3, <1>4, <1>5 DEF IngestInv, RunsInv

LEMMA RunsUnchanged ==
  ASSUME RunsInv, UNCHANGED runs, UNCHANGED flows
  PROVE  RunsInv'
  BY DEF RunsInv, Retried, Retries

\* The source of the latest ingest is not touched by what keeps the video.
LEMMA SourceKept ==
  ASSUME SourceInv, Keeps(store, store'), UNCHANGED <<gen, flows>>
  PROVE  SourceInv'
  BY DEF SourceInv, SourceIsLatest, Keeps

LEMMA MediaThere ==
  ASSUME MediaInv, HasMedia(store)', UNCHANGED flows
  PROVE  MediaInv'
  BY DEF MediaInv, ReadyHasMedia

\* Aborting the run that downloads neither starts nor forgets one.
LEMMA Aborting ==
  ASSUME IngestInv, runs' = RunsAborted
  PROVE  /\ runs' \in [Runs -> [at : {"none", "token", "audio", "aborted", "done"},
                                audio : Maybe(Videos)]]
         /\ \A r \in Runs : /\ runs'[r].at = "none" <=> runs[r].at = "none"
                            /\ runs[r].at = "done" => runs'[r].at = "done"
                            /\ runs[r].at \in {"none", "done"} => runs'[r].at \in {"none", "done"}
         /\ \A r \in Runs : runs'[r].at \in Downloads => runs'[r].audio \in Videos
         /\ Retries' = Retries /\ Retried' = Retried
<1>0. \A r \in Runs : runs'[r].at \in Downloads => runs'[r].audio \in Videos
  BY DEF IngestInv, TypeOK, RunsAborted, RunsInv, Downloads
<1>1. /\ runs' \in [Runs -> [at : {"none", "token", "audio", "aborted", "done"},
                             audio : Maybe(Videos)]]
      /\ \A r \in Runs : /\ runs'[r].at = "none" <=> runs[r].at = "none"
                         /\ runs[r].at = "done" => runs'[r].at = "done"
                         /\ runs[r].at \in {"none", "done"} => runs'[r].at \in {"none", "done"}
  BY DEF IngestInv, TypeOK, RunsAborted
<1>2. Retried' = Retried
  BY <1>1 DEF Retried
<1>3. QED  BY <1>0, <1>1, <1>2 DEF Retries, Retried

LEMMA AbortingRuns ==
  ASSUME IngestInv, runs' = RunsAborted, UNCHANGED flows
  PROVE  RunsInv'
<1>1. \A g \in Gens : g \in Runs
  BY IngestAssumption DEF IngestAssumption, Gens, Runs
<1>2. QED  BY <1>1, Aborting DEF IngestInv, RunsInv

(***************************************************************************)
(* The steps of the pipeline.                                              *)
(***************************************************************************)
LEMMA TokenStep ==
  ASSUME IngestInv, NEW r \in Runs, TokenAnswers(r)
  PROVE  IngestInv'
<1>1. store' \in Store /\ Keeps(store, store') /\ HasMedia(store)
  BY DEF TokenAnswers, IngestInv, TypeOK, MediaInv, Store, Keeps
<1>2. HasMedia(store)'
  BY <1>1, MediaKept
<1>3. TypeOK'
  BY <1>1 DEF TokenAnswers, IngestInv, TypeOK, Pipe
<1>4. RunsInv'
  <2> DEFINE x == [runs[r] EXCEPT !.at = "audio"]
  <2>1. /\ x.at # "none" /\ runs' = [runs EXCEPT ![r] = x] /\ runs[r].at # "none"
        /\ x.at \in Downloads => x.audio \in Videos
    BY DEF TokenAnswers, IngestInv, TypeOK, RunsInv, Downloads
  <2> HIDE DEF x
  <2>2. QED  BY <2>1, RunGoesOn DEF TokenAnswers
<1>5. QED
  BY <1>1, <1>2, <1>3, <1>4, MediaThere, SourceKept DEF TokenAnswers, IngestInv

LEMMA AudioArrivesStep ==
  ASSUME IngestInv, NEW r \in Runs, AudioArrives(r)
  PROVE  IngestInv'
<1>1. store' \in Store /\ Keeps(store, store') /\ HasMedia(store)
  BY DEF AudioArrives, IngestInv, TypeOK, MediaInv, Store, Keeps
<1>2. HasMedia(store)'
  BY <1>1, MediaKept
<1>3. TypeOK'
  <2>1. runs[r].audio \in Videos
    BY DEF AudioArrives, IngestInv, RunsInv, Downloads
  <2>2. pipe' \in Pipe /\ pipe'.active = r
    BY <2>1 DEF AudioArrives, IngestInv, TypeOK, Pipe
  <2>3. runs'[r].at = "done" /\ runs' \in [Runs -> [at : {"none", "token", "audio", "aborted", "done"},
                                                    audio : Maybe(Videos)]]
    BY DEF AudioArrives, IngestInv, TypeOK, Maybe
  <2>4. QED  BY <1>1, <2>2, <2>3 DEF AudioArrives, IngestInv, TypeOK
<1>4. RunsInv'
  <2> DEFINE x == [at |-> "done", audio |-> None]
  <2>1. /\ x.at # "none" /\ runs' = [runs EXCEPT ![r] = x] /\ runs[r].at # "none"
        /\ x.at \in Downloads => x.audio \in Videos
    BY DEF AudioArrives, Downloads
  <2> HIDE DEF x
  <2>2. QED  BY <2>1, RunGoesOn DEF AudioArrives
<1>5. QED
  BY <1>1, <1>2, <1>3, <1>4, MediaThere, SourceKept DEF AudioArrives, IngestInv

\* A step that lets an analysis that failed, or what took its time, end the
\* ingest.
LEMMA Entering ==
  ASSUME IngestInv, EnterReady(store), UNCHANGED <<gen, flows, analyses>>,
         pipe.active = 0 => pipe'.active = 0,
         \A r \in Runs : runs[r].at \in {"none", "done"} => runs'[r].at \in {"none", "done"}
  PROVE  store' \in Store /\ SavesOK' /\ SourceInv' /\ MediaInv'
<1>1. /\ store' \in Store /\ Keeps(store, store') /\ SavesOK'
      /\ ~HasMedia(store) => store'.stage = "failed" /\ saves' = saves
  BY EnterEffect DEF IngestInv, TypeOK, SavesOK
<1>2. HasMedia(store)' <=> HasMedia(store)
  BY <1>1, MediaKept
<1>3. CASE HasMedia(store)
  BY <1>1, <1>2, <1>3, MediaThere, SourceKept DEF IngestInv
<1>4. CASE ~HasMedia(store)
  <2>1. MediaInv'
    BY <1>1, <1>2, <1>4 DEF IngestInv, MediaInv, ReadyHasMedia, Keeps
  <2>2. QED  BY <1>1, <2>1, SourceKept DEF IngestInv
<1>5. QED  BY <1>3, <1>4

LEMMA AudioFailsStep ==
  ASSUME IngestInv, NEW r \in Runs, AudioFails(r)
  PROVE  IngestInv'
<1>1. store' \in Store /\ SavesOK' /\ SourceInv' /\ MediaInv'
  BY Entering DEF AudioFails, IngestInv, TypeOK
<1>2. TypeOK'
  BY <1>1 DEF AudioFails, IngestInv, TypeOK, SavesOK, Maybe
<1>3. RunsInv'
  <2> DEFINE x == [at |-> "done", audio |-> None]
  <2>1. /\ x.at # "none" /\ runs' = [runs EXCEPT ![r] = x] /\ runs[r].at # "none"
        /\ x.at \in Downloads => x.audio \in Videos
    BY DEF AudioFails, Downloads
  <2> HIDE DEF x
  <2>2. QED  BY <2>1, RunGoesOn DEF AudioFails
<1>4. QED  BY <1>1, <1>2, <1>3 DEF IngestInv

LEMMA WorkerStep ==
  ASSUME IngestInv, Worker
  PROVE  IngestInv'
<1>1. /\ UNCHANGED <<store, gen, flows, hardTimer, runs, analyses, saves, cache, restore>>
      /\ pipe'.active = pipe.active
  BY DEF Worker, WorkerBegins, WorkerCompletes, WorkerFails, IngestInv, TypeOK, Pipe
<1>2. pipe' \in Pipe
  <2>1. CASE WorkerBegins
    BY <2>1 DEF WorkerBegins, IngestInv, TypeOK, Pipe, Maybe
  <2>2. CASE WorkerCompletes
    <3>1. PICK v \in pipe.jobs : pipe' = [pipe EXCEPT !.message = v, !.jobs = @ \ {v}]
      BY <2>2 DEF WorkerCompletes
    <3>2. QED  BY <3>1 DEF IngestInv, TypeOK, Pipe, Maybe
  <2>3. CASE WorkerFails
    <3>1. PICK v \in pipe.jobs, seen \in {TRUE, ~pipe.broken} :
             pipe' = [pipe EXCEPT !.jobs = @ \ {v}, !.broken = TRUE, !.due = @ \/ seen]
      BY <2>3 DEF WorkerFails
    <3>2. (pipe.due \/ seen) \in BOOLEAN /\ pipe.jobs \ {v} \in SUBSET Videos
      BY DEF IngestInv, TypeOK, Pipe
    <3>3. QED  BY <3>1, <3>2 DEF IngestInv, TypeOK, Pipe
  <2>4. QED  BY <2>1, <2>2, <2>3 DEF Worker
<1>3. TypeOK'
  BY <1>1, <1>2 DEF IngestInv, TypeOK
<1>4. MediaInv' /\ SourceInv' /\ RunsInv'
  BY <1>1, RunsUnchanged
     DEF IngestInv, MediaInv, ReadyHasMedia, HasMedia, SourceInv, SourceIsLatest
<1>5. QED  BY <1>3, <1>4 DEF IngestInv

LEMMA TranscriptStep ==
  ASSUME IngestInv, TranscriptEffect
  PROVE  IngestInv'
<1>0. HasMedia(store) /\ pipe.message \in Videos
  BY DEF TranscriptEffect, IngestInv, TypeOK, MediaInv, Pipe, Maybe
<1>1. store' \in Store /\ HasMedia(store)'
  BY <1>0 DEF TranscriptEffect, IngestInv, TypeOK, Store, HasMedia, Maybe
<1>2. TypeOK'
  <2>1. pipe' \in Pipe /\ pipe'.active = pipe.active
    <3>1. (pipe.due \/ pipe.analysisError) \in BOOLEAN /\ pipe.asked + 1 \in 0..MaxAnalyses
      BY IngestAssumption DEF IngestAssumption, TranscriptEffect, IngestInv, TypeOK, Pipe
    <3>2. QED  BY <3>1 DEF TranscriptEffect, IngestInv, TypeOK, Pipe
  <2>2. [n |-> pipe.asked + 1, run |-> pipe.active, of |-> pipe.message]
           \in [n : 1..MaxAnalyses, run : Runs, of : Videos]
    <3>1. /\ pipe.asked + 1 \in 1..MaxAnalyses /\ pipe.active \in Runs
          /\ pipe.message \in Videos
      BY IngestAssumption DEF IngestAssumption, TranscriptEffect, IngestInv, TypeOK, Pipe, Maybe
    <3>2. QED  BY <3>1
  <2>3. analyses' \subseteq [n : 1..MaxAnalyses, run : Runs, of : Videos]
    BY <2>2 DEF TranscriptEffect, IngestInv, TypeOK
  <2>4. QED  BY <1>1, <2>1, <2>3 DEF TranscriptEffect, IngestInv, TypeOK
<1>3. SourceInv'
  BY DEF TranscriptEffect, IngestInv, TypeOK, Store, SourceInv, SourceIsLatest
<1>4. QED
  BY <1>1, <1>2, <1>3, MediaThere, RunsUnchanged DEF TranscriptEffect, IngestInv

\* The end of a run, with clips or without.
LEMMA Ending ==
  ASSUME IngestInv, HasMedia(store), NEW s \in Store, Keeps(store, s), PersistAndReady(s),
         UNCHANGED <<gen, flows>>
  PROVE  store' \in Store /\ SavesOK' /\ SourceInv' /\ MediaInv'
<1>1. store' \in Store /\ Keeps(s, store') /\ SavesOK'
  BY PersistEffect DEF IngestInv, TypeOK, SavesOK
<1>2. Keeps(store, store')
  BY <1>1 DEF Keeps
<1>3. QED  BY <1>1, <1>2, MediaKept, MediaThere, SourceKept DEF IngestInv

LEMMA AnalysisAnswersStep ==
  ASSUME IngestInv, NEW a \in analyses, AnalysisAnswers(a)
  PROVE  IngestInv'
<1>1. HasMedia(store) /\ a \in [n : 1..MaxAnalyses, run : Runs, of : Videos]
  BY DEF IngestInv, MediaInv, TypeOK
<1>2. store' \in Store /\ SavesOK' /\ SourceInv' /\ MediaInv'
  <2>1. CASE Live(a)
    <3>1. PICK clips \in {a.of, None} :
             PersistAndReady([store EXCEPT !.processing = FALSE,
                                !.clips = IF clips = None THEN @ ELSE clips])
      BY <2>1 DEF AnalysisAnswers
    <3> DEFINE s == [store EXCEPT !.processing = FALSE,
                                  !.clips = IF clips = None THEN @ ELSE clips]
    <3>2. s \in Store /\ Keeps(store, s) /\ PersistAndReady(s)
      BY <1>1, <3>1 DEF IngestInv, TypeOK, Store, Maybe, Keeps
    <3> HIDE DEF s
    <3>3. QED  BY <1>1, <3>2, Ending DEF AnalysisAnswers
  <2>2. CASE ~Live(a)
    <3>1. UNCHANGED <<store, saves, gen, flows>>
      BY <2>2 DEF AnalysisAnswers
    <3>2. QED
      BY <1>1, <3>1, MediaThere, SourceKept DEF IngestInv, TypeOK, SavesOK, Keeps, HasMedia
  <2>3. QED  BY <2>1, <2>2
<1>3. pipe' \in Pipe /\ pipe'.active = pipe.active
  BY DEF AnalysisAnswers, IngestInv, TypeOK, Pipe
<1>4. TypeOK'
  BY <1>2, <1>3 DEF AnalysisAnswers, IngestInv, TypeOK, SavesOK
<1>5. QED  BY <1>2, <1>4, RunsUnchanged DEF AnalysisAnswers, IngestInv

LEMMA AnalysisFailsStep ==
  ASSUME IngestInv, NEW a \in analyses, AnalysisFails(a)
  PROVE  IngestInv'
<1>1. HasMedia(store) /\ a \in [n : 1..MaxAnalyses, run : Runs, of : Videos]
  BY DEF IngestInv, MediaInv, TypeOK
<1>2. store' \in Store /\ SavesOK' /\ SourceInv' /\ MediaInv'
  <2>1. CASE Live(a)
    <3> DEFINE s == [store EXCEPT !.processing = FALSE]
    <3>1. s \in Store /\ Keeps(store, s) /\ PersistAndReady(s)
      BY <2>1 DEF AnalysisFails, IngestInv, TypeOK, Store, Keeps
    <3> HIDE DEF s
    <3>2. QED  BY <1>1, <3>1, Ending DEF AnalysisFails
  <2>2. CASE ~Live(a)
    <3>1. UNCHANGED <<store, saves, gen, flows>>
      BY <2>2 DEF AnalysisFails
    <3>2. QED
      BY <1>1, <3>1, MediaThere, SourceKept DEF IngestInv, TypeOK, SavesOK, Keeps, HasMedia
  <2>3. QED  BY <2>1, <2>2
<1>3. pipe' \in Pipe /\ pipe'.active = pipe.active
  <2>1. PICK seen \in {TRUE, ~pipe.analysisError} :
           pipe' = [pipe EXCEPT !.analysisError = TRUE, !.due = @ \/ seen,
                                !.timer = IF Live(a) THEN 0 ELSE @]
    BY DEF AnalysisFails
  <2>2. (pipe.due \/ seen) \in BOOLEAN
    BY DEF IngestInv, TypeOK, Pipe
  <2>3. QED  BY <2>1, <2>2 DEF IngestInv, TypeOK, Pipe
<1>4. TypeOK'
  BY <1>2, <1>3 DEF AnalysisFails, IngestInv, TypeOK, SavesOK
<1>5. QED  BY <1>2, <1>4, RunsUnchanged DEF AnalysisFails, IngestInv

LEMMA ErrorStep ==
  ASSUME IngestInv, ErrorEffect
  PROVE  IngestInv'
<1>1. /\ UNCHANGED <<gen, flows, hardTimer, runs, analyses, cache, restore>>
      /\ pipe' \in Pipe /\ pipe'.active \in {0, pipe.active}
  BY DEF ErrorEffect, IngestInv, TypeOK, Pipe
<1>2. store' \in Store /\ SavesOK' /\ SourceInv' /\ MediaInv'
  <2>1. CASE EnterReady(store)
    BY <1>1, <2>1, Entering DEF IngestInv, TypeOK
  <2>2. CASE UNCHANGED <<store, saves>>
    <3>1. SourceInv'
      BY <1>1, <2>2, SourceKept DEF IngestInv, Keeps
    <3>2. MediaInv'
      BY <1>1, <2>2 DEF IngestInv, MediaInv, ReadyHasMedia, HasMedia
    <3>3. QED  BY <2>2, <3>1, <3>2 DEF IngestInv, TypeOK, SavesOK
  <2>3. CASE store.transcript # None /\ PersistAndReady([store EXCEPT !.processing = FALSE])
    <3> DEFINE s == [store EXCEPT !.processing = FALSE]
    <3>1. s \in Store /\ Keeps(store, s) /\ PersistAndReady(s) /\ HasMedia(store)
      BY <2>3 DEF IngestInv, TypeOK, MediaInv, Store, Keeps
    <3> HIDE DEF s
    <3>2. QED  BY <1>1, <3>1, Ending
  <2>4. QED  BY <2>1, <2>2, <2>3 DEF ErrorEffect
<1>3. TypeOK'
  BY <1>1, <1>2 DEF IngestInv, TypeOK, SavesOK
<1>4. QED  BY <1>1, <1>2, <1>3, RunsUnchanged DEF IngestInv

\* Cancelling the pipeline.
LEMMA CancelEffect ==
  ASSUME NEW p \in Pipe
  PROVE  Cancelled(p) \in Pipe /\ Cancelled(p).active = 0
  BY DEF Cancelled, Pipe

LEMMA WhisperStep ==
  ASSUME IngestInv, WhisperTimeout
  PROVE  IngestInv'
<1>1. /\ UNCHANGED <<gen, flows, hardTimer, runs, analyses, cache, restore>>
      /\ pipe' \in Pipe /\ pipe'.active = pipe.active
  BY DEF WhisperTimeout, IngestInv, TypeOK, Pipe
<1>2. store' \in Store /\ SavesOK' /\ SourceInv' /\ MediaInv'
  BY <1>1, Entering DEF WhisperTimeout, IngestInv, TypeOK
<1>3. TypeOK'
  BY <1>1, <1>2 DEF IngestInv, TypeOK, SavesOK
<1>4. QED  BY <1>1, <1>2, <1>3, RunsUnchanged DEF IngestInv

LEMMA PipelineStep ==
  ASSUME IngestInv, PipelineTimeout
  PROVE  IngestInv'
<1>1. /\ UNCHANGED <<gen, flows, hardTimer, analyses, cache, restore>>
      /\ runs' = RunsAborted /\ pipe' \in Pipe /\ pipe'.active = 0
  BY CancelEffect DEF PipelineTimeout, IngestInv, TypeOK
<1>2. store' \in Store /\ SavesOK' /\ SourceInv' /\ MediaInv'
  BY <1>1, Aborting, Entering DEF PipelineTimeout
<1>3. TypeOK'
  BY <1>1, <1>2, Aborting DEF IngestInv, TypeOK, SavesOK
<1>4. QED  BY <1>1, <1>2, <1>3, AbortingRuns DEF IngestInv

LEMMA SaveStep ==
  ASSUME IngestInv, NEW s \in saves, SaveDone(s)
  PROVE  IngestInv'
<1>1. s \in [fp : Videos, of : Videos] /\ HasMedia(store)
  BY DEF IngestInv, TypeOK, MediaInv
<1>2. store' \in Store /\ Keeps(store, store')
  BY AdvanceEffect DEF SaveDone, IngestInv, TypeOK
<1>3. HasMedia(store)'
  BY <1>1, <1>2, MediaKept
<1>4. TypeOK'
  BY <1>1, <1>2 DEF SaveDone, IngestInv, TypeOK, Maybe
<1>5. QED
  BY <1>2, <1>3, <1>4, MediaThere, SourceKept, RunsUnchanged DEF SaveDone, IngestInv

(***************************************************************************)
(* The steps of the lifecycle.                                             *)
(***************************************************************************)
Waiting == {"none", "policy", "meta", "bind", "cache", "done"}
FlowsOK == flows \in [Gens -> [at : Waiting, video : Maybe(Videos)]]
RunsOK  == runs \in [Runs -> [at : {"none", "token", "audio", "aborted", "done"},
                              audio : Maybe(Videos)]]

\* A new generation, and what is known of everything but its own video.
Began(v, at) ==
  /\ gen' = gen + 1 /\ gen' \in Gens /\ gen' \in 0..MaxSteps
  /\ FlowsOK' /\ flows'[gen'] = [at |-> at, video |-> v]
  /\ \A g \in Gens : g # gen' => flows'[g] = flows[g]
  /\ \A g \in Gens : g > gen' => flows'[g].at = "none"
  /\ RunsOK' /\ RunsInv'
  /\ \A r \in Runs : runs[r].at \in {"none", "done"} => runs'[r].at \in {"none", "done"}
  /\ pipe' \in Pipe /\ pipe'.active = 0

LEMMA Beginning ==
  ASSUME IngestInv, NEW v \in Maybe(Videos), NEW at \in Waiting \ {"none"}, Begun(v, at)
  PROVE  Began(v, at)
<1>1. gen' = gen + 1 /\ gen' \in Gens /\ gen' \in 0..MaxSteps
  BY IngestAssumption DEF IngestAssumption, Begun, Steps, IngestInv, TypeOK, RunsInv, Gens
<1>2. FlowsOK' /\ flows'[gen'] = [at |-> at, video |-> v]
  BY <1>1 DEF Begun, IngestInv, TypeOK, FlowsOK, Waiting
<1>3. \A g \in Gens : g # gen' => flows'[g] = flows[g]
  BY <1>1 DEF Begun, IngestInv, TypeOK
<1>4. \A g \in Gens : g > gen' => flows'[g].at = "none"
  BY <1>1, <1>3 DEF IngestInv, TypeOK, SourceInv, Gens
<1>5. pipe' \in Pipe /\ pipe'.active = 0
  BY CancelEffect DEF Begun, IngestInv, TypeOK
<1>6. runs' = RunsAborted /\ flows[gen'].at = "none"
  BY <1>1 DEF Begun, IngestInv, TypeOK, SourceInv, Gens
<1>7. /\ RunsOK'
      /\ \A r \in Runs : runs[r].at \in {"none", "done"} => runs'[r].at \in {"none", "done"}
  BY <1>6, Aborting DEF RunsOK
<1>8. \A g \in Gens : flows'[g].at # "done" => runs'[g].at = "none"
  <2>1. \A g \in Gens : g \in Runs
    BY IngestAssumption DEF IngestAssumption, Gens, Runs
  <2>2. \A g \in Gens : flows'[g].at # "done" => flows[g].at # "done"
    BY <1>3, <1>6
  <2>3. \A g \in Gens : flows[g].at # "done" => runs[g].at = "none"
    BY DEF IngestInv, RunsInv
  <2>4. \A r \in Runs : runs'[r].at = "none" <=> runs[r].at = "none"
    BY <1>6, Aborting
  <2>5. QED  BY <2>1, <2>2, <2>3, <2>4
<1>9. RunsInv'
  BY <1>6, <1>8, Aborting DEF IngestInv, RunsInv
<1>10. QED  BY <1>1, <1>2, <1>3, <1>4, <1>5, <1>7, <1>9 DEF Began

\* An ingest begins: its own video is not the source yet, unless the store
\* has it.
LEMMA BeginningInv ==
  ASSUME IngestInv, NEW v \in Maybe(Videos), NEW at \in Waiting \ {"none"}, Begun(v, at),
         at = "policy" => v \in Files, at = "meta" => v \in Links,
         at \in {"bind", "cache"} => v \in Links /\ store'.url = v /\ HasMedia(store)',
         store' \in Store, store'.stage # "ready",
         HasMedia(store)' \/ (~HasMedia(store) /\ store'.transcript = store.transcript),
         UNCHANGED <<analyses, saves, cache>>, hardTimer' \in 0..MaxSteps,
         restore' \in Maybe(Restorable)
  PROVE  IngestInv'
<1>0. None \notin Videos /\ \A w \in Links : w \in Videos /\ w \notin Files
  BY IngestAssumption DEF IngestAssumption, Videos, Links
<1>b. Began(v, at)
  BY Beginning
<1>1. TypeOK'
  BY <1>b DEF Began, IngestInv, TypeOK, FlowsOK, RunsOK, Waiting
<1>2. MediaInv'
  <2>1. \A g \in Gens : flows'[g].at \in {"policy", "meta", "bind", "cache"} => flows'[g].video \in Videos
    <3>1. TAKE g \in Gens
    <3>2. CASE g = gen'
      <4>1. flows'[g].at = at /\ flows'[g].video = v
        BY <1>b, <3>2 DEF Began
      <4>2. at \in {"policy", "meta", "bind", "cache"} => v \in Videos
        BY <1>0 DEF Videos
      <4>3. QED  BY <4>1, <4>2
    <3>3. CASE g # gen'
      BY <1>b, <3>3 DEF Began, IngestInv, MediaInv
    <3>4. QED  BY <3>2, <3>3
  <2>2. CASE HasMedia(store)'
    BY <2>1, <2>2 DEF MediaInv, ReadyHasMedia
  <2>3. CASE ~HasMedia(store)' /\ ~HasMedia(store) /\ store'.transcript = store.transcript
    <3>1. \A g \in Gens : flows'[g].at \notin {"bind", "cache"}
      <4>1. \A g \in Gens : flows[g].at \notin {"bind", "cache"}
        BY <2>3 DEF IngestInv, MediaInv
      <4>2. at \notin {"bind", "cache"} /\ flows'[gen'].at = at
        BY <2>3, <1>b DEF Began
      <4>3. QED  BY <1>b, <4>1, <4>2 DEF Began
    <3>2. \A r \in Runs : runs'[r].at \in {"none", "done"}
      BY <2>3, <1>b DEF Began, IngestInv, MediaInv
    <3>3. QED  BY <2>1, <2>3, <3>1, <3>2, <1>b DEF Began, IngestInv, MediaInv, ReadyHasMedia
  <2>4. QED  BY <2>2, <2>3
<1>3. SourceInv'
  <2>1. SourceIsLatest'
    BY <1>0, <1>b DEF Began, SourceIsLatest
  <2>2. \A g \in Gens : /\ flows'[g].at = "policy" => flows'[g].video \in Files
                        /\ flows'[g].at = "meta" => flows'[g].video \in Links
    BY <1>b DEF Began, IngestInv, SourceInv
  <2>3. QED  BY <2>1, <2>2, <1>b DEF Began, SourceInv
<1>4. QED  BY <1>1, <1>2, <1>3, <1>b DEF Began, IngestInv

LEMMA FreshEffect ==
  ASSUME store \in Store, NEW t \in Stages
  PROVE  Fresh(t) \in Store /\ Keeps(store, Fresh(t)) /\ Fresh(t).stage = t
  BY DEF Fresh, ResetLifecycle, Store, Keeps, Maybe

LEMMA IngestFileStep ==
  ASSUME IngestInv, NEW v \in Files, IngestFile(v)
  PROVE  IngestInv'
<1>1. v \in Videos /\ "validate" \in Stages
  BY DEF Videos, Stages
<1>2. /\ store' \in Store /\ Keeps(store, store') /\ store'.stage = "validate"
  BY <1>1, FreshEffect DEF IngestFile, IngestInv, TypeOK, Store, Maybe, Keeps
<1>3. HasMedia(store)' \/ (~HasMedia(store) /\ store'.transcript = store.transcript)
  BY <1>2 DEF HasMedia, Keeps
<1>4. gen' \in 0..MaxSteps /\ hardTimer' = gen'
  BY <1>1, Beginning DEF Began, IngestFile, Begun, Waiting, Maybe
<1>5. QED
  BY <1>1, <1>2, <1>3, <1>4, BeginningInv DEF IngestFile, Waiting, Maybe, IngestInv, TypeOK

LEMMA OpenLinkStep ==
  ASSUME IngestInv, NEW v \in Links, OpenLink(v),
         UNCHANGED <<hardTimer, analyses, saves, cache>>, restore' \in Maybe(Restorable)
  PROVE  IngestInv'
<1>1. /\ v \in Videos /\ v # None /\ "acquire_meta" \in Stages /\ "projectize" \in Stages
  BY IngestAssumption DEF IngestAssumption, Videos, Links, Stages
<1>2. hardTimer' \in 0..MaxSteps
  BY DEF IngestInv, TypeOK
<1>3. CASE v \in Youtube
  <2>1. /\ store' \in Store /\ Keeps(store, store') /\ store'.stage = "acquire_meta"
    BY <1>1, <1>3, FreshEffect DEF OpenLink, IngestInv, TypeOK, Store, Keeps
  <2>2. HasMedia(store)' \/ (~HasMedia(store) /\ store'.transcript = store.transcript)
    BY <2>1 DEF HasMedia, Keeps
  <2>3. Begun(v, "meta")  BY <1>3 DEF OpenLink
  <2>4. QED  BY <1>1, <1>2, <2>1, <2>2, <2>3, BeginningInv DEF Waiting, Maybe
<1>4. CASE v \notin Youtube
  <2> DEFINE s == SetSourceUrl(Fresh("projectize"), v)
  <2>1. s \in Store /\ s.url = v /\ s.stage = "projectize"
    BY <1>1, FreshEffect, SourceEffect DEF IngestInv, TypeOK
  <2>2. store' = [s EXCEPT !.fp = v]
    BY <1>4 DEF OpenLink
  <2> HIDE DEF s
  <2>3. store' \in Store /\ store'.url = v /\ store'.stage = "projectize"
    BY <1>1, <2>1, <2>2 DEF Store, Maybe
  <2>4. HasMedia(store)'  BY <1>1, <2>3 DEF HasMedia
  <2>5. Begun(v, "bind")  BY <1>4 DEF OpenLink
  <2>6. QED  BY <1>1, <1>2, <2>3, <2>4, <2>5, BeginningInv DEF Waiting, Maybe
<1>5. QED  BY <1>3, <1>4

LEMMA UnsupportedStep ==
  ASSUME IngestInv, IngestUnsupported
  PROVE  IngestInv'
<1>1. /\ store' \in Store /\ Keeps(store, store') /\ store'.stage = "failed"
  <2>1. Fresh("identify") \in Store /\ Keeps(store, Fresh("identify"))
    BY FreshEffect DEF IngestInv, TypeOK, Stages
  <2>2. QED  BY <2>1, FailEffect DEF IngestUnsupported, Keeps
<1>2. HasMedia(store)' \/ (~HasMedia(store) /\ store'.transcript = store.transcript)
  BY <1>1 DEF HasMedia, Keeps
<1>3. QED
  BY <1>1, <1>2, BeginningInv DEF IngestUnsupported, Waiting, Maybe, IngestInv, TypeOK

LEMMA CancelStep ==
  ASSUME IngestInv, CancelAnalyze
  PROVE  IngestInv'
<1>1. /\ gen' = gen + 1 /\ gen' \in 0..MaxSteps
  BY IngestAssumption DEF IngestAssumption, CancelAnalyze, Steps, IngestInv, TypeOK, RunsInv
<1>2. store' \in Store /\ Keeps(store, store') /\ store'.stage = "failed"
  BY FailEffect DEF CancelAnalyze, IngestInv, TypeOK
<1>3. pipe' \in Pipe /\ pipe'.active = 0 /\ runs' = RunsAborted
  BY CancelEffect DEF CancelAnalyze, IngestInv, TypeOK
<1>4. TypeOK'
  BY <1>1, <1>2, <1>3, Aborting, IngestAssumption
     DEF IngestAssumption, CancelAnalyze, IngestInv, TypeOK
<1>5. MediaInv'
  <2>1. HasMedia(store)' <=> HasMedia(store)
    BY <1>2, MediaKept
  <2>2. \A r \in Runs : runs[r].at \in {"none", "done"} => runs'[r].at \in {"none", "done"}
    BY <1>3, Aborting
  <2>3. QED
    BY <1>2, <1>3, <2>1, <2>2
       DEF CancelAnalyze, IngestInv, MediaInv, ReadyHasMedia, Keeps
<1>6. SourceInv'
  <2>1. gen' \in Gens => flows[gen'].at = "none"
    BY <1>1 DEF IngestInv, TypeOK, SourceInv, Gens
  <2>2. gen' \in Gens
    BY <1>1, IngestAssumption DEF IngestAssumption, IngestInv, TypeOK, Gens
  <2>3. QED
    BY <1>1, <2>1, <2>2
       DEF CancelAnalyze, IngestInv, TypeOK, SourceInv, SourceIsLatest, Gens
<1>7. QED  BY <1>3, <1>4, <1>5, <1>6, AbortingRuns DEF CancelAnalyze, IngestInv

LEMMA ReplaceStep ==
  ASSUME IngestInv, Replace
  PROVE  IngestInv'
<1>1. store' \in Store /\ Keeps(store, store') /\ HasMedia(store)
  BY ResetEffect DEF Replace, IngestInv, TypeOK
<1>2. HasMedia(store)'
  BY <1>1, MediaKept
<1>3. TypeOK'
  BY <1>1 DEF Replace, IngestInv, TypeOK
<1>4. QED
  BY <1>1, <1>2, <1>3, MediaThere, SourceKept, RunsUnchanged DEF Replace, IngestInv

LEMMA RestoreStep ==
  ASSUME IngestInv, SessionRestore
  PROVE  IngestInv'
<1>1. restore \in Links /\ restore' \in Maybe(Restorable)
  BY IngestAssumption DEF IngestAssumption, SessionRestore, IngestInv, TypeOK, Maybe
<1>2. CASE OpenLink(restore)
  BY <1>1, <1>2, OpenLinkStep DEF SessionRestore
<1>3. CASE UNCHANGED <<store, gen, flows, runs, pipe>>
  <2>1. TypeOK'
    BY <1>1, <1>3 DEF SessionRestore, IngestInv, TypeOK
  <2>2. MediaInv' /\ SourceInv'
    BY <1>3 DEF SessionRestore, IngestInv, MediaInv, ReadyHasMedia, HasMedia,
                SourceInv, SourceIsLatest
  <2>3. QED  BY <1>3, <2>1, <2>2, RunsUnchanged DEF IngestInv
<1>4. QED  BY <1>2, <1>3 DEF SessionRestore

LEMMA HardStep ==
  ASSUME IngestInv, HardTimeout
  PROVE  IngestInv'
<1>1. UNCHANGED <<gen, flows, analyses, cache, restore>> /\ hardTimer' \in 0..MaxSteps
  BY IngestAssumption DEF IngestAssumption, HardTimeout
<1>2. CASE UNCHANGED <<store, saves, pipe, runs>>
  <2>1. TypeOK'
    BY <1>1, <1>2 DEF IngestInv, TypeOK
  <2>2. MediaInv' /\ SourceInv'
    BY <1>1, <1>2 DEF IngestInv, MediaInv, ReadyHasMedia, HasMedia, SourceInv, SourceIsLatest
  <2>3. QED  BY <1>1, <1>2, <2>1, <2>2, RunsUnchanged DEF IngestInv
<1>3. CASE pipe' = Cancelled(pipe) /\ runs' = RunsAborted /\ EnterReady(store)
  <2>1. pipe' \in Pipe /\ pipe'.active = 0
    BY <1>3, CancelEffect DEF IngestInv, TypeOK
  <2>2. store' \in Store /\ SavesOK' /\ SourceInv' /\ MediaInv'
    BY <1>1, <1>3, <2>1, Aborting, Entering
  <2>3. TypeOK'
    BY <1>1, <1>3, <2>1, <2>2, Aborting DEF IngestInv, TypeOK, SavesOK
  <2>4. QED  BY <1>1, <1>3, <2>2, <2>3, AbortingRuns DEF IngestInv
<1>4. QED  BY <1>2, <1>3 DEF HardTimeout

\* The answers a flow waits for.
LEMMA GoingOn ==
  ASSUME IngestInv, NEW g \in Gens, NEW at \in Waiting, flows[g].at \notin {"none", "done"},
         GoesOn(g, at)
  PROVE  /\ FlowsOK' /\ flows'[g].video = flows[g].video
         /\ flows'[g].at = (IF g = gen THEN at ELSE "done")
         /\ \A q \in Gens : q # g => flows'[q] = flows[q]
         /\ g <= gen
         /\ UNCHANGED runs => RunsInv'
<1>1. /\ FlowsOK' /\ flows'[g].video = flows[g].video
      /\ flows'[g].at = (IF g = gen THEN at ELSE "done")
      /\ \A q \in Gens : q # g => flows'[q] = flows[q]
  BY DEF GoesOn, IsCurrent, IngestInv, TypeOK, FlowsOK, Waiting
<1>2. g <= gen
  BY DEF IngestInv, TypeOK, SourceInv, Gens
<1>3. ASSUME UNCHANGED runs PROVE RunsInv'
  <2>1. \A q \in Gens : flows'[q].at # "done" => flows[q].at # "done"
    BY <1>1
  <2>2. QED  BY <1>3, <2>1 DEF IngestInv, RunsInv, Retried, Retries
<1>4. QED  BY <1>1, <1>2, <1>3

\* A flow that ends, or one that goes on and keeps the source.
LEMMA FlowInv ==
  ASSUME IngestInv, NEW g \in Gens, NEW at \in {"bind", "cache", "done"},
         flows[g].at \notin {"none", "done"}, GoesOn(g, at),
         store' \in Store,
         HasMedia(store)' \/ (Keeps(store, store') /\ store'.stage # "ready"),
         g = gen /\ at # "done" =>
           /\ HasMedia(store)' /\ store'.url = flows[g].video
           /\ flows[g].video \in Files => store'.file = store'.url,
         g # gen => UNCHANGED store,
         UNCHANGED <<gen, hardTimer, runs, pipe, analyses, saves, cache, restore>>
  PROVE  IngestInv'
<1>1. /\ FlowsOK' /\ flows'[g].video = flows[g].video
      /\ flows'[g].at = (IF g = gen THEN at ELSE "done")
      /\ \A q \in Gens : q # g => flows'[q] = flows[q]
      /\ g <= gen /\ RunsInv'
  BY GoingOn DEF Waiting
<1>2. TypeOK'
  BY <1>1 DEF IngestInv, TypeOK, FlowsOK, Waiting
<1>3. \A q \in Gens : flows'[q].at \in {"policy", "meta", "bind", "cache"} => flows'[q].video \in Videos
  <2>1. flows[g].at \in {"policy", "meta", "bind", "cache"}
    BY DEF IngestInv, TypeOK
  <2>2. QED  BY <1>1, <2>1 DEF IngestInv, MediaInv
<1>4. MediaInv'
  <2>1. CASE HasMedia(store)'
    BY <1>3, <2>1 DEF MediaInv, ReadyHasMedia
  <2>2. CASE ~HasMedia(store)' /\ Keeps(store, store') /\ store'.stage # "ready"
    <3>1. ~HasMedia(store)
      BY <2>2, MediaKept
    <3>2. \A q \in Gens : flows'[q].at \notin {"bind", "cache"}
      BY <1>1, <2>2, <3>1 DEF IngestInv, MediaInv
    <3>3. QED
      BY <1>3, <2>2, <3>1, <3>2 DEF IngestInv, MediaInv, ReadyHasMedia, Keeps
  <2>3. QED  BY <2>1, <2>2
<1>5. SourceInv'
  <2>1. SourceIsLatest'
    <3>1. CASE g = gen
      BY <1>1, <3>1 DEF SourceIsLatest
    <3>2. CASE g # gen
      <4>1. gen > 0 => gen \in Gens
        BY IngestAssumption DEF IngestAssumption, IngestInv, TypeOK, Gens
      <4>2. QED  BY <1>1, <3>2, <4>1 DEF IngestInv, SourceInv, SourceIsLatest
    <3>3. QED  BY <3>1, <3>2
  <2>2. \A q \in Gens : /\ q > gen => flows'[q].at = "none"
                        /\ flows'[q].at = "policy" => flows'[q].video \in Files
                        /\ flows'[q].at = "meta" => flows'[q].video \in Links
    <3>1. TAKE q \in Gens
    <3>2. CASE q = g
      BY <1>1, <3>2, IngestAssumption DEF IngestAssumption, IngestInv, TypeOK, Gens
    <3>3. CASE q # g
      BY <1>1, <3>3 DEF IngestInv, SourceInv
    <3>4. QED  BY <3>2, <3>3
  <2>3. QED  BY <2>1, <2>2 DEF SourceInv
<1>6. QED  BY <1>1, <1>2, <1>4, <1>5 DEF IngestInv

LEMMA PolicyStep ==
  ASSUME IngestInv, NEW g \in Gens, PolicyAnswers(g)
  PROVE  IngestInv'
<1> DEFINE v == flows[g].video
           s == SetStage(SetStage(store, "acquire_meta"), "projectize")
<1>1. v \in Files /\ v \in Videos /\ v # None /\ flows[g].at \notin {"none", "done"}
  BY IngestAssumption DEF IngestAssumption, PolicyAnswers, IngestInv, SourceInv, Videos
<1>2. s \in Store
  <2>1. SetStage(store, "acquire_meta") \in Store
    BY SetStageEffect DEF IngestInv, TypeOK, Stages
  <2>2. QED  BY <2>1, SetStageEffect DEF Stages
<1>3. PICK taken \in BOOLEAN :
        /\ GoesOn(g, IF taken THEN "bind" ELSE "done")
        /\ store' = IF ~IsCurrent(g) THEN store
                    ELSE IF ~taken THEN FailIngest(store)
                    ELSE [SetSourceFile(s, v) EXCEPT !.fp = v]
  BY DEF PolicyAnswers
<1>4. UNCHANGED <<gen, hardTimer, runs, pipe, analyses, saves, cache, restore>>
  BY DEF PolicyAnswers
<1> HIDE DEF s
<1>5. CASE g = gen /\ taken
  <2> DEFINE t == SetSourceFile(s, v)
  <2>1. t \in Store /\ t.url = v /\ t.file = v
    BY <1>1, <1>2, SourceEffect
  <2>2. store' = [t EXCEPT !.fp = v]
    BY <1>3, <1>5 DEF IsCurrent
  <2> HIDE DEF t
  <2>3. store' \in Store /\ store'.url = v /\ store'.file = v
    BY <1>1, <2>1, <2>2 DEF Store, Maybe
  <2>4. HasMedia(store)'
    BY <1>1, <2>3 DEF HasMedia
  <2>5. GoesOn(g, "bind")
    BY <1>3, <1>5
  <2>6. QED  BY <1>1, <1>4, <1>5, <2>3, <2>4, <2>5, FlowInv
<1>6. CASE g = gen /\ ~taken
  <2>1. store' \in Store /\ Keeps(store, store') /\ store'.stage = "failed"
    BY <1>3, <1>6, FailEffect DEF IsCurrent, IngestInv, TypeOK
  <2>2. GoesOn(g, "done")
    BY <1>3, <1>6
  <2>3. QED  BY <1>1, <1>4, <1>6, <2>1, <2>2, FlowInv
<1>7. CASE g # gen
  <2>1. store' = store /\ GoesOn(g, "done")
    BY <1>3, <1>7 DEF IsCurrent, GoesOn
  <2>2. store' \in Store /\ (HasMedia(store)' \/ (Keeps(store, store') /\ store'.stage # "ready"))
    BY <2>1 DEF IngestInv, TypeOK, MediaInv, ReadyHasMedia, Keeps, HasMedia
  <2>3. QED  BY <1>1, <1>4, <1>7, <2>1, <2>2, FlowInv
<1>8. QED  BY <1>5, <1>6, <1>7

LEMMA MetaStep ==
  ASSUME IngestInv, NEW g \in Gens, MetaAnswers(g)
  PROVE  IngestInv'
<1> DEFINE v == flows[g].video
           s == SetSourceUrl(store, v)
<1>1. v \in Links /\ v \in Videos /\ v # None /\ v \notin Files /\ flows[g].at \notin {"none", "done"}
  BY IngestAssumption DEF IngestAssumption, MetaAnswers, IngestInv, SourceInv, Videos, Links
<1>2. s \in Store /\ s.url = v
  BY <1>1, SourceEffect DEF IngestInv, TypeOK
<1>3. PICK found \in BOOLEAN :
        /\ GoesOn(g, IF found THEN "bind" ELSE "done")
        /\ store' = IF ~IsCurrent(g) THEN store
                    ELSE IF ~found THEN FailIngest(store)
                    ELSE [SetStage(s, "projectize") EXCEPT !.fp = v]
  BY DEF MetaAnswers
<1>4. UNCHANGED <<gen, hardTimer, runs, pipe, analyses, saves, cache, restore>>
  BY DEF MetaAnswers
<1> HIDE DEF s
<1>5. CASE g = gen /\ found
  <2> DEFINE t == SetStage(s, "projectize")
  <2>1. t \in Store /\ t.url = v
    BY <1>2, SetStageEffect DEF Stages, Keeps
  <2>2. store' = [t EXCEPT !.fp = v]
    BY <1>3, <1>5 DEF IsCurrent
  <2> HIDE DEF t
  <2>3. store' \in Store /\ store'.url = v
    BY <1>1, <2>1, <2>2 DEF Store, Maybe
  <2>4. HasMedia(store)'
    BY <1>1, <2>3 DEF HasMedia
  <2>5. GoesOn(g, "bind")
    BY <1>3, <1>5
  <2>6. QED  BY <1>1, <1>4, <1>5, <2>3, <2>4, <2>5, FlowInv
<1>6. CASE g = gen /\ ~found
  <2>1. store' \in Store /\ Keeps(store, store') /\ store'.stage = "failed"
    BY <1>3, <1>6, FailEffect DEF IsCurrent, IngestInv, TypeOK
  <2>2. GoesOn(g, "done")
    BY <1>3, <1>6
  <2>3. QED  BY <1>1, <1>4, <1>6, <2>1, <2>2, FlowInv
<1>7. CASE g # gen
  <2>1. store' = store /\ GoesOn(g, "done")
    BY <1>3, <1>7 DEF IsCurrent, GoesOn
  <2>2. store' \in Store /\ (HasMedia(store)' \/ (Keeps(store, store') /\ store'.stage # "ready"))
    BY <2>1 DEF IngestInv, TypeOK, MediaInv, ReadyHasMedia, Keeps, HasMedia
  <2>3. QED  BY <1>1, <1>4, <1>7, <2>1, <2>2, FlowInv
<1>8. QED  BY <1>5, <1>6, <1>7

LEMMA BindStep ==
  ASSUME IngestInv, NEW g \in Gens, BindAnswers(g)
  PROVE  IngestInv'
<1>1. /\ flows[g].at = "bind" /\ GoesOn(g, "cache") /\ HasMedia(store) /\ store' = store
      /\ UNCHANGED <<gen, hardTimer, runs, pipe, analyses, saves, cache, restore>>
  BY DEF BindAnswers, IngestInv, MediaInv
<1>2. store' \in Store /\ HasMedia(store)'
  BY <1>1 DEF IngestInv, TypeOK, HasMedia
<1>3. g = gen => /\ store'.url = flows[g].video
                 /\ flows[g].video \in Files => store'.file = store'.url
  BY <1>1, IngestAssumption
     DEF IngestAssumption, IngestInv, TypeOK, SourceInv, SourceIsLatest, Gens
<1>4. QED  BY <1>1, <1>2, <1>3, FlowInv

(***************************************************************************)
(* The start of a run.                                                     *)
(***************************************************************************)
StartsRun(r, rs) ==
  \E at \in {"token", "audio"}, v \in Videos : runs' = [rs EXCEPT ![r] = [at |-> at, audio |-> v]]

LEMMA Starting ==
  ASSUME NEW r \in Runs, NEW s \in Store, NEW p \in Pipe, NEW rs, Starts(r, s, p, rs), HasMedia(s)
  PROVE  /\ store' \in Store /\ store'.file = s.file /\ store'.url = s.url /\ HasMedia(store)'
         /\ pipe' \in Pipe /\ pipe'.active = p.active
         /\ runs' = rs \/ StartsRun(r, rs)
<1> DEFINE source == IF s.file # None THEN s.file ELSE s.url
           staged == SetStage(s, IF s.stage = "ready" THEN "ready" ELSE "analyze")
<1>1. /\ staged \in Store /\ staged.file = s.file /\ staged.url = s.url
  BY SetStageEffect DEF Stages, Keeps
<1>2. source # None /\ source \in Videos
  BY DEF HasMedia, Store, Maybe, Videos
<1>3. CASE store' = s /\ pipe' = p /\ runs' = rs
  BY <1>3 DEF HasMedia
<1>4. CASE /\ IF source \in Youtube
             THEN store' = staged /\ pipe' = p
             ELSE /\ store' = [staged EXCEPT !.processing = TRUE]
                  /\ pipe' = [p EXCEPT !.control = r, !.timer = r]
          /\ runs' = [rs EXCEPT ![r] = [at |-> IF source \in Youtube THEN "token" ELSE "audio",
                                        audio |-> source]]
  <2> HIDE DEF staged
  <2>1. /\ store' \in Store /\ store'.file = s.file /\ store'.url = s.url
        /\ pipe' \in Pipe /\ pipe'.active = p.active
    BY <1>1, <1>4 DEF Store, Pipe
  <2>2. StartsRun(r, rs)
    <3>1. CASE source \in Youtube
      <4>1. runs' = [rs EXCEPT ![r] = [at |-> "token", audio |-> source]]
        BY <1>4, <3>1
      <4>2. QED  BY <1>2, <4>1 DEF StartsRun
    <3>2. CASE source \notin Youtube
      <4>1. runs' = [rs EXCEPT ![r] = [at |-> "audio", audio |-> source]]
        BY <1>4, <3>2
      <4>2. QED  BY <1>2, <4>1 DEF StartsRun
    <3>3. QED  BY <3>1, <3>2
  <2>3. QED  BY <2>1, <2>2 DEF HasMedia
<1>5. QED  BY <1>2, <1>3, <1>4 DEF Starts

LEMMA CacheStep ==
  ASSUME IngestInv, NEW g \in Gens, CacheAnswers(g)
  PROVE  IngestInv'
<1>1. /\ flows[g].at = "cache" /\ GoesOn(g, "done") /\ HasMedia(store)
      /\ UNCHANGED <<gen, hardTimer, analyses, saves, cache, restore>>
      /\ flows[g].video \in Maybe(Videos)
  BY DEF CacheAnswers, IngestInv, MediaInv, TypeOK
<1>2. CASE UNCHANGED <<store, runs, pipe>>
  BY <1>1, <1>2, FlowInv DEF IngestInv, TypeOK, HasMedia
<1>3. CASE /\ g = gen /\ cache[flows[g].video] # None /\ UNCHANGED <<runs, pipe>>
          /\ \E clips \in {cache[flows[g].video], None} :
               store' = Restored(store, flows[g].video, clips)
  <2> DEFINE v == flows[g].video
  <2>1. PICK clips \in {cache[v], None} : store' = Restored(store, v, clips)
    BY <1>3
  <2>2. g > 0 /\ v = store.url /\ v \in Maybe(Videos)
    BY <1>1, <1>3 DEF IngestInv, SourceInv, SourceIsLatest, Gens
  <2>3. v \in Videos
    BY <1>1 DEF IngestInv, MediaInv
  <2>4. cache[v] \in Maybe(Videos) /\ clips \in Maybe(Videos)
    BY <2>3 DEF IngestInv, TypeOK, Maybe
  <2> DEFINE t == [store EXCEPT !.fromCache = TRUE, !.fp = v, !.processing = FALSE,
                                !.transcript = cache[v], !.clips = clips]
  <2>5. t \in Store /\ t.file = store.file /\ t.url = store.url
    BY <2>2, <2>4 DEF IngestInv, TypeOK, Store
  <2>6. store' = SetStage(SetStage(t, "analyze"), "ready")
    BY <2>1 DEF Restored
  <2> HIDE DEF t
  <2>7. SetStage(t, "analyze") \in Store /\ Keeps(t, SetStage(t, "analyze"))
    BY <2>5, SetStageEffect DEF Stages
  <2>8. store' \in Store /\ store'.file = store.file /\ store'.url = store.url
    BY <2>5, <2>6, <2>7, SetStageEffect DEF Stages, Keeps
  <2>9. HasMedia(store)'
    BY <1>1, <2>8 DEF HasMedia
  <2>10. QED  BY <1>1, <1>3, <2>8, <2>9, FlowInv
<1>4. CASE g = gen /\ Starts(g, SetStage(store, "analyze"), pipe, runs)
  <2> DEFINE s == SetStage(store, "analyze")
  <2>1. s \in Store /\ Keeps(store, s) /\ HasMedia(s)
    BY <1>1, SetStageEffect, MediaKept DEF IngestInv, TypeOK, Stages, Keeps
  <2>2. g \in Runs /\ g <= MaxSteps /\ runs[g].at = "none"
    BY <1>1, IngestAssumption DEF IngestAssumption, IngestInv, RunsInv, Gens, Runs
  <2> HIDE DEF s
  <2>3. /\ store' \in Store /\ HasMedia(store)' /\ store'.file = s.file /\ store'.url = s.url
        /\ pipe' \in Pipe /\ pipe'.active = pipe.active
        /\ runs' = runs \/ StartsRun(g, runs)
    BY <1>4, <2>1, <2>2, Starting DEF s, IngestInv, TypeOK
  <2>4. /\ FlowsOK' /\ flows'[g].at = "done"
        /\ \A q \in Gens : q # g => flows'[q] = flows[q]
    BY <1>1, <1>4, GoingOn DEF Waiting
  <2>5. /\ RunsOK'
        /\ \A q \in Runs : q # g => runs'[q] = runs[q]
        /\ \A q \in Runs : runs'[q].at \in Downloads => runs'[q].audio \in Videos
    <3>1. CASE runs' = runs
      BY <3>1 DEF IngestInv, TypeOK, RunsInv, RunsOK
    <3>2. CASE StartsRun(g, runs)
      <4>1. PICK at \in {"token", "audio"}, v \in Videos :
               runs' = [runs EXCEPT ![g] = [at |-> at, audio |-> v]]
        BY <3>2 DEF StartsRun
      <4>2. QED  BY <2>2, <4>1 DEF IngestInv, TypeOK, RunsInv, RunsOK, Maybe
    <3>3. QED  BY <2>3, <3>1, <3>2
  <2>6. RunsInv'
    <3>1. Retried' = Retried
      <4>1. \A q \in Runs : q > MaxSteps => q # g
        BY <2>2, IngestAssumption DEF IngestAssumption, Runs
      <4>2. QED  BY <2>5, <4>1 DEF Retried
    <3>2. \A q \in Gens : flows'[q].at # "done" => runs'[q].at = "none"
      <4>1. \A q \in Gens : q \in Runs
        BY IngestAssumption DEF IngestAssumption, Gens, Runs
      <4>2. QED  BY <2>4, <2>5, <4>1 DEF IngestInv, RunsInv
    <3>3. QED  BY <2>5, <3>1, <3>2 DEF IngestInv, RunsInv, Retries, Retried
  <2>7. TypeOK'
    <3>1. pipe.active # 0 => runs'[pipe.active].at = "done"
      BY <2>2, <2>5 DEF IngestInv, TypeOK, Pipe
    <3>2. QED  BY <1>1, <2>3, <2>4, <2>5, <3>1 DEF IngestInv, TypeOK, FlowsOK, RunsOK, Waiting
  <2>8. MediaInv'
    BY <2>3, <2>4 DEF IngestInv, MediaInv, ReadyHasMedia
  <2>9. SourceInv'
    BY <1>1, <1>4, <2>4 DEF IngestInv, SourceInv, SourceIsLatest, Gens
  <2>10. QED  BY <2>6, <2>7, <2>8, <2>9 DEF IngestInv
<1>5. QED  BY <1>2, <1>3, <1>4 DEF CacheAnswers, IsCurrent

LEMMA RetryStep ==
  ASSUME IngestInv, RetryAnalyze
  PROVE  IngestInv'
<1>1. UNCHANGED <<gen, flows, hardTimer, analyses, saves, cache, restore>>
  BY DEF RetryAnalyze
<1>2. CASE ~HasMedia(store) /\ store' = FailIngest(store) /\ UNCHANGED <<pipe, runs>>
  <2>1. store' \in Store /\ Keeps(store, store') /\ store'.stage = "failed"
    BY <1>2, FailEffect DEF IngestInv, TypeOK
  <2>2. TypeOK'
    BY <1>1, <1>2, <2>1 DEF IngestInv, TypeOK
  <2>3. MediaInv'
    BY <1>1, <1>2, <2>1, MediaKept DEF IngestInv, MediaInv, ReadyHasMedia, Keeps
  <2>4. QED  BY <1>1, <1>2, <2>1, <2>2, <2>3, SourceKept, RunsUnchanged DEF IngestInv
<1>3. CASE /\ HasMedia(store) /\ Steps < MaxSteps
           /\ Starts(MaxSteps + Retries + 1,
                     [store EXCEPT !.processing = FALSE, !.fromCache = FALSE,
                                   !.stage = "analyze"],
                     Cancelled(pipe), RunsAborted)
  <2> DEFINE s == [store EXCEPT !.processing = FALSE, !.fromCache = FALSE, !.stage = "analyze"]
             fresh == MaxSteps + Retries + 1
             rs == RunsAborted
             p == Cancelled(pipe)
  <2>1. s \in Store /\ s.file = store.file /\ s.url = store.url /\ HasMedia(s)
    BY <1>3 DEF IngestInv, TypeOK, Store, Stages, HasMedia
  <2>2. /\ fresh \in Runs /\ fresh > MaxSteps /\ runs[fresh].at = "none"
    <3>1. Retries \in Nat /\ Retries < MaxSteps
      BY <1>3, IngestAssumption DEF IngestAssumption, Steps, IngestInv, TypeOK, RunsInv
    <3>2. fresh \in Runs /\ fresh > MaxSteps /\ fresh \notin (MaxSteps + 1)..(MaxSteps + Retries)
      BY <3>1, IngestAssumption DEF IngestAssumption, Runs
    <3>3. QED  BY <3>2 DEF IngestInv, RunsInv, Retried
  <2>3. /\ rs \in [Runs -> [at : {"none", "token", "audio", "aborted", "done"},
                             audio : Maybe(Videos)]]
        /\ \A q \in Runs : rs[q].at = "none" <=> runs[q].at = "none"
        /\ \A q \in Runs : rs[q].at \in Downloads => rs[q].audio \in Videos
    BY DEF RunsAborted, IngestInv, TypeOK, RunsInv, Downloads
  <2>4. p \in Pipe /\ p.active = 0
    BY CancelEffect DEF IngestInv, TypeOK
  <2>5. Starts(fresh, s, p, rs)
    BY <1>3
  <2> HIDE DEF s, fresh, rs, p
  <2>6. /\ store' \in Store /\ HasMedia(store)' /\ store'.file = store.file /\ store'.url = store.url
        /\ pipe' \in Pipe /\ pipe'.active = 0
        /\ runs' = rs \/ StartsRun(fresh, rs)
    BY <2>1, <2>2, <2>4, <2>5, Starting
  <2>7. /\ RunsOK'
        /\ \A q \in Runs : runs'[q].at \in Downloads => runs'[q].audio \in Videos
        /\ \A q \in Runs : q # fresh => (runs'[q].at = "none" <=> runs[q].at = "none")
    <3>1. CASE runs' = rs
      BY <2>3, <3>1 DEF RunsOK
    <3>2. CASE StartsRun(fresh, rs)
      <4>1. PICK at \in {"token", "audio"}, v \in Videos :
               runs' = [rs EXCEPT ![fresh] = [at |-> at, audio |-> v]]
        BY <3>2 DEF StartsRun
      <4>2. QED  BY <2>2, <2>3, <4>1 DEF RunsOK, Maybe
    <3>3. QED  BY <2>6, <3>1, <3>2
  <2>8. Retried' = Retried \/ Retried' = Retried \union {fresh}
    <3>1. fresh \notin Retried
      BY <2>2 DEF Retried
    <3>2. CASE runs'[fresh].at = "none"
      BY <2>2, <2>7, <3>1, <3>2 DEF Retried
    <3>3. CASE runs'[fresh].at # "none"
      BY <2>2, <2>7, <3>1, <3>3 DEF Retried
    <3>4. QED  BY <3>2, <3>3
  <2>9. Retried' = (MaxSteps + 1)..(MaxSteps + Retries') /\ Retries' \in Nat
    <3>1. CASE Retried' = Retried
      BY <3>1 DEF Retried, Retries, IngestInv, RunsInv
    <3>2. CASE Retried' = Retried \union {fresh}
      <4>1. /\ Retried = (MaxSteps + 1)..(MaxSteps + Retries) /\ Retries \in Nat
            /\ Retries = Cardinality(Retried) /\ Retries' = Cardinality(Retried')
        BY DEF IngestInv, RunsInv, Retries, Retried
      <4>2. Retried' = (MaxSteps + 1)..(MaxSteps + Retries + 1)
        BY <3>2, <4>1, IngestAssumption DEF IngestAssumption, fresh
      <4>3. Cardinality(Retried') = Retries + 1
        <5> DEFINE a == MaxSteps + 1
                   b == MaxSteps + Retries + 1
        <5>1. a \in Int /\ b \in Int /\ ~(a > b) /\ b - a + 1 = Retries + 1
          BY <4>1, IngestAssumption DEF IngestAssumption
        <5>2. Retried' = a..b
          BY <4>2
        <5> HIDE DEF a, b
        <5>3. QED  BY <5>1, <5>2, FS_Interval
      <4>4. MaxSteps + Retries + 1 = MaxSteps + (Retries + 1) /\ Retries + 1 \in Nat
        BY <4>1, IngestAssumption DEF IngestAssumption
      <4>5. QED  BY <4>1, <4>2, <4>3, <4>4
    <3>3. QED  BY <2>8, <3>1, <3>2
  <2>10. RunsInv'
    <3>1. \A g \in Gens : g \in Runs /\ g # fresh
      BY <2>2, IngestAssumption DEF IngestAssumption, Gens, Runs
    <3>2. QED  BY <1>1, <2>7, <2>9, <3>1 DEF IngestInv, RunsInv
  <2>11. TypeOK'
    BY <1>1, <2>6, <2>7 DEF IngestInv, TypeOK, RunsOK
  <2>12. MediaInv'
    BY <1>1, <2>6 DEF IngestInv, MediaInv, ReadyHasMedia
  <2>13. SourceInv'
    BY <1>1, <2>6 DEF IngestInv, SourceInv, SourceIsLatest
  <2>14. QED  BY <2>10, <2>11, <2>12, <2>13 DEF IngestInv
<1>4. QED  BY <1>2, <1>3 DEF RetryAnalyze

LEMMA Stutters ==
  ASSUME IngestInv, UNCHANGED vars
  PROVE  IngestInv'
<1>1. TypeOK' /\ MediaInv' /\ SourceInv'
  BY DEF vars, IngestInv, TypeOK, MediaInv, ReadyHasMedia, HasMedia, SourceInv, SourceIsLatest
<1>2. QED  BY <1>1, RunsUnchanged DEF vars, IngestInv

LEMMA Preserves == IngestInv /\ [Next]_vars => IngestInv'
<1> SUFFICES ASSUME IngestInv, [Next]_vars PROVE IngestInv'
  OBVIOUS
<1>1. CASE UserStep
  <2>1. ASSUME NEW v \in Links, IngestLink(v) PROVE IngestInv'
    BY <2>1, OpenLinkStep DEF IngestLink, IngestInv, TypeOK
  <2>2. QED
    BY <1>1, <2>1, IngestFileStep, UnsupportedStep, CancelStep, RetryStep, ReplaceStep
       DEF UserStep
<1>2. CASE Answer
  BY <1>2, PolicyStep, MetaStep, BindStep, CacheStep, TokenStep, AudioArrivesStep,
     AudioFailsStep, AnalysisAnswersStep, AnalysisFailsStep, SaveStep, RestoreStep DEF Answer
<1>3. CASE Worker
  BY <1>3, WorkerStep
<1>4. CASE Effect
  BY <1>4, TranscriptStep, ErrorStep DEF Effect
<1>5. CASE Timer
  BY <1>5, WhisperStep, PipelineStep, HardStep DEF Timer
<1>6. CASE UNCHANGED vars
  BY <1>6, Stutters
<1>7. QED  BY <1>1, <1>2, <1>3, <1>4, <1>5, <1>6 DEF Next

(***************************************************************************)
(* The theorems.                                                           *)
(***************************************************************************)
LEMMA IngestInvariant == Spec => []IngestInv
<1>1. QED  BY Begins, Preserves, PTL DEF Spec

\* Every variable of the ingest keeps its type, and the active run is one
\* whose audio has arrived.
THEOREM IngestTypes == Spec => []TypeOK
<1>1. IngestInv => TypeOK  BY DEF IngestInv
<1>2. QED  BY <1>1, IngestInvariant, PTL

\* No error, timer or late answer declares an ingest ready that has no video:
\* without one, no transcript, no save and no active run is left to do it.
THEOREM ReadyIsMedia == Spec => []ReadyHasMedia
<1>1. IngestInv => ReadyHasMedia  BY DEF IngestInv, MediaInv
<1>2. QED  BY <1>1, IngestInvariant, PTL

\* However late the answers of earlier ingests, the source of the latest stays
\* its own until its pipeline starts.
THEOREM SourceStaysLatest == Spec => []SourceIsLatest
<1>1. IngestInv => SourceIsLatest  BY DEF IngestInv, SourceInv
<1>2. QED  BY <1>1, IngestInvariant, PTL

(***************************************************************************)
(* Where clips come from: of the operations on the store none adds any.    *)
(***************************************************************************)
NoNew(s, t) == t.clips \in {s.clips, None}

LEMMA PersistClips ==
  ASSUME NEW s, s \in Store, PersistAndReady(s)
  PROVE  store'.clips = s.clips
  BY DEF PersistAndReady, AdvanceToReady, Store

LEMMA EnterClips ==
  ASSUME store \in Store, EnterReady(store)
  PROVE  store'.clips = store.clips
<1> DEFINE quiet == [store EXCEPT !.processing = FALSE]
           again == IF store.stage = "failed" THEN SetStage(quiet, "analyze") ELSE quiet
<1>1. quiet \in Store /\ quiet.clips = store.clips
  BY DEF Store
<1> HIDE DEF quiet
<1>2. again \in Store /\ again.clips = store.clips
  BY <1>1, SetStageEffect DEF Stages
<1>3. CASE HasMedia(store)
  <2>1. PersistAndReady(again)  BY <1>3 DEF EnterReady, quiet
  <2> HIDE DEF again
  <2>2. QED  BY <1>2, <2>1, PersistClips
<1>4. CASE ~HasMedia(store)
  BY <1>4 DEF EnterReady, FailIngest, Store
<1>5. QED  BY <1>3, <1>4

LEMMA StartsClips ==
  ASSUME NEW s \in Store, NEW r, NEW p, NEW rs, Starts(r, s, p, rs)
  PROVE  store'.clips = s.clips
<1> DEFINE staged == SetStage(s, IF s.stage = "ready" THEN "ready" ELSE "analyze")
<1>1. staged \in Store /\ staged.clips = s.clips
  BY SetStageEffect DEF Stages
<1>2. store' \in {s, FailIngest(s), staged, [staged EXCEPT !.processing = TRUE]}
  BY DEF Starts
<1> HIDE DEF staged
<1>3. FailIngest(s).clips = s.clips
  BY DEF FailIngest, Store
<1>4. [staged EXCEPT !.processing = TRUE].clips = s.clips
  BY <1>1 DEF Store
<1>5. QED  BY <1>1, <1>2, <1>3, <1>4

LEMMA FreshClips ==
  ASSUME store \in Store, NEW t \in Stages
  PROVE  Fresh(t) \in Store /\ Fresh(t).clips = store.clips
  BY DEF Fresh, ResetLifecycle, Store, Maybe

LEMMA SourceClips ==
  ASSUME NEW s \in Store, NEW v
  PROVE  SetSourceUrl(s, v).clips = None /\ SetSourceFile(s, v).clips = None
  BY DEF SetSourceUrl, SetSourceFile, DropDerived, Store

LEMMA FlowClips ==
  ASSUME IngestInv, NEW g \in Gens, PolicyAnswers(g) \/ MetaAnswers(g)
  PROVE  NoNew(store, store')
<1> DEFINE v == flows[g].video
           s == SetStage(SetStage(store, "acquire_meta"), "projectize")
           u == SetSourceUrl(store, v)
<1>1. store \in Store /\ v \in Videos /\ (flows[g].at = "policy" => v \in Files)
  BY DEF PolicyAnswers, MetaAnswers, IngestInv, TypeOK, MediaInv, SourceInv
<1>2. FailIngest(store).clips = store.clips
  BY <1>1 DEF FailIngest, Store
<1>3. CASE PolicyAnswers(g)
  <2>1. s \in Store
    <3>1. SetStage(store, "acquire_meta") \in Store
      BY <1>1, SetStageEffect DEF Stages
    <3>2. QED  BY <3>1, SetStageEffect DEF Stages
  <2> DEFINE f == SetSourceFile(s, v)
  <2>2. store' \in {store, FailIngest(store), [f EXCEPT !.fp = v]}
    BY <1>3 DEF PolicyAnswers
  <2>3. f \in Store /\ f.clips = None
    <3> HIDE DEF s
    <3>1. QED  BY <1>1, <1>3, <2>1, SourceEffect, SourceClips DEF PolicyAnswers
  <2> HIDE DEF f
  <2>4. [f EXCEPT !.fp = v].clips = None
    BY <2>3 DEF Store
  <2>5. QED  BY <1>2, <2>2, <2>4 DEF NoNew
<1>4. CASE MetaAnswers(g)
  <2>1. u \in Store /\ u.clips = None
    BY <1>1, SourceEffect, SourceClips
  <2> DEFINE f == SetStage(u, "projectize")
  <2>2. store' \in {store, FailIngest(store), [f EXCEPT !.fp = v]}
    BY <1>4 DEF MetaAnswers
  <2>3. f \in Store /\ f.clips = None
    <3> HIDE DEF u
    <3>1. QED  BY <2>1, SetStageEffect DEF Stages
  <2> HIDE DEF f
  <2>4. [f EXCEPT !.fp = v].clips = None
    BY <2>3 DEF Store
  <2>5. QED  BY <1>2, <2>2, <2>4 DEF NoNew
<1>5. QED  BY <1>3, <1>4

LEMMA LinkClips ==
  ASSUME IngestInv, NEW v \in Links, OpenLink(v)
  PROVE  NoNew(store, store')
<1>1. store \in Store /\ v \in Videos /\ "acquire_meta" \in Stages /\ "projectize" \in Stages
  BY DEF IngestInv, TypeOK, Stages, Links, Videos
<1>2. CASE v \in Youtube
  BY <1>1, <1>2, FreshClips DEF OpenLink, Store, NoNew
<1>3. CASE v \notin Youtube
  <2> DEFINE s == SetSourceUrl(Fresh("projectize"), v)
  <2>1. s \in Store /\ s.clips = None
    BY <1>1, FreshClips, SourceEffect, SourceClips
  <2>2. store' = [s EXCEPT !.fp = v]
    BY <1>3 DEF OpenLink
  <2> HIDE DEF s
  <2>3. QED  BY <2>1, <2>2 DEF Store, NoNew
<1>4. QED  BY <1>2, <1>3

\* Every step of the user but the ones that bring a video.
LEMMA UserClips ==
  ASSUME IngestInv, UserStep
  PROVE  NoNew(store, store')
<1>1. store \in Store
  BY DEF IngestInv, TypeOK
<1>2. ASSUME NEW v \in Files, IngestFile(v) PROVE NoNew(store, store')
  BY <1>1, <1>2, FreshClips DEF IngestFile, Store, Stages, NoNew
<1>3. ASSUME IngestUnsupported PROVE NoNew(store, store')
  <2>1. Fresh("identify") \in Store /\ Fresh("identify").clips = store.clips
    BY <1>1, FreshClips DEF Stages
  <2>2. QED  BY <1>3, <2>1 DEF IngestUnsupported, FailIngest, Store, NoNew
<1>4. ASSUME CancelAnalyze PROVE NoNew(store, store')
  BY <1>1, <1>4 DEF CancelAnalyze, FailIngest, Store, NoNew
<1>5. ASSUME Replace PROVE NoNew(store, store')
  BY <1>1, <1>5 DEF Replace, ResetLifecycle, Store, NoNew
<1>6. ASSUME RetryAnalyze PROVE NoNew(store, store')
  <2>1. CASE store' = FailIngest(store)
    BY <1>1, <2>1 DEF FailIngest, Store, NoNew
  <2> DEFINE s == [store EXCEPT !.processing = FALSE, !.fromCache = FALSE, !.stage = "analyze"]
  <2>2. CASE Starts(MaxSteps + Retries + 1, s, Cancelled(pipe), RunsAborted)
    <3>1. s \in Store /\ s.clips = store.clips
      BY <1>1 DEF Store, Stages
    <3> HIDE DEF s
    <3>2. QED  BY <2>2, <3>1, StartsClips DEF NoNew
  <2>3. QED  BY <1>6, <2>1, <2>2 DEF RetryAnalyze
<1>7. QED
  BY <1>2, <1>3, <1>4, <1>5, <1>6, LinkClips DEF UserStep, IngestLink

\* The steps that end or continue an ingest without clips of their own.
LEMMA EndClips ==
  ASSUME IngestInv,
         \/ ErrorEffect \/ WhisperTimeout \/ PipelineTimeout \/ HardTimeout \/ TranscriptEffect
         \/ \E r \in Runs : TokenAnswers(r) \/ AudioArrives(r) \/ AudioFails(r)
         \/ \E s \in saves : SaveDone(s)
         \/ \E a \in analyses : AnalysisFails(a)
  PROVE  store'.clips = store.clips
<1>1. store \in Store
  BY DEF IngestInv, TypeOK
<1>2. CASE EnterReady(store)
  BY <1>1, <1>2, EnterClips
<1> DEFINE s == [store EXCEPT !.processing = FALSE]
<1>3. CASE PersistAndReady(s)
  <2>1. s \in Store /\ s.clips = store.clips
    BY <1>1 DEF Store
  <2> HIDE DEF s
  <2>2. QED  BY <1>3, <2>1, PersistClips
<1>4. CASE store' = store \/ store' = AdvanceToReady(store)
  BY <1>1, <1>4 DEF AdvanceToReady, Store
<1>5. CASE \E t \in Maybe(Videos) :
            \/ store' = [store EXCEPT !.transcript = t, !.processing = TRUE]
            \/ store' = [store EXCEPT !.processing = TRUE]
  BY <1>1, <1>5 DEF Store
<1>6. \/ EnterReady(store) \/ PersistAndReady(s) \/ store' = store \/ store' = AdvanceToReady(store)
      \/ \E t \in Maybe(Videos) :
            \/ store' = [store EXCEPT !.transcript = t, !.processing = TRUE]
            \/ store' = [store EXCEPT !.processing = TRUE]
  <2>1. pipe.message \in Maybe(Videos)
    BY DEF IngestInv, TypeOK, Pipe
  <2>2. QED
    BY <2>1 DEF ErrorEffect, WhisperTimeout, PipelineTimeout, HardTimeout, TranscriptEffect,
                TokenAnswers, AudioArrives, AudioFails, SaveDone, AnalysisFails
<1>7. QED  BY <1>2, <1>3, <1>4, <1>5, <1>6

FromRun == \E a \in analyses \ analyses' : a.run = pipe.active /\ a.of = store'.clips
FromCache == store'.fromCache /\ flows[gen] # flows'[gen]
Proposed == store'.clips # store.clips /\ store'.clips # None => FromRun \/ FromCache

LEMMA AnswerProposes ==
  ASSUME IngestInv, NEW a \in analyses, AnalysisAnswers(a)
  PROVE  Proposed
<1>1. store \in Store
  BY DEF IngestInv, TypeOK
<1>2. CASE Live(a)
  <2>1. PICK clips \in {a.of, None} :
           PersistAndReady([store EXCEPT !.processing = FALSE,
                              !.clips = IF clips = None THEN @ ELSE clips])
    BY <1>2 DEF AnalysisAnswers
  <2> DEFINE s == [store EXCEPT !.processing = FALSE,
                                !.clips = IF clips = None THEN @ ELSE clips]
  <2>2. s.clips \in {store.clips, a.of} /\ s \in Store
    BY <1>1 DEF Store, Maybe, IngestInv, TypeOK
  <2> HIDE DEF s
  <2>3. store'.clips \in {store.clips, a.of}
    BY <2>1, <2>2, PersistClips DEF s
  <2>4. a \in analyses \ analyses' /\ a.run = pipe.active
    BY <1>2 DEF AnalysisAnswers, Live
  <2>5. QED  BY <2>3, <2>4 DEF Proposed, FromRun
<1>3. CASE ~Live(a)
  BY <1>3 DEF AnalysisAnswers, Proposed
<1>4. QED  BY <1>2, <1>3

LEMMA CacheProposes ==
  ASSUME IngestInv, NEW g \in Gens, CacheAnswers(g)
  PROVE  Proposed
<1>1. store \in Store /\ flows[g].at = "cache" /\ GoesOn(g, "done")
  BY DEF IngestInv, TypeOK, CacheAnswers
<1>2. CASE UNCHANGED store
  BY <1>2 DEF Proposed
<1>3. CASE g = gen /\ \E clips \in {cache[flows[g].video], None} :
                        store' = Restored(store, flows[g].video, clips)
  <2>1. flows'[gen].at = "done"
    BY <1>1, <1>3, GoingOn DEF Waiting
  <2>2. PICK clips \in {cache[flows[g].video], None} :
           store' = Restored(store, flows[g].video, clips)
    BY <1>3
  <2> DEFINE v == flows[g].video
             t == [store EXCEPT !.fromCache = TRUE, !.fp = v, !.processing = FALSE,
                                !.transcript = cache[v], !.clips = clips]
  <2>3. v \in Videos
    BY <1>1 DEF IngestInv, MediaInv
  <2>4. t \in Store /\ t.fromCache
    BY <1>1, <2>3 DEF Store, Maybe, IngestInv, TypeOK
  <2>5. store' = SetStage(SetStage(t, "analyze"), "ready")
    BY <2>2 DEF Restored
  <2> HIDE DEF t
  <2>6. SetStage(t, "analyze") \in Store /\ SetStage(t, "analyze").fromCache
    BY <2>4, SetStageEffect DEF Stages
  <2>7. store'.fromCache
    BY <2>5, <2>6, SetStageEffect DEF Stages
  <2>8. QED  BY <1>1, <1>3, <2>1, <2>7 DEF Proposed, FromCache
<1>4. CASE Starts(g, SetStage(store, "analyze"), pipe, runs)
  <2>1. SetStage(store, "analyze") \in Store /\ SetStage(store, "analyze").clips = store.clips
    BY <1>1, SetStageEffect DEF Stages
  <2>2. QED  BY <1>4, <2>1, StartsClips DEF Proposed
<1>5. QED  BY <1>2, <1>3, <1>4 DEF CacheAnswers, IsCurrent

LEMMA StepProposes == IngestInv /\ [Next]_vars => Proposed
<1> SUFFICES ASSUME IngestInv, [Next]_vars PROVE Proposed
  OBVIOUS
<1>1. CASE NoNew(store, store')
  BY <1>1 DEF NoNew, Proposed
<1>2. CASE UserStep
  BY <1>1, <1>2, UserClips
<1>3. CASE Answer
  <2>1. ASSUME NEW g \in Gens, PolicyAnswers(g) \/ MetaAnswers(g) PROVE Proposed
    BY <1>1, <2>1, FlowClips
  <2>2. ASSUME NEW g \in Gens, BindAnswers(g) PROVE Proposed
    BY <2>2 DEF BindAnswers, Proposed
  <2>3. ASSUME \/ \E r \in Runs : TokenAnswers(r) \/ AudioArrives(r) \/ AudioFails(r)
               \/ \E s \in saves : SaveDone(s)
               \/ \E a \in analyses : AnalysisFails(a)
        PROVE Proposed
    BY <2>3, EndClips DEF Proposed
  <2>4. ASSUME SessionRestore PROVE Proposed
    <3>1. restore # None => restore \in Links
      BY IngestAssumption DEF IngestAssumption, IngestInv, TypeOK, Maybe
    <3>2. QED  BY <1>1, <2>4, <3>1, LinkClips DEF SessionRestore, Proposed
  <2>5. QED  BY <1>3, <2>1, <2>2, <2>3, <2>4, AnswerProposes, CacheProposes DEF Answer
<1>4. CASE Worker \/ UNCHANGED vars
  BY <1>4 DEF Worker, WorkerBegins, WorkerCompletes, WorkerFails, vars, Proposed
<1>5. CASE Effect \/ Timer
  BY <1>5, EndClips DEF Effect, Timer, Proposed
<1>6. QED  BY <1>2, <1>3, <1>4, <1>5 DEF Next

\* Clips appear only when the active run's analysis answers or the latest
\* ingest finds its artifact: a run that was cancelled or superseded proposes
\* nothing, whatever is still under way for it.
THEOREM ClipsAreOfRun == Spec => ClipsOfRun
<1>1. IngestInv /\ [Next]_vars =>
        [store'.clips # store.clips /\ store'.clips # None =>
           \/ \E a \in analyses \ analyses' : a.run = pipe.active /\ a.of = store'.clips
           \/ store'.fromCache /\ flows[gen] # flows'[gen]]_vars
  BY StepProposes DEF Proposed, FromRun, FromCache
<1>2. QED  BY <1>1, IngestInvariant, PTL DEF Spec, ClipsOfRun
=============================================================================
