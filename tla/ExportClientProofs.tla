-------------------------- MODULE ExportClientProofs --------------------------
(***************************************************************************)
(* Theorems about ExportClient, for every set of videos and every bound.   *)
(* ActiveIsWatched is inductive with the types.  DoneMeansFinished is not: *)
(* an event that has not been handled yet may still say that a job is      *)
(* done, so EventsTrue says that such an event has its file behind it.     *)
(***************************************************************************)
EXTENDS ExportClient, TLAPS

EventsTrue == \A n \in Jobs : <<n, "complete">> \in events => server[n] = "finished"

\* What is uploaded is a file: its path is kept as the cloud copy.
UploadsFile == \A n \in Jobs : flows[n].at = "upload" => flows[n].source \in Files

ClientInv == TypeOK /\ UploadsFile /\ ActiveIsWatched /\ EventsTrue /\ DoneMeansFinished

-----------------------------------------------------------------------------
(***************************************************************************)
(* The operators of the watch.                                             *)
(***************************************************************************)
LEMMA JobsAreNotZero == 0 \notin Jobs
  BY ExportAssumption, SMT DEF Jobs

\* The state types, one name per variable.
WatchType == [channel : JobOrNo, open : SUBSET Jobs, poll : JobOrNo, late : BOOLEAN]
UiType    == [exporting : BOOLEAN, job : JobOrNo, verdict : {"none", "done", "failed"}]
ToldType  == [Jobs -> {"none", "done", "failed", "cancelled"}]
FlowsType == [Jobs -> [at : {"none", "upload", "bind", "request", "over"},
                       source : Maybe(Videos), manifest : Maybe(Manifest)]]

LEMMA ClosedType ==
  ASSUME TypeOK
  PROVE  Closed(watch) \in WatchType
  BY DEF TypeOK, Closed, WatchType, JobOrNo

LEMMA WatchedType ==
  ASSUME TypeOK, NEW n \in Jobs
  PROVE  /\ Watched(watch, n) \in WatchType
         /\ Watched(watch, n).poll = n
         /\ watch.open \subseteq Watched(watch, n).open
<1> DEFINE polled == [watch EXCEPT !.poll = n, !.late = FALSE]
<1>1. watch \in WatchType /\ n \in JobOrNo  BY DEF TypeOK, WatchType, JobOrNo
<1>2. polled \in WatchType /\ polled.poll = n /\ polled.open = watch.open
  BY <1>1 DEF WatchType
<1> HIDE DEF polled
<1>3. /\ [polled EXCEPT !.channel = n, !.open = polled.open \union {n}] \in WatchType
      /\ [polled EXCEPT !.channel = n, !.open = polled.open \union {n}].poll = polled.poll
      /\ [polled EXCEPT !.channel = n, !.open = polled.open \union {n}].open
           = polled.open \union {n}
  BY <1>1, <1>2 DEF WatchType
<1>4. Watched(watch, n)
        = IF Realtime THEN [polled EXCEPT !.channel = n, !.open = polled.open \union {n}]
          ELSE polled
  BY DEF Watched, polled
<1>5. QED  BY <1>2, <1>3, <1>4

\* Ending a watch leaves only events of channels that are open.
LEMMA CleansUpType ==
  ASSUME TypeOK, CleansUp
  PROVE  /\ watch' \in WatchType
         /\ events' \subseteq events
         /\ \A e \in events' : e[1] \in watch'.open
  BY ClosedType DEF CleansUp, Undelivered

LEMMA FinishType ==
  ASSUME TypeOK, NEW n \in Jobs, NEW verdict \in {"done", "failed"}, Finish(n, verdict)
  PROVE  /\ ui' \in UiType /\ ui'.job = 0 /\ ui'.exporting = FALSE
         /\ told' \in ToldType
         /\ \A k \in Jobs : told'[k] = IF k = n THEN verdict ELSE told[k]
         /\ CleansUp
  BY DEF TypeOK, Finish, UiType, ToldType, JobOrNo

LEMMA DismissType ==
  ASSUME TypeOK, Dismiss
  PROVE  /\ ui' \in UiType /\ ui'.job = 0 /\ ui'.exporting = FALSE
         /\ CleansUp
  BY DEF TypeOK, Dismiss, UiType, JobOrNo

-----------------------------------------------------------------------------
(***************************************************************************)
(* The steps that end a watch keep the invariant, because whatever they    *)
(* are about, nothing is shown as active after them.                       *)
(***************************************************************************)
Untouched == UNCHANGED <<editor, flows, server>>

LEMMA NothingShown ==
  ASSUME ui'.job = 0, ui'.exporting = FALSE
  PROVE  ActiveIsWatched'
  BY DEF ActiveIsWatched

LEMMA FewerEvents ==
  ASSUME EventsTrue, events' \subseteq events, UNCHANGED server
  PROVE  EventsTrue'
  BY DEF EventsTrue

LEMMA FinishKeeps ==
  ASSUME ClientInv, NEW n \in Jobs, NEW verdict \in {"done", "failed"},
         Finish(n, verdict), Untouched, polls' \in [Jobs -> 0..MaxPolls],
         verdict = "done" => server[n] = "finished"
  PROVE  ClientInv'
<1>1. TypeOK  BY DEF ClientInv
<1>2. /\ ui' \in UiType /\ ui'.job = 0 /\ ui'.exporting = FALSE
      /\ told' \in ToldType
      /\ \A k \in Jobs : told'[k] = IF k = n THEN verdict ELSE told[k]
      /\ CleansUp
  BY <1>1, FinishType
<1>3. watch' \in WatchType /\ events' \subseteq events /\ \A e \in events' : e[1] \in watch'.open
  BY <1>1, <1>2, CleansUpType
<1>4. TypeOK'
  <2>1. events' \subseteq Jobs \X {"complete", "error", "cancelled"}
    BY <1>1, <1>3 DEF TypeOK
  <2>2. editor' = editor /\ flows' = flows /\ server' = server  BY DEF Untouched
  <2>3. QED  BY <1>1, <1>2, <1>3, <2>1, <2>2 DEF TypeOK, UiType, WatchType, ToldType
<1>5. DoneMeansFinished'  BY <1>2 DEF ClientInv, DoneMeansFinished, Untouched
<1>6. QED  BY <1>2, <1>3, <1>4, <1>5, NothingShown, FewerEvents DEF ClientInv, Untouched, UploadsFile

LEMMA DismissKeeps ==
  ASSUME ClientInv, Dismiss, Untouched, polls' = polls,
         told' = told \/ \E n \in Jobs : told' = [told EXCEPT ![n] = "cancelled"]
  PROVE  ClientInv'
<1>1. TypeOK  BY DEF ClientInv
<1>2. ui' \in UiType /\ ui'.job = 0 /\ ui'.exporting = FALSE /\ CleansUp
  BY <1>1, DismissType
<1>3. watch' \in WatchType /\ events' \subseteq events /\ \A e \in events' : e[1] \in watch'.open
  BY <1>1, <1>2, CleansUpType
<1>4. told' \in ToldType /\ \A k \in Jobs : told'[k] \in {told[k], "cancelled"}
  BY <1>1 DEF TypeOK, ToldType
<1>5. TypeOK'
  <2>1. events' \subseteq Jobs \X {"complete", "error", "cancelled"}
    BY <1>1, <1>3 DEF TypeOK
  <2>2. editor' = editor /\ flows' = flows /\ server' = server  BY DEF Untouched
  <2>3. QED  BY <1>1, <1>2, <1>3, <1>4, <2>1, <2>2 DEF TypeOK, UiType, WatchType, ToldType
<1>6. DoneMeansFinished'  BY <1>4 DEF ClientInv, DoneMeansFinished, Untouched
<1>7. QED  BY <1>2, <1>3, <1>5, <1>6, NothingShown, FewerEvents DEF ClientInv, Untouched, UploadsFile

\* A step that changes only the editor.
LEMMA EditorKeeps ==
  ASSUME ClientInv, UNCHANGED <<ui, flows, watch, polls, events, server, told>>,
         editor' \in [video : Videos, cut : Cuts, file : Maybe(Files), cloud : Maybe(Files),
                      manifest : Maybe(Manifest)]
  PROVE  ClientInv'
  BY DEF ClientInv, TypeOK, UploadsFile, ActiveIsWatched, EventsTrue, DoneMeansFinished

-----------------------------------------------------------------------------
(***************************************************************************)
(* Watching.                                                               *)
(***************************************************************************)
LEMMA PollAsksKeeps == ASSUME ClientInv, PollAsks PROVE ClientInv'
<1>1. polls' \in [Jobs -> 0..MaxPolls]
  <2>1. watch.poll \in Jobs  BY DEF ClientInv, TypeOK, PollAsks, JobOrNo
  <2>2. polls[watch.poll] + 1 \in 0..MaxPolls
    BY <2>1, ExportAssumption DEF ClientInv, TypeOK, PollAsks
  <2>3. QED  BY <2>1, <2>2 DEF ClientInv, TypeOK, PollAsks
<1>2. QED  BY <1>1 DEF ClientInv, TypeOK, PollAsks, UploadsFile, ActiveIsWatched, EventsTrue, DoneMeansFinished

LEMMA PollTaken ==
  ASSUME TypeOK, NEW n \in Jobs, polls[n] > 0, polls' = [polls EXCEPT ![n] = @ - 1]
  PROVE  polls' \in [Jobs -> 0..MaxPolls]
<1>1. polls[n] - 1 \in 0..MaxPolls  BY ExportAssumption DEF TypeOK
<1>2. QED  BY <1>1 DEF TypeOK

LEMMA PollAnswersKeeps == ASSUME ClientInv, NEW n \in Jobs, PollAnswers(n) PROVE ClientInv'
<1>1. polls' \in [Jobs -> 0..MaxPolls]  BY PollTaken DEF ClientInv, PollAnswers
<1>2. Untouched  BY DEF PollAnswers, Untouched
<1>3. PICK seen \in {server[n], "running"} :
        \/ seen = "finished" /\ Finish(n, "done")
        \/ Finish(n, "failed")
        \/ UNCHANGED <<ui, told, watch, events>>
  BY DEF PollAnswers, Polled
<1>4. CASE seen = "finished" /\ Finish(n, "done")
  <2>1. server[n] = "finished"  BY <1>3, <1>4
  <2>2. QED  BY <1>1, <1>2, <1>4, <2>1, FinishKeeps
<1>5. CASE Finish(n, "failed")
  BY <1>1, <1>2, <1>5, FinishKeeps
<1>6. CASE UNCHANGED <<ui, told, watch, events>>
  BY <1>1, <1>2, <1>6 DEF ClientInv, Untouched, TypeOK, UploadsFile, ActiveIsWatched, EventsTrue, DoneMeansFinished
<1>7. QED  BY <1>3, <1>4, <1>5, <1>6

LEMMA PollFailsKeeps == ASSUME ClientInv, NEW n \in Jobs, PollFails(n) PROVE ClientInv'
<1>1. polls' \in [Jobs -> 0..MaxPolls]  BY PollTaken DEF ClientInv, PollFails
<1>2. QED  BY <1>1 DEF ClientInv, PollFails, TypeOK, UploadsFile, ActiveIsWatched, EventsTrue, DoneMeansFinished

LEMMA TenMinutesKeeps == ASSUME ClientInv, TenMinutes PROVE ClientInv'
  BY DEF ClientInv, TenMinutes, TypeOK, UploadsFile, ActiveIsWatched, EventsTrue, DoneMeansFinished

LEMMA EventKeeps ==
  ASSUME ClientInv, NEW n \in Jobs, NEW kind \in {"complete", "error", "cancelled"},
         EventArrives(n, kind)
  PROVE  ClientInv'
<1>1. Untouched /\ polls' = polls /\ polls' \in [Jobs -> 0..MaxPolls]
  BY DEF EventArrives, Untouched, ClientInv, TypeOK
<1>2. CASE kind = "complete"
  <2>1. server[n] = "finished"  BY <1>2 DEF ClientInv, EventsTrue, EventArrives
  <2>2. Finish(n, "done")  BY <1>2 DEF EventArrives
  <2>3. QED  BY <1>1, <2>1, <2>2, FinishKeeps
<1>3. CASE kind = "error"
  <2>1. Finish(n, "failed")  BY <1>3 DEF EventArrives
  <2>2. QED  BY <1>1, <2>1, FinishKeeps
<1>4. CASE kind = "cancelled"
  <2>1. Dismiss /\ told' = [told EXCEPT ![n] = "cancelled"]  BY <1>4 DEF EventArrives
  <2>2. QED  BY <1>1, <2>1, DismissKeeps
<1>5. QED  BY <1>2, <1>3, <1>4

-----------------------------------------------------------------------------
(***************************************************************************)
(* Exporting.                                                              *)
(***************************************************************************)
LEMMA ExportKeeps == ASSUME ClientInv, NEW n \in Jobs, Export(n) PROVE ClientInv'
<1> DEFINE now == [video |-> editor.video, cut |-> editor.cut]
           uploads == editor.cloud = None /\ editor.file # None
           manifest == IF editor.manifest = None THEN now ELSE editor.manifest
           source == IF editor.cloud # None THEN editor.cloud
                     ELSE IF uploads THEN editor.file ELSE editor.video
           flow == [at |-> IF uploads THEN "upload" ELSE "bind",
                    source |-> source, manifest |-> manifest]
<1>1. TypeOK  BY DEF ClientInv
<1>2. manifest \in Maybe(Manifest)
  BY <1>1 DEF TypeOK, Manifest, Maybe
<1>3. source \in Maybe(Videos)
  BY <1>1 DEF TypeOK, Maybe, Videos
<1>4. flow.at \in {"upload", "bind"} /\ flow \in [at : {"none", "upload", "bind", "request", "over"},
        source : Maybe(Videos), manifest : Maybe(Manifest)]
  BY <1>2, <1>3
<1>5. editor' = [editor EXCEPT !.manifest = manifest]
      /\ ui' = [ui EXCEPT !.exporting = uploads] /\ flows' = [flows EXCEPT ![n] = flow]
      /\ UNCHANGED <<watch, polls, events, server, told>>
  BY DEF Export
<1> HIDE DEF manifest, flow, uploads
<1>6. uploads \in BOOLEAN  BY DEF uploads
<1>7. TypeOK'
  BY <1>1, <1>2, <1>4, <1>5, <1>6 DEF TypeOK
<1>8. flows'[n].at \in {"upload", "bind"} /\ ui'.job = ui.job
  BY <1>1, <1>4, <1>5 DEF TypeOK
<1>9. ActiveIsWatched'  BY <1>5, <1>8 DEF ClientInv, ActiveIsWatched
<1>10. UploadsFile'
  <2>1. flow.at = "upload" => flow.source \in Files
    BY <1>1 DEF flow, uploads, TypeOK, Maybe
  <2>2. QED  BY <1>1, <1>5, <2>1 DEF ClientInv, UploadsFile, TypeOK
<1>11. QED  BY <1>5, <1>7, <1>9, <1>10 DEF ClientInv, EventsTrue, DoneMeansFinished

LEMMA UploadDoneKeeps == ASSUME ClientInv, NEW n \in Jobs, UploadDone(n) PROVE ClientInv'
<1>1. TypeOK /\ UNCHANGED <<watch, polls, events, server, told>>  BY DEF ClientInv, UploadDone
<1>2. CASE /\ flows' = [flows EXCEPT ![n].at = "bind"]
           /\ editor' = [editor EXCEPT !.cloud = flows[n].source]
           /\ ui' = ui
  <2>1. flows[n].source \in Maybe(Files)
    BY DEF ClientInv, UploadsFile, UploadDone, Maybe
  <2>2. QED  BY <1>1, <1>2, <2>1 DEF ClientInv, TypeOK, UploadsFile, ActiveIsWatched, EventsTrue, DoneMeansFinished
<1>3. CASE /\ flows' = [flows EXCEPT ![n].at = "over"]
           /\ ui' = [ui EXCEPT !.exporting = FALSE] /\ editor' = editor
  <2>1. flows' \in FlowsType
    BY <1>1, <1>3 DEF TypeOK, FlowsType
  <2>2. ui' \in UiType /\ ui'.exporting = FALSE /\ ui'.job = ui.job
    BY <1>1, <1>3 DEF TypeOK, UiType
  <2>3. TypeOK'  BY <1>1, <1>3, <2>1, <2>2 DEF TypeOK, FlowsType, UiType
  <2>4. UploadsFile'  BY <1>1, <1>3 DEF ClientInv, TypeOK, UploadsFile
  <2>5. ActiveIsWatched'  BY <1>1, <2>2 DEF ClientInv, ActiveIsWatched
  <2>6. QED  BY <1>1, <2>3, <2>4, <2>5 DEF ClientInv, EventsTrue, DoneMeansFinished
<1>4. QED  BY <1>2, <1>3 DEF UploadDone

LEMMA BindDoneKeeps == ASSUME ClientInv, NEW n \in Jobs, BindDone(n) PROVE ClientInv'
  BY DEF ClientInv, BindDone, TypeOK, UploadsFile, ActiveIsWatched, EventsTrue, DoneMeansFinished

\* A job starts running: it was not finished, and nothing said it was.
LEMMA JobStartsKeeps == ASSUME ClientInv, NEW n \in Jobs, JobStarts(n) PROVE ClientInv'
  BY DEF ClientInv, JobStarts, TypeOK, UploadsFile, ActiveIsWatched, EventsTrue, DoneMeansFinished

LEMMA RequestAnswersKeeps ==
  ASSUME ClientInv, NEW n \in Jobs, RequestAnswers(n)
  PROVE  ClientInv'
<1>1. TypeOK  BY DEF ClientInv
<1>2. watch' \in WatchType /\ watch'.poll = n /\ watch.open \subseteq watch'.open
  BY <1>1, WatchedType DEF RequestAnswers
<1>3. ui' = [ui EXCEPT !.job = n] /\ flows' = [flows EXCEPT ![n].at = "over"]
      /\ UNCHANGED <<editor, polls, events, server, told>>
  BY DEF RequestAnswers
<1>4. TypeOK'
  <2>1. ui' \in UiType /\ flows' \in FlowsType
    BY <1>1, <1>3 DEF TypeOK, UiType, FlowsType, JobOrNo
  <2>2. events' \subseteq Jobs \X {"complete", "error", "cancelled"}
        /\ \A e \in events' : e[1] \in watch'.open
    BY <1>1, <1>2, <1>3 DEF TypeOK
  <2>3. QED  BY <1>1, <1>2, <1>3, <2>1, <2>2 DEF TypeOK, UiType, FlowsType, WatchType
<1>5. ui'.job = n /\ n # 0
  BY <1>1, <1>3, JobsAreNotZero DEF TypeOK
<1>6. ActiveIsWatched'  BY <1>2, <1>5 DEF ActiveIsWatched
<1>7. UploadsFile'  BY <1>1, <1>3 DEF ClientInv, TypeOK, UploadsFile
<1>8. QED  BY <1>3, <1>4, <1>6, <1>7 DEF ClientInv, EventsTrue, DoneMeansFinished

LEMMA RequestFailsKeeps == ASSUME ClientInv, NEW n \in Jobs, RequestFails(n) PROVE ClientInv'
<1>1. TypeOK  BY DEF ClientInv
<1>2. Finish(n, "failed") /\ UNCHANGED <<editor, polls, server>>
      /\ flows' = [flows EXCEPT ![n].at = "over"]
  BY DEF RequestFails
<1>3. /\ ui' \in UiType /\ ui'.job = 0 /\ ui'.exporting = FALSE
      /\ told' \in ToldType
      /\ \A k \in Jobs : told'[k] = IF k = n THEN "failed" ELSE told[k]
      /\ CleansUp
  BY <1>1, <1>2, FinishType
<1>4. watch' \in WatchType /\ events' \subseteq events /\ \A e \in events' : e[1] \in watch'.open
  BY <1>1, <1>3, CleansUpType
<1>5. flows' \in FlowsType
  BY <1>1, <1>2 DEF TypeOK, FlowsType
<1>6. TypeOK'
  <2>1. events' \subseteq Jobs \X {"complete", "error", "cancelled"}
    BY <1>1, <1>4 DEF TypeOK
  <2>2. QED  BY <1>1, <1>2, <1>3, <1>4, <1>5, <2>1 DEF TypeOK, UiType, FlowsType, WatchType, ToldType
<1>7. DoneMeansFinished'  BY <1>2, <1>3 DEF ClientInv, DoneMeansFinished
<1>8. UploadsFile'  BY <1>1, <1>2 DEF ClientInv, TypeOK, UploadsFile
<1>9. QED  BY <1>2, <1>3, <1>4, <1>6, <1>7, <1>8, NothingShown, FewerEvents DEF ClientInv

LEMMA CancelKeeps == ASSUME ClientInv, Cancel PROVE ClientInv'
<1>1. Dismiss /\ Untouched /\ polls' = polls  BY DEF Cancel, Untouched
<1>2. told' = told \/ \E n \in Jobs : told' = [told EXCEPT ![n] = "cancelled"]
  BY DEF Cancel, ClientInv, TypeOK, JobOrNo
<1>3. QED  BY <1>1, <1>2, DismissKeeps

-----------------------------------------------------------------------------
(***************************************************************************)
(* The server and the rest of the editor.                                  *)
(***************************************************************************)
LEMMA ServerEndsKeeps == ASSUME ClientInv, NEW n \in Jobs, ServerEnds(n) PROVE ClientInv'
<1>1. TypeOK /\ UNCHANGED <<editor, ui, flows, watch, polls, told>>
  BY DEF ClientInv, ServerEnds
<1>2. PICK end \in {"finished", "failed", "duplicate", "cancelled"},
           kind \in {"complete", "error", "cancelled"} :
        /\ server' = [server EXCEPT ![n] = end]
        /\ events' = events \/ Publishes(n, kind)
        /\ kind = "complete" => end = "finished"
  BY DEF ServerEnds
<1>3. \A e \in events' : e \in events \/ (e = <<n, kind>> /\ n \in watch.open)
  BY <1>2 DEF Publishes
<1>4. TypeOK'
  <2>1. server' \in [Jobs -> {"none", "running", "duplicate", "finished", "failed", "cancelled"}]
    BY <1>1, <1>2 DEF TypeOK
  <2>2. events' \subseteq Jobs \X {"complete", "error", "cancelled"}
    BY <1>1, <1>3 DEF TypeOK
  <2>3. \A e \in events' : e[1] \in watch'.open
    BY <1>1, <1>3 DEF TypeOK
  <2>4. QED  BY <1>1, <2>1, <2>2, <2>3 DEF TypeOK
<1>5. server[n] \in {"running", "duplicate"}  BY DEF ServerEnds
<1>6. EventsTrue'
  <2> SUFFICES ASSUME NEW k \in Jobs, <<k, "complete">> \in events'
               PROVE  server'[k] = "finished"
    BY DEF EventsTrue
  <2>1. CASE <<k, "complete">> \in events
    BY <1>1, <1>2, <1>5, <2>1 DEF ClientInv, EventsTrue, TypeOK
  <2>2. CASE <<k, "complete">> = <<n, kind>>
    BY <1>1, <1>2, <2>2 DEF TypeOK
  <2>3. QED  BY <1>3, <2>1, <2>2
<1>7. DoneMeansFinished'  BY <1>1, <1>2, <1>5 DEF ClientInv, DoneMeansFinished, TypeOK
<1>8. QED  BY <1>1, <1>4, <1>6, <1>7 DEF ClientInv, ActiveIsWatched, UploadsFile

LEMMA OpenVideoKeeps == ASSUME ClientInv, NEW v \in Videos, OpenVideo(v) PROVE ClientInv'
<1>1. editor.cut + 1 \in Cuts
  BY ExportAssumption DEF ClientInv, TypeOK, Cuts, OpenVideo
<1>2. editor' \in [video : Videos, cut : Cuts, file : Maybe(Files), cloud : Maybe(Files),
                   manifest : Maybe(Manifest)]
  BY <1>1 DEF ClientInv, TypeOK, OpenVideo, Maybe
<1>3. QED  BY <1>2, EditorKeeps DEF OpenVideo

LEMMA EditKeeps == ASSUME ClientInv, NEW byAssistant \in BOOLEAN, Edit(byAssistant) PROVE ClientInv'
<1> DEFINE compiled == [video |-> editor.video, cut |-> editor.cut + 1]
<1>1. editor.cut + 1 \in Cuts
  BY ExportAssumption DEF ClientInv, TypeOK, Cuts, Edit
<1>2. compiled \in Manifest  BY <1>1 DEF ClientInv, TypeOK, Manifest
<1>3. editor' = [editor EXCEPT !.cut = editor.cut + 1,
                   !.manifest = IF byAssistant THEN compiled ELSE @]
  BY DEF Edit
<1> HIDE DEF compiled
<1>4. editor' \in [video : Videos, cut : Cuts, file : Maybe(Files), cloud : Maybe(Files),
                   manifest : Maybe(Manifest)]
  BY <1>1, <1>2, <1>3 DEF ClientInv, TypeOK, Maybe
<1>5. QED  BY <1>4, EditorKeeps DEF Edit

-----------------------------------------------------------------------------
LEMMA InitKeeps == ASSUME Init PROVE ClientInv
<1>1. TypeOK
  <2>1. 0 \in Cuts /\ 0 \in 0..MaxPolls  BY ExportAssumption, SMT DEF Cuts
  <2>2. PICK v \in Videos :
          editor = [video |-> v, cut |-> 0, file |-> IF v \in Files THEN v ELSE None,
                    cloud |-> None, manifest |-> None]
    BY DEF Init
  <2>3. QED  BY <2>1, <2>2 DEF Init, TypeOK, Maybe, JobOrNo
<1>2. QED  BY <1>1 DEF Init, ClientInv, UploadsFile, ActiveIsWatched, EventsTrue, DoneMeansFinished

LEMMA StepKeeps == ASSUME ClientInv, [Next]_vars PROVE ClientInv'
<1>1. CASE vars' = vars
  BY <1>1 DEF vars, ClientInv, TypeOK, UploadsFile, ActiveIsWatched, EventsTrue, DoneMeansFinished
<1>2. ASSUME NEW n \in Jobs,
             \/ Export(n) \/ UploadDone(n) \/ BindDone(n)
             \/ JobStarts(n) \/ RequestAnswers(n) \/ RequestFails(n)
             \/ PollAnswers(n) \/ PollFails(n) \/ ServerEnds(n)
             \/ \E kind \in {"complete", "error", "cancelled"} : EventArrives(n, kind)
      PROVE  ClientInv'
  BY <1>2, ExportKeeps, UploadDoneKeeps, BindDoneKeeps, JobStartsKeeps, RequestAnswersKeeps,
     RequestFailsKeeps, PollAnswersKeeps, PollFailsKeeps, ServerEndsKeeps, EventKeeps
<1>3. CASE PollAsks \/ TenMinutes \/ Cancel
  BY <1>3, PollAsksKeeps, TenMinutesKeeps, CancelKeeps
<1>4. CASE \/ \E v \in Videos : OpenVideo(v)
           \/ \E byAssistant \in BOOLEAN : Edit(byAssistant)
  BY <1>4, OpenVideoKeeps, EditKeeps
<1>5. QED  BY <1>1, <1>2, <1>3, <1>4 DEF Next

LEMMA ClientInvariant == Spec => []ClientInv
  BY InitKeeps, StepKeeps, PTL DEF Spec

\* Every reachable state is well typed: in particular the cloud copy kept for
\* the next export is always a file's, whichever video is open by then
\* (exportClip).
THEOREM TypesKept == Spec => []TypeOK
  BY ClientInvariant, PTL DEF ClientInv

\* The job shown as active is the job that is polled, and an export shown as
\* running is being prepared, asked for or watched, however answers of
\* earlier exports, cancels and events interleave (finishSuccess,
\* finishFailure, cleanup, startPolling).
THEOREM ActiveJobWatched == Spec => []ActiveIsWatched
  BY ClientInvariant, PTL DEF ClientInv

\* Nobody is told that an export is ready before its job has its file,
\* whatever arrives late (handleRealtimeComplete, startPolling).
THEOREM DoneIsTrue == Spec => []DoneMeansFinished
  BY ClientInvariant, PTL DEF ClientInv

=============================================================================
