---------------------------- MODULE ExportClient ----------------------------
(***************************************************************************)
(* The editor's side of a server export: hooks/useServerExport.ts, owned   *)
(* by ServerExportHost and shown through stores/serverExportStore.ts.      *)
(*                                                                         *)
(* An export uploads the local file if that has not been done, binds the   *)
(* project, asks the API for a job and then watches the job through a      *)
(* realtime channel and a poll.  An action is the code between two awaits. *)
(* The server is modelled by what the watcher can see of it (RenderJob     *)
(* models the rest): a duplicate delivery shows as a failure and may still *)
(* be followed by a file.  Export n asks for job n.                        *)
(***************************************************************************)
EXTENDS Naturals, FiniteSets

CONSTANTS
  Files,       \* local videos
  Links,       \* YouTube links
  None,        \* null
  Realtime,    \* whether a realtime client is configured
  MaxExports,  \* bound: exports asked for
  MaxOpened,   \* bound: videos opened after the first, and edits
  MaxPolls     \* bound: polls of one job that are under way at once

Videos == Files \union Links
Jobs   == 1..MaxExports

ASSUME ExportAssumption ==
  /\ Files \intersect Links = {} /\ None \notin Videos /\ Realtime \in BOOLEAN
  /\ MaxExports \in Nat /\ MaxOpened \in Nat /\ MaxPolls \in Nat

VARIABLES
  editor,  \* the video shown, its edits, the file and cloud copy kept, the manifest
  ui,      \* isExporting, activeJobId, exportDone or exportError
  flows,   \* each call of exportClip: what it waits for and what it will send
  watch,   \* channelRef and the channels open, pollRef, whether its deadline is over
  polls,   \* status requests under way, by job
  events,  \* events of open channels that have not been handled yet
  server,  \* the jobs on the server
  told     \* what the user has been told of each job

vars == <<editor, ui, flows, watch, polls, events, server, told>>

Maybe(S) == S \union {None}
JobOrNo  == {0} \union Jobs
Cuts     == 0..MaxOpened
\* A manifest shows a video with its edits so far.
Manifest == [video : Videos, cut : Cuts]

Init ==
  /\ \E v \in Videos :
       editor = [video |-> v, cut |-> 0, file |-> IF v \in Files THEN v ELSE None,
                 cloud |-> None, manifest |-> None]
  /\ ui = [exporting |-> FALSE, job |-> 0, verdict |-> "none"]
  /\ flows = [n \in Jobs |-> [at |-> "none", source |-> None, manifest |-> None]]
  /\ watch = [channel |-> 0, open |-> {}, poll |-> 0, late |-> FALSE]
  /\ polls = [n \in Jobs |-> 0]
  /\ events = {}
  /\ server = [n \in Jobs |-> "none"]
  /\ told = [n \in Jobs |-> "none"]

TypeOK ==
  /\ editor \in [video : Videos, cut : Cuts, file : Maybe(Files), cloud : Maybe(Files),
                 manifest : Maybe(Manifest)]
  /\ ui \in [exporting : BOOLEAN, job : JobOrNo, verdict : {"none", "done", "failed"}]
  /\ flows \in [Jobs -> [at : {"none", "upload", "bind", "request", "over"},
                         source : Maybe(Videos), manifest : Maybe(Manifest)]]
  /\ watch \in [channel : JobOrNo, open : SUBSET Jobs, poll : JobOrNo, late : BOOLEAN]
  /\ polls \in [Jobs -> 0..MaxPolls]
  /\ events \subseteq Jobs \X {"complete", "error", "cancelled"}
  /\ \A e \in events : e[1] \in watch.open
  /\ server \in [Jobs -> {"none", "running", "duplicate", "finished", "failed", "cancelled"}]
  /\ told \in [Jobs -> {"none", "done", "failed", "cancelled"}]

-----------------------------------------------------------------------------
(***************************************************************************)
(* Watching a job.                                                         *)
(***************************************************************************)
\* cleanup: the channel and the poll that are known are closed.
Closed(w) == [w EXCEPT !.open = @ \ {w.channel}, !.channel = 0, !.poll = 0]
\* Mutant of Undelivered: the handlers of a closed channel stay bound.
StillBound(w) == events

Undelivered(w) == {e \in events : e[1] \in w.open}

CleansUp == watch' = Closed(watch) /\ events' = Undelivered(Closed(watch))

\* Mutant of Watched: with a realtime client there is no poll.
WatchedOnce(w, n) ==
  IF Realtime THEN [w EXCEPT !.channel = n, !.open = @ \union {n}, !.poll = 0, !.late = FALSE]
              ELSE [w EXCEPT !.poll = n, !.late = FALSE]

\* subscribeRealtime and startPolling: the channel of an earlier job is not
\* closed, its poll is replaced.
Watched(w, n) ==
  LET polled == [w EXCEPT !.poll = n, !.late = FALSE]
  IN IF Realtime THEN [polled EXCEPT !.channel = n, !.open = @ \union {n}] ELSE polled

\* finishSuccess and finishFailure: whatever job the answer is about, the
\* export is over and nothing is watched any more.
Finish(n, verdict) ==
  /\ ui' = [exporting |-> FALSE, job |-> 0, verdict |-> verdict]
  /\ told' = [told EXCEPT ![n] = verdict]
  /\ CleansUp

Dismiss ==
  /\ ui' = [ui EXCEPT !.exporting = FALSE, !.job = 0]
  /\ CleansUp

\* The interval asks for the status of its job again, whether or not the
\* last request has been answered.
PollAsks ==
  /\ watch.poll # 0 /\ polls[watch.poll] < MaxPolls
  /\ polls' = [polls EXCEPT ![watch.poll] = @ + 1]
  /\ UNCHANGED <<editor, ui, flows, watch, events, server, told>>

\* Mutant of Polled: an answer is taken for the active job.
PolledActive(n) == IF ui.job # 0 THEN ui.job ELSE n

\* The job a status request was made for.
Polled(n) == n

\* An answer may be older than the present state of the job.  It ends the
\* watch when the job is over, and after the ten minutes.
PollAnswers(n) ==
  /\ polls[n] > 0 /\ polls' = [polls EXCEPT ![n] = @ - 1]
  /\ \E seen \in {server[n], "running"} :
       CASE seen = "finished" -> Finish(Polled(n), "done")
         [] seen \in {"failed", "duplicate"} -> Finish(Polled(n), "failed")
         [] OTHER -> IF watch.late THEN Finish(Polled(n), "failed")
                     ELSE UNCHANGED <<ui, told, watch, events>>
  /\ UNCHANGED <<editor, flows, server>>

\* A poll that fails is not counted and does not look at the deadline.
PollFails(n) ==
  /\ polls[n] > 0 /\ polls' = [polls EXCEPT ![n] = @ - 1]
  /\ UNCHANGED <<editor, ui, flows, watch, events, server, told>>

TenMinutes ==
  /\ watch.poll # 0 /\ ~watch.late
  /\ watch' = [watch EXCEPT !.late = TRUE]
  /\ UNCHANGED <<editor, ui, flows, polls, events, server, told>>

\* A complete event carries the link, which the bridge adds; one without it, which
\* would go back to polling, is left out.
EventArrives(n, kind) ==
  /\ <<n, kind>> \in events
  /\ CASE kind = "complete"  -> Finish(n, "done")
       [] kind = "error"     -> Finish(n, "failed")
       [] kind = "cancelled" -> Dismiss /\ told' = [told EXCEPT ![n] = "cancelled"]
  /\ UNCHANGED <<editor, flows, polls, server>>

-----------------------------------------------------------------------------
(***************************************************************************)
(* Exporting.                                                              *)
(***************************************************************************)
\* The guard of ServerExportHost, then exportClip up to its first await.
\* The manifest is compiled only if there is none.  A clip is selected.
Export(n) ==
  /\ ~ui.exporting /\ flows[n].at = "none" /\ \A k \in 1..(n - 1) : flows[k].at # "none"
  /\ LET now == [video |-> editor.video, cut |-> editor.cut]
         uploads == editor.cloud = None /\ editor.file # None
         manifest == IF editor.manifest = None THEN now ELSE editor.manifest
     IN /\ editor' = [editor EXCEPT !.manifest = manifest]
        /\ ui' = [ui EXCEPT !.exporting = uploads]
        /\ flows' = [flows EXCEPT ![n] =
             [at |-> IF uploads THEN "upload" ELSE "bind",
              source |-> IF editor.cloud # None THEN editor.cloud
                         ELSE IF uploads THEN editor.file ELSE editor.video,
              manifest |-> manifest]]
  /\ UNCHANGED <<watch, polls, events, server, told>>

\* The upload ends.  Its path is kept for the next export, whatever video
\* is open by then.
UploadDone(n) ==
  /\ flows[n].at = "upload"
  /\ \/ /\ flows' = [flows EXCEPT ![n].at = "bind"]
        /\ editor' = [editor EXCEPT !.cloud = flows[n].source]
        /\ UNCHANGED ui
     \/ /\ flows' = [flows EXCEPT ![n].at = "over"]
        /\ ui' = [ui EXCEPT !.exporting = FALSE]
        /\ UNCHANGED editor
  /\ UNCHANGED <<watch, polls, events, server, told>>

\* The project is bound, or not; the request is sent either way.
BindDone(n) ==
  /\ flows[n].at = "bind"
  /\ flows' = [flows EXCEPT ![n].at = "request"]
  /\ ui' = [ui EXCEPT !.exporting = TRUE]
  /\ UNCHANGED <<editor, watch, polls, events, server, told>>

JobStarts(n) ==
  /\ flows[n].at = "request" /\ server[n] = "none"
  /\ server' = [server EXCEPT ![n] = "running"]
  /\ UNCHANGED <<editor, ui, flows, watch, polls, events, told>>

\* The answer names the job; without one the export has failed, though the
\* job may exist.
RequestAnswers(n) ==
  /\ flows[n].at = "request" /\ server[n] # "none"
  /\ flows' = [flows EXCEPT ![n].at = "over"]
  /\ ui' = [ui EXCEPT !.job = n]
  /\ watch' = Watched(watch, n)
  /\ UNCHANGED <<editor, polls, events, server, told>>

RequestFails(n) ==
  /\ flows[n].at = "request"
  /\ flows' = [flows EXCEPT ![n].at = "over"]
  /\ Finish(n, "failed")
  /\ UNCHANGED <<editor, polls, server>>

\* The cancel button.  The server is asked to cancel the job that is known.
Cancel ==
  /\ ui.exporting
  /\ Dismiss
  /\ told' = IF ui.job = 0 THEN told ELSE [told EXCEPT ![ui.job] = "cancelled"]
  /\ UNCHANGED <<editor, flows, polls, server>>

-----------------------------------------------------------------------------
(***************************************************************************)
(* The server, and the rest of the editor.                                 *)
(***************************************************************************)
\* A verdict is published to the channel of its job; an event may be lost.
Publishes(n, kind) ==
  events' \in {events, IF n \in watch.open THEN events \union {<<n, kind>>} ELSE events}

ServerEnds(n) ==
  /\ server[n] \in {"running", "duplicate"}
  /\ \/ server' = [server EXCEPT ![n] = "finished"] /\ Publishes(n, "complete")
     \/ server' = [server EXCEPT ![n] = "failed"] /\ Publishes(n, "error")
     \/ server[n] = "running" /\ server' = [server EXCEPT ![n] = "duplicate"] /\ UNCHANGED events
     \/ told[n] = "cancelled" /\ server' = [server EXCEPT ![n] = "cancelled"]
        /\ Publishes(n, "cancelled")
  /\ UNCHANGED <<editor, ui, flows, watch, polls, told>>

\* setSourceFile and setSourceUrl: neither drops the manifest, and a link
\* keeps the file and the cloud copy of the video before it.
OpenVideo(v) ==
  /\ v # editor.video /\ editor.cut < MaxOpened
  /\ editor' = IF v \in Files
               THEN [editor EXCEPT !.video = v, !.cut = @ + 1, !.file = v, !.cloud = None]
               ELSE [editor EXCEPT !.video = v, !.cut = @ + 1]
  /\ UNCHANGED <<ui, flows, watch, polls, events, server, told>>

\* A manual edit of the timeline leaves the manifest alone; an edit by the
\* assistant compiles it again.
Edit(byAssistant) ==
  /\ editor.cut < MaxOpened
  /\ LET cut == editor.cut + 1
     IN editor' = [editor EXCEPT !.cut = cut,
                     !.manifest = IF byAssistant THEN [video |-> editor.video, cut |-> cut]
                                  ELSE @]
  /\ UNCHANGED <<ui, flows, watch, polls, events, server, told>>

-----------------------------------------------------------------------------
Next ==
  \/ \E n \in Jobs :
       \/ Export(n) \/ UploadDone(n) \/ BindDone(n)
       \/ JobStarts(n) \/ RequestAnswers(n) \/ RequestFails(n)
       \/ PollAnswers(n) \/ PollFails(n) \/ ServerEnds(n)
       \/ \E kind \in {"complete", "error", "cancelled"} : EventArrives(n, kind)
  \/ PollAsks \/ TenMinutes \/ Cancel
  \/ \E v \in Videos : OpenVideo(v)
  \/ \E byAssistant \in BOOLEAN : Edit(byAssistant)

Spec == Init /\ [][Next]_vars

\* Requests are answered or fail, the interval keeps asking, and of the
\* polls of a job one succeeds in the end; neither the server nor the
\* realtime service owes anything.
Fairness ==
  /\ \A n \in Jobs : /\ WF_vars(UploadDone(n)) /\ WF_vars(BindDone(n))
                     /\ WF_vars(JobStarts(n) \/ RequestAnswers(n) \/ RequestFails(n))
                     /\ SF_vars(PollAnswers(n))
  /\ WF_vars(PollAsks) /\ WF_vars(TenMinutes)

FairSpec == Spec /\ Fairness

-----------------------------------------------------------------------------
(***************************************************************************)
(* Properties.                                                             *)
(***************************************************************************)
\* A job that is shown as active is polled, and an export that is shown to
\* run is being prepared, asked for or watched: whatever ends an earlier
\* export, cancels it or answers late, the user never looks at a progress
\* bar that nothing moves (finishSuccess, finishFailure, cleanup).
ActiveIsWatched ==
  /\ ui.job # 0 => watch.poll = ui.job
  /\ ui.exporting /\ (\A n \in Jobs : flows[n].at \notin {"upload", "bind", "request"})
     => ui.job # 0

\* "Export ready" is said of a job that has its file, also when answers and
\* events of an earlier export come in late.
DoneMeansFinished == \A n \in Jobs : told[n] = "done" => server[n] = "finished"

\* An export does not run for ever: it is over when the job is, when the
\* user cancels, or after ten minutes, also when every event is lost and the
\* job never ends (POLL_TIMEOUT_MS).
ExportEnds == ui.exporting ~> ~ui.exporting

=============================================================================
