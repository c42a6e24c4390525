---------------------------- MODULE DubJobProofs ----------------------------
(***************************************************************************)
(* Theorems about DubJob, for every set of handlers and cancels, every     *)
(* number of segments and deliveries and every set of faults.              *)
(*                                                                         *)
(* PriceKept and ReadyIsComplete are about the document; what makes them   *)
(* inductive is the same of every copy of it that is still going to be     *)
(* written back.                                                           *)
(***************************************************************************)
EXTENDS DubJob, TLAPS

-----------------------------------------------------------------------------
(***************************************************************************)
(* Types, one name per variable.                                           *)
(***************************************************************************)
RunnerType == [at : RunnerPcs, job : Document, left : 0..Segments]
QueueType  == [state : {"none", "queued", "gone"}, tries : 0..Deliveries,
               flight : Workers \union {NoWorker}]
CancelType == [at : CancelPcs, job : Document]

StateTypes == /\ doc \in Document /\ maker \in MakerPcs /\ queue \in QueueType
              /\ work \in [Runners -> RunnerType] /\ cancels \in [Cancels -> CancelType]

FlagTypes == flag \in BOOLEAN /\ claimed \in BOOLEAN /\ made \subseteq {"captions", "voice"}

\* A task exists once it was made, and one that awaits its delivery has
\* deliveries left.
QueueInv ==
  /\ maker \in {"new", "charge", "refuse", "stamp", "enqueue", "denied"}
       => queue = [state |-> "none", tries |-> 0, flight |-> NoWorker]
  /\ queue.state = "none" => queue.tries = 0 /\ queue.flight = NoWorker
  /\ queue.state = "queued" /\ queue.flight = NoWorker => queue.tries < Deliveries

LEMMA Distinct == /\ Inline \notin Workers /\ NoWorker \notin Runners
                  /\ Segments \in Nat /\ Deliveries \in Nat \ {0}
  BY DubAssumption DEF DubAssumption

LEMMA FreshType ==
  ASSUME NEW only \in BOOLEAN
  PROVE  Fresh(only) \in Document /\ [Fresh(only) EXCEPT !.charged = TRUE] \in Document
  BY DEF Fresh, Document, Statuses, Final

LEMMA RestType == /\ NoDoc \in Document /\ Rest \in RunnerType
                  /\ [Rest EXCEPT !.at = "load"] \in RunnerType
<1>1. NoDoc \in Document  BY DEF NoDoc, Fresh, Document, Statuses, Final
<1>2. 0 \in 0..Segments  BY Distinct, SMT
<1>3. QED  BY <1>1, <1>2 DEF Rest, RunnerType, RunnerPcs

LEMMA CopyType ==
  ASSUME StateTypes, NEW r \in Runners, NEW s \in Statuses
  PROVE  /\ Copy(r, s) \in Document
         /\ [Copy(r, s) EXCEPT !.audio = TRUE] \in Document
         /\ [work[r].job EXCEPT !.segments = TRUE] \in Document
         /\ work[r].job \in Document
  BY DEF StateTypes, Copy, RunnerType, Document

\* What a step of a runner leaves of the types.
Runs(r) == /\ doc' \in Document /\ work' \in [Runners -> RunnerType]
           /\ \A q \in Runners \ {r} : work'[q] = work[q]

LEMMA GoesTyped ==
  ASSUME StateTypes, NEW r \in Runners, NEW to \in RunnerPcs, Goes(r, to), doc' \in Document
  PROVE  Runs(r)
  BY DEF StateTypes, Goes, Runs, RunnerType

LEMMA SaveTyped ==
  ASSUME StateTypes, NEW r \in Runners, NEW to \in RunnerPcs, NEW copy \in Document,
         Save(r, copy, to)
  PROVE  Runs(r)
<1>1. CASE doc' = copy /\ work' = [work EXCEPT ![r].at = to, ![r].job = copy]
  BY <1>1 DEF StateTypes, Runs, RunnerType
<1>2. CASE doc' \in MayBe(doc) \union MayBe(copy) /\ Goes(r, "reload")
  <2>1. doc' \in Document  BY <1>2 DEF StateTypes, MayBe
  <2>2. QED  BY <1>2, <2>1, GoesTyped DEF RunnerPcs
<1>3. QED  BY <1>1, <1>2 DEF Save

LEMMA ProcessTyped ==
  ASSUME StateTypes, NEW r \in Runners, Process(r)
  PROVE  Runs(r)
<1>s. Statuses = Final \union {"none", "queued", "translating", "synthesizing", "aligning",
                               "subtitling"}
  BY DEF Statuses
<1>d. doc \in Document /\ work[r] \in RunnerType  BY DEF StateTypes
<1>c. \A s \in Statuses : /\ Copy(r, s) \in Document
                          /\ [Copy(r, s) EXCEPT !.audio = TRUE] \in Document
  BY CopyType
<1>j. /\ [work[r].job EXCEPT !.segments = TRUE] \in Document
      /\ work[r].job \in Document
  BY CopyType DEF Statuses
<1>u. ASSUME NEW to \in RunnerPcs, Goes(r, to), doc' = doc  PROVE Runs(r)
  BY <1>u, <1>d, GoesTyped
<1>1. CASE Load(r)
  <2>1. Segments \in 0..Segments  BY Distinct, SMT
  <2>2. QED  BY <1>1, <2>1, <1>d DEF Load, Runs, StateTypes, RunnerType, RunnerPcs
<1>2. CASE Begin(r)
  BY <1>2, <1>u, <1>c, SaveTyped DEF Begin, RunnerPcs, Statuses
<1>3. CASE Translate(r)
  BY <1>3, <1>u, <1>j, SaveTyped DEF Translate, RunnerPcs
<1>4. CASE Voice(r)
  BY <1>4, <1>u, <1>c, SaveTyped DEF Voice, RunnerPcs, Statuses
<1>5. CASE Segment(r)
  <2>1. CASE work[r].left = 0
    BY <1>5, <2>1, <1>u DEF Segment, RunnerPcs
  <2>2. CASE work[r].left # 0
    <3>1. work[r].left - 1 \in 0..Segments  BY <2>2, <1>d, Distinct DEF RunnerType
    <3>2. QED  BY <1>5, <2>2, <3>1, <1>d DEF Segment, Runs, StateTypes, RunnerType, RunnerPcs
  <2>3. QED  BY <2>1, <2>2
<1>6. CASE Speak(r)
  BY <1>6, <1>u, <1>j, SaveTyped DEF Speak, RunnerPcs
<1>7. CASE Align(r)
  BY <1>7, <1>u, <1>c, SaveTyped DEF Align, RunnerPcs, Statuses
<1>8. CASE Upload(r)
  BY <1>8, <1>u DEF Upload, RunnerPcs
<1>9. CASE Finish(r)
  BY <1>9, <1>c, SaveTyped DEF Finish, RunnerPcs, Statuses, Final
<1>10. CASE Fail(r)
  <2>1. CASE At(r, "reload") /\ work' = [work EXCEPT ![r].at = "failed", ![r].job = doc] /\ doc' = doc
    BY <2>1, <1>d DEF Runs, StateTypes, RunnerType, RunnerPcs
  <2>2. CASE doc' = Copy(r, "failed")
             /\ work' = [work EXCEPT ![r].at = "over", ![r].job = Copy(r, "failed")]
    BY <2>2, <1>c DEF Runs, StateTypes, RunnerType, RunnerPcs, Statuses, Final
  <2>3. CASE Goes(r, "raised") /\ doc' \in MayBe(doc) \union MayBe(Copy(r, "failed"))
    <3>1. doc' \in Document  BY <2>3, <1>c, <1>d DEF MayBe, Statuses, Final
    <3>2. QED  BY <2>3, <3>1, GoesTyped DEF RunnerPcs
  <2>4. QED  BY <1>10, <2>1, <2>2, <2>3 DEF Fail
<1>11. CASE ReadFails(r)
  BY <1>11, <1>u DEF ReadFails, RunnerPcs
<1>12. QED
  BY <1>1, <1>2, <1>3, <1>4, <1>5, <1>6, <1>7, <1>8, <1>9, <1>10, <1>11 DEF Process

LEMMA ProcessLeaves ==
  ASSUME NEW r \in Runners, Process(r)
  PROVE  UNCHANGED <<flag, claimed, maker, queue, cancels, charges, refunds>>
  BY DEF Process

-----------------------------------------------------------------------------
LEMMA MakeTyped ==
  ASSUME StateTypes, QueueInv, Make
  PROVE  StateTypes' /\ QueueInv'
<1>f. \A only \in BOOLEAN : /\ Fresh(only) \in Document
                            /\ [Fresh(only) EXCEPT !.charged = TRUE] \in Document
  BY FreshType
<1>d. doc.captionsOnly \in BOOLEAN  BY DEF StateTypes, Document
<1>1. CASE \E only \in BOOLEAN : CreateJob(only)
  BY <1>1, <1>f DEF CreateJob, MakerStep, MakerPcs, StateTypes, QueueInv
<1>2. CASE Deduct \/ DeductFails \/ Refuse \/ GiveUp \/ MakerRefund
  BY <1>2 DEF Deduct, DeductFails, Refuse, GiveUp, MakerRefund, MakerStep, MakerPcs,
              StateTypes, QueueInv
<1>3. CASE Stamp
  BY <1>3, <1>f, <1>d DEF Stamp, MakerStep, MakerPcs, StateTypes, QueueInv
<1>4. ASSUME maker = "enqueue"
      PROVE  /\ queue = [state |-> "none", tries |-> 0, flight |-> NoWorker]
             /\ [queue EXCEPT !.state = "queued"]
                  = [state |-> "queued", tries |-> 0, flight |-> NoWorker]
             /\ [queue EXCEPT !.state = "queued"] \in QueueType
             /\ 0 < Deliveries
  BY <1>4, Distinct DEF QueueInv, QueueType
<1>5. CASE Enqueue
  BY <1>5, <1>4 DEF Enqueue, MakerStep, MakerPcs, StateTypes, QueueInv
<1>6. CASE EnqueueFails
  <2>1. maker = "enqueue" /\ maker' = "inline"  BY <1>6 DEF EnqueueFails, MakerStep
  <2>2. queue' \in QueueType /\ (queue'.state = "none" => queue'.tries = 0 /\ queue'.flight = NoWorker)
        /\ queue'.tries < Deliveries
    BY <1>6, <1>4, <2>1 DEF EnqueueFails, StateTypes
  <2>3. work' \in [Runners -> RunnerType]
    BY <1>6, RestType DEF EnqueueFails, StateTypes
  <2>4. UNCHANGED <<doc, cancels>>  BY <1>6 DEF EnqueueFails
  <2>5. QED  BY <2>1, <2>2, <2>3, <2>4 DEF StateTypes, QueueInv, MakerPcs
<1>7. CASE InlineEnds
  <2>1. maker = "inline" /\ maker' \in {"answered", "giveup"}
    BY <1>7 DEF InlineEnds, MakerStep
  <2>2. work' \in [Runners -> RunnerType] /\ UNCHANGED <<doc, cancels, queue>>
    BY <1>7, RestType DEF InlineEnds, StateTypes
  <2>3. QED  BY <2>1, <2>2 DEF StateTypes, QueueInv, MakerPcs
<1>8. CASE MakerFails
  BY <1>8, <1>f, <1>d DEF MakerFails, MakerPcs, StateTypes, QueueInv
<1>9. QED  BY <1>1, <1>2, <1>3, <1>5, <1>6, <1>7, <1>8 DEF Make

LEMMA CancelTyped ==
  ASSUME StateTypes, QueueInv, NEW c \in Cancels, Cancel(c)
  PROVE  StateTypes' /\ QueueInv'
<1>1. UNCHANGED <<maker, queue, work>>
  BY DEF Cancel, CancelRead, CancelMark, CancelClaim, CancelRefund, CancelWrite, CancelFails
<1>2. cancels[c] \in CancelType /\ doc \in Document  BY DEF StateTypes
<1>3. [cancels[c].job EXCEPT !.status = "cancelled"] \in Document
  BY <1>2 DEF CancelType, Document, Statuses, Final
<1>4. doc' \in Document
  BY <1>2, <1>3 DEF Cancel, CancelRead, CancelMark, CancelClaim, CancelRefund, CancelWrite,
                    CancelFails
<1>5. ASSUME NEW from, NEW to \in CancelPcs, CancelStep(c, from, to)
      PROVE  cancels' \in [Cancels -> CancelType]
  BY <1>5, <1>2 DEF CancelStep, StateTypes, CancelType
<1>6. cancels' \in [Cancels -> CancelType]
  <2>1. CASE CancelRead(c)
    BY <2>1, <1>2 DEF CancelRead, StateTypes, CancelType, CancelPcs
  <2>2. CASE CancelMark(c) \/ CancelClaim(c)
    BY <2>2, <1>5 DEF CancelMark, CancelClaim, CancelPcs
  <2>3. CASE CancelRefund(c) \/ CancelWrite(c) \/ CancelFails(c)
    BY <2>3, <1>5 DEF CancelRefund, CancelWrite, CancelFails, CancelPcs
  <2>4. QED  BY <2>1, <2>2, <2>3 DEF Cancel
<1>7. QED  BY <1>1, <1>4, <1>6 DEF StateTypes, QueueInv

LEMMA GivesUpTyped ==
  ASSUME StateTypes, QueueInv, GivesUp, queue.flight # NoWorker
  PROVE  /\ queue' \in QueueType /\ queue'.state # "none"
         /\ queue'.state = "queued" => queue'.tries < Deliveries
  BY DEF StateTypes, QueueInv, GivesUp, QueueType

LEMMA QueueTyped ==
  ASSUME StateTypes, QueueInv,
         \/ Timeout
         \/ \E w \in Workers : Deliver(w) \/ Answer(w)
         \/ \E r \in Runners : Crash(r)
  PROVE  StateTypes' /\ QueueInv'
<1>w. Workers \subseteq Runners  BY DEF Runners
<1>r. ASSUME NEW r \in Runners, work' = [work EXCEPT ![r] = Rest]
             \/ work' = [work EXCEPT ![r] = [Rest EXCEPT !.at = "load"]]
      PROVE  work' \in [Runners -> RunnerType]
  BY <1>r, RestType DEF StateTypes
<1>1. CASE Timeout
  <2>1. queue' \in QueueType /\ queue'.state # "none"
        /\ (queue'.state = "queued" => queue'.tries < Deliveries)
    BY <1>1, GivesUpTyped DEF Timeout
  <2>2. maker \notin {"new", "charge", "refuse", "stamp", "enqueue", "denied"}
    BY <1>1 DEF Timeout, QueueInv
  <2>3. QED  BY <1>1, <2>1, <2>2 DEF Timeout, StateTypes, QueueInv
<1>2. ASSUME NEW w \in Workers, Deliver(w)  PROVE StateTypes' /\ QueueInv'
  <2>1. /\ queue.tries < Deliveries /\ queue \in QueueType
        /\ queue.state = "queued" /\ queue' = [queue EXCEPT !.tries = @ + 1, !.flight = w]
    BY <1>2 DEF Deliver, QueueInv, StateTypes
  <2>2. queue' \in QueueType /\ queue'.state = "queued" /\ queue'.flight # NoWorker
    <3>1. queue.tries + 1 \in 0..Deliveries  BY <2>1, Distinct DEF QueueType
    <3>2. w # NoWorker  BY <1>w, Distinct
    <3>3. QED  BY <2>1, <3>1, <3>2 DEF QueueType
  <2>3. maker \notin {"new", "charge", "refuse", "stamp", "enqueue", "denied"}
    BY <2>1 DEF QueueInv
  <2>4. work' \in [Runners -> RunnerType]  BY <1>2, <1>r, <1>w DEF Deliver
  <2>5. QED  BY <1>2, <2>2, <2>3, <2>4 DEF Deliver, StateTypes, QueueInv
<1>3. ASSUME NEW w \in Workers, Answer(w)  PROVE StateTypes' /\ QueueInv'
  <2>1. work' \in [Runners -> RunnerType]  BY <1>3, <1>r, <1>w DEF Answer
  <2>2. CASE queue.flight # w
    BY <1>3, <2>1, <2>2 DEF Answer, StateTypes, QueueInv
  <2>3. CASE queue.flight = w
    <3>1. queue.flight # NoWorker  BY <2>3, <1>w, Distinct
    <3>2. maker \notin {"new", "charge", "refuse", "stamp", "enqueue", "denied"}
      BY <3>1 DEF QueueInv
    <3>3. CASE GivesUp
      BY <1>3, <2>1, <3>1, <3>2, <3>3, GivesUpTyped DEF Answer, StateTypes, QueueInv
    <3>4. CASE queue' = [queue EXCEPT !.flight = NoWorker, !.state = "gone"]
      <4>1. queue' \in QueueType /\ queue'.state = "gone"
        BY <3>4 DEF StateTypes, QueueType
      <4>2. QED  BY <1>3, <2>1, <3>2, <4>1 DEF Answer, StateTypes, QueueInv
    <3>5. QED  BY <1>3, <2>3, <3>3, <3>4 DEF Answer
  <2>4. QED  BY <2>2, <2>3
<1>4. ASSUME NEW r \in Runners, Crash(r)  PROVE StateTypes' /\ QueueInv'
  <2>1. work' \in [Runners -> RunnerType]  BY <1>4, <1>r DEF Crash
  <2>2. maker' \in {maker, "error"} /\ UNCHANGED <<doc, cancels>>  BY <1>4 DEF Crash
  <2>3. CASE queue.flight = r
    <3>1. queue.flight # NoWorker  BY <2>3, Distinct
    <3>2. maker \notin {"new", "charge", "refuse", "stamp", "enqueue", "denied"}
      BY <3>1 DEF QueueInv
    <3>3. GivesUp  BY <1>4, <2>3 DEF Crash
    <3>4. QED  BY <2>1, <2>2, <3>1, <3>2, <3>3, GivesUpTyped DEF StateTypes, QueueInv, MakerPcs
  <2>4. CASE queue.flight # r
    BY <1>4, <2>1, <2>2, <2>4 DEF Crash, StateTypes, QueueInv, MakerPcs
  <2>5. QED  BY <2>3, <2>4
<1>5. QED  BY <1>1, <1>2, <1>3, <1>4

LEMMA StateTyped ==
  ASSUME StateTypes, QueueInv, [Next]_vars
  PROVE  StateTypes' /\ QueueInv'
<1>1. CASE Make  BY <1>1, MakeTyped
<1>2. ASSUME NEW c \in Cancels, Cancel(c)  PROVE StateTypes' /\ QueueInv'
  BY <1>2, CancelTyped
<1>3. ASSUME NEW r \in Runners, Process(r)  PROVE StateTypes' /\ QueueInv'
  BY <1>3, ProcessTyped, ProcessLeaves DEF Runs, StateTypes, QueueInv
<1>4. CASE vars' = vars  BY <1>4 DEF vars, StateTypes, QueueInv
<1>5. QED  BY <1>1, <1>2, <1>3, <1>4, QueueTyped DEF Next

-----------------------------------------------------------------------------
LEMMA FlagsTyped ==
  ASSUME FlagTypes, [Next]_vars
  PROVE  FlagTypes'
<1>1. CASE Make
  BY <1>1 DEF Make, CreateJob, Deduct, DeductFails, Refuse, Stamp, Enqueue, EnqueueFails,
     InlineEnds, GiveUp, MakerRefund, MakerFails, FlagTypes
<1>2. ASSUME NEW c \in Cancels, Cancel(c)  PROVE FlagTypes'
  BY <1>2 DEF Cancel, CancelRead, CancelMark, CancelClaim, CancelRefund, CancelWrite,
     CancelFails, FlagTypes
<1>3. ASSUME NEW r \in Runners, Process(r)  PROVE FlagTypes'
  <2>1. flag' = flag /\ claimed' = claimed  BY <1>3 DEF Process
  <2>2. made' \in {made, made \union {"captions"}, made \union {"voice"}}
    BY <1>3, Zenon DEF Process, Load, Begin, Translate, Voice, Segment, Speak, Align, Upload, Finish,
       Fail, ReadFails
  <2>3. QED  BY <2>1, <2>2 DEF FlagTypes
<1>4. CASE UNCHANGED <<flag, claimed, made>>  BY <1>4 DEF FlagTypes
<1>5. QED
  BY <1>1, <1>2, <1>3, <1>4 DEF Next, vars, Timeout, Deliver, Answer, Crash

-----------------------------------------------------------------------------
(***************************************************************************)
(* The price: whoever may write the document back has a copy with it.      *)
(***************************************************************************)
Undispatched == {"new", "charge", "refuse", "stamp", "denied"}

PriceInv ==
  /\ maker \in {"new", "charge"} => charges = 0
  /\ maker = "stamp" => charges = 1
  /\ maker \in {"enqueue", "inline", "giveup", "refund", "answered", "unavailable"}
       => charges = 1 /\ doc.charged
  /\ maker \in Undispatched \union {"enqueue"} => \A r \in Runners : At(r, "idle")
  /\ queue.state # "none" => charges = 1 /\ doc.charged
  /\ \A r \in Runners : ~At(r, "idle") => charges = 1 /\ doc.charged

CopiesInv ==
  /\ \A r \in Runners :
       /\ work[r].job.status # "none" => work[r].job.charged
       /\ work[r].at \notin {"idle", "load", "raised"} => work[r].job.charged
  /\ \A c \in Cancels :
       /\ cancels[c].job.status # "none" => cancels[c].job.charged
       /\ cancels[c].at # "idle" => cancels[c].job.charged /\ maker = "answered"

LEMMA CopyFields ==
  ASSUME StateTypes, NEW r \in Runners, NEW s \in Statuses
  PROVE  /\ Copy(r, s).status = s
         /\ Copy(r, s).charged = work[r].job.charged
         /\ Copy(r, s).captionsOnly = work[r].job.captionsOnly
         /\ Copy(r, s).segments = work[r].job.segments
         /\ Copy(r, s).audio = work[r].job.audio
  BY DEF StateTypes, Copy, RunnerType, Document

\* Priced: the document and the copy have the price, or the handler ends
\* with the empty copy it started with.
Priced(r) == /\ doc.charged
             /\ work[r].job.status # "none" => work[r].job.charged
             /\ work[r].at \notin {"idle", "load", "raised"} => work[r].job.charged

LEMMA SavePriced ==
  ASSUME StateTypes, NEW r \in Runners, NEW to \in RunnerPcs, NEW copy \in Document,
         Save(r, copy, to), copy.charged, doc.charged, work[r].job.charged
  PROVE  doc'.charged /\ work'[r].job.charged
<1>1. CASE doc' = copy /\ work' = [work EXCEPT ![r].at = to, ![r].job = copy]
  BY <1>1 DEF StateTypes, RunnerType
<1>2. CASE doc' \in MayBe(doc) \union MayBe(copy) /\ Goes(r, "reload")
  BY <1>2 DEF StateTypes, MayBe, Goes, RunnerType
<1>3. QED  BY <1>1, <1>2 DEF Save

LEMMA ProcessPriced ==
  ASSUME StateTypes, NEW r \in Runners, Process(r), Priced(r)
  PROVE  Priced(r)' /\ work'[r].at # "idle"
<1>d. doc \in Document /\ work[r] \in RunnerType /\ work \in [Runners -> RunnerType]
  BY DEF StateTypes
<1>c. \A s \in Statuses : /\ Copy(r, s) \in Document
                          /\ [Copy(r, s) EXCEPT !.audio = TRUE] \in Document
  BY CopyType
<1>e. \A s \in Statuses : /\ Copy(r, s).charged = work[r].job.charged
                          /\ [Copy(r, s) EXCEPT !.audio = TRUE].charged = work[r].job.charged
  BY <1>c, CopyFields DEF Document
<1>j. /\ work[r].job \in Document /\ [work[r].job EXCEPT !.segments = TRUE] \in Document
      /\ [work[r].job EXCEPT !.segments = TRUE].charged = work[r].job.charged
  <2>1. work[r].job \in Document  BY <1>d DEF RunnerType
  <2>2. [work[r].job EXCEPT !.segments = TRUE] \in Document  BY <2>1 DEF Document
  <2>3. [work[r].job EXCEPT !.segments = TRUE].charged = work[r].job.charged
    BY <2>1 DEF Document
  <2>4. QED  BY <2>1, <2>2, <2>3
<1>u. ASSUME NEW to, Goes(r, to), doc' = doc, to # "idle",
             to # "raised" => work[r].job.charged
      PROVE  Priced(r)' /\ work'[r].at # "idle"
  BY <1>u, <1>d DEF Goes, Priced, RunnerType
<1>v. ASSUME NEW to \in RunnerPcs, NEW copy \in Document, Save(r, copy, to), to # "idle",
             copy.charged, work[r].job.charged
      PROVE  Priced(r)' /\ work'[r].at # "idle"
  <2>1. doc'.charged /\ work'[r].job.charged  BY <1>v, SavePriced DEF Priced
  <2>2. work'[r].at \in {to, "reload"}  BY <1>v, <1>d DEF Save, Goes, RunnerType
  <2>3. QED  BY <1>v, <2>1, <2>2 DEF Priced
<1>k. ASSUME work[r].at \notin {"idle", "load", "raised"}  PROVE work[r].job.charged
  BY <1>k DEF Priced
<1>1. CASE Load(r)
  BY <1>1, <1>d DEF Load, At, Priced, RunnerType
<1>2. CASE Begin(r)
  BY <1>2, <1>u, <1>v, <1>c, <1>e, <1>k DEF Begin, At, RunnerPcs, Statuses
<1>3. CASE Translate(r)
  BY <1>3, <1>u, <1>v, <1>j, <1>k DEF Translate, At, RunnerPcs
<1>4. CASE Voice(r)
  BY <1>4, <1>u, <1>v, <1>c, <1>e, <1>k DEF Voice, At, RunnerPcs, Statuses
<1>5. CASE Segment(r)
  <2>1. work[r].job.charged  BY <1>5, <1>k DEF Segment, At
  <2>2. work'[r].at \notin {"idle", "load", "raised"} /\ work'[r].job = work[r].job /\ doc' = doc
    BY <1>5, <1>d DEF Segment, Goes, RunnerType
  <2>3. QED  BY <2>1, <2>2 DEF Priced
<1>6. CASE Speak(r)
  BY <1>6, <1>u, <1>v, <1>j, <1>k DEF Speak, At, RunnerPcs
<1>7. CASE Align(r)
  BY <1>7, <1>u, <1>v, <1>c, <1>e, <1>k DEF Align, At, RunnerPcs, Statuses
<1>8. CASE Upload(r)
  BY <1>8, <1>u, <1>k DEF Upload, At
<1>9. CASE Finish(r)
  BY <1>9, <1>v, <1>c, <1>e, <1>k DEF Finish, At, RunnerPcs, Statuses, Final
<1>10. CASE Fail(r)
  <2>1. work[r].job.charged  BY <1>10, <1>k DEF Fail, At
  <2>2. Copy(r, "failed").charged  BY <2>1, <1>e DEF Statuses, Final
  <2>3. doc'.charged /\ work'[r].job.charged
    BY <1>10, <1>d, <2>1, <2>2 DEF Fail, Priced, Goes, MayBe, RunnerType
  <2>4. work'[r].at # "idle"  BY <1>10, <1>d DEF Fail, Goes, RunnerType
  <2>5. QED  BY <2>3, <2>4 DEF Priced
<1>11. CASE ReadFails(r)
  BY <1>11, <1>u, <1>k DEF ReadFails
<1>12. QED
  BY <1>1, <1>2, <1>3, <1>4, <1>5, <1>6, <1>7, <1>8, <1>9, <1>10, <1>11 DEF Process

LEMMA ProcessKeepsPrice ==
  ASSUME StateTypes, PriceInv, CopiesInv, NEW r \in Runners, Process(r)
  PROVE  PriceInv' /\ CopiesInv'
<1>1. work[r].at # "idle"
  BY DEF Process, Load, Begin, Translate, Voice, Segment, Speak, Align, Upload, Finish, Fail,
         ReadFails, At
<1>2. Priced(r)' /\ work'[r].at # "idle"
  BY <1>1, ProcessPriced DEF Priced, PriceInv, CopiesInv, At
<1>3. \A q \in Runners \ {r} : work'[q] = work[q]  BY ProcessTyped DEF Runs
<1>4. UNCHANGED <<maker, queue, cancels, charges>>  BY ProcessLeaves
<1>5. charges = 1  BY <1>1 DEF PriceInv, At
<1>6. maker \notin Undispatched \union {"enqueue"}  BY <1>1 DEF PriceInv, At
<1>7. PriceInv'  BY <1>2, <1>4, <1>5, <1>6 DEF PriceInv, Priced, Undispatched
<1>8. CopiesInv'  BY <1>2, <1>3, <1>4 DEF CopiesInv, Priced
<1>9. QED  BY <1>7, <1>8

LEMMA MakeKeepsPrice ==
  ASSUME StateTypes, QueueInv, PriceInv, CopiesInv, work[Inline].at # "idle" => maker = "inline", Make
  PROVE  PriceInv' /\ CopiesInv'
<1>i. Inline \in Runners  BY DEF Runners
<1>d. work \in [Runners -> RunnerType] /\ doc \in Document  BY DEF StateTypes
<1>n. NoDoc.status = "none" /\ Rest.at = "idle" /\ Rest.job = NoDoc
  BY DEF NoDoc, Rest, Fresh
<1>b. ASSUME maker \in Undispatched \union {"enqueue"}
      PROVE  queue.state = "none" /\ \A r \in Runners : At(r, "idle")
  BY <1>b DEF QueueInv, PriceInv, Undispatched
<1>u. ASSUME UNCHANGED <<work, cancels>>, maker # "answered"  PROVE CopiesInv'
  BY <1>u DEF CopiesInv
<1>1. CASE \E only \in BOOLEAN : CreateJob(only)
  BY <1>1, <1>b, <1>u DEF CreateJob, MakerStep, PriceInv, Undispatched, At
<1>2. CASE Deduct \/ DeductFails \/ Refuse
  BY <1>2, <1>b, <1>u DEF Deduct, DeductFails, Refuse, MakerStep, PriceInv, Undispatched, At
<1>3. CASE Stamp
  <2>1. doc'.charged  BY <1>3 DEF Stamp, Fresh
  <2>2. QED  BY <1>3, <2>1, <1>b, <1>u DEF Stamp, MakerStep, PriceInv, Undispatched, At
<1>4. CASE Enqueue
  BY <1>4, <1>b, <1>u DEF Enqueue, MakerStep, PriceInv, Undispatched, At
<1>5. CASE EnqueueFails
  <2>1. /\ maker = "enqueue" /\ maker' = "inline" /\ UNCHANGED <<doc, cancels, charges>>
        /\ work' = [work EXCEPT ![Inline] = [Rest EXCEPT !.at = "load"]]
    BY <1>5 DEF EnqueueFails, MakerStep
  <2>2. work'[Inline].at = "load" /\ work'[Inline].job = NoDoc
    BY <2>1, <1>i, <1>d DEF Rest
  <2>3. \A r \in Runners \ {Inline} : work'[r] = work[r]  BY <2>1, <1>d
  <2>4. PriceInv'  BY <2>1 DEF PriceInv, Undispatched
  <2>5. CopiesInv'  BY <2>1, <2>2, <2>3, <1>n DEF CopiesInv
  <2>6. QED  BY <2>4, <2>5
<1>6. CASE InlineEnds
  <2>1. /\ maker = "inline" /\ maker' \in {"answered", "giveup"}
        /\ UNCHANGED <<doc, cancels, charges, queue>>
        /\ work' = [work EXCEPT ![Inline] = Rest]
    BY <1>6 DEF InlineEnds, MakerStep
  <2>2. work'[Inline] = Rest /\ \A r \in Runners \ {Inline} : work'[r] = work[r]
    BY <2>1, <1>i, <1>d
  <2>3. PriceInv'  BY <2>1 DEF PriceInv, Undispatched
  <2>4. CopiesInv'  BY <2>1, <2>2, <1>n DEF CopiesInv
  <2>5. QED  BY <2>3, <2>4
<1>7. CASE GiveUp \/ MakerRefund
  BY <1>7, <1>u DEF GiveUp, MakerRefund, MakerStep, PriceInv, Undispatched, At
<1>8. CASE MakerFails
  <2>1. /\ maker \in {"refuse", "stamp", "giveup"} /\ maker' = "error"
        /\ UNCHANGED <<work, cancels, charges, queue>>
        /\ doc' = doc \/ maker = "stamp"
    BY <1>8 DEF MakerFails
  <2>2. CASE maker = "giveup"
    BY <2>1, <2>2, <1>u DEF PriceInv, Undispatched, At
  <2>3. CASE maker \in {"refuse", "stamp"}
    BY <2>1, <2>3, <1>b, <1>u DEF PriceInv, Undispatched, At
  <2>4. QED  BY <2>1, <2>2, <2>3
<1>9. QED  BY <1>1, <1>2, <1>3, <1>4, <1>5, <1>6, <1>7, <1>8 DEF Make

LEMMA CancelKeepsPrice ==
  ASSUME StateTypes, PriceInv, CopiesInv, NEW c \in Cancels, Cancel(c)
  PROVE  PriceInv' /\ CopiesInv'
<1>d. cancels \in [Cancels -> CancelType] /\ cancels[c] \in CancelType  BY DEF StateTypes
<1>1. UNCHANGED <<maker, queue, work, charges>>
  BY DEF Cancel, CancelRead, CancelMark, CancelClaim, CancelRefund, CancelWrite, CancelFails
<1>2. maker = "answered"
  BY DEF Cancel, CancelRead, CancelMark, CancelClaim, CancelRefund, CancelWrite, CancelFails,
         CancelStep, CopiesInv
<1>3. doc.charged /\ charges = 1  BY <1>2 DEF PriceInv
<1>4. \A b \in Cancels \ {c} : cancels'[b] = cancels[b]
  BY <1>d DEF Cancel, CancelRead, CancelMark, CancelClaim, CancelRefund, CancelWrite, CancelFails,
         CancelStep
<1>5. CASE CancelRead(c)
  <2>1. cancels'[c].job = doc /\ doc' = doc  BY <1>5, <1>d DEF CancelRead
  <2>2. QED  BY <2>1, <1>1, <1>2, <1>3, <1>4 DEF PriceInv, CopiesInv, At, Undispatched
<1>6. CASE ~CancelRead(c)
  <2>s. ASSUME NEW from \in CancelPcs \ {"idle"}, NEW to, CancelStep(c, from, to)
        PROVE  cancels'[c].job = cancels[c].job /\ cancels[c].at # "idle"
    BY <2>s, <1>d DEF CancelStep, CancelType
  <2>1. cancels'[c].job = cancels[c].job /\ cancels[c].at # "idle"
    <3>1. CASE CancelMark(c)  BY <3>1, <2>s DEF CancelMark, CancelPcs
    <3>2. CASE CancelClaim(c)  BY <3>2, <2>s DEF CancelClaim, CancelPcs
    <3>3. CASE CancelRefund(c) \/ CancelWrite(c) \/ CancelFails(c)
      BY <3>3, <2>s DEF CancelRefund, CancelWrite, CancelFails, CancelPcs
    <3>4. QED  BY <1>6, <3>1, <3>2, <3>3 DEF Cancel
  <2>2. cancels[c].job.charged  BY <2>1 DEF CopiesInv
  <2>3. [cancels[c].job EXCEPT !.status = "cancelled"].charged
    BY <2>2, <1>d DEF CancelType, Document
  <2>4. doc'.charged
    BY <1>6, <1>3, <2>3 DEF Cancel, CancelMark, CancelClaim, CancelRefund, CancelWrite, CancelFails
  <2>5. QED  BY <2>1, <2>2, <2>4, <1>1, <1>2, <1>3, <1>4 DEF PriceInv, CopiesInv, At, Undispatched
<1>7. QED  BY <1>5, <1>6

\* What the queue and the instances do to the runners.
LEMMA QueueRuns ==
  ASSUME StateTypes,
         \/ Timeout
         \/ \E w \in Workers : Deliver(w) \/ Answer(w)
         \/ \E r \in Runners : Crash(r)
  PROVE  /\ UNCHANGED <<doc, flag, claimed, cancels, charges, refunds, made>>
         /\ \A r \in Runners : \/ work'[r] = work[r]
                               \/ work'[r] = Rest
                               \/ work'[r] = [Rest EXCEPT !.at = "load"] /\ r # Inline
                                  /\ queue.state = "queued"
         /\ maker' = maker \/ (maker' = "error" /\ work[Inline].at # "idle")
         /\ queue.state # "none" \/ queue'.state = "none" \/ queue.flight # NoWorker
<1>w. /\ Workers \subseteq Runners /\ Inline \in Runners /\ Inline \notin Workers
      /\ NoWorker \notin Runners /\ work \in [Runners -> RunnerType]
  BY Distinct DEF Runners, StateTypes
<1>1. CASE Timeout  BY <1>1 DEF Timeout
<1>2. ASSUME NEW w \in Workers, Deliver(w)
      PROVE  /\ UNCHANGED <<doc, flag, claimed, cancels, charges, refunds, made, maker>>
             /\ \A r \in Runners \ {w} : work'[r] = work[r]
             /\ work'[w] = [Rest EXCEPT !.at = "load"] /\ w # Inline /\ queue.state = "queued"
  BY <1>2, <1>w DEF Deliver
<1>3. ASSUME NEW w \in Workers, Answer(w)
      PROVE  /\ UNCHANGED <<doc, flag, claimed, cancels, charges, refunds, made, maker>>
             /\ \A r \in Runners \ {w} : work'[r] = work[r]
             /\ work'[w] = Rest
             /\ queue' = queue \/ queue.flight # NoWorker
  BY <1>3, <1>w DEF Answer
<1>4. ASSUME NEW r \in Runners, Crash(r)
      PROVE  /\ UNCHANGED <<doc, flag, claimed, cancels, charges, refunds, made>>
             /\ \A q \in Runners \ {r} : work'[q] = work[q]
             /\ work'[r] = Rest
             /\ maker' = maker \/ (maker' = "error" /\ work[Inline].at # "idle")
             /\ queue' = queue \/ queue.flight # NoWorker
  BY <1>4, <1>w DEF Crash, At
<1>5. QED  BY <1>1, <1>2, <1>3, <1>4

LEMMA QueueKeepsPrice ==
  ASSUME StateTypes, QueueInv, PriceInv, CopiesInv, work[Inline].at # "idle" => maker = "inline",
         \/ Timeout
         \/ \E w \in Workers : Deliver(w) \/ Answer(w)
         \/ \E r \in Runners : Crash(r)
  PROVE  PriceInv' /\ CopiesInv'
<1>n. /\ NoDoc.status = "none" /\ Rest.at = "idle" /\ Rest.job = NoDoc
      /\ [Rest EXCEPT !.at = "load"].at = "load" /\ [Rest EXCEPT !.at = "load"].job = NoDoc
  BY DEF NoDoc, Rest, Fresh
<1>1. /\ UNCHANGED <<doc, cancels, charges>>
      /\ \A r \in Runners : \/ work'[r] = work[r]
                            \/ work'[r] = Rest
                            \/ work'[r] = [Rest EXCEPT !.at = "load"] /\ queue.state = "queued"
      /\ maker' = maker \/ (maker' = "error" /\ work[Inline].at # "idle")
      /\ queue.state # "none" \/ queue'.state = "none"
  BY QueueRuns DEF QueueInv
<1>2. maker \in Undispatched \union {"enqueue"} => queue.state = "none"
  BY DEF QueueInv, Undispatched
<1>3. PriceInv'  BY <1>1, <1>2, <1>n DEF PriceInv, At, Undispatched
<1>4. maker = "answered" => maker' = "answered"  BY <1>1
<1>5. CopiesInv'  BY <1>1, <1>4, <1>n DEF CopiesInv
<1>6. QED  BY <1>3, <1>5

\* The API processes a job only inside the request that made it.
InlineInv == work[Inline].at # "idle" => maker = "inline"

LEMMA InlineStep ==
  ASSUME StateTypes, InlineInv, [Next]_vars
  PROVE  InlineInv'
<1>i. Inline \in Runners /\ work \in [Runners -> RunnerType]  BY DEF Runners, StateTypes
<1>r. Rest.at = "idle"  BY DEF Rest
<1>1. CASE Make
  <2>1. CASE EnqueueFails  BY <2>1 DEF EnqueueFails, MakerStep, InlineInv
  <2>2. CASE InlineEnds
    BY <2>2, <1>i, <1>r DEF InlineEnds, InlineInv
  <2>3. CASE MakerFails
    BY <2>3 DEF MakerFails, InlineInv
  <2>4. QED
    BY <1>1, <2>1, <2>2, <2>3 DEF Make, CreateJob, Deduct, DeductFails, Refuse, Stamp, Enqueue,
       GiveUp, MakerRefund, MakerStep, InlineInv
<1>2. ASSUME NEW c \in Cancels, Cancel(c)  PROVE InlineInv'
  BY <1>2 DEF Cancel, CancelRead, CancelMark, CancelClaim, CancelRefund, CancelWrite,
     CancelFails, InlineInv
<1>3. ASSUME NEW r \in Runners, Process(r)  PROVE InlineInv'
  <2>1. CASE r = Inline
    <3>1. work[Inline].at # "idle"
      BY <1>3, <2>1 DEF Process, Load, Begin, Translate, Voice, Segment, Speak, Align, Upload,
         Finish, Fail, ReadFails, At
    <3>2. QED  BY <1>3, <3>1, ProcessLeaves DEF InlineInv
  <2>2. CASE r # Inline
    BY <1>3, <2>2, <1>i, ProcessTyped, ProcessLeaves DEF Runs, InlineInv
  <2>3. QED  BY <2>1, <2>2
<1>4. ASSUME NEW r \in Runners, Crash(r)  PROVE InlineInv'
  <2>1. CASE r = Inline  BY <1>4, <2>1, <1>i, <1>r DEF Crash, InlineInv
  <2>2. CASE r # Inline  BY <1>4, <2>2, <1>i DEF Crash, InlineInv
  <2>3. QED  BY <2>1, <2>2
<1>5. ASSUME Timeout \/ \E w \in Workers : Deliver(w) \/ Answer(w)  PROVE InlineInv'
  <2>1. maker' = maker  BY <1>5 DEF Timeout, Deliver, Answer
  <2>2. \/ work'[Inline] = work[Inline] \/ work'[Inline] = Rest
    BY <1>5, <1>i, QueueRuns
  <2>3. QED  BY <2>1, <2>2, <1>r DEF InlineInv
<1>6. CASE vars' = vars  BY <1>6 DEF vars, InlineInv
<1>7. QED  BY <1>1, <1>2, <1>3, <1>4, <1>5, <1>6 DEF Next

-----------------------------------------------------------------------------
(***************************************************************************)
(* What a document says has been made.                                     *)
(***************************************************************************)
Says(d, what) == /\ d.status = "ready" => d.segments /\ (d.captionsOnly \/ d.audio)
                 /\ d.segments => "captions" \in what
                 /\ d.audio => "voice" \in what

Translated == {"check2", "voice", "segment", "speak", "align", "merge", "upload", "subtitle", "ready"}

\* What a handler knows of its copy where it stands.
Knows(W, what) ==
  /\ Says(W.job, what)
  /\ W.at \in Translated => W.job.segments
  /\ W.at = "subtitle" => "voice" \in what
  /\ W.at = "ready" => W.job.captionsOnly \/ W.job.audio

MadeInv ==
  /\ Says(doc, made)
  /\ \A r \in Runners : Knows(work[r], made)
  /\ \A c \in Cancels : Says(cancels[c].job, made)

LEMMA SaysMore ==
  ASSUME NEW d, NEW small, NEW large, small \subseteq large, Says(d, small)
  PROVE  Says(d, large)
  BY DEF Says

LEMMA KnowsMore ==
  ASSUME NEW W, NEW small, NEW large, small \subseteq large, Knows(W, small)
  PROVE  Knows(W, large)
  BY SaysMore DEF Knows

\* Another status than ready claims no more than before.
LEMMA SaysOther ==
  ASSUME NEW d \in Document, NEW s \in Statuses \ {"ready"}, NEW what, Says(d, what)
  PROVE  Says([d EXCEPT !.status = s], what)
  BY DEF Says, Document

LEMMA SaveSays ==
  ASSUME StateTypes, NEW r \in Runners, NEW to \in RunnerPcs, NEW copy \in Document,
         Save(r, copy, to), NEW what, Says(doc, what), Says(copy, what), Says(work[r].job, what),
         to \in Translated => copy.segments,
         to = "ready" => copy.captionsOnly \/ copy.audio,
         to # "subtitle"
  PROVE  Says(doc', what) /\ Knows(work'[r], what)
<1>1. CASE doc' = copy /\ work' = [work EXCEPT ![r].at = to, ![r].job = copy]
  <2>1. work'[r].at = to /\ work'[r].job = copy  BY <1>1 DEF StateTypes, RunnerType
  <2>2. QED  BY <1>1, <2>1 DEF Knows
<1>2. CASE doc' \in MayBe(doc) \union MayBe(copy) /\ Goes(r, "reload")
  <2>1. work'[r].at = "reload" /\ work'[r].job = work[r].job
    BY <1>2 DEF StateTypes, Goes, RunnerType
  <2>2. doc' = doc \/ doc' = copy  BY <1>2 DEF MayBe
  <2>3. QED  BY <2>1, <2>2 DEF Knows, Translated
<1>3. QED  BY <1>1, <1>2 DEF Save

LEMMA GoesKnows ==
  ASSUME StateTypes, NEW r \in Runners, NEW to, Goes(r, to), NEW what, Says(work[r].job, what),
         to \in Translated => work[r].job.segments,
         to = "ready" => work[r].job.captionsOnly \/ work[r].job.audio,
         to = "subtitle" => "voice" \in what
  PROVE  Knows(work'[r], what)
<1>1. work'[r].at = to /\ work'[r].job = work[r].job  BY DEF StateTypes, Goes, RunnerType
<1>2. QED  BY <1>1 DEF Knows

LEMMA ProcessMade ==
  ASSUME StateTypes, NEW r \in Runners, Process(r), Says(doc, made), Knows(work[r], made)
  PROVE  made \subseteq made' /\ Says(doc', made') /\ Knows(work'[r], made')
<1>d. /\ doc \in Document /\ work[r] \in RunnerType /\ work \in [Runners -> RunnerType]
      /\ work[r].job \in Document
  BY DEF StateTypes, RunnerType
<1>k. Says(work[r].job, made)  BY DEF Knows
<1>c. ASSUME NEW s \in Statuses \ {"ready"}
      PROVE  /\ Copy(r, s) \in Document /\ Says(Copy(r, s), made)
             /\ Copy(r, s).segments = work[r].job.segments
  BY <1>c, <1>d, <1>k, SaysOther, CopyType, CopyFields DEF Copy
<1>u. ASSUME NEW to, Goes(r, to), doc' = doc, made' = made,
             to \in Translated => work[r].job.segments, to \notin {"ready", "subtitle"}
      PROVE  made \subseteq made' /\ Says(doc', made') /\ Knows(work'[r], made')
  BY <1>u, <1>k, GoesKnows
<1>v. ASSUME NEW s \in Statuses \ {"ready"}, NEW to \in RunnerPcs, Save(r, Copy(r, s), to),
             made' = made, to \in Translated => work[r].job.segments, to \notin {"ready", "subtitle"}
      PROVE  made \subseteq made' /\ Says(doc', made') /\ Knows(work'[r], made')
  BY <1>v, <1>c, <1>k, SaveSays
<1>1. CASE Load(r)
  BY <1>1, <1>d DEF Load, Knows, Translated, RunnerType
<1>2. CASE Begin(r)
  <2>1. made' = made  BY <1>2 DEF Begin
  <2>2. CASE Goes(r, IF flag THEN "cancel" ELSE "begin") /\ doc' = doc
    <3>1. CASE Goes(r, "cancel")  BY <2>1, <2>2, <3>1, <1>u DEF Translated
    <3>2. CASE Goes(r, "begin")  BY <2>1, <2>2, <3>2, <1>u DEF Translated
    <3>3. QED  BY <2>2, <3>1, <3>2
  <2>3. CASE Save(r, Copy(r, "translating"), "translate")
    BY <2>1, <2>3, <1>v DEF Translated, RunnerPcs, Statuses
  <2>4. QED  BY <1>2, <2>2, <2>3 DEF Begin
<1>3. CASE Translate(r)
  <2>1. CASE doc' = doc /\ made' = made /\ (Goes(r, "translated") \/ Goes(r, "reload"))
    BY <2>1, <1>u DEF Translated
  <2>2. CASE /\ Save(r, [work[r].job EXCEPT !.segments = TRUE], "check2")
             /\ made' = IF doc' = doc THEN made ELSE made \union {"captions"}
    <3> DEFINE copy == [work[r].job EXCEPT !.segments = TRUE]
               more == made \union {"captions"}
    <3>1. copy \in Document /\ copy.segments = TRUE  BY <1>d DEF Document
    <3>2. Says(copy, more)
      BY <1>d, <1>k DEF Says, Document
    <3>3. Says(doc, more) /\ Says(work[r].job, more)  BY <1>k, SaysMore
    <3>4. Says(doc', more) /\ Knows(work'[r], more)
      BY <2>2, <3>1, <3>2, <3>3, SaveSays DEF RunnerPcs
    <3>5. CASE doc' # doc  BY <2>2, <3>4, <3>5
    <3>6. CASE doc' = doc
      <4>1. made' = made  BY <2>2, <3>6
      <4>2. CASE work'[r].job = copy /\ doc' = copy
        <5>1. doc.segments  BY <4>2, <3>6, <3>1
        <5>2. "captions" \in made  BY <5>1 DEF Says
        <5>3. more = made  BY <5>2
        <5>4. QED  BY <5>3, <3>4, <4>1
      <4>3. CASE Goes(r, "reload")
        BY <4>1, <4>3, <3>6, <1>k, GoesKnows DEF Translated
      <4>4. CASE work' = [work EXCEPT ![r].at = "check2", ![r].job = copy] /\ doc' = copy
        <5>1. work'[r].job = copy  BY <4>4, <1>d DEF RunnerType
        <5>2. QED  BY <5>1, <4>4, <4>2
      <4>5. QED  BY <2>2, <4>3, <4>4 DEF Save
    <3>7. QED  BY <3>5, <3>6
  <2>3. QED  BY <1>3, <2>1, <2>2 DEF Translate
<1>s. ASSUME work[r].at \in Translated  PROVE work[r].job.segments
  BY <1>s DEF Knows
<1>4. CASE Voice(r)
  <2>1. made' = made /\ work[r].job.segments  BY <1>4, <1>s DEF Voice, At, Translated
  <2>2. CASE doc' = doc /\ work[r].job.captionsOnly /\ Goes(r, "ready")
    BY <2>1, <2>2, <1>k, GoesKnows
  <2>3. CASE doc' = doc /\ (Goes(r, "cancel") \/ Goes(r, "voice") \/ Goes(r, "degrade"))
    BY <2>1, <2>3, <1>u
  <2>4. CASE Save(r, Copy(r, "synthesizing"), "segment")
    BY <2>1, <2>4, <1>v DEF RunnerPcs, Statuses
  <2>5. QED  BY <1>4, <2>2, <2>3, <2>4 DEF Voice
<1>5. CASE Segment(r)
  <2>1. made' = made /\ doc' = doc /\ work[r].job.segments  BY <1>5, <1>s DEF Segment, At, Translated
  <2>2. /\ work'[r].job = work[r].job
        /\ work'[r].at \notin {"ready", "subtitle"}
    BY <1>5, <1>d DEF Segment, Goes, RunnerType
  <2>3. QED  BY <2>1, <2>2, <1>k DEF Knows
<1>6. CASE Speak(r)
  <2>1. made' = made /\ work[r].job.segments  BY <1>6, <1>s DEF Speak, At, Translated
  <2>2. CASE doc' = doc /\ (Goes(r, "segment") \/ Goes(r, "reload"))
    BY <2>1, <2>2, <1>u
  <2>3. CASE Save(r, work[r].job, "segment")
    BY <2>1, <2>3, <1>d, <1>k, SaveSays DEF RunnerPcs
  <2>4. QED  BY <1>6, <2>2, <2>3 DEF Speak
<1>7. CASE Align(r)
  <2>1. made' = made /\ work[r].job.segments  BY <1>7, <1>s DEF Align, At, Translated
  <2>2. CASE doc' = doc /\ (Goes(r, "upload") \/ Goes(r, "degrade"))
    BY <2>1, <2>2, <1>u
  <2>3. CASE Save(r, Copy(r, "aligning"), "merge")
    BY <2>1, <2>3, <1>v DEF RunnerPcs, Statuses
  <2>4. QED  BY <1>7, <2>2, <2>3 DEF Align
<1>8. CASE Upload(r)
  <2>1. doc' = doc /\ work[r].job.segments  BY <1>8, <1>s DEF Upload, At, Translated
  <2>2. CASE Goes(r, "subtitle") /\ made' = made \union {"voice"}
    <3>1. made \subseteq made' /\ "voice" \in made'  BY <2>2
    <3>2. Says(doc', made') /\ Says(work[r].job, made')  BY <2>1, <3>1, <1>k, SaysMore
    <3>3. QED  BY <2>1, <2>2, <3>1, <3>2, GoesKnows
  <2>3. CASE Goes(r, "reload") /\ made' = made
    BY <2>1, <2>3, <1>u
  <2>4. QED  BY <1>8, <2>2, <2>3 DEF Upload
<1>9. CASE Finish(r)
  <2>1. made' = made  BY <1>9 DEF Finish
  <2>2. CASE At(r, "subtitle") /\ Save(r, [Copy(r, "subtitling") EXCEPT !.audio = TRUE], "ready")
    <3> DEFINE copy == [Copy(r, "subtitling") EXCEPT !.audio = TRUE]
    <3>1. work[r].job.segments /\ "voice" \in made  BY <2>2, <1>s DEF At, Translated, Knows
    <3>2. /\ copy \in Document /\ copy.audio = TRUE /\ copy.status = "subtitling"
          /\ copy.segments = work[r].job.segments
      <4>1. /\ Copy(r, "subtitling") \in Document
            /\ Copy(r, "subtitling").status = "subtitling"
            /\ Copy(r, "subtitling").segments = work[r].job.segments
        BY CopyType, CopyFields DEF Statuses
      <4>2. QED  BY <4>1 DEF Document
    <3>3. Says(copy, made)  BY <3>1, <3>2, <1>k DEF Says
    <3>4. QED  BY <2>1, <2>2, <3>1, <3>2, <3>3, <1>k, SaveSays DEF RunnerPcs
  <2>3. CASE At(r, "ready") /\ Save(r, Copy(r, "ready"), "over")
    <3>1. /\ work[r].job.segments
          /\ work[r].job.captionsOnly \/ work[r].job.audio
      BY <2>3, <1>s DEF At, Translated, Knows
    <3>2. Copy(r, "ready") \in Document  BY CopyType DEF Statuses, Final
    <3>3. Says(Copy(r, "ready"), made)
      <4>1. /\ Copy(r, "ready").captionsOnly = work[r].job.captionsOnly
            /\ Copy(r, "ready").segments = work[r].job.segments
            /\ Copy(r, "ready").audio = work[r].job.audio
        BY CopyFields DEF Statuses, Final
      <4>2. QED  BY <3>1, <4>1, <1>k DEF Says
    <3>4. QED  BY <2>1, <2>3, <3>2, <3>3, <1>k, SaveSays DEF RunnerPcs, Translated
  <2>4. CASE Save(r, Copy(r, "degraded"), "over") \/ Save(r, Copy(r, "cancelled"), "over")
    BY <2>1, <2>4, <1>v DEF RunnerPcs, Statuses, Final, Translated
  <2>5. QED  BY <1>9, <2>2, <2>3, <2>4 DEF Finish
<1>10. CASE Fail(r)
  <2>1. made' = made  BY <1>10 DEF Fail
  <2>2. Says(Copy(r, "failed"), made)  BY <1>c DEF Statuses, Final
  <2>3. CASE doc' = doc /\ work' = [work EXCEPT ![r].at = "failed", ![r].job = doc]
    <3>1. work'[r].at = "failed" /\ work'[r].job = doc  BY <2>3, <1>d DEF RunnerType
    <3>2. QED  BY <2>1, <2>3, <3>1 DEF Knows, Translated
  <2>4. CASE doc' = Copy(r, "failed") /\ work' = [work EXCEPT ![r].at = "over", ![r].job = Copy(r, "failed")]
    <3>1. work'[r].at = "over" /\ work'[r].job = Copy(r, "failed")  BY <2>4, <1>d DEF RunnerType
    <3>2. QED  BY <2>1, <2>2, <2>4, <3>1 DEF Knows, Translated
  <2>5. CASE Goes(r, "raised") /\ doc' \in MayBe(doc) \union MayBe(Copy(r, "failed"))
    <3>1. Says(doc', made)  BY <2>5, <2>2 DEF MayBe
    <3>2. Knows(work'[r], made)  BY <2>5, <1>k, GoesKnows DEF Translated
    <3>3. QED  BY <2>1, <3>1, <3>2
  <2>6. QED  BY <1>10, <2>3, <2>4, <2>5 DEF Fail
<1>11. CASE ReadFails(r)
  BY <1>11, <1>u DEF ReadFails, Translated
<1>12. QED
  BY <1>1, <1>2, <1>3, <1>4, <1>5, <1>6, <1>7, <1>8, <1>9, <1>10, <1>11 DEF Process

LEMMA MadeStep ==
  ASSUME StateTypes, MadeInv, [Next]_vars
  PROVE  MadeInv'
<1>w. work \in [Runners -> RunnerType] /\ cancels \in [Cancels -> CancelType] /\ Inline \in Runners
  BY DEF StateTypes, Runners
<1>f. \A only \in BOOLEAN : /\ Says(Fresh(only), made)
                            /\ Says([Fresh(only) EXCEPT !.charged = TRUE], made)
  BY DEF Fresh, Says
<1>r. Knows(Rest, made) /\ Knows([Rest EXCEPT !.at = "load"], made)
  BY DEF Rest, NoDoc, Fresh, Knows, Says, Translated
<1>1. CASE Make
  <2>1. made' = made /\ cancels' = cancels
    BY <1>1 DEF Make, CreateJob, Deduct, DeductFails, Refuse, Stamp, Enqueue, EnqueueFails,
       InlineEnds, GiveUp, MakerRefund, MakerFails
  <2>2. Says(doc', made)
    <3>1. doc.captionsOnly \in BOOLEAN  BY DEF StateTypes, Document
    <3>2. QED
      BY <1>1, <1>f, <3>1 DEF Make, CreateJob, Deduct, DeductFails, Refuse, Stamp, Enqueue,
         EnqueueFails, InlineEnds, GiveUp, MakerRefund, MakerFails, MadeInv
  <2>3. \A q \in Runners : \/ work'[q] = work[q] \/ work'[q] = Rest
                          \/ work'[q] = [Rest EXCEPT !.at = "load"]
    BY <1>1, <1>w DEF Make, CreateJob, Deduct, DeductFails, Refuse, Stamp, Enqueue, EnqueueFails,
       InlineEnds, GiveUp, MakerRefund, MakerFails
  <2>4. QED  BY <2>1, <2>2, <2>3, <1>r DEF MadeInv
<1>2. ASSUME NEW c \in Cancels, Cancel(c)  PROVE MadeInv'
  <2>1. made' = made /\ work' = work
    BY <1>2 DEF Cancel, CancelRead, CancelMark, CancelClaim, CancelRefund, CancelWrite, CancelFails
  <2>2. cancels[c].job \in Document  BY <1>w DEF CancelType
  <2>3. Says([cancels[c].job EXCEPT !.status = "cancelled"], made)
    BY <2>2, SaysOther DEF MadeInv, Statuses, Final
  <2>4. Says(doc', made)
    BY <1>2, <2>3 DEF Cancel, CancelRead, CancelMark, CancelClaim, CancelRefund, CancelWrite,
       CancelFails, MadeInv
  <2>5. \A b \in Cancels : cancels'[b].job = cancels[b].job \/ cancels'[b].job = doc
    <3>1. CASE CancelRead(c)  BY <3>1, <1>w DEF CancelRead
    <3>2. ASSUME NEW from, NEW to, CancelStep(c, from, to)
          PROVE  \A b \in Cancels : cancels'[b].job = cancels[b].job
      BY <3>2, <1>w DEF CancelStep, CancelType
    <3>3. QED
      BY <1>2, <3>1, <3>2 DEF Cancel, CancelMark, CancelClaim, CancelRefund, CancelWrite, CancelFails
  <2>6. QED  BY <2>1, <2>4, <2>5 DEF MadeInv
<1>3. ASSUME NEW r \in Runners, Process(r)  PROVE MadeInv'
  <2>1. made \subseteq made' /\ Says(doc', made') /\ Knows(work'[r], made')
    BY <1>3, ProcessMade DEF MadeInv
  <2>2. \A q \in Runners \ {r} : work'[q] = work[q]  BY <1>3, ProcessTyped DEF Runs
  <2>3. cancels' = cancels  BY <1>3, ProcessLeaves
  <2>4. QED  BY <2>1, <2>2, <2>3, SaysMore, KnowsMore DEF MadeInv
<1>4. CASE \/ Timeout
           \/ \E w \in Workers : Deliver(w) \/ Answer(w)
           \/ \E r \in Runners : Crash(r)
  <2>1. /\ UNCHANGED <<doc, cancels, made>>
        /\ \A r \in Runners : \/ work'[r] = work[r] \/ work'[r] = Rest
                              \/ work'[r] = [Rest EXCEPT !.at = "load"]
    BY <1>4, QueueRuns
  <2>2. QED  BY <2>1, <1>r DEF MadeInv
<1>5. CASE vars' = vars  BY <1>5 DEF vars, MadeInv
<1>6. QED  BY <1>1, <1>2, <1>3, <1>4, <1>5 DEF Next

-----------------------------------------------------------------------------
(***************************************************************************)
(* The refund: it comes from a dispatch that failed, or from the cancel    *)
(* that has the claim, and the workers have been told before.              *)
(***************************************************************************)
RefundInv ==
  /\ refunds \in 0..1
  /\ maker \notin {"answered", "unavailable"} => refunds = 0
  /\ maker = "refund" => flag
  /\ refunds > 0 => flag /\ (maker = "answered" => claimed)
  /\ \A c \in Cancels :
       /\ cancels[c].at # "idle" => maker = "answered"
       /\ cancels[c].at \in {"claim", "refund"} => flag
       /\ cancels[c].at = "refund" =>
            refunds = 0 /\ claimed /\ \A b \in Cancels \ {c} : cancels[b].at # "refund"

\* What a step does of the refund: nothing, or it is the one that is due.
LEMMA RefundStep ==
  ASSUME StateTypes, InlineInv, RefundInv, [Next]_vars
  PROVE  RefundInv' /\ (refunds' = refunds \/ (refunds = 0 /\ refunds' = 1
                                             /\ maker \in {"answered", "refund"}))
<1>d. cancels \in [Cancels -> CancelType]  BY DEF StateTypes
<1>1. CASE Make
  <2>1. CASE MakerRefund
    <3>1. maker = "refund" /\ maker' = "unavailable" /\ refunds = 0 /\ flag
          /\ refunds' \in {0, 1} /\ UNCHANGED <<flag, claimed, cancels>>
      BY <2>1 DEF MakerRefund, MakerStep, MayRefund, RefundInv
    <3>2. QED  BY <3>1 DEF RefundInv
  <2>2. CASE ~MakerRefund
    <3>1. UNCHANGED <<claimed, cancels, refunds>>
      BY <1>1, <2>2 DEF Make, CreateJob, Deduct, DeductFails, Refuse, Stamp, Enqueue, EnqueueFails,
         InlineEnds, GiveUp, MakerFails
    <3>2. /\ maker \notin {"answered", "unavailable", "refund"}
          /\ maker' # "unavailable" /\ (maker' = "refund" => flag') /\ flag' \in {flag, TRUE}
      BY <1>1, <2>2 DEF Make, CreateJob, Deduct, DeductFails, Refuse, Stamp, Enqueue, EnqueueFails,
         InlineEnds, GiveUp, MakerFails, MakerStep
    <3>3. QED  BY <3>1, <3>2 DEF RefundInv
  <2>3. QED  BY <2>1, <2>2
<1>2. ASSUME NEW c \in Cancels, Cancel(c)
      PROVE  RefundInv' /\ (refunds' = refunds \/ (refunds = 0 /\ refunds' = 1
                                                 /\ maker \in {"answered", "refund"}))
  <2>0. maker' = maker /\ \A b \in Cancels \ {c} : cancels'[b] = cancels[b]
    BY <1>2, <1>d DEF Cancel, CancelRead, CancelMark, CancelClaim, CancelRefund, CancelWrite,
       CancelFails, CancelStep
  <2>s. ASSUME NEW from \in CancelPcs \ {"idle"}, NEW to, CancelStep(c, from, to)
        PROVE  cancels[c].at = from /\ cancels'[c].at = to /\ maker = "answered"
    BY <2>s, <1>d DEF CancelStep, CancelType, RefundInv
  <2>1. CASE CancelRead(c)
    <3>1. /\ maker = "answered" /\ cancels'[c].at \in {"late", "flag"}
          /\ UNCHANGED <<flag, claimed, refunds>>
      BY <2>1, <1>d DEF CancelRead
    <3>2. QED  BY <2>0, <3>1 DEF RefundInv
  <2>2. CASE CancelMark(c)
    <3>1. /\ maker = "answered" /\ cancels'[c].at \in {"claim", "write"}
          /\ flag' = TRUE /\ UNCHANGED <<claimed, refunds>>
      BY <2>2, <2>s DEF CancelMark, CancelPcs
    <3>2. QED  BY <2>0, <3>1 DEF RefundInv
  <2>3. CASE CancelClaim(c)
    <3>1. /\ cancels[c].at = "claim" /\ maker = "answered" /\ UNCHANGED <<flag, refunds>>
          /\ \/ cancels'[c].at = "write" /\ claimed' \in {claimed, TRUE}
             \/ cancels'[c].at = "refund" /\ ~claimed /\ claimed' = TRUE
      BY <2>3, <2>s DEF CancelClaim, CancelPcs
    <3>2. CASE cancels'[c].at = "write" /\ claimed' \in {claimed, TRUE}
      BY <2>0, <3>1, <3>2 DEF RefundInv
    <3>3. CASE cancels'[c].at = "refund" /\ ~claimed /\ claimed' = TRUE
      <4>1. refunds = 0  BY <3>1, <3>3 DEF RefundInv
      <4>2. \A b \in Cancels \ {c} : cancels[b].at # "refund"  BY <3>3 DEF RefundInv
      <4>3. QED  BY <2>0, <3>1, <3>3, <4>1, <4>2 DEF RefundInv
    <3>4. QED  BY <3>1, <3>2, <3>3
  <2>4. CASE CancelRefund(c)
    <3>1. /\ cancels[c].at = "refund" /\ cancels'[c].at = "write" /\ maker = "answered"
          /\ UNCHANGED <<flag, claimed>> /\ refunds' \in {refunds, refunds + 1}
      BY <2>4, <2>s DEF CancelRefund, CancelPcs, MayRefund
    <3>2. refunds = 0 /\ claimed /\ flag /\ \A b \in Cancels \ {c} : cancels[b].at # "refund"
      BY <3>1 DEF RefundInv
    <3>3. QED  BY <2>0, <3>1, <3>2 DEF RefundInv
  <2>5. CASE CancelWrite(c) \/ CancelFails(c)
    <3>1. /\ maker = "answered" /\ cancels'[c].at \in {"cancelled", "error"}
          /\ flag' = flag \/ flag' = TRUE
          /\ UNCHANGED <<claimed, refunds>>
      BY <2>5, <2>s DEF CancelWrite, CancelFails, CancelPcs
    <3>2. CASE flag' = flag  BY <2>0, <3>1, <3>2 DEF RefundInv
    <3>3. CASE flag' = TRUE  BY <2>0, <3>1, <3>3 DEF RefundInv
    <3>4. QED  BY <3>1, <3>2, <3>3
  <2>6. QED  BY <1>2, <2>1, <2>2, <2>3, <2>4, <2>5 DEF Cancel
<1>3. ASSUME NEW r \in Runners, Crash(r)  PROVE RefundInv' /\ refunds' = refunds
  <2>1. UNCHANGED <<flag, claimed, cancels, refunds>>  BY <1>3 DEF Crash
  <2>2. maker' = maker \/ (maker' = "error" /\ maker = "inline")
    BY <1>3 DEF Crash, InlineInv, At
  <2>3. QED  BY <2>1, <2>2 DEF RefundInv
<1>4. CASE UNCHANGED <<flag, claimed, maker, cancels, refunds>>
  BY <1>4 DEF RefundInv
<1>5. QED
  BY <1>1, <1>2, <1>3, <1>4 DEF Next, vars, Process, Timeout, Deliver, Answer

-----------------------------------------------------------------------------
DubInv == /\ StateTypes /\ QueueInv /\ FlagTypes /\ InlineInv
          /\ PriceInv /\ CopiesInv /\ MadeInv /\ RefundInv
          /\ charges \in 0..1

\* Nothing is made before the price was taken.
PaidFirst == made # {} => charges = 1

LEMMA PriceStep ==
  ASSUME StateTypes, QueueInv, InlineInv, PriceInv, CopiesInv, [Next]_vars
  PROVE  PriceInv' /\ CopiesInv'
<1>1. CASE Make  BY <1>1, MakeKeepsPrice DEF InlineInv
<1>2. CASE \E c \in Cancels : Cancel(c)  BY <1>2, CancelKeepsPrice
<1>3. CASE \E r \in Runners : Process(r)  BY <1>3, ProcessKeepsPrice
<1>4. CASE \/ Timeout
           \/ \E w \in Workers : Deliver(w) \/ Answer(w)
           \/ \E r \in Runners : Crash(r)
  BY <1>4, QueueKeepsPrice DEF InlineInv
<1>5. CASE vars' = vars  BY <1>5 DEF vars, PriceInv, CopiesInv, At
<1>6. QED  BY <1>1, <1>2, <1>3, <1>4, <1>5 DEF Next

\* What a step does of the charge and of what is made.
LEMMA ChargeStep ==
  ASSUME StateTypes, PriceInv, [Next]_vars
  PROVE  \/ charges = 0 /\ charges' = 1 /\ made' = made /\ refunds' = refunds /\ maker = "charge"
         \/ charges' = charges /\ made' = made
         \/ charges' = charges /\ charges = 1 /\ refunds' = refunds /\ made \subseteq made'
<1>1. CASE Make
  BY <1>1 DEF Make, CreateJob, Deduct, DeductFails, Refuse, Stamp, Enqueue, EnqueueFails,
     InlineEnds, GiveUp, MakerRefund, MakerFails, MakerStep, PriceInv
<1>2. ASSUME NEW r \in Runners, Process(r)
      PROVE  charges' = charges /\ charges = 1 /\ refunds' = refunds /\ made \subseteq made'
  <2>1. ~At(r, "idle")
    BY <1>2 DEF Process, Load, Begin, Translate, Voice, Segment, Speak, Align, Upload, Finish,
       Fail, ReadFails, At
  <2>2. made' \in {made, made \union {"captions"}, made \union {"voice"}}
    BY <1>2, Zenon DEF Process, Load, Begin, Translate, Voice, Segment, Speak, Align, Upload, Finish,
       Fail, ReadFails
  <2>3. QED  BY <2>1, <2>2, <1>2, ProcessLeaves DEF PriceInv
<1>3. CASE \E c \in Cancels : Cancel(c)
  BY <1>3 DEF Cancel, CancelRead, CancelMark, CancelClaim, CancelRefund, CancelWrite, CancelFails
<1>4. QED
  BY <1>1, <1>2, <1>3 DEF Next, vars, Timeout, Deliver, Answer, Crash

LEMMA InitInv == Init => DubInv /\ PaidFirst
<1> SUFFICES ASSUME Init PROVE DubInv /\ PaidFirst  OBVIOUS
<1>1. /\ doc = NoDoc /\ flag = FALSE /\ claimed = FALSE /\ maker = "new"
      /\ queue = [state |-> "none", tries |-> 0, flight |-> NoWorker]
      /\ work = [r \in Runners |-> Rest]
      /\ cancels = [c \in Cancels |-> [at |-> "idle", job |-> NoDoc]]
      /\ charges = 0 /\ refunds = 0 /\ made = {}
  BY DEF Init
<1>2. StateTypes
  <2>1. 0 \in 0..Deliveries  BY Distinct, SMT
  <2>2. QED  BY <1>1, <2>1, RestType DEF StateTypes, MakerPcs, QueueType, CancelType, CancelPcs
<1>3. QueueInv /\ FlagTypes /\ PaidFirst  BY <1>1 DEF QueueInv, FlagTypes, PaidFirst
<1>4. Inline \in Runners  BY DEF Runners
<1>5. NoDoc.status = "none" /\ NoDoc.segments = FALSE /\ NoDoc.audio = FALSE
  BY DEF NoDoc, Fresh
<1>6. Rest.at = "idle" /\ Rest.job = NoDoc  BY DEF Rest
<1>7. InlineInv /\ PriceInv  BY <1>1, <1>4, <1>6 DEF InlineInv, PriceInv, At
<1>8. CopiesInv  BY <1>1, <1>5, <1>6 DEF CopiesInv
<1>9. MadeInv  BY <1>1, <1>5, <1>6 DEF MadeInv, Says, Knows, Translated
<1>10. RefundInv /\ charges \in 0..1  BY <1>1, SMT DEF RefundInv
<1>11. QED  BY <1>2, <1>3, <1>7, <1>8, <1>9, <1>10 DEF DubInv

LEMMA StepInv == ASSUME DubInv, PaidFirst, [Next]_vars PROVE DubInv' /\ PaidFirst'
<1>1. StateTypes' /\ QueueInv'  BY StateTyped DEF DubInv
<1>2. FlagTypes' /\ InlineInv'  BY FlagsTyped, InlineStep DEF DubInv
<1>3. PriceInv' /\ CopiesInv'  BY PriceStep DEF DubInv
<1>4. MadeInv'  BY MadeStep DEF DubInv
<1>5. RefundInv'  BY RefundStep DEF DubInv
<1>6. charges' \in 0..1 /\ PaidFirst'  BY ChargeStep DEF DubInv, PaidFirst
<1>7. QED  BY <1>1, <1>2, <1>3, <1>4, <1>5, <1>6 DEF DubInv

LEMMA DubInvariant == Spec => [](DubInv /\ PaidFirst)
  BY InitInv, StepInv, PTL DEF Spec

\* Every reachable state is well typed; the task is not delivered more often
\* than the queue may, and the price is given back at most once.
THEOREM DubTypes == Spec => []TypeOK
<1>1. DubInv => TypeOK
  BY DEF DubInv, StateTypes, FlagTypes, RefundInv, TypeOK, QueueType, RunnerType, CancelType
<1>2. QED  BY <1>1, DubInvariant, PTL

\* Whole-document writes from copies of any age never lose the price
\* (start_dub_job, _update, cancel_dub_job).
THEOREM PriceIsKept == Spec => []PriceKept
<1>1. DubInv => PriceKept
  <2> SUFFICES ASSUME DubInv PROVE PriceKept  OBVIOUS
  <2>1. Inline \in Runners  BY DEF Runners
  <2>2. QED  BY <2>1 DEF DubInv, PriceInv, CopiesInv, PriceKept, At
<1>2. QED  BY <1>1, DubInvariant, PTL

\* A job that says ready has what was asked for, whatever overlapping
\* handlers, cancels and failures wrote (run_synthesize_and_align).
THEOREM ReadyMeansComplete == Spec => []ReadyIsComplete
<1>1. DubInv => ReadyIsComplete  BY DEF DubInv, MadeInv, Says, ReadyIsComplete
<1>2. QED  BY <1>1, DubInvariant, PTL

\* Whoever is paid back has the workers told to stop before
\* (cancel_dub_job, start_dub_job).
THEOREM RefundMeansCancelled == Spec => []RefundIsCancelled
<1>1. DubInv => RefundIsCancelled  BY DEF DubInv, RefundInv, RefundIsCancelled
<1>2. QED  BY <1>1, DubInvariant, PTL

LEMMA LedgerStep ==
  ASSUME DubInv, PaidFirst, [Next]_vars
  PROVE  [Ledger!LedgerNext]_(Ledger!ledgerVars)
<1>r. refunds' = refunds \/ (refunds = 0 /\ refunds' = 1 /\ maker \in {"answered", "refund"})
  BY RefundStep DEF DubInv
<1>1. CASE refunds' # refunds
  <2>1. charges = 1 /\ maker # "charge"  BY <1>r, <1>1 DEF DubInv, PriceInv
  <2>2. charges' = charges /\ made' = made  BY <1>1, <2>1, ChargeStep DEF DubInv
  <2>3. Ledger!Refund  BY <1>r, <1>1, <2>1, <2>2 DEF Ledger!Refund
  <2>4. QED  BY <2>3 DEF Ledger!LedgerNext
<1>2. CASE refunds' = refunds /\ made' = made
  <2>1. charges' = charges \/ (charges = 0 /\ charges' = 1)  BY <1>2, ChargeStep DEF DubInv
  <2>2. QED  BY <1>2, <2>1 DEF Ledger!LedgerNext, Ledger!Charge, Ledger!ledgerVars
<1>3. CASE refunds' = refunds /\ made' # made
  <2>1. charges' = charges /\ charges = 1 /\ made \subseteq made'  BY <1>3, ChargeStep DEF DubInv
  <2>2. made' # {}  BY <1>3, <2>1
  <2>3. QED  BY <1>3, <2>1, <2>2 DEF Ledger!LedgerNext, Ledger!Deliver
<1>4. QED  BY <1>1, <1>2, <1>3

\* A dub implements the ledger: paid once and first, given back at most once,
\* whatever dispatches, cancels and faults do.
THEOREM DubLedger == Spec => KeepsLedger
<1>1. Init => Ledger!LedgerInit  BY DEF Init, Ledger!LedgerInit
<1>2. QED
  BY <1>1, DubInvariant, LedgerStep, PTL DEF Spec, KeepsLedger, Ledger!LedgerSpec
=============================================================================
