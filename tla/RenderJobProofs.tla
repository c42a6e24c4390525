-------------------------- MODULE RenderJobProofs ---------------------------
(***************************************************************************)
(* What RenderJob.tla keeps for every number of handlers, operator retries *)
(* and cancels, every limit on attempts and every set of faults.           *)
(***************************************************************************)
EXTENDS RenderJob, TLAPS

(***************************************************************************)
(* Type correctness needs to know that the queue never starts an attempt   *)
(* beyond the limit.                                                       *)
(***************************************************************************)
QueueInv ==
  \A t \in Tasks :
    /\ task[t] = "none" => tries[t] = 0
    /\ task[t] = "queued" /\ flight[t] = NoWorker => tries[t] < Deliveries
    /\ flight[t] # NoWorker => task[t] = "queued"
    /\ dpc[t] \in {"idle", "flip", "claim", "enqueue"} => task[t] = "none"

TypeInv == TypeOK /\ QueueInv

LEMMA InitTypeInv == Init => TypeInv
<1> SUFFICES ASSUME Init PROVE TypeInv
  OBVIOUS
<1> USE RenderAssumption DEF RenderAssumption, Init, Tasks, Statuses, Terminal, WorkerPcs,
        DispatchPcs, CancelPcs
<1>a. FlagsOK
  BY Zenon DEF FlagsOK
<1>1. /\ status \in Statuses /\ tried \in 0..Deliveries
      /\ owner \in Tasks \union {NoRun, CancelTag}
      /\ charges \in Nat /\ refunds \in Nat /\ uploads \in Nat
  OBVIOUS
<1>2. /\ task \in [Tasks -> {"none", "queued", "acked", "exhausted"}]
      /\ tries \in [Tasks -> 0..Deliveries]
      /\ flight \in [Tasks -> Workers \union {NoWorker}]
      /\ dpc \in [Tasks -> DispatchPcs] /\ seen \in [Tasks -> Statuses]
  OBVIOUS
<1>3. /\ pc \in [Workers -> WorkerPcs]
      /\ job \in [Workers -> Tasks]
      /\ attempt \in [Workers -> 0..Deliveries]
  OBVIOUS
<1>4. /\ cpc \in [Cancels -> CancelPcs]
      /\ view \in [Cancels -> [status : Statuses, stamped : BOOLEAN]]
  OBVIOUS
<1>5. QueueInv
  BY DEF QueueInv
<1>6. QED
  BY <1>a, <1>1, <1>2, <1>3, <1>4, <1>5 DEF TypeInv, TypeOK

(***************************************************************************)
(* The flags are typed apart from the rest: a best-effort write leaves the *)
(* new value or the old one.                                               *)
(***************************************************************************)
LEMMA Kept ==
  ASSUME NEW v, NEW x, NEW y, y \in {v} \union MayKeep(x)
  PROVE  y = v \/ y = x
  BY DEF MayKeep

LEMMA DispatchFlags ==
  ASSUME FlagsOK, NEW t \in Tasks, Dispatch(t)
  PROVE  FlagsOK'
<1> USE DEF FlagsOK, DispatchStep, metaVars, keyVars, worldVars
<1>1. CASE t = Export /\ StartExport  BY <1>1 DEF StartExport
<1>2. CASE RetryLoad(t)      BY <1>2 DEF RetryLoad
<1>3. CASE RetryFlip(t)      BY <1>3 DEF RetryFlip
<1>4. CASE ClaimRun(t)       BY <1>4 DEF ClaimRun
<1>5. CASE Enqueue(t)        BY <1>5 DEF Enqueue
<1>6. CASE DispatchFails(t)  BY <1>6 DEF DispatchFails
<1>7. CASE Abort(t)          BY <1>7 DEF Abort
<1>8. CASE RecordRead(t)     BY <1>8 DEF RecordRead
<1>9. CASE Record(t)         BY <1>9, Zenon DEF Record
<1>10. CASE RecordRun(t)     BY <1>10 DEF RecordRun
<1>11. CASE RecordSkipped(t) BY <1>11 DEF RecordSkipped
<1>12. CASE Stamp(t)
  <2>1. stamped' = (stamped \/ t = Export) \/ stamped' = stamped
    BY <1>12, Kept DEF Stamp
  <2>2. QED  BY <1>12, <2>1, Zenon DEF Stamp
<1>13. QED
  BY <1>1, <1>2, <1>3, <1>4, <1>5, <1>6, <1>7, <1>8, <1>9, <1>10, <1>11, <1>12 DEF Dispatch

LEMMA CancelFlags ==
  ASSUME FlagsOK, NEW c \in Cancels, Cancel(c)
  PROVE  FlagsOK'
<1> USE DEF FlagsOK, CancelStep, metaVars, keyVars, worldVars
<1>1. CASE CancelRead(c)     BY <1>1 DEF CancelRead
<1>2. CASE CancelMark(c)     BY <1>2 DEF CancelMark
<1>3. CASE CancelBump(c)     BY <1>3 DEF CancelBump
<1>4. CASE CancelDrop(c)     BY <1>4, Zenon DEF CancelDrop
<1>5. CASE CancelSkips(c)    BY <1>5 DEF CancelSkips
<1>6. CASE CancelPublish(c)
  <2>1. told' = TRUE \/ told' = told  BY <1>6, Kept DEF CancelPublish
  <2>2. QED  BY <1>6, <2>1, Zenon DEF CancelPublish
<1>7. CASE CancelRefund(c)   BY <1>7, Zenon DEF CancelRefund
<1>8. QED
  BY <1>1, <1>2, <1>3, <1>4, <1>5, <1>6, <1>7 DEF Cancel

\* Only deliveries and their ends touch the queue.
Delivers(w) == (\E t \in Tasks : Deliver(t, w)) \/ AnswerOk(w) \/ AnswerError(w) \/ Crash(w)

LEMMA QueueFlags ==
  ASSUME FlagsOK, \/ \E t \in Tasks : Timeout(t)
                  \/ \E w \in Workers : Delivers(w)
                  \/ LockExpires
                  \/ UNCHANGED vars
  PROVE  FlagsOK'
  BY Zenon DEF FlagsOK, Delivers, Deliver, Timeout, AnswerOk, AnswerError, Crash, LockExpires,
     vars, metaVars, keyVars, worldVars

\* The steps of a handler between its delivery and its answer.
Handles(w) ==
  \/ Start(w) \/ Probe(w) \/ Mark(w) \/ Prepare(w) \/ Own(w) \/ Render(w) \/ Encode(w)
  \/ Verify(w) \/ Recheck(w) \/ Supersede(w) \/ TakeLock(w) \/ Duplicate(w) \/ Upload(w)
  \/ Unlock(w) \/ Complete(w) \/ PublishDone(w) \/ PushResult(w) \/ Fail(w)
  \/ Raise(w) \/ RecordFailedAttempt(w) \/ Clean(w) \/ Ack(w)

LEMMA HandlerFlags ==
  ASSUME FlagsOK, NEW w \in Workers, Handles(w)
  PROVE  FlagsOK'
<1> USE DEF FlagsOK, Silent, SetsStatus, metaVars, keyVars, worldVars
<1>0. ASSUME NEW from, NEW to, Publishes(w, from, to)  PROVE FlagsOK'
  <2>1. told' = TRUE \/ told' = told  BY <1>0, Kept DEF Publishes
  <2>2. QED  BY <1>0, <2>1, Zenon DEF Publishes
<1>1. CASE Start(w)        BY <1>1 DEF Start
<1>2. CASE Probe(w)        BY <1>0, <1>2 DEF Probe
<1>3. CASE Mark(w)         BY <1>3, Zenon DEF Mark
<1>4. CASE Prepare(w)      BY <1>4 DEF Prepare
<1>5. CASE Own(w)          BY <1>5 DEF Own
<1>6. CASE Render(w)       BY <1>6 DEF Render
<1>7. CASE Encode(w)       BY <1>7 DEF Encode
<1>8. CASE Verify(w)       BY <1>8 DEF Verify
<1>9. CASE Recheck(w)      BY <1>9 DEF Recheck
<1>10. CASE TakeLock(w)    BY <1>10, Zenon DEF TakeLock
<1>11. CASE Upload(w)
  <2>1. lock' \in {FALSE, lock} \/ UNCHANGED keyVars  BY <1>11 DEF Upload, MayKeep
  <2>2. QED  BY <1>11, <2>1, Zenon DEF Upload
<1>12. CASE Unlock(w)
  <2>1. lock' = FALSE \/ lock' = lock  BY <1>12, Kept DEF Unlock
  <2>2. QED  BY <1>12, <2>1, Zenon DEF Unlock
<1>13. CASE Complete(w)    BY <1>13 DEF Complete
<1>14. CASE PublishDone(w) BY <1>0, <1>14 DEF PublishDone
<1>15. CASE PushResult(w)  BY <1>15 DEF PushResult
<1>16. CASE Fail(w)
  <2>1. told' = TRUE \/ told' = told  BY <1>16, Kept DEF Fail
  <2>2. QED  BY <1>16, <2>1, Zenon DEF Fail
<1>17. CASE Raise(w)       BY <1>17 DEF Raise
<1>18. CASE Ack(w)
  <2>1. pending' = FALSE \/ pending' = pending  BY <1>18, Kept DEF Ack
  <2>2. QED  BY <1>18, <2>1, Zenon DEF Ack
<1>19. CASE Supersede(w)   BY <1>19 DEF Supersede
<1>20. CASE Duplicate(w)   BY <1>20 DEF Duplicate
<1>21. CASE RecordFailedAttempt(w)
  <2>1. told' = TRUE \/ told' = told  BY <1>21, Kept DEF RecordFailedAttempt
  <2>2. QED  BY <1>21, <2>1, Zenon DEF RecordFailedAttempt
<1>22. CASE Clean(w)
  <2>1. pending' = (pending /\ ~LastAttempt(w)) \/ pending' = pending
    BY <1>22, Kept DEF Clean
  <2>2. QED  BY <1>22, <2>1, Zenon DEF Clean
<1>23. QED
  BY <1>1, <1>2, <1>3, <1>4, <1>5, <1>6, <1>7, <1>8, <1>9, <1>10, <1>11, <1>12, <1>13,
     <1>14, <1>15, <1>16, <1>17, <1>18, <1>19, <1>20, <1>21, <1>22 DEF Handles

(***************************************************************************)
(* The rest of the type invariant, one step per action.                    *)
(***************************************************************************)
LEMMA DispatchTypeInv ==
  ASSUME TypeInv, FlagsOK', NEW t \in Tasks, Dispatch(t)
  PROVE  TypeInv'
<1> USE RenderAssumption DEF RenderAssumption, TypeInv, TypeOK, QueueInv, Statuses, Terminal, DispatchPcs,
        DispatchStep, MayKeep, OwnerAfter, RunId,
        metaVars, keyVars, queueVars, workerVars, cancelVars, worldVars
<1>1. CASE t = Export /\ StartExport  BY <1>1 DEF StartExport
<1>2. CASE RetryLoad(t)      BY <1>2 DEF RetryLoad
<1>3. CASE RetryFlip(t)      BY <1>3 DEF RetryFlip
<1>4. CASE ClaimRun(t)       BY <1>4 DEF ClaimRun
<1>5. CASE Enqueue(t)        BY <1>5 DEF Enqueue
<1>6. CASE DispatchFails(t)  BY <1>6 DEF DispatchFails
<1>7. CASE Abort(t)          BY <1>7 DEF Abort
<1>8. CASE RecordRead(t)     BY <1>8 DEF RecordRead
<1>9. CASE Record(t)         BY <1>9 DEF Record
<1>10. CASE RecordRun(t)     BY <1>10 DEF RecordRun
<1>11. CASE RecordSkipped(t) BY <1>11 DEF RecordSkipped
<1>12. CASE Stamp(t)         BY <1>12 DEF Stamp
<1>13. QED
  BY <1>1, <1>2, <1>3, <1>4, <1>5, <1>6, <1>7, <1>8, <1>9, <1>10, <1>11, <1>12 DEF Dispatch

LEMMA CancelTypeInv ==
  ASSUME TypeInv, FlagsOK', NEW c \in Cancels, Cancel(c)
  PROVE  TypeInv'
<1> USE RenderAssumption DEF RenderAssumption, TypeInv, TypeOK, QueueInv, Statuses, Terminal,
        CancelPcs, CancelStep, MayKeep,
        metaVars, keyVars, queueVars, workerVars, dispVars, worldVars
<1>1. CASE CancelRead(c)
  <2>1. stamped \in BOOLEAN  BY DEF FlagsOK
  <2>2. [status |-> status, stamped |-> stamped] \in [status : Statuses, stamped : BOOLEAN]
    BY <2>1
  <2>3. QED  BY <1>1, <2>2 DEF CancelRead
<1>2. CASE CancelMark(c)     BY <1>2 DEF CancelMark
<1>3. CASE CancelBump(c)     BY <1>3 DEF CancelBump
<1>4. CASE CancelDrop(c)     BY <1>4 DEF CancelDrop
<1>5. CASE CancelSkips(c)    BY <1>5 DEF CancelSkips
<1>6. CASE CancelPublish(c)  BY <1>6 DEF CancelPublish
<1>7. CASE CancelRefund(c)   BY <1>7 DEF CancelRefund
<1>8. QED
  BY <1>1, <1>2, <1>3, <1>4, <1>5, <1>6, <1>7 DEF Cancel

LEMMA QueueTypeInv ==
  ASSUME TypeInv, FlagsOK', NEW w \in Workers, Delivers(w)
  PROVE  TypeInv'
<1> USE RenderAssumption DEF RenderAssumption, TypeInv, TypeOK, QueueInv, Tasks, WorkerPcs,
        GivesUp, Ends, metaVars, keyVars, queueVars, workerVars, dispVars, cancelVars,
        worldVars
<1>1. CASE \E t \in Tasks : Deliver(t, w)
  <2>1. PICK t \in Tasks : Deliver(t, w)  BY <1>1
  <2>2. QED  BY <2>1 DEF Deliver
<1>2. CASE AnswerOk(w)     BY <1>2 DEF AnswerOk
<1>3. CASE AnswerError(w)  BY <1>3 DEF AnswerError
<1>4. CASE Crash(w)        BY <1>4 DEF Crash
<1>5. QED
  BY <1>1, <1>2, <1>3, <1>4 DEF Delivers

LEMMA TimeoutTypeInv ==
  ASSUME TypeInv, FlagsOK', NEW t \in Tasks, Timeout(t)
  PROVE  TypeInv'
  BY RenderAssumption DEF RenderAssumption, TypeInv, TypeOK, QueueInv, Timeout, GivesUp,
     metaVars, keyVars, workerVars, dispVars, cancelVars, worldVars

LEMMA HandlerTypeInv ==
  ASSUME TypeInv, FlagsOK', NEW w \in Workers, Handles(w)
  PROVE  TypeInv'
<1> USE RenderAssumption DEF RenderAssumption, TypeInv, TypeOK, QueueInv, Statuses, Terminal,
        WorkerPcs, WorkerStep, Silent, SetsStatus, Publishes, MayKeep, OwnerAfter, RunId,
        metaVars, keyVars, queueVars, dispVars, cancelVars, worldVars
<1>1. CASE Start(w)        BY <1>1 DEF Start
<1>2. CASE Probe(w)        BY <1>2 DEF Probe
<1>3. CASE Mark(w)         BY <1>3 DEF Mark
<1>4. CASE Prepare(w)      BY <1>4 DEF Prepare
<1>5. CASE Own(w)          BY <1>5 DEF Own
<1>6. CASE Render(w)       BY <1>6 DEF Render
<1>7. CASE Encode(w)       BY <1>7 DEF Encode
<1>8. CASE Verify(w)       BY <1>8 DEF Verify
<1>9. CASE Recheck(w)      BY <1>9 DEF Recheck
<1>10. CASE TakeLock(w)    BY <1>10 DEF TakeLock
<1>11. CASE Upload(w)
  <2>1. /\ UNCHANGED <<status, tried, owner, charges, refunds, job, attempt>>
        /\ UNCHANGED <<task, tries, flight, dpc, seen, cpc, view>>
        /\ uploads' \in {uploads, uploads + 1}
        /\ \E to \in {"unlock", "fail"} : pc' = [pc EXCEPT ![w] = to]
    BY <1>11, Zenon DEF Upload
  <2>2. QED  BY <2>1
<1>12. CASE Unlock(w)      BY <1>12 DEF Unlock
<1>13. CASE Complete(w)    BY <1>13 DEF Complete
<1>14. CASE PublishDone(w) BY <1>14 DEF PublishDone
<1>15. CASE PushResult(w)  BY <1>15 DEF PushResult
<1>16. CASE Fail(w)        BY <1>16 DEF Fail
<1>17. CASE Raise(w)       BY <1>17 DEF Raise
<1>18. CASE Ack(w)         BY <1>18 DEF Ack
<1>19. CASE Supersede(w)   BY <1>19 DEF Supersede
<1>20. CASE Duplicate(w)   BY <1>20 DEF Duplicate
<1>21. CASE RecordFailedAttempt(w)
  <2>1. /\ status' \in {status, "dead", "retry_pending"} /\ tried' \in {tried, attempt[w]}
        /\ UNCHANGED <<owner, charges, refunds, uploads, job, attempt>>
        /\ UNCHANGED <<task, tries, flight, dpc, seen, cpc, view>>
        /\ pc' = [pc EXCEPT ![w] = "clean"]
    BY <1>21, Zenon DEF RecordFailedAttempt
  <2>2. QED  BY <2>1
<1>22. CASE Clean(w)       BY <1>22 DEF Clean
<1>23. QED
  BY <1>1, <1>2, <1>3, <1>4, <1>5, <1>6, <1>7, <1>8, <1>9, <1>10, <1>11, <1>12, <1>13,
     <1>14, <1>15, <1>16, <1>17, <1>18, <1>19, <1>20, <1>21, <1>22 DEF Handles

\* Every step of the specification is one of these kinds.
LEMMA StepKinds ==
  ASSUME Next
  PROVE  \/ \E t \in Tasks : Dispatch(t)
         \/ \E c \in Cancels : Cancel(c)
         \/ \E t \in Tasks : Timeout(t)
         \/ \E w \in Workers : Delivers(w)
         \/ \E w \in Workers : Handles(w)
         \/ LockExpires
  BY DEF Next, Work, Handles, Delivers

LEMMA TypeInvStep == TypeInv /\ [Next]_vars => TypeInv'
<1> SUFFICES ASSUME TypeInv, [Next]_vars  PROVE TypeInv'
  OBVIOUS
<1>0. FlagsOK  BY DEF TypeInv, TypeOK
<1>1. ASSUME NEW t \in Tasks, Dispatch(t)  PROVE TypeInv'
  BY <1>0, <1>1, DispatchFlags, DispatchTypeInv
<1>2. ASSUME NEW c \in Cancels, Cancel(c)  PROVE TypeInv'
  BY <1>0, <1>2, CancelFlags, CancelTypeInv
<1>3. ASSUME NEW t \in Tasks, Timeout(t)  PROVE TypeInv'
  BY <1>0, <1>3, QueueFlags, TimeoutTypeInv
<1>4. ASSUME NEW w \in Workers, Delivers(w)  PROVE TypeInv'
  BY <1>0, <1>4, QueueFlags, QueueTypeInv
<1>5. ASSUME NEW w \in Workers, Handles(w)  PROVE TypeInv'
  BY <1>0, <1>5, HandlerFlags, HandlerTypeInv
<1>6. CASE LockExpires \/ UNCHANGED vars
  <2>1. FlagsOK'  BY <1>0, <1>6, QueueFlags
  <2>2. QED
    BY <1>6, <2>1 DEF LockExpires, TypeInv, TypeOK, QueueInv, vars, metaVars, keyVars,
       queueVars, workerVars, dispVars, cancelVars, worldVars
<1>7. QED
  BY <1>1, <1>2, <1>3, <1>4, <1>5, <1>6, StepKinds

\* Type correctness, whatever the interleaving: in particular the attempt limit
\* bounds every task's deliveries.
THEOREM TypeCorrect == Spec => []TypeOK
<1>1. TypeInv => TypeOK  BY DEF TypeInv
<1>2. QED  BY InitTypeInv, TypeInvStep, <1>1, PTL DEF Spec

(***************************************************************************)
(* What one handler step can do to the upload lock and to the program      *)
(* counters around it.                                                     *)
(***************************************************************************)
Moves(w) == \E to \in WorkerPcs : pc' = [pc EXCEPT ![w] = to]

LockEffect(w) ==
  \/ ~lock /\ lock' /\ pc[w] = "lock"
  \/ pc[w] = "upload" /\ pc'[w] = "unlock" /\ lock' = lock
  \/ pc[w] \in Uploading /\ pc'[w] \notin Uploading
  \/ pc[w] \notin Uploading /\ pc'[w] \notin Uploading /\ lock' = lock

LEMMA HandlerLockEffect ==
  ASSUME TypeInv, NEW w \in Workers, Handles(w)
  PROVE  Moves(w) /\ LockEffect(w)
<1> USE DEF TypeInv, TypeOK, WorkerPcs, Moves, LockEffect, Uploading, WorkerStep, Silent,
        SetsStatus, Publishes, keyVars
<1>1. CASE Start(w)        BY <1>1 DEF Start
<1>2. CASE Probe(w)        BY <1>2 DEF Probe
<1>3. CASE Mark(w)         BY <1>3 DEF Mark
<1>4. CASE Prepare(w)      BY <1>4 DEF Prepare
<1>5. CASE Own(w)          BY <1>5 DEF Own
<1>6. CASE Render(w)       BY <1>6 DEF Render
<1>7. CASE Encode(w)       BY <1>7 DEF Encode
<1>8. CASE Verify(w)       BY <1>8 DEF Verify
<1>9. CASE Recheck(w)      BY <1>9 DEF Recheck
<1>10. CASE TakeLock(w)    BY <1>10 DEF TakeLock
<1>11. CASE Upload(w)      BY <1>11 DEF Upload
<1>12. CASE Unlock(w)      BY <1>12 DEF Unlock
<1>13. CASE Complete(w)    BY <1>13 DEF Complete
<1>14. CASE PublishDone(w) BY <1>14 DEF PublishDone
<1>15. CASE PushResult(w)  BY <1>15 DEF PushResult
<1>16. CASE Fail(w)        BY <1>16 DEF Fail
<1>17. CASE Raise(w)       BY <1>17 DEF Raise
<1>18. CASE Ack(w)         BY <1>18 DEF Ack
<1>19. CASE Supersede(w)   BY <1>19 DEF Supersede
<1>20. CASE Duplicate(w)   BY <1>20 DEF Duplicate
<1>21. CASE RecordFailedAttempt(w)  BY <1>21 DEF RecordFailedAttempt
<1>22. CASE Clean(w)       BY <1>22 DEF Clean
<1>23. QED
  BY <1>1, <1>2, <1>3, <1>4, <1>5, <1>6, <1>7, <1>8, <1>9, <1>10, <1>11, <1>12, <1>13,
     <1>14, <1>15, <1>16, <1>17, <1>18, <1>19, <1>20, <1>21, <1>22 DEF Handles

\* The lock is held while somebody uploads, and then by nobody else.
LockInv ==
  /\ UploadExclusive
  /\ \A w \in Workers : pc[w] \in Uploading => lock

LEMMA LockInvStep == TypeInv /\ LockInv /\ [Next]_vars => LockInv'
<1> SUFFICES ASSUME TypeInv, LockInv, [Next]_vars  PROVE LockInv'
  OBVIOUS
<1> USE DEF LockInv, UploadExclusive, Uploading
<1>1. ASSUME NEW t \in Tasks, Dispatch(t) \/ Timeout(t)  PROVE LockInv'
  <2>1. UNCHANGED <<pc, lock>>
    BY <1>1 DEF Dispatch, StartExport, RetryLoad, RetryFlip, ClaimRun, Enqueue, DispatchFails,
       Abort, RecordRead, Record, RecordRun, RecordSkipped, Stamp, Timeout, workerVars, keyVars
  <2>2. QED  BY <2>1
<1>2. ASSUME NEW c \in Cancels, Cancel(c)  PROVE LockInv'
  <2>1. UNCHANGED <<pc, lock>>
    BY <1>2 DEF Cancel, CancelRead, CancelMark, CancelBump, CancelDrop, CancelSkips,
       CancelPublish, CancelRefund, workerVars, keyVars
  <2>2. QED  BY <2>1
<1>3. ASSUME NEW w \in Workers, Delivers(w)  PROVE LockInv'
  <2>1. /\ lock' = lock
        /\ pc' = [pc EXCEPT ![w] = "idle"] \/ pc' = [pc EXCEPT ![w] = "start"]
    BY <1>3 DEF Delivers, Deliver, AnswerOk, AnswerError, Crash, Ends, keyVars
  <2>2. QED  BY <2>1 DEF TypeInv, TypeOK
<1>4. ASSUME NEW w \in Workers, Handles(w)  PROVE LockInv'
  <2>1. Moves(w) /\ LockEffect(w)  BY <1>4, HandlerLockEffect
  <2>2. \A v \in Workers \ {w} : pc'[v] = pc[v]
    BY <2>1 DEF Moves, TypeInv, TypeOK
  <2>3. QED  BY <2>1, <2>2 DEF LockEffect
<1>5. CASE LockExpires
  BY <1>5 DEF LockExpires, workerVars
<1>6. CASE UNCHANGED vars
  BY <1>6 DEF vars, workerVars, keyVars
<1>7. QED
  BY <1>1, <1>2, <1>3, <1>4, <1>5, <1>6, StepKinds

\* No two handlers of a job upload at the same time, for any number of handlers
\* and tasks: although render:lock names no owner and is deleted unconditionally,
\* only a handler that took it deletes it, and it expires only when nobody uploads.
THEOREM UploadsExclude == Spec => []UploadExclusive
<1>1. Init => LockInv
  BY DEF Init, LockInv, UploadExclusive, Uploading
<1>2. LockInv => UploadExclusive  BY DEF LockInv
<1>3. QED
  BY InitTypeInv, TypeInvStep, LockInvStep, <1>1, <1>2, PTL DEF Spec

(***************************************************************************)
(* A finished status is backed by an upload.                               *)
(***************************************************************************)
AfterUpload == {"unlock", "complete", "publish", "result"}

StoredInv ==
  /\ FinishedMeansStored
  /\ \A w \in Workers : pc[w] \in AfterUpload => uploads > 0

\* A handler step writes a finished status only after its own upload, and enters
\* that part of the code only by uploading.
StoreEffect(w) ==
  /\ uploads' \in {uploads, uploads + 1}
  /\ pc'[w] \in AfterUpload => pc[w] \in AfterUpload \/ uploads' = uploads + 1
  /\ status' \in {"complete", "success"} => status' = status \/ pc[w] \in AfterUpload

LEMMA HandlerStoreEffect ==
  ASSUME TypeInv, NEW w \in Workers, Handles(w)
  PROVE  StoreEffect(w)
<1> USE DEF TypeInv, TypeOK, StoreEffect, AfterUpload, WorkerPcs, WorkerStep, Silent,
        SetsStatus, Publishes, MayKeep, metaVars, worldVars
<1>1. CASE Start(w)        BY <1>1 DEF Start
<1>2. CASE Probe(w)        BY <1>2 DEF Probe
<1>3. CASE Mark(w)         BY <1>3 DEF Mark
<1>4. CASE Prepare(w)      BY <1>4 DEF Prepare
<1>5. CASE Own(w)          BY <1>5 DEF Own
<1>6. CASE Render(w)       BY <1>6 DEF Render
<1>7. CASE Encode(w)       BY <1>7 DEF Encode
<1>8. CASE Verify(w)       BY <1>8 DEF Verify
<1>9. CASE Recheck(w)      BY <1>9 DEF Recheck
<1>10. CASE TakeLock(w)    BY <1>10 DEF TakeLock
<1>11. CASE Upload(w)      BY <1>11 DEF Upload
<1>12. CASE Unlock(w)      BY <1>12 DEF Unlock
<1>13. CASE Complete(w)    BY <1>13 DEF Complete
<1>14. CASE PublishDone(w) BY <1>14 DEF PublishDone
<1>15. CASE PushResult(w)  BY <1>15 DEF PushResult
<1>16. CASE Fail(w)        BY <1>16 DEF Fail
<1>17. CASE Raise(w)       BY <1>17 DEF Raise
<1>18. CASE Ack(w)         BY <1>18 DEF Ack
<1>19. CASE Supersede(w)   BY <1>19 DEF Supersede
<1>20. CASE Duplicate(w)   BY <1>20 DEF Duplicate
<1>21. CASE RecordFailedAttempt(w)  BY <1>21 DEF RecordFailedAttempt
<1>22. CASE Clean(w)       BY <1>22 DEF Clean
<1>23. QED
  BY <1>1, <1>2, <1>3, <1>4, <1>5, <1>6, <1>7, <1>8, <1>9, <1>10, <1>11, <1>12, <1>13,
     <1>14, <1>15, <1>16, <1>17, <1>18, <1>19, <1>20, <1>21, <1>22 DEF Handles

LEMMA StoredInvStep == TypeInv /\ StoredInv /\ [Next]_vars => StoredInv'
<1> SUFFICES ASSUME TypeInv, StoredInv, [Next]_vars  PROVE StoredInv'
  OBVIOUS
<1> USE DEF StoredInv, FinishedMeansStored, AfterUpload
<1>1. ASSUME NEW t \in Tasks, Dispatch(t) \/ Timeout(t)  PROVE StoredInv'
  <2>1. /\ UNCHANGED <<pc, uploads>>
        /\ status' = status \/ status' \in {"queued", "dead"}
    BY <1>1 DEF Dispatch, StartExport, RetryLoad, RetryFlip, ClaimRun, Enqueue, DispatchFails,
       Abort, RecordRead, Record, RecordRun, RecordSkipped, Stamp, Timeout, MayKeep, metaVars,
       workerVars, worldVars
  <2>2. QED  BY <2>1
<1>2. ASSUME NEW c \in Cancels, Cancel(c)  PROVE StoredInv'
  <2>1. /\ UNCHANGED <<pc, uploads>>
        /\ status' = status \/ status' = "cancelled"
    BY <1>2 DEF Cancel, CancelRead, CancelMark, CancelBump, CancelDrop, CancelSkips,
       CancelPublish, CancelRefund, metaVars, workerVars, worldVars
  <2>2. QED  BY <2>1
<1>3. ASSUME NEW w \in Workers, Delivers(w)  PROVE StoredInv'
  <2>1. /\ UNCHANGED <<status, uploads>>
        /\ pc' = [pc EXCEPT ![w] = "idle"] \/ pc' = [pc EXCEPT ![w] = "start"]
    BY <1>3 DEF Delivers, Deliver, AnswerOk, AnswerError, Crash, Ends, metaVars, worldVars
  <2>2. QED  BY <2>1 DEF TypeInv, TypeOK
<1>4. ASSUME NEW w \in Workers, Handles(w)  PROVE StoredInv'
  <2>1. Moves(w)  BY <1>4, HandlerLockEffect
  <2>2. \A v \in Workers \ {w} : pc'[v] = pc[v]
    BY <2>1 DEF Moves, TypeInv, TypeOK
  <2>3. StoreEffect(w)  BY <1>4, HandlerStoreEffect
  <2>4. uploads \in Nat  BY DEF TypeInv, TypeOK
  <2>5. QED  BY <2>2, <2>3, <2>4 DEF StoreEffect
<1>5. CASE LockExpires \/ UNCHANGED vars
  BY <1>5 DEF LockExpires, vars, metaVars, workerVars, worldVars
<1>6. QED
  BY <1>1, <1>2, <1>3, <1>4, <1>5, StepKinds

\* The status endpoint never reports a finished export without a file behind it.
THEOREM FinishedIsStored == Spec => []FinishedMeansStored
<1>1. Init => StoredInv
  BY DEF Init, StoredInv, FinishedMeansStored, AfterUpload
<1>2. StoredInv => FinishedMeansStored  BY DEF StoredInv
<1>3. QED
  BY InitTypeInv, TypeInvStep, StoredInvStep, <1>1, <1>2, PTL DEF Spec

(***************************************************************************)
(* The books.  Nothing can happen to a job before its export has paid: its *)
(* task exists only afterwards, a retry needs a dead job and a cancel an   *)
(* answered export.  The two refunds exclude each other because a failed   *)
(* dispatch is not answered with a job id, and two cancels exclude each    *)
(* other by the claim.                                                     *)
(***************************************************************************)
Untouched ==
  /\ charges = 0 /\ refunds = 0 /\ uploads = 0 /\ status = "none"
  /\ \A t \in Tasks : dpc[t] = "idle" /\ task[t] = "none"
  /\ \A w \in Workers : pc[w] = "idle"
  /\ \A c \in Cancels : cpc[c] = "idle"

LedgerInv ==
  /\ dpc[Export] = "idle" => Untouched
  /\ dpc[Export] # "idle" => charges = 1
  /\ refunds \in {0, 1}
  /\ refunds = 1 => dpc[Export] = "failed" \/ claimed
  /\ claimed => dpc[Export] = "done"
  /\ \A c \in Cancels : cpc[c] # "idle" => dpc[Export] = "done"

LedgerStep == [Ledger!LedgerNext]_(Ledger!ledgerVars)

LEMMA DispatchLedger ==
  ASSUME TypeInv, LedgerInv, NEW t \in Tasks, Dispatch(t)
  PROVE  LedgerInv' /\ LedgerStep
<1> USE RenderAssumption DEF RenderAssumption, TypeInv, TypeOK, LedgerInv, Untouched, Tasks,
        LedgerStep, Ledger!LedgerNext, Ledger!ledgerVars, DispatchStep,
        metaVars, keyVars, queueVars, workerVars, cancelVars, worldVars
<1>1. CASE t = Export /\ StartExport  BY <1>1 DEF StartExport, Ledger!Charge
<1>2. CASE t \in Retries /\ RetryLoad(t)      BY <1>2 DEF RetryLoad
<1>3. CASE t \in Retries /\ RetryFlip(t)      BY <1>3 DEF RetryFlip
<1>4. CASE ClaimRun(t)       BY <1>4 DEF ClaimRun
<1>5. CASE Enqueue(t)        BY <1>5 DEF Enqueue
<1>6. CASE DispatchFails(t)  BY <1>6 DEF DispatchFails
<1>7. CASE Abort(t)          BY <1>7 DEF Abort, Ledger!Refund
<1>8. CASE RecordRead(t)     BY <1>8 DEF RecordRead
<1>9. CASE Record(t)         BY <1>9 DEF Record
<1>10. CASE RecordRun(t)     BY <1>10 DEF RecordRun
<1>11. CASE RecordSkipped(t) BY <1>11 DEF RecordSkipped
<1>12. CASE Stamp(t)         BY <1>12 DEF Stamp
<1>13. QED
  BY <1>1, <1>2, <1>3, <1>4, <1>5, <1>6, <1>7, <1>8, <1>9, <1>10, <1>11, <1>12 DEF Dispatch

LEMMA CancelLedger ==
  ASSUME TypeInv, LedgerInv, NEW c \in Cancels, Cancel(c)
  PROVE  LedgerInv' /\ LedgerStep
<1>0. dpc[Export] = "done"
  BY DEF LedgerInv, Cancel, CancelStep, CancelRead, CancelMark, CancelBump, CancelDrop,
     CancelSkips, CancelPublish, CancelRefund
<1> USE <1>0, RenderAssumption DEF RenderAssumption, TypeInv, TypeOK, LedgerInv, Tasks,
        LedgerStep, Ledger!LedgerNext, Ledger!ledgerVars, CancelStep,
        metaVars, keyVars, queueVars, workerVars, dispVars, worldVars
<1>1. CASE CancelRead(c)     BY <1>1 DEF CancelRead
<1>2. CASE CancelMark(c)     BY <1>2 DEF CancelMark
<1>3. CASE CancelBump(c)     BY <1>3 DEF CancelBump
<1>4. CASE CancelDrop(c)     BY <1>4 DEF CancelDrop
<1>5. CASE CancelSkips(c)    BY <1>5 DEF CancelSkips
<1>6. CASE CancelPublish(c)  BY <1>6 DEF CancelPublish
<1>7. CASE CancelRefund(c)   BY <1>7 DEF CancelRefund, MayRefund, Ledger!Refund
<1>8. QED
  BY <1>1, <1>2, <1>3, <1>4, <1>5, <1>6, <1>7 DEF Cancel

\* The queue and the handlers move no money.
NoMoney == UNCHANGED <<charges, refunds, claimed, dpc, cpc>>

LEMMA HandlerLedger ==
  ASSUME TypeInv, NEW w \in Workers, Handles(w)
  PROVE  NoMoney /\ uploads' \in {uploads, uploads + 1} /\ pc[w] # "idle"
<1>1. NoMoney
  BY Zenon DEF NoMoney, Handles, WorkerStep, Silent, SetsStatus, Publishes, Start, Probe, Mark,
     Prepare, Own, Render, Encode, Verify, Recheck, Supersede, TakeLock, Duplicate, Upload,
     Unlock, Complete, PublishDone, PushResult, Fail, Raise, RecordFailedAttempt, Clean,
     Ack, keyVars, dispVars, cancelVars, worldVars
<1>2. uploads' \in {uploads, uploads + 1}
  BY HandlerStoreEffect DEF StoreEffect
<1>3. pc[w] # "idle"
  BY DEF Handles, WorkerStep, Silent, SetsStatus, Publishes, Start, Probe, Mark, Prepare, Own,
     Render, Encode, Verify, Recheck, Supersede, TakeLock, Duplicate, Upload, Unlock,
     Complete, PublishDone, PushResult, Fail, Raise, RecordFailedAttempt, Clean, Ack
<1>4. QED  BY <1>1, <1>2, <1>3

LEMMA LedgerInvStep == TypeInv /\ LedgerInv /\ [Next]_vars => LedgerInv' /\ LedgerStep
<1> SUFFICES ASSUME TypeInv, LedgerInv, [Next]_vars  PROVE LedgerInv' /\ LedgerStep
  OBVIOUS
<1> USE RenderAssumption DEF RenderAssumption, TypeInv, TypeOK, LedgerInv, Untouched, Tasks,
        LedgerStep, Ledger!LedgerNext, Ledger!ledgerVars
<1>1. ASSUME NEW t \in Tasks, Dispatch(t)  PROVE LedgerInv' /\ LedgerStep
  BY <1>1, DispatchLedger
<1>2. ASSUME NEW c \in Cancels, Cancel(c)  PROVE LedgerInv' /\ LedgerStep
  BY <1>2, CancelLedger
<1>3. ASSUME NEW w \in Workers, Handles(w)  PROVE LedgerInv' /\ LedgerStep
  <2>1. NoMoney /\ uploads' \in {uploads, uploads + 1} /\ pc[w] # "idle"
    BY <1>3, HandlerLedger
  <2>2. QED  BY <2>1 DEF NoMoney, Ledger!Deliver
<1>4. ASSUME NEW t \in Tasks, Timeout(t)  PROVE LedgerInv' /\ LedgerStep
  <2>1. dpc[Export] # "idle"  BY <1>4 DEF Timeout, QueueInv
  <2>2. QED  BY <1>4, <2>1 DEF Timeout, keyVars, dispVars, cancelVars, worldVars
<1>5. ASSUME NEW w \in Workers, Delivers(w)  PROVE LedgerInv' /\ LedgerStep
  <2>1. dpc[Export] # "idle"
    BY <1>5 DEF Delivers, Deliver, AnswerOk, AnswerError, Crash
  <2>2. QED
    BY <1>5, <2>1 DEF Delivers, Deliver, AnswerOk, AnswerError, Crash, keyVars, dispVars,
       cancelVars, worldVars
<1>6. CASE LockExpires \/ UNCHANGED vars
  BY <1>6 DEF LockExpires, vars, metaVars, keyVars, queueVars, workerVars, dispVars,
     cancelVars, worldVars
<1>7. QED
  BY <1>1, <1>2, <1>3, <1>4, <1>5, <1>6, StepKinds

\* The job implements the ledger: paid once before anything is delivered, given
\* back at most once, whatever the dispatch, the cancels, the retries and the
\* faults do.
THEOREM LedgerKept == Spec => KeepsLedger
<1>1. Init => LedgerInv /\ Ledger!LedgerInit
  BY RenderAssumption DEF RenderAssumption, Init, LedgerInv, Untouched, Tasks,
     Ledger!LedgerInit
<1>2. QED
  BY InitTypeInv, TypeInvStep, LedgerInvStep, <1>1, PTL
     DEF Spec, KeepsLedger, Ledger!LedgerSpec, LedgerStep

-----------------------------------------------------------------------------
(***************************************************************************)
(* What RenderJob.tla keeps, besides, while handlers do not die and Redis  *)
(* answers, and the handler's last attempt is one the queue makes: the     *)
(* lock is released and somebody speaks.                                   *)
(***************************************************************************)
Reliable ==
  /\ "crash" \notin Faults /\ "redis" \notin Faults
  /\ MaxAttempts <= Deliveries

LEMMA NothingKept ==
  ASSUME Reliable, NEW x  PROVE MayKeep(x) = {}
  BY DEF Reliable, MayKeep

(***************************************************************************)
(* The lock.  A handler that leaves the upload has released it.            *)
(***************************************************************************)
LEMMA LeavingReleases ==
  ASSUME Reliable, TypeInv, NEW w \in Workers, Handles(w),
         pc[w] \in Uploading, pc'[w] \notin Uploading
  PROVE  ~lock'
<1>1. Upload(w) \/ Unlock(w)
  BY DEF Handles, WorkerStep, Silent, SetsStatus, Publishes, Start, Probe, Mark, Prepare, Own,
     Render, Encode, Verify, Recheck, Supersede, TakeLock, Duplicate, Complete, PublishDone,
     PushResult, Fail, Raise, RecordFailedAttempt, Clean, Ack, Uploading
<1>2. CASE Upload(w)
  BY <1>2, NothingKept DEF Upload, WorkerStep, TypeInv, TypeOK, Uploading
<1>3. CASE Unlock(w)
  BY <1>3, NothingKept DEF Unlock
<1>4. QED  BY <1>1, <1>2, <1>3

LEMMA LockStep ==
  ASSUME Reliable, TypeInv, LockNeverStranded, [Next]_vars
  PROVE  LockNeverStranded'
<1> USE DEF LockNeverStranded
<1>1. ASSUME UNCHANGED <<pc, lock>>  PROVE LockNeverStranded'
  BY <1>1
<1>2. ASSUME NEW t \in Tasks, Dispatch(t) \/ Timeout(t)  PROVE LockNeverStranded'
  <2>1. UNCHANGED <<pc, lock>>
    BY <1>2 DEF Dispatch, StartExport, RetryLoad, RetryFlip, ClaimRun, Enqueue, DispatchFails,
       Abort, RecordRead, Record, RecordRun, RecordSkipped, Stamp, Timeout, workerVars, keyVars
  <2>2. QED  BY <1>1, <2>1
<1>3. ASSUME NEW c \in Cancels, Cancel(c)  PROVE LockNeverStranded'
  <2>1. UNCHANGED <<pc, lock>>
    BY <1>3 DEF Cancel, CancelRead, CancelMark, CancelBump, CancelDrop, CancelSkips,
       CancelPublish, CancelRefund, workerVars, keyVars
  <2>2. QED  BY <1>1, <2>1
<1>4. ASSUME NEW w \in Workers, Delivers(w)  PROVE LockNeverStranded'
  <2>1. /\ lock' = lock /\ pc[w] \notin Uploading
        /\ pc' = [pc EXCEPT ![w] = "idle"] \/ pc' = [pc EXCEPT ![w] = "start"]
    BY <1>4 DEF Reliable, Delivers, Deliver, AnswerOk, AnswerError, Crash, Ends, keyVars,
       Uploading
  <2>2. QED  BY <2>1 DEF TypeInv, TypeOK
<1>5. ASSUME NEW w \in Workers, Handles(w)  PROVE LockNeverStranded'
  <2>1. Moves(w) /\ LockEffect(w)  BY <1>5, HandlerLockEffect
  <2>2. \A v \in Workers \ {w} : pc'[v] = pc[v]
    BY <2>1 DEF Moves, TypeInv, TypeOK
  <2>3. CASE pc[w] \in Uploading /\ pc'[w] \notin Uploading
    BY <1>5, <2>3, LeavingReleases
  <2>4. CASE pc'[w] \in Uploading
    BY <2>4
  <2>5. CASE pc[w] \notin Uploading /\ pc'[w] \notin Uploading
    <3>1. lock' = lock \/ (~lock /\ lock' /\ pc[w] = "lock")
      BY <2>1, <2>5 DEF LockEffect, Uploading
    <3>2. CASE lock' = lock  BY <2>2, <2>5, <3>2
    <3>3. CASE ~lock /\ lock' /\ pc[w] = "lock"
      <4>1. TakeLock(w)
        BY <1>5, <3>3 DEF Handles, WorkerStep, Silent, SetsStatus, Publishes, Start, Probe, Mark,
           Prepare, Own, Render, Encode, Verify, Recheck, Supersede, Duplicate, Upload,
           Unlock, Complete, PublishDone, PushResult, Fail, Raise, RecordFailedAttempt,
           Clean, Ack
      <4>2. QED
        BY <2>5, <3>3, <4>1 DEF TakeLock, WorkerStep, Silent, Uploading, Reliable, TypeInv, TypeOK
    <3>4. QED  BY <3>1, <3>2, <3>3
  <2>6. QED  BY <2>3, <2>4, <2>5
<1>6. CASE LockExpires
  BY <1>6 DEF LockExpires
<1>7. CASE UNCHANGED vars
  BY <1>1, <1>7 DEF vars, workerVars, keyVars
<1>8. QED
  BY <1>2, <1>3, <1>4, <1>5, <1>6, <1>7, StepKinds

\* With no deaths and a Redis that answers, render:lock is held only while a
\* handler is inside the upload: every way out of it deletes the lock
\* (render_worker.py:744-748).
THEOREM LockReleased == Reliable => (Spec => []LockNeverStranded)
<1> SUFFICES ASSUME Reliable PROVE Spec => []LockNeverStranded
  OBVIOUS
<1>1. Init => LockNeverStranded
  BY DEF Init, LockNeverStranded
<1>2. TypeInv /\ LockNeverStranded /\ [Next]_vars => LockNeverStranded'
  BY LockStep
<1>3. QED
  BY InitTypeInv, TypeInvStep, <1>1, <1>2, PTL DEF Spec

(***************************************************************************)
(* The queue awaits the handler that makes the task's latest attempt, and  *)
(* a failed attempt that is to be repeated was not the last.               *)
(***************************************************************************)
FlightInv ==
  /\ \A t \in Tasks, w \in Workers :
       flight[t] = w => pc[w] # "idle" /\ job[w] = t /\ attempt[w] = tries[t]
  /\ tried < MaxAttempts

(***************************************************************************)
(* As long as nothing has been published, whoever has left silently has    *)
(* left somebody who will speak.                                           *)
(***************************************************************************)
Saying == {"upload", "unlock", "complete", "publish", "fail"}
Leaving == {"supersede", "duplicate", "ack", "reply"}

Speaking == \/ \E w \in Workers : pc[w] \in Saying
            \/ \E c \in Cancels : cpc[c] \in {"drop", "publish"}

LastRuns == \E w \in Workers : pc[w] # "idle" /\ LastAttempt(w)

UntoldInv ==
  ~told =>
    /\ status # "dead"
    /\ \A t \in Retries : dpc[t] = "idle"
    /\ \A w \in Workers : /\ job[w] = Export /\ pc[w] # "result"
                          /\ pc[w] \in {"clean", "nack"} => ~LastAttempt(w)
                          /\ pc[w] \in Leaving => Speaking
    /\ owner \in {NoRun, Export, CancelTag}
    /\ owner = CancelTag => Speaking
    /\ task[Export] = "acked" => Speaking
    /\ task[Export] = "exhausted" => Speaking \/ LastRuns

\* What a step of a handler does to all that.
Silently(w) ==
  /\ ~told /\ status' = "dead" => status = "dead"
  /\ pc[w] \in Saying => pc'[w] \in Saying
  /\ pc'[w] = "result" => pc[w] = "result"
  /\ pc'[w] \in Leaving => pc[w] \in Leaving \union {"result"} \/ Stale(w) \/ lock
  /\ pc'[w] \in {"clean", "nack"} => pc[w] = "clean" \/ ~LastAttempt(w) \/ AlreadyRecorded(w)

ToldEffect(w) ==
  /\ told => told'
  /\ pc[w] # "idle" /\ pc'[w] # "idle"
  /\ UNCHANGED <<job, attempt, task, tries, flight, dpc, cpc>>
  /\ owner' \in {owner, OwnerAfter(job[w])}
  /\ tried' = tried \/ (tried' = attempt[w] /\ ~LastAttempt(w))
  /\ ~told' => Silently(w)

LEMMA HandlerToldEffect ==
  ASSUME Reliable, TypeInv, NEW w \in Workers, Handles(w)
  PROVE  ToldEffect(w)
<1>0. /\ "redis" \notin Faults
      /\ told \in BOOLEAN
      /\ \A x : MayKeep(x) = {}
  BY NothingKept DEF Reliable, TypeInv, TypeOK, FlagsOK
<1> USE <1>0 DEF TypeInv, TypeOK, ToldEffect, Silently, Saying, Leaving, WorkerStep, Silent,
        SetsStatus, Publishes, metaVars, keyVars, queueVars, dispVars, cancelVars, worldVars
<1>1. CASE Start(w)        BY <1>1 DEF Start
<1>2. CASE Probe(w)        BY <1>2 DEF Probe
<1>3. CASE Mark(w)         BY <1>3 DEF Mark
<1>4. CASE Prepare(w)      BY <1>4 DEF Prepare
<1>5. CASE Own(w)          BY <1>5 DEF Own
<1>6. CASE Render(w)       BY <1>6 DEF Render
<1>7. CASE Encode(w)       BY <1>7 DEF Encode
<1>8. CASE Verify(w)       BY <1>8 DEF Verify
<1>9. CASE Recheck(w)      BY <1>9 DEF Recheck
<1>10. CASE TakeLock(w)    BY <1>10 DEF TakeLock
<1>11. CASE Upload(w)      BY <1>11 DEF Upload
<1>12. CASE Unlock(w)      BY <1>12 DEF Unlock
<1>13. CASE Complete(w)    BY <1>13 DEF Complete
<1>14. CASE PublishDone(w) BY <1>14 DEF PublishDone
<1>15. CASE PushResult(w)  BY <1>15 DEF PushResult
<1>16. CASE Fail(w)        BY <1>16 DEF Fail
<1>17. CASE Raise(w)       BY <1>17 DEF Raise
<1>18. CASE Ack(w)         BY <1>18 DEF Ack
<1>19. CASE Supersede(w)   BY <1>19 DEF Supersede
<1>20. CASE Duplicate(w)   BY <1>20 DEF Duplicate
<1>21. CASE RecordFailedAttempt(w)  BY <1>21 DEF RecordFailedAttempt
<1>22. CASE Clean(w)       BY <1>22 DEF Clean
<1>23. QED
  BY <1>1, <1>2, <1>3, <1>4, <1>5, <1>6, <1>7, <1>8, <1>9, <1>10, <1>11, <1>12, <1>13,
     <1>14, <1>15, <1>16, <1>17, <1>18, <1>19, <1>20, <1>21, <1>22 DEF Handles

LEMMA FlightStep ==
  ASSUME Reliable, TypeInv, FlightInv, [Next]_vars
  PROVE  FlightInv'
<1> USE RenderAssumption DEF RenderAssumption, TypeInv, TypeOK, FlightInv
<1>1. ASSUME NEW t \in Tasks, Dispatch(t)  PROVE FlightInv'
  <2>1. /\ UNCHANGED <<pc, job, attempt, tries, flight>>
        /\ tried' \in {tried, 0}
    BY <1>1 DEF Dispatch, StartExport, RetryLoad, RetryFlip, ClaimRun, Enqueue, DispatchFails,
       Abort, RecordRead, Record, RecordRun, RecordSkipped, Stamp, workerVars, queueVars,
       metaVars
  <2>2. QED  BY <2>1
<1>2. ASSUME NEW c \in Cancels, Cancel(c)  PROVE FlightInv'
  <2>1. UNCHANGED <<pc, job, attempt, tries, flight, tried>>
    BY <1>2 DEF Cancel, CancelRead, CancelMark, CancelBump, CancelDrop, CancelSkips,
       CancelPublish, CancelRefund, workerVars, queueVars, metaVars
  <2>2. QED  BY <2>1
<1>3. ASSUME NEW t \in Tasks, Timeout(t)  PROVE FlightInv'
  BY <1>3 DEF Timeout, GivesUp, workerVars, metaVars
<1>4. ASSUME NEW w \in Workers, Delivers(w)  PROVE FlightInv'
  <2>1. CASE \E t \in Tasks : Deliver(t, w)
    <3>1. PICK t \in Tasks : Deliver(t, w)  BY <2>1
    <3>2. QED  BY <3>1 DEF Deliver, metaVars
  <2>2. CASE AnswerOk(w)
    BY <2>2 DEF AnswerOk, Ends, metaVars
  <2>3. CASE AnswerError(w) \/ Crash(w)
    BY <2>3 DEF AnswerError, Crash, GivesUp, Ends, metaVars, queueVars
  <2>4. QED  BY <1>4, <2>1, <2>2, <2>3 DEF Delivers
<1>5. ASSUME NEW w \in Workers, Handles(w)  PROVE FlightInv'
  <2>1. ToldEffect(w) /\ Moves(w)  BY <1>5, HandlerToldEffect, HandlerLockEffect
  <2>2. \A v \in Workers \ {w} : pc'[v] = pc[v]
    BY <2>1 DEF Moves
  <2>3. tried' < MaxAttempts
    BY <2>1 DEF ToldEffect, LastAttempt
  <2>4. QED  BY <2>1, <2>2, <2>3 DEF ToldEffect
<1>6. CASE LockExpires \/ UNCHANGED vars
  BY <1>6 DEF LockExpires, vars, workerVars, queueVars, metaVars
<1>7. QED
  BY <1>1, <1>2, <1>3, <1>4, <1>5, <1>6, StepKinds

(***************************************************************************)
(* The steps, one kind at a time.                                          *)
(***************************************************************************)
LEMMA DispatchUntold ==
  ASSUME Reliable, TypeInv, UntoldInv, NEW t \in Tasks, Dispatch(t)
  PROVE  UntoldInv'
<1> SUFFICES ASSUME ~told'  PROVE UntoldInv'
  BY DEF UntoldInv
<1>1. UNCHANGED <<pc, job, attempt, cpc, told>>
  BY DEF Dispatch, StartExport, RetryLoad, RetryFlip, ClaimRun, Enqueue, DispatchFails,
     Abort, RecordRead, Record, RecordRun, RecordSkipped, Stamp, workerVars, cancelVars,
     worldVars
<1>2. ~told  BY <1>1
<1>3. t = Export
  BY <1>2 DEF UntoldInv, Dispatch, RetryLoad, RetryFlip, ClaimRun, Enqueue, DispatchFails, Abort,
     RecordRead, Record, RecordRun, RecordSkipped, Stamp, DispatchStep, Tasks
<1>4. \A r \in Retries : dpc'[r] = "idle"
  BY <1>2, <1>3, RenderAssumption
     DEF RenderAssumption, UntoldInv, TypeInv, TypeOK, Dispatch, StartExport, RetryLoad, RetryFlip,
     ClaimRun, Enqueue, DispatchFails, Abort, RecordRead, Record, RecordRun, RecordSkipped,
     Stamp, DispatchStep, Tasks
<1>5. owner' \in {owner, Export}
  BY <1>3 DEF Dispatch, StartExport, RetryLoad, RetryFlip, ClaimRun, Enqueue, DispatchFails, Abort,
     RecordRead, Record, RecordRun, RecordSkipped, Stamp, OwnerAfter, RunId, keyVars
<1>6. status' \in {status, "queued"}
  BY <1>3, RenderAssumption
     DEF RenderAssumption, Dispatch, StartExport, RetryLoad, RetryFlip, ClaimRun, Enqueue,
     DispatchFails, Abort, RecordRead, Record, RecordRun, RecordSkipped, Stamp, metaVars
<1>7. task' = task \/ task' = [task EXCEPT ![Export] = "queued"]
  BY <1>3 DEF Dispatch, StartExport, RetryLoad, RetryFlip, ClaimRun, Enqueue, DispatchFails, Abort,
     RecordRead, Record, RecordRun, RecordSkipped, Stamp, queueVars
<1>8. task'[Export] \in {"acked", "exhausted"} => task[Export] = task'[Export]
  BY <1>7 DEF TypeInv, TypeOK, Tasks
<1>9. Speaking' <=> Speaking
  BY <1>1 DEF Speaking
<1>10. LastRuns' <=> LastRuns
  BY <1>1 DEF LastRuns, LastAttempt
<1>11. QED
  <2>1. status' # "dead" /\ owner' \in {NoRun, Export, CancelTag}
    BY <1>2, <1>5, <1>6 DEF UntoldInv
  <2>2. owner' = CancelTag => Speaking'
    BY <1>2, <1>5, <1>9, RenderAssumption DEF RenderAssumption, UntoldInv, Tasks
  <2>3. \A w \in Workers : /\ job'[w] = Export /\ pc'[w] # "result"
                           /\ pc'[w] \in {"clean", "nack"} => ~LastAttempt(w)'
                           /\ pc'[w] \in Leaving => Speaking'
    BY <1>1, <1>2, <1>9 DEF UntoldInv, LastAttempt
  <2>4. /\ task'[Export] = "acked" => Speaking'
        /\ task'[Export] = "exhausted" => Speaking' \/ LastRuns'
    BY <1>2, <1>8, <1>9, <1>10 DEF UntoldInv
  <2>5. QED  BY <1>4, <2>1, <2>2, <2>3, <2>4 DEF UntoldInv

LEMMA CancelUntold ==
  ASSUME Reliable, TypeInv, UntoldInv, NEW c \in Cancels, Cancel(c)
  PROVE  UntoldInv'
<1> SUFFICES ASSUME ~told'  PROVE UntoldInv'
  BY DEF UntoldInv
<1>0. ~CancelSkips(c) /\ ~CancelPublish(c)
  BY NothingKept DEF Reliable, CancelSkips, CancelPublish
<1>1. UNCHANGED <<pc, job, attempt, task, dpc, told>>
  BY <1>0 DEF Cancel, CancelRead, CancelMark, CancelBump, CancelDrop, CancelRefund, workerVars,
     queueVars, dispVars, worldVars
<1>2. ~told  BY <1>1
<1>3. status' \in {status, "cancelled"}
  BY <1>0 DEF Cancel, CancelRead, CancelMark, CancelBump, CancelDrop, CancelRefund, metaVars
<1>4. \/ owner' = owner
      \/ owner' = CancelTag /\ cpc'[c] = "drop"
  BY <1>0 DEF Cancel, CancelRead, CancelMark, CancelBump, CancelDrop, CancelRefund, keyVars,
     CancelStep, TypeInv, TypeOK
<1>5. Speaking => Speaking'
  <2>1. \A d \in Cancels \ {c} : cpc'[d] = cpc[d]
    BY <1>0 DEF Cancel, CancelRead, CancelMark, CancelBump, CancelDrop, CancelRefund, CancelStep,
       TypeInv, TypeOK
  <2>2. cpc[c] \in {"drop", "publish"} => cpc'[c] \in {"drop", "publish"}
    BY <1>0 DEF Cancel, CancelRead, CancelMark, CancelBump, CancelDrop, CancelRefund, CancelStep,
       TypeInv, TypeOK
  <2>3. QED  BY <1>1, <2>1, <2>2 DEF Speaking
<1>6. owner' = CancelTag => Speaking'
  <2>1. CASE owner' = owner  BY <1>2, <1>5, <2>1 DEF UntoldInv
  <2>2. CASE cpc'[c] = "drop"  BY <2>2 DEF Speaking
  <2>3. QED  BY <1>4, <2>1, <2>2
<1>7. LastRuns' <=> LastRuns
  BY <1>1 DEF LastRuns, LastAttempt
<1>8. QED
  <2>1. \A w \in Workers : /\ job'[w] = Export /\ pc'[w] # "result"
                           /\ pc'[w] \in {"clean", "nack"} => ~LastAttempt(w)'
                           /\ pc'[w] \in Leaving => Speaking'
    BY <1>1, <1>2, <1>5 DEF UntoldInv, LastAttempt
  <2>2. /\ task'[Export] = "acked" => Speaking'
        /\ task'[Export] = "exhausted" => Speaking' \/ LastRuns'
    BY <1>1, <1>2, <1>5, <1>7 DEF UntoldInv
  <2>3. status' # "dead" /\ owner' \in {NoRun, Export, CancelTag}
    BY <1>2, <1>3, <1>4 DEF UntoldInv
  <2>4. \A r \in Retries : dpc'[r] = "idle"
    BY <1>1, <1>2 DEF UntoldInv
  <2>5. QED  BY <1>6, <2>1, <2>2, <2>3, <2>4 DEF UntoldInv

\* When the queue gives up on a task, the handler it awaited makes the last
\* attempt.
LEMMA GivingUp ==
  ASSUME Reliable, TypeInv, FlightInv, NEW t \in Tasks, flight[t] # NoWorker, GivesUp(t),
         task'[Export] = "exhausted", task[Export] # "exhausted"
  PROVE  \E w \in Workers : flight[t] = w /\ LastAttempt(w) /\ pc[w] # "idle"
<1>1. t = Export /\ tries[t] >= Deliveries
  BY DEF GivesUp, TypeInv, TypeOK
<1>2. PICK w \in Workers : flight[t] = w
  BY DEF TypeInv, TypeOK
<1>3. attempt[w] >= Deliveries /\ pc[w] # "idle"
  BY <1>1, <1>2 DEF FlightInv
<1>4. attempt[w] >= MaxAttempts
  BY <1>3, RenderAssumption DEF RenderAssumption, Reliable, TypeInv, TypeOK
<1>5. QED  BY <1>2, <1>3, <1>4 DEF LastAttempt

LEMMA TimeoutUntold ==
  ASSUME Reliable, TypeInv, FlightInv, UntoldInv, NEW t \in Tasks, Timeout(t)
  PROVE  UntoldInv'
<1> SUFFICES ASSUME ~told'  PROVE UntoldInv'
  BY DEF UntoldInv
<1>1. UNCHANGED <<status, owner, pc, job, attempt, dpc, cpc, told>>
  BY DEF Timeout, metaVars, keyVars, workerVars, dispVars, cancelVars, worldVars
<1>2. (Speaking' <=> Speaking) /\ (LastRuns' <=> LastRuns)
  BY <1>1 DEF Speaking, LastRuns, LastAttempt
<1>3. task'[Export] = "acked" => task[Export] = "acked"
  BY DEF Timeout, GivesUp, TypeInv, TypeOK
<1>4. task'[Export] = "exhausted" => Speaking' \/ LastRuns'
  <2>1. CASE task[Export] = "exhausted"
    BY <1>1, <1>2, <2>1 DEF UntoldInv
  <2>2. CASE task[Export] # "exhausted"
    BY <1>2, <2>2, GivingUp DEF Timeout, LastRuns
  <2>3. QED  BY <2>1, <2>2
<1>5. \A w \in Workers : LastAttempt(w)' <=> LastAttempt(w)
  BY <1>1 DEF LastAttempt
<1>6. QED  BY <1>1, <1>2, <1>3, <1>4, <1>5 DEF UntoldInv

LEMMA DeliversUntold ==
  ASSUME Reliable, TypeInv, FlightInv, UntoldInv, NEW w \in Workers, Delivers(w)
  PROVE  UntoldInv'
<1> SUFFICES ASSUME ~told'  PROVE UntoldInv'
  BY DEF UntoldInv
<1>0. /\ (\E t \in Tasks : Deliver(t, w)) \/ AnswerOk(w) \/ AnswerError(w)
      /\ UNCHANGED <<status, owner, dpc, cpc, told>>
  BY DEF Reliable, Delivers, Deliver, AnswerOk, AnswerError, Crash, metaVars, keyVars, dispVars,
     cancelVars, worldVars
<1>1. ~told  BY <1>0
<1>2. /\ \A v \in Workers \ {w} : pc'[v] = pc[v] /\ job'[v] = job[v] /\ attempt'[v] = attempt[v]
      /\ pc[w] \in {"idle", "reply", "nack"} /\ pc'[w] \in {"idle", "start"}
  BY <1>0 DEF Deliver, AnswerOk, AnswerError, Ends, TypeInv, TypeOK
<1>3. Speaking => Speaking'
  BY <1>0, <1>2 DEF Speaking, Saying
<1>4. job'[w] = Export
  <2>1. CASE \E t \in Tasks : Deliver(t, w)
    <3>1. PICK t \in Tasks : Deliver(t, w)  BY <2>1
    <3>2. t = Export
      BY <1>1, <3>1 DEF UntoldInv, Deliver, TypeInv, QueueInv, Tasks
    <3>3. QED  BY <3>1, <3>2 DEF Deliver, TypeInv, TypeOK
  <2>2. CASE AnswerOk(w) \/ AnswerError(w)
    BY <2>2 DEF AnswerOk, AnswerError, Ends, TypeInv, TypeOK
  <2>3. QED  BY <1>0, <2>1, <2>2
<1>5. LastRuns => LastRuns' \/ Speaking
  <2>1. pc[w] # "idle" /\ LastAttempt(w) => Speaking
    BY <1>1, <1>2 DEF UntoldInv, Leaving
  <2>2. \A v \in Workers \ {w} : LastAttempt(v)' <=> LastAttempt(v)
    BY <1>2 DEF LastAttempt
  <2>3. QED  BY <1>2, <2>1, <2>2 DEF LastRuns
<1>6. /\ task'[Export] = "acked" => Speaking
      /\ task'[Export] = "exhausted" => Speaking \/ LastRuns
  <2>1. CASE \E t \in Tasks : Deliver(t, w)
    BY <1>1, <2>1 DEF Deliver, UntoldInv
  <2>2. CASE AnswerOk(w)
    BY <1>1, <2>2 DEF AnswerOk, UntoldInv, Leaving
  <2>3. CASE AnswerError(w)
    <3>1. ~LastAttempt(w)
      BY <1>1, <2>3 DEF AnswerError, UntoldInv
    <3>2. CASE UNCHANGED task
      BY <1>1, <3>2 DEF UntoldInv
    <3>3. CASE flight[job[w]] = w /\ GivesUp(job[w])
      <4>1. flight[job[w]] # NoWorker /\ job[w] \in Tasks
        BY <3>3, RenderAssumption DEF RenderAssumption, TypeInv, TypeOK
      <4>2. task[Export] # "exhausted" => task'[Export] # "exhausted"
        BY <3>1, <3>3, <4>1, GivingUp
      <4>3. task'[Export] = "acked" => task[Export] = "acked"
        BY <3>3 DEF GivesUp, TypeInv, TypeOK
      <4>4. QED  BY <1>1, <4>2, <4>3 DEF UntoldInv
    <3>4. QED  BY <2>3, <3>2, <3>3 DEF AnswerError, queueVars
  <2>4. QED  BY <1>0, <2>1, <2>2, <2>3
<1>7. \A v \in Workers : /\ job'[v] = Export /\ pc'[v] # "result"
                         /\ pc'[v] \in {"clean", "nack"} => ~LastAttempt(v)'
                         /\ pc'[v] \in Leaving => Speaking'
  BY <1>1, <1>2, <1>3, <1>4 DEF UntoldInv, LastAttempt, Leaving
<1>8. QED  BY <1>0, <1>1, <1>3, <1>5, <1>6, <1>7 DEF UntoldInv

LEMMA HandlerUntold ==
  ASSUME Reliable, TypeInv, FlightInv, LockNeverStranded, UntoldInv,
         NEW w \in Workers, Handles(w)
  PROVE  UntoldInv'
<1> SUFFICES ASSUME ~told'  PROVE UntoldInv'
  BY DEF UntoldInv
<1>1. ToldEffect(w) /\ Moves(w)
  BY HandlerToldEffect, HandlerLockEffect
<1>2. ~told /\ Silently(w)  BY <1>1 DEF ToldEffect
<1>3. /\ \A v \in Workers \ {w} : pc'[v] = pc[v]
      /\ \A v \in Workers : LastAttempt(v)' <=> LastAttempt(v)
  BY <1>1 DEF Moves, ToldEffect, LastAttempt, TypeInv, TypeOK
<1>4. Speaking => Speaking'
  BY <1>1, <1>2, <1>3 DEF Speaking, Silently, ToldEffect
<1>5. LastRuns => LastRuns'
  BY <1>1, <1>3 DEF LastRuns, ToldEffect
<1>6. job[w] = Export /\ pc[w] # "result"
  BY <1>2 DEF UntoldInv
<1>7. owner' \in {owner, Export}
  BY <1>1, <1>6 DEF ToldEffect, OwnerAfter, RunId
<1>8. Stale(w) \/ lock => Speaking
  <2>1. CASE Stale(w)
    BY <1>2, <1>6, <2>1 DEF Stale, RunId, UntoldInv
  <2>2. CASE lock
    BY <2>2 DEF LockNeverStranded, Uploading, Speaking, Saying
  <2>3. QED  BY <2>1, <2>2
<1>9. AlreadyRecorded(w) => ~LastAttempt(w)
  BY <1>2, RenderAssumption
     DEF RenderAssumption, AlreadyRecorded, LastAttempt, UntoldInv, FlightInv, TypeInv, TypeOK
<1>10. \A v \in Workers : /\ job'[v] = Export /\ pc'[v] # "result"
                          /\ pc'[v] \in {"clean", "nack"} => ~LastAttempt(v)'
                          /\ pc'[v] \in Leaving => Speaking'
  <2>1. \A v \in Workers : job'[v] = Export
    BY <1>1, <1>2 DEF ToldEffect, UntoldInv
  <2>2. \A v \in Workers : pc'[v] # "result"
    BY <1>2, <1>3, <1>6 DEF Silently, UntoldInv
  <2>3. \A v \in Workers : pc'[v] \in {"clean", "nack"} => ~LastAttempt(v)'
    BY <1>2, <1>3, <1>9 DEF Silently, UntoldInv
  <2>4. \A v \in Workers : pc'[v] \in Leaving => Speaking'
    BY <1>2, <1>3, <1>4, <1>6, <1>8 DEF Silently, UntoldInv
  <2>5. QED  BY <2>1, <2>2, <2>3, <2>4
<1>11. /\ status' # "dead" /\ owner' \in {NoRun, Export, CancelTag}
       /\ owner' = CancelTag => Speaking'
  <2>1. status' # "dead"
    BY <1>2 DEF UntoldInv, Silently
  <2>2. owner' \in {NoRun, Export, CancelTag}
    BY <1>2, <1>7 DEF UntoldInv
  <2>3. owner' = CancelTag => owner = CancelTag
    BY <1>7, RenderAssumption DEF RenderAssumption, Tasks
  <2>4. QED  BY <1>2, <1>4, <2>1, <2>2, <2>3 DEF UntoldInv
<1>12. QED  BY <1>1, <1>2, <1>4, <1>5, <1>10, <1>11 DEF UntoldInv, ToldEffect

LEMMA UntoldStep ==
  ASSUME Reliable, TypeInv, FlightInv, LockNeverStranded, UntoldInv, [Next]_vars
  PROVE  UntoldInv'
<1>1. ASSUME LockExpires \/ UNCHANGED vars  PROVE UntoldInv'
  <2>1. UNCHANGED <<told, status, dpc, job, pc, attempt, owner, task, cpc>>
    BY <1>1 DEF LockExpires, vars, metaVars, keyVars, queueVars, workerVars, dispVars, cancelVars,
       worldVars
  <2>2. (Speaking' <=> Speaking) /\ (LastRuns' <=> LastRuns)
    BY <2>1 DEF Speaking, LastRuns, LastAttempt
  <2>3. QED  BY <2>1, <2>2 DEF UntoldInv, LastAttempt
<1>2. QED
  BY <1>1, DispatchUntold, CancelUntold, TimeoutUntold, DeliversUntold, HandlerUntold, StepKinds

\* With no deaths, a Redis that answers and a last attempt that the queue makes,
\* an accepted export that has come to rest has published a verdict: a handler
\* that leaves silently, because it met a cancel or the lock, leaves behind
\* somebody who will speak (render_worker.py:370-377, 677-716).
THEOREM QuietIsTold == Reliable => (Spec => []QuietMeansTold)
<1> SUFFICES ASSUME Reliable PROVE Spec => []QuietMeansTold
  OBVIOUS
<1>1. Init => LockNeverStranded /\ FlightInv /\ UntoldInv
  BY RenderAssumption DEF RenderAssumption, Init, LockNeverStranded, FlightInv, UntoldInv, Tasks,
     Leaving
<1>2. TypeInv /\ LockNeverStranded /\ FlightInv /\ UntoldInv /\ [Next]_vars
      => (LockNeverStranded /\ FlightInv /\ UntoldInv)'
  BY LockStep, FlightStep, UntoldStep
<1>3. TypeInv /\ UntoldInv => QuietMeansTold
  BY DEF TypeInv, TypeOK, UntoldInv, QuietMeansTold, Quiet, Speaking, LastRuns, Saying, Tasks
<1>4. QED
  BY InitTypeInv, TypeInvStep, <1>1, <1>2, <1>3, PTL DEF Spec
=============================================================================
