------------------------------ MODULE PlanRun ------------------------------
(***************************************************************************)
(* Executing a plan of the assistant (services/orchestrator_service.py,    *)
(* execute_plan): a stored plan, an execution lock that runs out, and one  *)
(* kernel command per step, by requests that overlap, are sent again and   *)
(* die.  The kernel is taken at its word: a command is accepted only on    *)
(* the revision it was built on (LogChained of ProjectKernel.tla).         *)
(*                                                                         *)
(* A request that raises, and an instance that dies, leave what they have  *)
(* written (Dies).  Messages, timestamps, the integrity report and the     *)
(* expiry of the plan itself are left out.                                 *)
(***************************************************************************)
EXTENDS Integers, Sequences, FiniteSets

CONSTANTS
  Requests,     \* POST /execute requests for the plan
  Nobody,       \* the sender of the other commands of the project
  MaxSteps,     \* bound: steps of a plan
  MaxRevision   \* bound: revisions of the project

ASSUME PlanAssumption ==
  /\ Nobody \notin Requests /\ MaxSteps \in Nat /\ MaxRevision \in Nat

VARIABLES
  mode,     \* not gated by a decision, or gated: to act, or only to ask
  kinds,    \* what each step of the plan is
  plan,     \* studio:orch:plan:{id}
  lock,     \* orch:exec:{id}
  expired,  \* whether the lock has ever run out
  log,      \* the events of the project; its revision is their number
  run       \* each request: where it is, its body, its copy of the plan

vars == <<mode, kinds, plan, lock, expired, log, run>>
gate == <<mode, kinds>>

\* A step the client does alone ("local": zoom, selection), one of those that is
\* registered as a change of the project nevertheless ("transport": seek, play,
\* pause), one of no known capability, and two that are sent: one that leaves the
\* composition alone and one that changes it.
Kinds        == {"local", "transport", "unknown", "note", "edit"}
Final        == {"completed", "failed", "partial"}
StepStatuses == {"pending", "accepted", "rejected", "skipped"}
Pcs == {"idle", "touch", "lock", "reread", "begin", "evidence", "steps", "refuse", "over"}

Steps == DOMAIN kinds

Mark(x) == [i \in Steps |-> x]

Init ==
  /\ mode \in {"plain", "ACT", "ASK"}
  /\ kinds \in UNION {[1..n -> Kinds] : n \in 0..MaxSteps}
  /\ mode = "ASK" => kinds = <<>>
  /\ plan = [status |-> "draft", steps |-> Mark("pending")]
  /\ lock = FALSE /\ expired = FALSE /\ log = <<>>
  /\ run = [e \in Requests |-> [at |-> "idle", base |-> 0, revision |-> 0, next |-> 1,
                                plan |-> plan]]

-----------------------------------------------------------------------------
At(e, from)  == run[e].at = from
Goes(e, to)  == run' = [run EXCEPT ![e].at = to]

\* A plan that is not to be executed, or has been, is put back as it was
\* read; an empty one fails.
Untaken(p) == IF mode = "ASK" \/ p.status \in Final THEN p ELSE [p EXCEPT !.status = "failed"]

Read(e) ==
  /\ At(e, "idle")
  /\ \E base \in 0..Len(log) :
       LET taken == plan.status \notin Final /\ Steps # {} IN
       run' = [run EXCEPT ![e] =
         [at   |-> IF taken THEN "lock" ELSE "touch",
          plan |-> IF taken THEN plan ELSE Untaken(plan),
          base |-> base, revision |-> base, next |-> 1]]
  /\ UNCHANGED <<gate, plan, lock, expired, log>>

Touch(e) ==
  /\ At(e, "touch") /\ Goes(e, "over") /\ plan' = run[e].plan
  /\ UNCHANGED <<gate, lock, expired, log>>

\* Mutant of TakeLock: Redis is not asked, as outside production.
TakeNoLock(e) ==
  /\ At(e, "lock") /\ Goes(e, "begin")
  /\ UNCHANGED <<gate, plan, lock, expired, log>>

TakeLock(e) ==
  /\ At(e, "lock") /\ Goes(e, IF lock THEN "reread" ELSE "begin")
  /\ lock' = TRUE
  /\ UNCHANGED <<gate, plan, expired, log>>

\* Whoever does not get the lock answers with the plan as it is then.
Reread(e) ==
  /\ At(e, "reread")
  /\ run' = [run EXCEPT ![e].at = "over", ![e].plan = plan]
  /\ UNCHANGED <<gate, plan, lock, expired, log>>

Begin(e) ==
  LET copy == [run[e].plan EXCEPT !.status = "executing"] IN
  /\ At(e, "begin") /\ plan' = copy
  /\ run' = [run EXCEPT ![e].at = IF mode = "ACT" THEN "evidence" ELSE "steps",
                        ![e].plan = copy]
  /\ UNCHANGED <<gate, lock, expired, log>>

\* A gated plan is checked against the analysis of the project before it is
\* executed; one that does not match it is refused.
Refused(p) ==
  [status |-> "failed",
   steps  |-> [i \in Steps |-> IF p.steps[i] = "pending" THEN "rejected" ELSE p.steps[i]]]

Evidence(e) ==
  /\ At(e, "evidence")
  /\ \/ Goes(e, "steps")
     \/ run' = [run EXCEPT ![e].at = "refuse", ![e].plan = Refused(@)]
  /\ UNCHANGED <<gate, plan, lock, expired, log>>

Refuse(e) ==
  /\ At(e, "refuse") /\ Goes(e, "over") /\ plan' = run[e].plan
  /\ UNCHANGED <<gate, lock, expired, log>>

-----------------------------------------------------------------------------
\* Is the step registered as a change of the project?
Mutates(i) == kinds[i] \in {"transport", "edit"}

\* Of the changes only the last is to be sent, with the composition the client has
\* compiled of them all.  The last is looked for among all that are registered as
\* changes, and a transport step is never sent: one that comes after the edits
\* leaves them all unsent.
Sends(i) ==
  \/ kinds[i] = "note"
  \/ kinds[i] = "edit" /\ \A j \in Steps : j > i => ~Mutates(j)

\* The plan with one more step decided.
Decided(p, i, x) == [p EXCEPT !.steps[i] = x]

\* Mutant of Local: a step that is left out takes the next one with it.
LocalPair(e) ==
  LET i == run[e].next IN
  /\ At(e, "steps") /\ i \in Steps /\ ~Sends(i)
  /\ run' = [run EXCEPT ![e].next = i + 2, ![e].plan = Decided(@, i, "skipped")]
  /\ UNCHANGED <<gate, plan, lock, expired, log>>

\* A step that is not the project's, or is unknown, or is left to the last change.
Local(e) ==
  LET i == run[e].next IN
  /\ At(e, "steps") /\ i \in Steps /\ ~Sends(i)
  /\ run' = [run EXCEPT ![e].next = i + 1,
                        ![e].plan = Decided(@, i,
                           IF kinds[i] = "unknown" THEN "rejected" ELSE "skipped")]
  /\ UNCHANGED <<gate, plan, lock, expired, log>>

\* Mutant of Current: the command is built on the head, not on what the client saw.
CurrentAlways(e) == TRUE

Current(e) == run[e].revision = Len(log)

Accept(e) ==
  LET i == run[e].next IN
  /\ At(e, "steps") /\ i \in Steps /\ Sends(i)
  /\ Current(e) /\ Len(log) < MaxRevision
  /\ log' = Append(log, [by |-> e, step |-> i])
  /\ run' = [run EXCEPT ![e].next = i + 1, ![e].revision = @ + 1,
                        ![e].plan = Decided(@, i, "accepted")]
  /\ UNCHANGED <<gate, plan, lock, expired>>

\* A conflict, or any other refusal, ends the execution.
Reject(e) ==
  LET i == run[e].next IN
  /\ At(e, "steps") /\ i \in Steps /\ Sends(i)
  /\ run' = [run EXCEPT ![e].next = Len(kinds) + 1,
                        ![e].plan = Decided(@, i, "rejected")]
  /\ UNCHANGED <<gate, plan, lock, expired, log>>

Some(p, x) == \E i \in Steps : p.steps[i] = x

\* Mutant of Outcome: what was accepted last decides.
OutcomeOfAccepted(p) ==
  IF Some(p, "accepted") \/ ~Some(p, "rejected") THEN "completed" ELSE "failed"

Outcome(p) ==
  IF ~Some(p, "rejected") THEN "completed"
  ELSE IF Some(p, "accepted") THEN "partial" ELSE "failed"

Store(e) ==
  LET copy == [run[e].plan EXCEPT !.status = Outcome(run[e].plan)] IN
  /\ At(e, "steps") /\ run[e].next \notin Steps
  /\ plan' = copy
  /\ run' = [run EXCEPT ![e].at = "over", ![e].plan = copy]
  /\ UNCHANGED <<gate, lock, expired, log>>

-----------------------------------------------------------------------------
\* A call that raises, before or after it took effect, or the end of the
\* instance: the request ends and cleans nothing up.
Dies(e) ==
  /\ run[e].at \notin {"idle", "over"} /\ Goes(e, "over")
  /\ UNCHANGED <<gate, plan, lock, expired, log>>

\* After 180 seconds, whoever holds it.
LockExpires ==
  /\ lock /\ lock' = FALSE /\ expired' = TRUE
  /\ UNCHANGED <<gate, plan, log, run>>

\* Another command of the project: the user's own edit, another session.
Other ==
  /\ Len(log) < MaxRevision
  /\ log' = Append(log, [by |-> Nobody, step |-> 0])
  /\ UNCHANGED <<gate, plan, lock, expired, run>>

Execute(e) ==
  \/ Read(e) \/ Touch(e) \/ TakeLock(e) \/ Reread(e) \/ Begin(e) \/ Evidence(e)
  \/ Refuse(e) \/ Local(e) \/ Accept(e) \/ Reject(e) \/ Store(e) \/ Dies(e)

Next == LockExpires \/ Other \/ \E e \in Requests : Execute(e)

Spec == Init /\ [][Next]_vars

-----------------------------------------------------------------------------
(***************************************************************************)
(* Properties.                                                             *)
(***************************************************************************)
PlanType == [status : Final \union {"draft", "executing"}, steps : [Steps -> StepStatuses]]
RunType  == [at : Pcs, base : Nat, revision : Nat, next : 1..Len(kinds) + 1, plan : PlanType]

TypeOK ==
  /\ mode \in {"plain", "ACT", "ASK"} /\ kinds \in Seq(Kinds)
  /\ plan \in PlanType /\ lock \in BOOLEAN /\ expired \in BOOLEAN
  /\ log \in Seq([by : Requests \union {Nobody}, step : 0..Len(kinds)])
  /\ run \in [Requests -> RunType]

Before(i) == {j \in 1..i : Sends(j)}

\* Whatever executions overlap or are repeated, and though each sends its
\* commands one by one while others edit the project: the commands of an
\* execution stand in the log together, in order, right after the revision
\* the client's composition was built on.  So of the requests with one base
\* at most one changes the project ("concurrent POSTs must not double-apply
\* mutations", orchestrator_service.py:547).
AppliedOnBase ==
  \A k \in 1..Len(log) : log[k].by \in Requests =>
    k = run[log[k].by].base + Cardinality(Before(log[k].step))

InLog(i) == \E k \in 1..Len(log) : log[k].step = i

\* A step shown as accepted is an event of the project.  A plan shown as completed
\* has all its notes there, and its last edit, which carries the composition of
\* them all, unless a seek, a play or a pause comes after it: the edits of such a
\* plan are dropped, and it is shown as completed all the same.  So it is in the
\* store and in every answer, whichever stale copy was written last.
OutcomeTrue ==
  \A p \in {plan} \union {run[e].plan : e \in Requests} :
    /\ \A i \in Steps : p.steps[i] = "accepted" => InLog(i)
    /\ p.status = "completed" =>
         \A i \in Steps :
           \/ kinds[i] = "note"
           \/ kinds[i] = "edit" /\ ~ \E j \in Steps : j > i /\ kinds[j] \in {"edit", "transport"}
           => InLog(i)

\* As long as no lock has run out, a plan that is stored as final tells
\* exactly what its execution did to the project: nothing of a step that was
\* not accepted is in the log, whatever requests came too late or died.
OutcomeExact ==
  ~expired /\ plan.status \in Final =>
    \A i \in Steps : plan.steps[i] = "accepted" <=> InLog(i)
=============================================================================
