--------------------------- MODULE PlanRunProofs ---------------------------
(***************************************************************************)
(* Proofs about PlanRun.tla, for every set of requests, every plan and     *)
(* every number of other commands.                                         *)
(*                                                                         *)
(* The base of a request and what it has sent fix the place of its next    *)
(* command (PlaceInv).  A completed plan needs that no step was passed     *)
(* over (WalkInv).  Until a lock has run out, one request at most has ever *)
(* been past it, and a final plan that may still be written again is the   *)
(* one it stored (LockInv).                                                *)
(***************************************************************************)
EXTENDS PlanRun, FiniteSetTheorems, SequenceTheorems, TLAPS

PlaceInv ==
  /\ \A e \in Requests : run[e].next \in Steps =>
       run[e].revision = run[e].base + Cardinality(Before(run[e].next - 1))
  /\ \A k \in 1..Len(log) : log[k].by \in Requests => run[log[k].by].at # "idle"

WalkInv ==
  \A e \in Requests :
    /\ run[e].at \in {"lock", "begin", "evidence"} => run[e].next = 1
    /\ run[e].at = "steps" =>
         \/ \E j \in Steps : j < run[e].next /\ run[e].plan.steps[j] = "rejected"
         \/ \A j \in Steps :
              j < run[e].next /\ Sends(j) => run[e].plan.steps[j] = "accepted"

Inside == {"begin", "evidence", "steps", "refuse"}

\* Nothing but what p shows as accepted has been done.
Shows(p) == \A i \in Steps : InLog(i) => p.steps[i] = "accepted"

Stored(p) == p.status \in Final =>
  (lock \/ Steps = {}) /\ (\A e \in Requests : run[e].at \notin Inside) /\ Shows(p)

OneInside ==
  \A d, e \in Requests : run[d].at \in Inside /\ run[e].at \in Inside => d = e

Holding ==
  /\ \A e \in Requests : run[e].at \in Inside => lock
  /\ ~lock => \A i \in Steps : ~InLog(i)
  /\ \A e \in Requests : run[e].at \in Inside \ {"steps"} => \A i \in Steps : ~InLog(i)
  /\ \A e \in Requests : run[e].at = "steps" =>
       Shows(run[e].plan) /\ \A i \in Steps : InLog(i) => i < run[e].next

FinalInv ==
  /\ Stored(plan)
  /\ \A e \in Requests : run[e].at = "touch" => Stored(run[e].plan)

LockInv == ~expired => OneInside /\ Holding /\ FinalInv

EmptyInv == Steps = {} => \A e \in Requests : run[e].at \in {"idle", "touch", "over"}

PlanInv == TypeOK /\ PlaceInv /\ AppliedOnBase /\ WalkInv /\ OutcomeTrue
           /\ EmptyInv /\ LockInv

-----------------------------------------------------------------------------
(***************************************************************************)
(* Steps of the plan and their number.                                     *)
(***************************************************************************)
LEMMA StepsAre ==
  ASSUME TypeOK
  PROVE  Len(kinds) \in Nat /\ Steps = 1..Len(kinds)
  BY DEF TypeOK, Steps

LEMMA GateSame ==
  ASSUME UNCHANGED gate
  PROVE  /\ mode' = mode /\ kinds' = kinds /\ Steps' = Steps /\ PlanType' = PlanType
         /\ \A i : Sends(i)' <=> Sends(i)
         /\ \A i : Before(i)' = Before(i)
  BY DEF gate, Steps, PlanType, Sends, Mutates, Before

LEMMA GateStep ==
  ASSUME [Next]_vars
  PROVE  UNCHANGED gate
  BY DEF Next, vars, gate, LockExpires, Other, Execute, Read, Touch, TakeLock, Reread, Begin,
         Evidence, Refuse, Local, Accept, Reject, Store, Dies

LEMMA BeforeNext ==
  ASSUME TypeOK, NEW i \in Steps
  PROVE  /\ Cardinality(Before(i - 1)) \in Nat /\ Cardinality(Before(i)) \in Nat
         /\ Sends(i) => Cardinality(Before(i)) = Cardinality(Before(i - 1)) + 1
         /\ ~Sends(i) => Before(i) = Before(i - 1)
<1>0. i \in Nat /\ i >= 1  BY StepsAre
<1>1. IsFiniteSet(Before(i - 1)) /\ IsFiniteSet(Before(i))
  <2>1. IsFiniteSet(1..(i - 1)) /\ IsFiniteSet(1..i)  BY <1>0, FS_Interval
  <2>2. Before(i - 1) \subseteq 1..(i - 1) /\ Before(i) \subseteq 1..i  BY DEF Before
  <2>3. QED  BY <2>1, <2>2, FS_Subset
<1>2. ASSUME Sends(i) PROVE Before(i) = Before(i - 1) \union {i}
  BY <1>0, <1>2 DEF Before
<1>3. i \notin Before(i - 1)  BY <1>0 DEF Before
<1>4. ASSUME ~Sends(i) PROVE Before(i) = Before(i - 1)
  <2>1. \A j \in 1..i : Sends(j) => j \in 1..(i - 1)  BY <1>0, <1>4
  <2>2. \A j \in 1..(i - 1) : j \in 1..i  BY <1>0
  <2>3. QED  BY <2>1, <2>2 DEF Before
<1>5. QED  BY <1>1, <1>2, <1>3, <1>4, FS_AddElement, FS_CardinalityType

-----------------------------------------------------------------------------
(***************************************************************************)
(* Types.                                                                  *)
(***************************************************************************)
LEMMA TypeInit ==
  ASSUME Init
  PROVE  TypeOK
<1>1. kinds \in Seq(Kinds)
  <2>1. PICK n \in 0..MaxSteps : kinds \in [1..n -> Kinds]  BY DEF Init
  <2>2. n \in Nat  BY PlanAssumption DEF PlanAssumption
  <2>3. QED  BY <2>1, <2>2, SeqDef
<1>2. plan \in PlanType  BY DEF Init, PlanType, Mark, StepStatuses
<1>3. Len(kinds) \in Nat  BY <1>1
<1>4. [at |-> "idle", base |-> 0, revision |-> 0, next |-> 1, plan |-> plan] \in RunType
  BY <1>2, <1>3 DEF RunType, Pcs
<1>5. run \in [Requests -> RunType]  BY <1>4 DEF Init
<1>6. log = <<>> /\ lock = FALSE /\ expired = FALSE /\ mode \in {"plain", "ACT", "ASK"}
  BY DEF Init
<1>7. log \in Seq([by : Requests \union {Nobody}, step : 0..Len(kinds)])  BY <1>6
<1>8. QED  BY <1>1, <1>2, <1>5, <1>6, <1>7 DEF TypeOK

LEMMA DecidedType ==
  ASSUME NEW p \in PlanType, NEW i \in Steps, NEW x \in StepStatuses
  PROVE  /\ Decided(p, i, x) \in PlanType /\ Decided(p, i, x).status = p.status
         /\ Decided(p, i, x).steps[i] = x
         /\ \A j \in Steps \ {i} : Decided(p, i, x).steps[j] = p.steps[j]
  BY DEF Decided, PlanType

\* What a step of e leaves of the requests: e at to, with next and revision,
\* and the plan p; the others as they were.
Moves(e, to, next, revision, p) ==
  /\ run' \in [Requests -> RunType]
  /\ run'[e] = [run[e] EXCEPT !.at = to, !.next = next, !.revision = revision, !.plan = p]
  /\ \A d \in Requests \ {e} : run'[d] = run[d]

LEMMA MoveTyped ==
  ASSUME run \in [Requests -> RunType], NEW e \in Requests, NEW to \in Pcs,
         NEW next \in 1..Len(kinds) + 1, NEW revision \in Nat, NEW p \in PlanType,
         run' = [run EXCEPT ![e] = [run[e] EXCEPT !.at = to, !.next = next,
                                                  !.revision = revision, !.plan = p]]
  PROVE  Moves(e, to, next, revision, p)
<1>1. run[e] \in RunType  OBVIOUS
<1>2. [run[e] EXCEPT !.at = to, !.next = next, !.revision = revision, !.plan = p] \in RunType
  BY <1>1 DEF RunType
<1>3. QED  BY <1>1, <1>2 DEF Moves

\* The fields of a request that moves.
LEMMA Moved ==
  ASSUME TypeOK, NEW e \in Requests, NEW to, NEW next, NEW revision, NEW p,
         Moves(e, to, next, revision, p)
  PROVE  /\ run'[e].at = to /\ run'[e].next = next /\ run'[e].revision = revision
         /\ run'[e].plan = p /\ run'[e].base = run[e].base
  BY DEF Moves, TypeOK, RunType

LEMMA Typed ==
  ASSUME TypeOK, NEW e \in Requests
  PROVE  /\ run[e] \in RunType /\ run[e].at \in Pcs /\ run[e].next \in 1..Len(kinds) + 1
         /\ run[e].base \in Nat /\ run[e].revision \in Nat /\ run[e].plan \in PlanType
         /\ run[e].plan.steps \in [Steps -> StepStatuses]
  BY DEF TypeOK, RunType, PlanType

\* The steps of a request, but for the first: what moves, and what it writes.
Simple(e, from, to) ==
  At(e, from) /\ Moves(e, to, run[e].next, run[e].revision, run[e].plan)
Took(e)     == Simple(e, "lock", "begin") /\ ~lock /\ lock' /\ UNCHANGED <<plan, expired, log>>
Missed(e)   == Simple(e, "lock", "reread") /\ lock /\ lock' /\ UNCHANGED <<plan, expired, log>>
Reread1(e)  == /\ At(e, "reread") /\ Moves(e, "over", run[e].next, run[e].revision, plan)
               /\ UNCHANGED <<plan, lock, expired, log>>
Put(e)      == /\ Simple(e, "touch", "over") \/ Simple(e, "refuse", "over")
               /\ plan' = run[e].plan /\ UNCHANGED <<lock, expired, log>>
Began(e)    == /\ At(e, "begin")
               /\ Moves(e, IF mode = "ACT" THEN "evidence" ELSE "steps",
                        run[e].next, run[e].revision, plan')
               /\ plan' = [run[e].plan EXCEPT !.status = "executing"]
               /\ UNCHANGED <<lock, expired, log>>
Judged(e)   == /\ \/ Simple(e, "evidence", "steps")
                  \/ /\ At(e, "evidence")
                     /\ Moves(e, "refuse", run[e].next, run[e].revision, Refused(run[e].plan))
               /\ UNCHANGED <<plan, lock, expired, log>>
Passed(e)   == /\ At(e, "steps") /\ run[e].next \in Steps /\ ~Sends(run[e].next)
               /\ \E x \in StepStatuses \ {"accepted"} :
                    Moves(e, "steps", run[e].next + 1, run[e].revision,
                          Decided(run[e].plan, run[e].next, x))
               /\ UNCHANGED <<plan, lock, expired, log>>
Accepted(e) == /\ At(e, "steps") /\ run[e].next \in Steps /\ Sends(run[e].next) /\ Current(e)
               /\ Moves(e, "steps", run[e].next + 1, run[e].revision + 1,
                        Decided(run[e].plan, run[e].next, "accepted"))
               /\ log' = Append(log, [by |-> e, step |-> run[e].next])
               /\ UNCHANGED <<plan, lock, expired>>
Rejected(e) == /\ At(e, "steps") /\ run[e].next \in Steps /\ Sends(run[e].next)
               /\ Moves(e, "steps", Len(kinds) + 1, run[e].revision,
                        Decided(run[e].plan, run[e].next, "rejected"))
               /\ UNCHANGED <<plan, lock, expired, log>>
Ended(e)    == /\ At(e, "steps") /\ run[e].next \notin Steps
               /\ Moves(e, "over", run[e].next, run[e].revision, plan')
               /\ plan' = [run[e].plan EXCEPT !.status = Outcome(run[e].plan)]
               /\ UNCHANGED <<lock, expired, log>>
Died(e)     == /\ run[e].at \notin {"idle", "over"}
               /\ Moves(e, "over", run[e].next, run[e].revision, run[e].plan)
               /\ UNCHANGED <<plan, lock, expired, log>>
Asked(e)    == /\ At(e, "idle") /\ UNCHANGED <<plan, lock, expired, log>>
               /\ run' \in [Requests -> RunType] /\ \A d \in Requests \ {e} : run'[d] = run[d]
               /\ run'[e].next = 1 /\ run'[e].revision = run'[e].base
               /\ \/ /\ run'[e].at = "lock" /\ Steps # {} /\ plan.status \notin Final
                     /\ run'[e].plan = plan
                  \/ /\ run'[e].at = "touch" /\ (plan.status \in Final \/ Steps = {})
                     /\ run'[e].plan = Untaken(plan)

LEMMA UntakenType ==
  ASSUME NEW p \in PlanType
  PROVE  Untaken(p) \in PlanType /\ Untaken(p).steps = p.steps
  BY DEF Untaken, PlanType, Final

LEMMA ExecuteMoves ==
  ASSUME TypeOK, NEW e \in Requests, Execute(e)
  PROVE  \/ Asked(e) \/ Took(e) \/ Missed(e) \/ Reread1(e) \/ Put(e) \/ Began(e)
         \/ Judged(e) \/ Passed(e) \/ Accepted(e) \/ Rejected(e) \/ Ended(e) \/ Died(e)
<1> DEFINE r == run[e]
<1>0. /\ r \in RunType /\ r.at \in Pcs /\ r.next \in 1..Len(kinds) + 1
      /\ r.revision \in Nat /\ r.base \in Nat /\ r.plan \in PlanType
      /\ run \in [Requests -> RunType] /\ plan \in PlanType
      /\ Len(kinds) \in Nat /\ Steps = 1..Len(kinds) /\ lock \in BOOLEAN
  BY Typed, StepsAre DEF TypeOK
<1>g. ASSUME NEW to \in Pcs, Goes(e, to) PROVE Moves(e, to, r.next, r.revision, r.plan)
  <2>1. [r EXCEPT !.at = to]
          = [r EXCEPT !.at = to, !.next = r.next, !.revision = r.revision, !.plan = r.plan]
    BY <1>0 DEF RunType
  <2>2. QED  BY <1>0, <1>g, <2>1, MoveTyped DEF Goes
<1>p. ASSUME NEW to \in Pcs, NEW p \in PlanType,
             run' = [run EXCEPT ![e].at = to, ![e].plan = p]
      PROVE  Moves(e, to, r.next, r.revision, p)
  <2>1. [r EXCEPT !.at = to, !.plan = p]
          = [r EXCEPT !.at = to, !.next = r.next, !.revision = r.revision, !.plan = p]
    BY <1>0 DEF RunType
  <2>2. run' = [run EXCEPT ![e] = [r EXCEPT !.at = to, !.plan = p]]  BY <1>0, <1>p
  <2>3. QED  BY <1>0, <2>1, <2>2, MoveTyped
<1>1. CASE Read(e)
  <2>1. PICK base \in 0..Len(log) : run' = [run EXCEPT ![e] =
          [at   |-> IF plan.status \notin Final /\ Steps # {} THEN "lock" ELSE "touch",
           plan |-> IF plan.status \notin Final /\ Steps # {} THEN plan ELSE Untaken(plan),
           base |-> base, revision |-> base, next |-> 1]]
    BY <1>1 DEF Read
  <2>2. base \in Nat  OBVIOUS
  <2>3. [at   |-> IF plan.status \notin Final /\ Steps # {} THEN "lock" ELSE "touch",
         plan |-> IF plan.status \notin Final /\ Steps # {} THEN plan ELSE Untaken(plan),
         base |-> base, revision |-> base, next |-> 1] \in RunType
    BY <1>0, <2>2, UntakenType DEF RunType, Pcs
  <2>4. run' \in [Requests -> RunType] /\ \A d \in Requests \ {e} : run'[d] = run[d]
    BY <1>0, <2>1, <2>3
  <2>5. QED  BY <1>0, <1>1, <2>1, <2>4 DEF Read, Asked
<1>2. CASE Touch(e)  BY <1>2, <1>g DEF Touch, Put, Simple, Pcs
<1>3. CASE TakeLock(e)
  <2>1. CASE lock  BY <1>3, <2>1, <1>g DEF TakeLock, Missed, Simple, Pcs
  <2>2. CASE ~lock  BY <1>3, <2>2, <1>g DEF TakeLock, Took, Simple, Pcs
  <2>3. QED  BY <2>1, <2>2
<1>4. CASE Reread(e)  BY <1>0, <1>4, <1>p DEF Reread, Reread1, Pcs
<1>5. CASE Begin(e)
  <2>1. [r.plan EXCEPT !.status = "executing"] \in PlanType  BY <1>0 DEF PlanType
  <2>2. Moves(e, IF mode = "ACT" THEN "evidence" ELSE "steps", r.next, r.revision, plan')
    <3>1. (IF mode = "ACT" THEN "evidence" ELSE "steps") \in Pcs  BY DEF Pcs
    <3>2. QED  BY <1>5, <2>1, <3>1, <1>p DEF Begin
  <2>3. QED  BY <1>5, <2>2 DEF Begin, Began
<1>6. CASE Evidence(e)
  <2>1. Refused(r.plan) \in PlanType
    BY <1>0 DEF Refused, PlanType, Final, StepStatuses
  <2>2. CASE Goes(e, "steps")  BY <1>6, <2>2, <1>g DEF Evidence, Judged, Simple, Pcs
  <2>3. CASE run' = [run EXCEPT ![e].at = "refuse", ![e].plan = Refused(@)]
    <3>1. run' = [run EXCEPT ![e].at = "refuse", ![e].plan = Refused(r.plan)]
      BY <1>0, <2>3 DEF RunType
    <3>2. QED  BY <1>6, <2>1, <3>1, <1>p DEF Evidence, Judged, Pcs
  <2>4. QED  BY <1>6, <2>2, <2>3 DEF Evidence
<1>7. CASE Refuse(e)  BY <1>7, <1>g DEF Refuse, Put, Simple, Pcs
<1>d. ASSUME NEW x \in StepStatuses, NEW next \in 1..Len(kinds) + 1, NEW revision \in Nat,
             r.next \in Steps, r.at = "steps",
             run' = [run EXCEPT ![e] = [r EXCEPT !.next = next, !.revision = revision,
                                                 !.plan = Decided(r.plan, r.next, x)]]
      PROVE  Moves(e, "steps", next, revision, Decided(r.plan, r.next, x))
  <2>1. Decided(r.plan, r.next, x) \in PlanType  BY <1>0, <1>d, DecidedType
  <2> DEFINE p == Decided(r.plan, r.next, x)
  <2>2. [r EXCEPT !.next = next, !.revision = revision, !.plan = p]
          = [r EXCEPT !.at = "steps", !.next = next, !.revision = revision, !.plan = p]
    BY <1>0, <1>d DEF RunType
  <2>3. "steps" \in Pcs  BY DEF Pcs
  <2>4. QED  BY <1>0, <1>d, <2>1, <2>2, <2>3, MoveTyped
<1>8. CASE Local(e)
  <2> DEFINE x == IF kinds[r.next] = "unknown" THEN "rejected" ELSE "skipped"
  <2>1. x \in StepStatuses /\ x \in StepStatuses \ {"accepted"} /\ r.next + 1 \in 1..Len(kinds) + 1
    BY <1>0, <1>8 DEF Local, StepStatuses
  <2>2. run' = [run EXCEPT ![e] = [r EXCEPT !.next = r.next + 1, !.revision = r.revision,
                                            !.plan = Decided(r.plan, r.next, x)]]
    BY <1>0, <1>8 DEF Local, RunType
  <2>3. Moves(e, "steps", r.next + 1, r.revision, Decided(r.plan, r.next, x))
    BY <1>0, <1>8, <1>d, <2>1, <2>2 DEF Local, At
  <2>4. QED  BY <1>8, <2>1, <2>3 DEF Local, Passed
<1>9. CASE Accept(e)
  <2>1. "accepted" \in StepStatuses /\ r.next + 1 \in 1..Len(kinds) + 1 /\ r.revision + 1 \in Nat
    BY <1>0, <1>9 DEF Accept, StepStatuses
  <2>2. run' = [run EXCEPT ![e] = [r EXCEPT !.next = r.next + 1, !.revision = r.revision + 1,
                                            !.plan = Decided(r.plan, r.next, "accepted")]]
    BY <1>0, <1>9 DEF Accept, RunType
  <2>3. Moves(e, "steps", r.next + 1, r.revision + 1, Decided(r.plan, r.next, "accepted"))
    BY <1>0, <1>9, <1>d, <2>1, <2>2 DEF Accept, At
  <2>4. QED  BY <1>9, <2>3 DEF Accept, Accepted
<1>10. CASE Reject(e)
  <2>1. "rejected" \in StepStatuses /\ Len(kinds) + 1 \in 1..Len(kinds) + 1
    BY <1>0 DEF StepStatuses
  <2>2. run' = [run EXCEPT ![e] = [r EXCEPT !.next = Len(kinds) + 1, !.revision = r.revision,
                                            !.plan = Decided(r.plan, r.next, "rejected")]]
    BY <1>0, <1>10 DEF Reject, RunType
  <2>3. Moves(e, "steps", Len(kinds) + 1, r.revision, Decided(r.plan, r.next, "rejected"))
    BY <1>0, <1>10, <1>d, <2>1, <2>2 DEF Reject, At
  <2>4. QED  BY <1>10, <2>3 DEF Reject, Rejected
<1>11. CASE Store(e)
  <2>1. [r.plan EXCEPT !.status = Outcome(r.plan)] \in PlanType
    BY <1>0 DEF PlanType, Outcome, Final
  <2>2. Moves(e, "over", r.next, r.revision, plan')
    BY <1>11, <2>1, <1>p DEF Store, Pcs
  <2>3. QED  BY <1>11, <2>2 DEF Store, Ended
<1>12. CASE Dies(e)  BY <1>12, <1>g DEF Dies, Died, Pcs
<1>13. QED
  BY <1>1, <1>2, <1>3, <1>4, <1>5, <1>6, <1>7, <1>8, <1>9, <1>10, <1>11, <1>12 DEF Execute

LEMMA TypeStep ==
  ASSUME TypeOK, [Next]_vars
  PROVE  TypeOK'
<1>0. /\ Len(kinds) \in Nat /\ Steps = 1..Len(kinds)
      /\ mode' = mode /\ kinds' = kinds /\ PlanType' = PlanType /\ RunType' = RunType
  BY StepsAre, GateSame, GateStep DEF RunType
<1>s. ASSUME plan' \in PlanType, lock' \in BOOLEAN, expired' \in BOOLEAN,
             log' \in Seq([by : Requests \union {Nobody}, step : 0..Len(kinds)]),
             run' \in [Requests -> RunType]
      PROVE  TypeOK'
  BY <1>0, <1>s DEF TypeOK
<1>t. /\ plan \in PlanType /\ lock \in BOOLEAN /\ expired \in BOOLEAN
      /\ log \in Seq([by : Requests \union {Nobody}, step : 0..Len(kinds)])
      /\ run \in [Requests -> RunType]
  BY DEF TypeOK
<1>1. ASSUME NEW e \in Requests, Execute(e) PROVE TypeOK'
  <2>0. run[e].plan \in PlanType /\ run[e].at \in Pcs  BY Typed
  <2>1. run' \in [Requests -> RunType]
    BY <1>1, ExecuteMoves DEF Asked, Took, Missed, Reread1, Put, Began, Judged, Passed, Accepted,
       Rejected, Ended, Died, Simple, Moves
  <2>2. plan' \in PlanType
    <3>1. CASE plan' = plan  BY <3>1, <1>t
    <3>2. CASE plan' = run[e].plan  BY <3>2, <2>0
    <3>3. CASE plan' = [run[e].plan EXCEPT !.status = "executing"]  BY <3>3, <2>0 DEF PlanType
    <3>4. CASE plan' = [run[e].plan EXCEPT !.status = Outcome(run[e].plan)]
      BY <3>4, <2>0 DEF PlanType, Outcome, Final
    <3>5. QED
      BY <1>1, ExecuteMoves, <3>1, <3>2, <3>3, <3>4 DEF Asked, Took, Missed, Reread1, Put, Began,
         Judged, Passed, Accepted, Rejected, Ended, Died
  <2>3. lock' \in BOOLEAN /\ expired' \in BOOLEAN
    BY <1>1, <1>t, ExecuteMoves DEF Asked, Took, Missed, Reread1, Put, Began, Judged, Passed,
       Accepted, Rejected, Ended, Died
  <2>4. log' \in Seq([by : Requests \union {Nobody}, step : 0..Len(kinds)])
    <3>1. CASE Accepted(e)  BY <3>1, <1>0, <1>t DEF Accepted
    <3>2. CASE ~Accepted(e)
      BY <3>2, <1>1, <1>t, ExecuteMoves DEF Asked, Took, Missed, Reread1, Put, Began, Judged,
         Passed, Rejected, Ended, Died
    <3>3. QED  BY <3>1, <3>2
  <2>5. QED  BY <1>s, <2>1, <2>2, <2>3, <2>4
<1>2. CASE LockExpires  BY <1>2, <1>s, <1>t DEF LockExpires
<1>3. CASE Other  BY <1>3, <1>0, <1>s, <1>t DEF Other
<1>4. CASE UNCHANGED vars  BY <1>4, <1>s, <1>t DEF vars
<1>5. QED  BY <1>1, <1>2, <1>3, <1>4 DEF Next

-----------------------------------------------------------------------------
(***************************************************************************)
(* The log.                                                                *)
(***************************************************************************)
LEMMA LogStep ==
  ASSUME [Next]_vars
  PROVE  log' = log \/ Other \/ \E e \in Requests : Accept(e)
  BY DEF Next, vars, LockExpires, Execute, Read, Touch, TakeLock, Reread, Begin,
         Evidence, Refuse, Local, Reject, Store, Dies

\* An event is never taken away.
LEMMA LogGrows ==
  ASSUME TypeOK, [Next]_vars
  PROVE  /\ Len(log) \in Nat /\ Len(log') \in Nat /\ Len(log') >= Len(log)
         /\ \A k \in 1..Len(log) : log'[k] = log[k]
         /\ \A i : InLog(i) => InLog(i)'
<1>1. Len(log) \in Nat  BY DEF TypeOK
<1>2. Len(log') \in Nat /\ Len(log') >= Len(log) /\ \A k \in 1..Len(log) : log'[k] = log[k]
  <2>t. log \in Seq([by : Requests \union {Nobody}, step : 0..Len(kinds)])  BY DEF TypeOK
  <2>1. CASE log' = log  BY <2>1, <1>1
  <2>2. ASSUME NEW x, log' = Append(log, x)
        PROVE  Len(log') \in Nat /\ Len(log') >= Len(log) /\ \A k \in 1..Len(log) : log'[k] = log[k]
    BY <2>2, <2>t, <1>1
  <2>3. QED  BY LogStep, <2>1, <2>2 DEF Other, Accept
<1>3. \A k \in 1..Len(log) : k \in 1..Len(log')  BY <1>1, <1>2
<1>4. QED  BY <1>1, <1>2, <1>3 DEF InLog

LEMMA PlaceStep ==
  ASSUME TypeOK, PlaceInv, AppliedOnBase, [Next]_vars
  PROVE  PlaceInv' /\ AppliedOnBase'
<1>0. /\ Len(kinds) \in Nat /\ Steps = 1..Len(kinds) /\ Steps' = Steps
      /\ \A i : Before(i)' = Before(i)
      /\ \A e \in Requests : run[e].base \in Nat /\ run[e].revision \in Nat
  BY StepsAre, GateSame, GateStep, Typed
<1>l. /\ Len(log) \in Nat
      /\ \A k \in 1..Len(log) : log[k].step \in 0..Len(kinds)
  <2>1. log \in Seq([by : Requests \union {Nobody}, step : 0..Len(kinds)])  BY DEF TypeOK
  <2>2. \A k \in 1..Len(log) : log[k] \in [by : Requests \union {Nobody}, step : 0..Len(kinds)]
    BY <2>1, ElementOfSeq
  <2>3. QED  BY <2>1, <2>2
<1>s. ASSUME log' = log,
             \A e \in Requests : run'[e].at = run[e].at /\ run'[e].next = run[e].next
                                /\ run'[e].revision = run[e].revision /\ run'[e].base = run[e].base
      PROVE  PlaceInv' /\ AppliedOnBase'
  BY <1>0, <1>s DEF PlaceInv, AppliedOnBase
<1>m. ASSUME NEW e \in Requests, run[e].at # "idle", run'[e].at # "idle", log' = log,
             run'[e].base = run[e].base,
             \A d \in Requests \ {e} : run'[d] = run[d],
             run'[e].next \in Steps =>
               run'[e].revision = run'[e].base + Cardinality(Before(run'[e].next - 1))
      PROVE  PlaceInv' /\ AppliedOnBase'
  <2>1. \A d \in Requests : run'[d].base = run[d].base  BY <1>m
  <2>2. PlaceInv'  BY <1>0, <1>m DEF PlaceInv
  <2>3. AppliedOnBase'  BY <1>0, <1>m, <2>1 DEF AppliedOnBase
  <2>4. QED  BY <2>2, <2>3
<1>1. ASSUME NEW e \in Requests, Execute(e) PROVE PlaceInv' /\ AppliedOnBase'
  <2>1. CASE Asked(e)
    <3>1. \A k \in 1..Len(log) : log[k].by # e  BY <1>1, <2>1 DEF Asked, At, PlaceInv
    <3>2. Before(0) = {}  BY DEF Before
    <3>3. Cardinality({}) = 0  BY FS_EmptySet
    <3>4. run'[e].base \in Nat  BY <2>1 DEF Asked, RunType
    <3>5. PlaceInv'
      <4>1. run'[e].next - 1 = 0 /\ run'[e].revision = run'[e].base + 0
        BY <2>1, <3>4 DEF Asked
      <4>2. run'[e].revision = run'[e].base + Cardinality(Before(run'[e].next - 1))
        BY <3>2, <3>3, <4>1
      <4>3. log' = log /\ \A d \in Requests \ {e} : run'[d] = run[d]  BY <2>1 DEF Asked
      <4>4. \A k \in 1..Len(log) : log[k].by \in Requests => run'[log[k].by].at # "idle"
        BY <3>1, <4>3 DEF PlaceInv
      <4>5. \A d \in Requests : run'[d].next \in Steps =>
              run'[d].revision = run'[d].base + Cardinality(Before(run'[d].next - 1))
        BY <4>2, <4>3 DEF PlaceInv
      <4>6. QED  BY <1>0, <4>3, <4>4, <4>5 DEF PlaceInv
    <3>6. AppliedOnBase'  BY <1>0, <2>1, <3>1 DEF Asked, AppliedOnBase
    <3>7. QED  BY <3>5, <3>6
  <2>2. CASE Took(e) \/ Missed(e) \/ Reread1(e) \/ Put(e) \/ Began(e) \/ Judged(e) \/ Ended(e) \/ Died(e)
    <3>1. /\ run[e].at # "idle" /\ run'[e].at # "idle" /\ log' = log
          /\ run'[e].base = run[e].base /\ run'[e].next = run[e].next
          /\ run'[e].revision = run[e].revision
          /\ \A d \in Requests \ {e} : run'[d] = run[d]
      <4>1. \E to \in Pcs \ {"idle"} : \E p : Moves(e, to, run[e].next, run[e].revision, p)
        BY <2>2 DEF Took, Missed, Reread1, Put, Began, Judged, Ended, Died, Simple, Pcs
      <4>a. PICK to \in Pcs \ {"idle"} :
               \E p : Moves(e, to, run[e].next, run[e].revision, p)
        BY <4>1
      <4>2. PICK p : Moves(e, to, run[e].next, run[e].revision, p)
        BY <4>a
      <4>3. run'[e].at = to /\ run'[e].next = run[e].next /\ run'[e].revision = run[e].revision
            /\ run'[e].base = run[e].base
        BY <4>2, Moved
      <4>4. \A d \in Requests \ {e} : run'[d] = run[d]  BY <4>2 DEF Moves
      <4>5. run[e].at # "idle" /\ log' = log
        BY <2>2 DEF Took, Missed, Reread1, Put, Began, Judged, Ended, Died, Simple, At
      <4>6. QED  BY <4>3, <4>4, <4>5
    <3>2. QED  BY <3>1, <1>m DEF PlaceInv
  <2>3. CASE Passed(e)
    <3>1. PICK x \in StepStatuses \ {"accepted"} :
            Moves(e, "steps", run[e].next + 1, run[e].revision, Decided(run[e].plan, run[e].next, x))
      BY <2>3 DEF Passed
    <3>2. /\ run'[e].at = "steps" /\ run'[e].next = run[e].next + 1
          /\ run'[e].revision = run[e].revision /\ run'[e].base = run[e].base
      BY <3>1, Moved
    <3>3. \A d \in Requests \ {e} : run'[d] = run[d]  BY <3>1 DEF Moves
    <3>4. run'[e].next - 1 = run[e].next /\ Before(run[e].next) = Before(run[e].next - 1)
      BY <1>0, <2>3, <3>2, BeforeNext DEF Passed
    <3>5. run[e].at # "idle" /\ log' = log /\ run[e].next \in Steps  BY <2>3 DEF Passed, At
    <3>6. run[e].revision = run[e].base + Cardinality(Before(run[e].next - 1))
      BY <3>5 DEF PlaceInv
    <3>7. QED  BY <1>m, <3>2, <3>3, <3>4, <3>5, <3>6
  <2>4. CASE Accepted(e)
    <3>2. /\ run'[e].at = "steps" /\ run'[e].next = run[e].next + 1
          /\ run'[e].revision = run[e].revision + 1 /\ run'[e].base = run[e].base
      BY <2>4, Moved DEF Accepted
    <3>3. \A d \in Requests \ {e} : run'[d] = run[d]  BY <2>4 DEF Accepted, Moves
    <3>4. /\ run[e].next \in Steps /\ Sends(run[e].next) /\ run[e].revision = Len(log)
          /\ run[e].at = "steps" /\ log' = Append(log, [by |-> e, step |-> run[e].next])
      BY <2>4 DEF Accepted, At, Current
    <3>5. /\ Cardinality(Before(run[e].next - 1)) \in Nat
          /\ Cardinality(Before(run[e].next)) = Cardinality(Before(run[e].next - 1)) + 1
      BY <3>4, BeforeNext
    <3>6. run[e].revision = run[e].base + Cardinality(Before(run[e].next - 1))
      BY <3>4 DEF PlaceInv
    <3>7. run'[e].next - 1 = run[e].next  BY <1>0, <3>2, <3>4
    <3>8. /\ Len(log') = Len(log) + 1 /\ log'[Len(log) + 1] = [by |-> e, step |-> run[e].next]
          /\ \A k \in 1..Len(log) : log'[k] = log[k]
      BY <3>4 DEF TypeOK
    <3>9. \A d \in Requests : run'[d].base = run[d].base  BY <3>2, <3>3
    <3>10. PlaceInv'
      <4>1. \A d \in Requests : run'[d].next \in Steps =>
              run'[d].revision = run'[d].base + Cardinality(Before(run'[d].next - 1))
        <5>1. run'[e].revision = run'[e].base + Cardinality(Before(run'[e].next - 1))
          BY <1>0, <3>2, <3>5, <3>6, <3>7
        <5>2. QED  BY <5>1, <3>3 DEF PlaceInv
      <4>2. \A k \in 1..Len(log') : log'[k].by \in Requests => run'[log'[k].by].at # "idle"
        <5>1. \A k \in 1..Len(log) : log'[k].by \in Requests => run'[log'[k].by].at # "idle"
          BY <3>2, <3>3, <3>8 DEF PlaceInv
        <5>2. run'[log'[Len(log) + 1].by].at # "idle"  BY <3>2, <3>8
        <5>3. QED  BY <1>l, <3>8, <5>1, <5>2
      <4>3. QED  BY <1>0, <4>1, <4>2 DEF PlaceInv
    <3>11. AppliedOnBase'
      <4>1. \A k \in 1..Len(log) : log'[k].by \in Requests =>
              k = run'[log'[k].by].base + Cardinality(Before(log'[k].step))
        BY <3>8, <3>9 DEF AppliedOnBase
      <4>2. Len(log) + 1 = run'[e].base + Cardinality(Before(run[e].next))
        BY <1>0, <3>2, <3>4, <3>5, <3>6
      <4>3. QED  BY <1>0, <1>l, <3>8, <4>1, <4>2 DEF AppliedOnBase
    <3>12. QED  BY <3>10, <3>11
  <2>5. CASE Rejected(e)
    <3>2. /\ run'[e].at = "steps" /\ run'[e].next = Len(kinds) + 1 /\ run'[e].base = run[e].base
      BY <2>5, Moved DEF Rejected
    <3>3. \A d \in Requests \ {e} : run'[d] = run[d]  BY <2>5 DEF Rejected, Moves
    <3>4. run[e].at # "idle" /\ log' = log  BY <2>5 DEF Rejected, At
    <3>5. run'[e].next \notin Steps  BY <1>0, <3>2
    <3>6. QED  BY <1>m, <3>2, <3>3, <3>4, <3>5
  <2>6. QED  BY <1>1, <2>1, <2>2, <2>3, <2>4, <2>5, ExecuteMoves
<1>2. CASE LockExpires  BY <1>2, <1>s DEF LockExpires
<1>3. CASE Other
  <2>1. /\ Len(log') = Len(log) + 1 /\ log'[Len(log) + 1].by = Nobody /\ run' = run
        /\ \A k \in 1..Len(log) : log'[k] = log[k]
    BY <1>3 DEF Other, TypeOK
  <2>2. Nobody \notin Requests  BY PlanAssumption DEF PlanAssumption
  <2>3. PlaceInv'  BY <1>0, <1>l, <2>1, <2>2 DEF PlaceInv
  <2>4. AppliedOnBase'  BY <1>0, <1>l, <2>1, <2>2 DEF AppliedOnBase
  <2>5. QED  BY <2>3, <2>4
<1>4. CASE UNCHANGED vars  BY <1>4, <1>s DEF vars
<1>5. QED  BY <1>1, <1>2, <1>3, <1>4 DEF Next

-----------------------------------------------------------------------------
(***************************************************************************)
(* What a request does to the others, and to the marks of the steps.       *)
(***************************************************************************)
LEMMA Others ==
  ASSUME TypeOK, NEW e \in Requests, Execute(e)
  PROVE  \A d \in Requests \ {e} : run'[d] = run[d]
  BY ExecuteMoves DEF Asked, Took, Missed, Reread1, Put, Began, Judged, Passed, Accepted,
     Rejected, Ended, Died, Simple, Moves

LEMMA Marked ==
  ASSUME TypeOK, NEW e \in Requests, run[e].next \in Steps, NEW x \in StepStatuses,
         NEW next, NEW revision,
         Moves(e, "steps", next, revision, Decided(run[e].plan, run[e].next, x))
  PROVE  /\ run'[e].at = "steps" /\ run'[e].next = next
         /\ run'[e].plan.status = run[e].plan.status
         /\ run'[e].plan.steps[run[e].next] = x
         /\ \A j \in Steps \ {run[e].next} : run'[e].plan.steps[j] = run[e].plan.steps[j]
<1>1. run[e].plan \in PlanType  BY Typed
<1>2. run'[e].plan = Decided(run[e].plan, run[e].next, x)  BY Moved
<1>3. run'[e].at = "steps" /\ run'[e].next = next  BY Moved
<1>4. /\ Decided(run[e].plan, run[e].next, x).status = run[e].plan.status
      /\ Decided(run[e].plan, run[e].next, x).steps[run[e].next] = x
      /\ \A j \in Steps \ {run[e].next} :
           Decided(run[e].plan, run[e].next, x).steps[j] = run[e].plan.steps[j]
  BY <1>1, DecidedType
<1>5. QED  BY <1>2, <1>3, <1>4

LEMMA MarkedPassed ==
  ASSUME TypeOK, NEW e \in Requests, Passed(e)
  PROVE  /\ run[e].next \in Steps /\ ~Sends(run[e].next)
         /\ run'[e].at = "steps" /\ run'[e].next = run[e].next + 1
         /\ run'[e].plan.status = run[e].plan.status
         /\ run'[e].plan.steps[run[e].next] # "accepted"
         /\ \A j \in Steps \ {run[e].next} : run'[e].plan.steps[j] = run[e].plan.steps[j]
<1>1. run[e].next \in Steps /\ ~Sends(run[e].next)  BY DEF Passed
<1>2. ASSUME NEW x \in StepStatuses,
             Moves(e, "steps", run[e].next + 1, run[e].revision,
                   Decided(run[e].plan, run[e].next, x))
      PROVE  /\ run'[e].at = "steps" /\ run'[e].next = run[e].next + 1
             /\ run'[e].plan.status = run[e].plan.status
             /\ run'[e].plan.steps[run[e].next] = x
             /\ \A j \in Steps \ {run[e].next} : run'[e].plan.steps[j] = run[e].plan.steps[j]
  BY <1>1, <1>2, Marked
<1>3. QED  BY <1>1, <1>2 DEF Passed

LEMMA WalkStep ==
  ASSUME TypeOK, WalkInv, [Next]_vars
  PROVE  WalkInv'
<1>0. /\ Len(kinds) \in Nat /\ Steps = 1..Len(kinds) /\ Steps' = Steps
      /\ \A i : Sends(i)' <=> Sends(i)
      /\ \A e \in Requests : run[e].next \in 1..Len(kinds) + 1 /\ run[e].plan \in PlanType
  BY StepsAre, GateSame, GateStep, Typed
<1> DEFINE Walked(next, p) ==
       \/ \E j \in Steps : j < next /\ p.steps[j] = "rejected"
       \/ \A j \in Steps : j < next /\ Sends(j) => p.steps[j] = "accepted"
<1>s. ASSUME NEW e \in Requests, \A d \in Requests \ {e} : run'[d] = run[d],
             run'[e].at \in {"lock", "begin", "evidence"} => run'[e].next = 1,
             run'[e].at = "steps" => Walked(run'[e].next, run'[e].plan)
      PROVE  WalkInv'
  BY <1>0, <1>s DEF WalkInv
<1>1. ASSUME NEW e \in Requests, Execute(e) PROVE WalkInv'
  <2>o. \A d \in Requests \ {e} : run'[d] = run[d]  BY <1>1, Others
  <2> DEFINE i == run[e].next
  <2>t. i \in 1..Len(kinds) + 1 /\ run[e].plan \in PlanType  BY <1>0
  <2>w. /\ run[e].at = "steps" => Walked(i, run[e].plan)
        /\ run[e].at \in {"lock", "begin", "evidence"} => i = 1
    BY DEF WalkInv
  <2>1. CASE Asked(e)  BY <2>1, <2>o, <1>s DEF Asked
  <2>2. CASE Missed(e) \/ Reread1(e) \/ Put(e) \/ Ended(e) \/ Died(e)
    <3>1. run'[e].at \in {"reread", "over"}
      BY <2>2, Moved DEF Missed, Reread1, Put, Ended, Died, Simple
    <3>2. QED  BY <3>1, <2>o, <1>s
  <2>3. CASE Took(e) \/ Began(e) \/ Judged(e)
    <3>1. run'[e].next = i /\ i = 1
      BY <2>3, <2>w, Moved DEF Took, Began, Judged, Simple, At
    <3>2. Walked(1, run'[e].plan)  BY <1>0
    <3>3. QED  BY <3>1, <3>2, <2>o, <1>s
  <2>4. CASE Passed(e)
    <3>2. i \in Steps /\ ~Sends(i) /\ Walked(i, run[e].plan)  BY <2>4, <2>w DEF Passed, At
    <3>4. /\ run'[e].at = "steps" /\ run'[e].next = i + 1
          /\ \A j \in Steps \ {i} : run'[e].plan.steps[j] = run[e].plan.steps[j]
      BY <2>4, MarkedPassed
    <3>5. Walked(i + 1, run'[e].plan)  BY <1>0, <3>2, <3>4
    <3>6. QED  BY <3>4, <3>5, <2>o, <1>s
  <2>5. CASE Accepted(e)
    <3>2. i \in Steps /\ Walked(i, run[e].plan)  BY <2>5, <2>w DEF Accepted, At
    <3>3. "accepted" \in StepStatuses  BY DEF StepStatuses
    <3>4. /\ run'[e].at = "steps" /\ run'[e].next = i + 1
          /\ run'[e].plan.steps[i] = "accepted"
          /\ \A j \in Steps \ {i} : run'[e].plan.steps[j] = run[e].plan.steps[j]
      BY <2>5, <3>2, <3>3, Marked DEF Accepted
    <3>5. Walked(i + 1, run'[e].plan)  BY <1>0, <3>2, <3>4
    <3>6. QED  BY <3>4, <3>5, <2>o, <1>s
  <2>6. CASE Rejected(e)
    <3>2. i \in Steps  BY <2>6 DEF Rejected
    <3>3. "rejected" \in StepStatuses  BY DEF StepStatuses
    <3>4. /\ run'[e].at = "steps" /\ run'[e].next = Len(kinds) + 1
          /\ run'[e].plan.steps[i] = "rejected"
      BY <2>6, <3>2, <3>3, Marked DEF Rejected
    <3>5. Walked(Len(kinds) + 1, run'[e].plan)  BY <1>0, <3>2, <3>4
    <3>6. QED  BY <3>4, <3>5, <2>o, <1>s
  <2>7. QED  BY <1>1, <2>1, <2>2, <2>3, <2>4, <2>5, <2>6, ExecuteMoves
<1>2. CASE LockExpires \/ Other \/ UNCHANGED vars
  BY <1>2, <1>0 DEF LockExpires, Other, vars, WalkInv
<1>3. QED  BY <1>1, <1>2 DEF Next

LEMMA EmptyStep ==
  ASSUME TypeOK, EmptyInv, [Next]_vars
  PROVE  EmptyInv'
<1>0. Steps' = Steps  BY GateSame, GateStep
<1>1. ASSUME NEW e \in Requests, Execute(e), Steps = {}
      PROVE  run'[e].at \in {"idle", "touch", "over"}
  <2>1. run[e].at \in {"idle", "touch", "over"}  BY <1>1 DEF EmptyInv
  <2>2. CASE Asked(e)  BY <1>1, <2>2 DEF Asked
  <2>3. CASE Put(e) \/ Died(e)  BY <2>3, Moved DEF Put, Died, Simple
  <2>4. ~(\/ Took(e) \/ Missed(e) \/ Reread1(e) \/ Began(e) \/ Judged(e) \/ Passed(e)
          \/ Accepted(e) \/ Rejected(e) \/ Ended(e))
    BY <2>1 DEF Took, Missed, Reread1, Began, Judged, Passed, Accepted, Rejected, Ended,
       Simple, At
  <2>5. QED  BY <1>1, <2>2, <2>3, <2>4, ExecuteMoves
<1>2. ASSUME NEW e \in Requests, Execute(e) PROVE EmptyInv'
  BY <1>0, <1>1, <1>2, Others DEF EmptyInv
<1>3. CASE LockExpires \/ Other \/ UNCHANGED vars
  BY <1>0, <1>3 DEF LockExpires, Other, vars, EmptyInv
<1>4. QED  BY <1>2, <1>3 DEF Next

-----------------------------------------------------------------------------
(***************************************************************************)
(* What a stored plan, or the copy of one, says was done.                  *)
(***************************************************************************)
TrueOf(p) ==
  /\ \A i \in Steps : p.steps[i] = "accepted" => InLog(i)
  /\ p.status = "completed" => \A i \in Steps : Sends(i) => InLog(i)

\* OutcomeTrue says in full which commands a completed plan has in the log; these
\* are the steps that are sent.
LEMMA SendsAre ==
  \A i \in Steps :
    Sends(i) <=> \/ kinds[i] = "note"
                 \/ kinds[i] = "edit" /\ ~ \E j \in Steps : j > i /\ kinds[j] \in {"edit", "transport"}
  BY DEF Sends, Mutates

\* The same after the step.
TrueThen(p) ==
  /\ \A i \in Steps : p.steps[i] = "accepted" => InLog(i)'
  /\ p.status = "completed" => \A i \in Steps : Sends(i) => InLog(i)'

LEMMA TruthKept ==
  ASSUME TypeOK, [Next]_vars, NEW p, TrueOf(p)
  PROVE  TrueThen(p)
  BY LogGrows DEF TrueOf, TrueThen

LEMMA TruthAfter ==
  ASSUME TypeOK, [Next]_vars, TrueThen(plan'), \A e \in Requests : TrueThen(run'[e].plan)
  PROVE  OutcomeTrue'
<1>1. Steps' = Steps /\ kinds' = kinds  BY GateSame, GateStep
<1>2. QED  BY <1>1, SendsAre DEF OutcomeTrue, TrueThen

LEMMA TruthOfCopies ==
  ASSUME NEW p \in PlanType, TrueOf(p)
  PROVE  /\ TrueOf(Untaken(p)) /\ TrueOf(Refused(p))
         /\ TrueOf([p EXCEPT !.status = "executing"])
         /\ (Outcome(p) = "completed" => \A i \in Steps : Sends(i) => InLog(i))
              => TrueOf([p EXCEPT !.status = Outcome(p)])
<1>1. TrueOf(Untaken(p))  BY DEF TrueOf, Untaken, PlanType, Final
<1>2. TrueOf(Refused(p))  BY DEF TrueOf, Refused, PlanType
<1>3. TrueOf([p EXCEPT !.status = "executing"])  BY DEF TrueOf, PlanType
<1>4. ASSUME Outcome(p) = "completed" => \A i \in Steps : Sends(i) => InLog(i)
      PROVE  TrueOf([p EXCEPT !.status = Outcome(p)])
  <2> DEFINE o == Outcome(p)
  <2>1. o = "completed" => \A i \in Steps : Sends(i) => InLog(i)  BY <1>4
  <2> HIDE DEF o
  <2>2. TrueOf([p EXCEPT !.status = o])  BY <2>1 DEF TrueOf, PlanType
  <2>3. QED  BY <2>2 DEF o
<1>5. QED  BY <1>1, <1>2, <1>3, <1>4

LEMMA OutcomeStep ==
  ASSUME TypeOK, WalkInv, OutcomeTrue, [Next]_vars
  PROVE  OutcomeTrue'
<1>0. TrueOf(plan) /\ \A e \in Requests : TrueOf(run[e].plan)
  BY SendsAre DEF OutcomeTrue, TrueOf
<1>t. /\ Len(kinds) \in Nat /\ Steps = 1..Len(kinds) /\ plan \in PlanType
      /\ \A e \in Requests : run[e].next \in 1..Len(kinds) + 1 /\ run[e].plan \in PlanType
  BY StepsAre, Typed DEF TypeOK
<1>1. ASSUME NEW e \in Requests, Execute(e) PROVE OutcomeTrue'
  <2> DEFINE c == run[e].plan
  <2>s. ASSUME TrueThen(plan'), TrueThen(run'[e].plan) PROVE OutcomeTrue'
    <3>1. \A d \in Requests \ {e} : run'[d] = run[d]  BY <1>1, Others
    <3>2. \A d \in Requests \ {e} : TrueThen(run[d].plan)  BY <1>0, TruthKept
    <3>3. \A d \in Requests : TrueThen(run'[d].plan)  BY <3>1, <3>2, <2>s
    <3>4. QED  BY <2>s, <3>3, TruthAfter
  <2>k. TrueThen(plan) /\ TrueThen(c)  BY <1>0, TruthKept
  <2>c. /\ TrueOf(Untaken(plan)) /\ TrueOf(Refused(c))
        /\ TrueOf([c EXCEPT !.status = "executing"])
    BY <1>0, <1>t, TruthOfCopies
  <2>1. CASE Asked(e)
    <3>1. TrueThen(Untaken(plan))  BY <2>c, TruthKept
    <3>2. QED  BY <2>1, <2>k, <2>s, <3>1 DEF Asked
  <2>2. CASE Took(e) \/ Missed(e) \/ Died(e)
    <3>1. plan' = plan /\ run'[e].plan = c  BY <2>2, Moved DEF Took, Missed, Died, Simple
    <3>2. QED  BY <3>1, <2>k, <2>s
  <2>3. CASE Reread1(e)
    <3>1. plan' = plan /\ run'[e].plan = plan  BY <2>3, Moved DEF Reread1
    <3>2. QED  BY <3>1, <2>k, <2>s
  <2>4. CASE Put(e)
    <3>1. plan' = c /\ run'[e].plan = c  BY <2>4, Moved DEF Put, Simple
    <3>2. QED  BY <3>1, <2>k, <2>s
  <2>5. CASE Began(e)
    <3>1. plan' = [c EXCEPT !.status = "executing"] /\ run'[e].plan = plan'
      BY <2>5, Moved DEF Began
    <3>2. TrueThen([c EXCEPT !.status = "executing"])  BY <2>c, TruthKept
    <3>3. TrueThen(plan')  BY <3>1, <3>2
    <3>4. QED  BY <3>1, <3>3, <2>s
  <2>6. CASE Judged(e)
    <3>1. plan' = plan /\ (run'[e].plan = c \/ run'[e].plan = Refused(c))
      BY <2>6, Moved DEF Judged, Simple
    <3>2. TrueThen(Refused(c))  BY <2>c, TruthKept
    <3>3. QED  BY <3>1, <3>2, <2>k, <2>s
  <2>7. CASE Passed(e)
    <3>1. TrueThen(run'[e].plan)  BY <2>7, <2>k, MarkedPassed DEF TrueThen
    <3>2. plan' = plan  BY <2>7 DEF Passed
    <3>3. QED  BY <3>1, <3>2, <2>k, <2>s
  <2>8. CASE Accepted(e)
    <3> DEFINE i == run[e].next
    <3>1. /\ run'[e].plan.status = c.status
          /\ \A j \in Steps \ {i} : run'[e].plan.steps[j] = c.steps[j]
      BY <2>8, Marked DEF Accepted, StepStatuses
    <3>2. ASSUME NEW j \in Steps, j = i PROVE InLog(j)'
      <4>1. log' = Append(log, [by |-> e, step |-> i]) /\ Len(log) \in Nat
        BY <2>8 DEF Accepted, TypeOK
      <4>2. Len(log') = Len(log) + 1 /\ log'[Len(log) + 1].step = j
        BY <3>2, <4>1 DEF TypeOK
      <4>3. Len(log) + 1 \in 1..Len(log')  BY <4>1, <4>2
      <4>4. QED  BY <4>2, <4>3 DEF InLog
    <3>3. TrueThen(run'[e].plan)  BY <3>1, <3>2, <2>k DEF TrueThen
    <3>4. plan' = plan  BY <2>8 DEF Accepted
    <3>5. QED  BY <3>3, <3>4, <2>k, <2>s
  <2>9. CASE Rejected(e)
    <3>1. /\ run'[e].plan.status = c.status /\ run'[e].plan.steps[run[e].next] = "rejected"
          /\ \A j \in Steps \ {run[e].next} : run'[e].plan.steps[j] = c.steps[j]
      BY <2>9, Marked DEF Rejected, StepStatuses
    <3>2. TrueThen(run'[e].plan)  BY <3>1, <2>k DEF TrueThen
    <3>3. plan' = plan  BY <2>9 DEF Rejected
    <3>4. QED  BY <3>2, <3>3, <2>k, <2>s
  <2>10. CASE Ended(e)
    <3>1. Outcome(c) = "completed" => \A j \in Steps : c.steps[j] # "rejected"
      BY DEF Outcome, Some
    <3>2. /\ run[e].at = "steps"
          /\ \A j \in Steps : j < run[e].next
      BY <2>10, <1>t DEF Ended, At
    <3>3. Outcome(c) = "completed" => \A j \in Steps : Sends(j) => c.steps[j] = "accepted"
      BY <3>1, <3>2 DEF WalkInv
    <3>4. Outcome(c) = "completed" => \A j \in Steps : Sends(j) => InLog(j)
      BY <1>0, <3>3 DEF TrueOf
    <3>5. TrueOf([c EXCEPT !.status = Outcome(c)])  BY <1>0, <1>t, <3>4, TruthOfCopies
    <3>6. TrueThen([c EXCEPT !.status = Outcome(c)])  BY <3>5, TruthKept
    <3>7. run'[e].plan = plan' /\ plan' = [c EXCEPT !.status = Outcome(c)]
      BY <2>10, Moved DEF Ended
    <3>8. QED  BY <3>6, <3>7, <2>s
  <2>11. QED
    BY <1>1, <2>1, <2>2, <2>3, <2>4, <2>5, <2>6, <2>7, <2>8, <2>9, <2>10, ExecuteMoves
<1>2. CASE LockExpires \/ Other \/ UNCHANGED vars
  <2>1. plan' = plan /\ run' = run  BY <1>2 DEF LockExpires, Other, vars
  <2>2. TrueThen(plan) /\ \A e \in Requests : TrueThen(run[e].plan)  BY <1>0, TruthKept
  <2>3. QED  BY <2>1, <2>2, TruthAfter
<1>3. QED  BY <1>1, <1>2 DEF Next

-----------------------------------------------------------------------------
(***************************************************************************)
(* One execution past the lock.                                            *)
(***************************************************************************)
StoredThen(p) == p.status \in Final =>
  (lock' \/ Steps = {}) /\ (\A e \in Requests : run'[e].at \notin Inside)
  /\ \A i \in Steps : InLog(i)' => p.steps[i] = "accepted"

LEMMA LockAfter ==
  ASSUME Steps' = Steps,
         \A d, e \in Requests : run'[d].at \in Inside /\ run'[e].at \in Inside => d = e,
         \A e \in Requests : run'[e].at \in Inside => lock',
         ~lock' => \A i \in Steps : ~InLog(i)',
         \A e \in Requests : run'[e].at \in Inside \ {"steps"} =>
           \A i \in Steps : ~InLog(i)',
         \A e \in Requests : run'[e].at = "steps" => \A i \in Steps : InLog(i)' =>
           run'[e].plan.steps[i] = "accepted" /\ i < run'[e].next,
         StoredThen(plan'),
         \A e \in Requests : run'[e].at = "touch" => StoredThen(run'[e].plan)
  PROVE  LockInv'
<1>1. OneInside'  BY DEF OneInside, Inside
<1>2. Holding'  BY DEF Holding, Inside, Shows
<1>3. FinalInv'  BY DEF FinalInv, Stored, StoredThen, Inside, Final, Shows
<1>4. QED  BY <1>1, <1>2, <1>3 DEF LockInv

LEMMA NoStepsLock ==
  ASSUME Steps' = {}, EmptyInv', TypeOK'
  PROVE  LockInv'
<1>1. \A e \in Requests : run'[e].at \in {"idle", "touch", "over"}  BY DEF EmptyInv
<1>2. OneInside'  BY <1>1 DEF OneInside, Inside
<1>3. Holding'  BY <1>1 DEF Holding, Inside
<1>4. FinalInv'  BY <1>1 DEF FinalInv, Stored, Inside, Shows
<1>5. QED  BY <1>2, <1>3, <1>4 DEF LockInv

\* A request that is past the lock before and after its step, or now gets it.
LEMMA LockHeld ==
  ASSUME TypeOK, FinalInv, NEW e \in Requests, Steps' = Steps, Steps # {},
         \A d \in Requests \ {e} : run'[d] = run[d] /\ run[d].at \notin Inside,
         run[e].at \in Inside \/ ~lock, lock',
         run'[e].at \in Inside,
         plan' = plan \/ plan'.status \notin Final,
         run'[e].at # "steps" => \A i \in Steps : ~InLog(i)',
         run'[e].at = "steps" => \A i \in Steps : InLog(i)' =>
           run'[e].plan.steps[i] = "accepted" /\ i < run'[e].next
  PROVE  LockInv'
<1>1. \A p : Stored(p) => p.status \notin Final  BY DEF Stored
<1>2. plan'.status \notin Final  BY <1>1 DEF FinalInv
<1>3. \A d \in Requests : run'[d].at = "touch" => run'[d].plan.status \notin Final
  BY <1>1 DEF FinalInv, Inside
<1>4. StoredThen(plan') /\ \A d \in Requests : run'[d].at = "touch" => StoredThen(run'[d].plan)
  BY <1>2, <1>3 DEF StoredThen
<1>5. \A d \in Requests : run'[d].at = "steps" => run'[d].at \in Inside  BY DEF Inside
<1>6. \A d \in Requests \ {e} : run'[d].at \notin Inside  OBVIOUS
<1>7. QED  BY <1>4, <1>5, <1>6, LockAfter

\* A request that is not past the lock after its step.
LEMMA LockLeft ==
  ASSUME TypeOK, OneInside, Holding, FinalInv, NEW e \in Requests, Steps' = Steps,
         \A d \in Requests \ {e} : run'[d] = run[d], log' = log, lock => lock',
         run'[e].at \notin Inside,
         StoredThen(plan'), run'[e].at = "touch" => StoredThen(run'[e].plan)
  PROVE  LockInv'
<1>1. \A i : InLog(i)' <=> InLog(i)  BY DEF InLog
<1>2. \A d \in Requests : run'[d].at \in Inside => run'[d] = run[d]  OBVIOUS
<1>3. \A d \in Requests : run'[d].at = "steps" => run'[d] = run[d]  BY DEF Inside
<1>4. \A d \in Requests : run'[d].at = "touch" => StoredThen(run'[d].plan)
  <2>1. \A p : Stored(p) => StoredThen(p)  BY <1>1, <1>2 DEF Stored, StoredThen, Shows
  <2>2. QED  BY <2>1 DEF FinalInv
<1>5. \A d, f \in Requests : run'[d].at \in Inside /\ run'[f].at \in Inside => d = f
  BY <1>2 DEF OneInside
<1>6. \A d \in Requests : run'[d].at \in Inside => lock'  BY <1>2 DEF Holding
<1>7. ~lock' => \A i \in Steps : ~InLog(i)'  BY <1>1 DEF Holding
<1>8. \A d \in Requests : run'[d].at \in Inside \ {"steps"} => \A i \in Steps : ~InLog(i)'
  BY <1>1, <1>2 DEF Holding
<1>9. \A d \in Requests : run'[d].at = "steps" => \A i \in Steps : InLog(i)' =>
        run'[d].plan.steps[i] = "accepted" /\ i < run'[d].next
  BY <1>1, <1>3 DEF Holding, Shows
<1>10. QED  BY <1>4, <1>5, <1>6, <1>7, <1>8, <1>9, LockAfter

LEMMA LockExecute ==
  ASSUME TypeOK, OneInside, Holding, FinalInv, Steps # {}, Steps' = Steps,
         NEW e \in Requests, Execute(e)
  PROVE  LockInv'
<1> DEFINE c == run[e].plan
<1>o. \A d \in Requests \ {e} : run'[d] = run[d]  BY Others
<1>t. /\ Len(kinds) \in Nat /\ Steps = 1..Len(kinds) /\ plan \in PlanType
      /\ run[e].next \in 1..Len(kinds) + 1 /\ c \in PlanType
  BY StepsAre, Typed DEF TypeOK
<1>s. ASSUME log' = log, lock => lock', run'[e].at \notin Inside PROVE StoredThen(plan)
  <2>1. \A i : InLog(i)' <=> InLog(i)  BY <1>s DEF InLog
  <2>2. \A d \in Requests : run'[d].at \in Inside => run[d].at \in Inside  BY <1>o, <1>s
  <2>3. Stored(plan)  BY DEF FinalInv
  <2>4. QED  BY <1>s, <2>1, <2>2, <2>3 DEF Stored, StoredThen, Shows
<1>a. ASSUME run[e].at \in Inside
      PROVE  lock /\ \A d \in Requests \ {e} : run[d].at \notin Inside
  BY <1>a DEF OneInside, Holding
<1>1. CASE Asked(e)
  <2>1. log' = log /\ lock' = lock /\ plan' = plan /\ run'[e].at \notin Inside
    BY <1>1 DEF Asked, Inside
  <2>2. StoredThen(plan)  BY <1>s, <2>1
  <2>3. run'[e].at = "touch" => run'[e].plan = plan  BY <1>1 DEF Asked, Untaken
  <2>4. QED  BY <1>o, <2>1, <2>2, <2>3, LockLeft
<1>2. CASE Missed(e) \/ Reread1(e) \/ Died(e)
  <2>1. /\ log' = log /\ (lock => lock') /\ plan' = plan
        /\ run'[e].at \in {"reread", "over"}
    BY <1>2, Moved DEF Missed, Reread1, Died, Simple
  <2>2. run'[e].at \notin Inside /\ run'[e].at # "touch"  BY <2>1 DEF Inside
  <2>3. StoredThen(plan)  BY <1>s, <2>1, <2>2
  <2>4. QED  BY <1>o, <2>1, <2>2, <2>3, LockLeft
<1>3. CASE Put(e)
  <2>1. /\ log' = log /\ lock' = lock /\ plan' = c /\ run'[e].at = "over"
        /\ run[e].at \in {"touch", "refuse"}
    BY <1>3, Moved DEF Put, Simple, At
  <2>2. run'[e].at \notin Inside /\ run'[e].at # "touch"  BY <2>1 DEF Inside
  <2>3. \A i : InLog(i)' <=> InLog(i)  BY <2>1 DEF InLog
  <2>4. CASE run[e].at = "touch"
    <3>1. \A d \in Requests : run'[d].at \in Inside => run[d].at \in Inside
      BY <1>o, <2>2
    <3>2. StoredThen(c)
      BY <2>1, <2>3, <2>4, <3>1 DEF FinalInv, Stored, StoredThen, Shows
    <3>3. QED  BY <1>o, <2>1, <2>2, <3>2, LockLeft
  <2>5. CASE run[e].at = "refuse"
    <3>1. run[e].at \in Inside /\ run[e].at \in Inside \ {"steps"}  BY <2>5 DEF Inside
    <3>2. \A d \in Requests : run'[d].at \notin Inside  BY <1>a, <1>o, <2>2, <3>1
    <3>3. \A i \in Steps : ~InLog(i)'  BY <2>3, <3>1 DEF Holding
    <3>4. StoredThen(c)  BY <1>a, <2>1, <3>1, <3>2, <3>3 DEF StoredThen
    <3>5. QED  BY <1>o, <2>1, <2>2, <3>4, LockLeft
  <2>6. QED  BY <2>1, <2>4, <2>5
<1>4. CASE Ended(e)
  <2>1. /\ log' = log /\ lock' = lock /\ run'[e].at = "over" /\ run[e].at = "steps"
        /\ plan' = [c EXCEPT !.status = Outcome(c)]
    BY <1>4, Moved DEF Ended, At
  <2>2. /\ run'[e].at \notin Inside /\ run'[e].at # "touch" /\ run[e].at \in Inside
    BY <2>1 DEF Inside
  <2>3. \A d \in Requests : run'[d].at \notin Inside  BY <1>a, <1>o, <2>2
  <2>4. plan'.steps = c.steps  BY <1>t, <2>1 DEF PlanType
  <2>5. \A i \in Steps : InLog(i)' => c.steps[i] = "accepted"
    BY <2>1 DEF Holding, Shows, InLog
  <2>6. StoredThen(plan')  BY <1>a, <2>1, <2>2, <2>3, <2>4, <2>5 DEF StoredThen
  <2>7. QED  BY <1>o, <2>1, <2>2, <2>6, LockLeft
<1>5. CASE Took(e)
  <2>1. /\ ~lock /\ lock' /\ plan' = plan /\ log' = log /\ run'[e].at = "begin"
    BY <1>5, Moved DEF Took, Simple
  <2>2. \A d \in Requests : run[d].at \notin Inside  BY <2>1 DEF Holding
  <2>3. \A i \in Steps : ~InLog(i)'  BY <2>1 DEF Holding, InLog
  <2>4. run'[e].at \in Inside /\ run'[e].at # "steps"  BY <2>1 DEF Inside
  <2>5. QED  BY <1>o, <2>1, <2>2, <2>3, <2>4, LockHeld
<1>6. CASE Began(e) \/ Judged(e)
  <2>1. /\ run[e].at \in Inside \ {"steps"} /\ lock' = lock /\ log' = log
        /\ run'[e].at \in Inside
    BY <1>6, Moved DEF Began, Judged, Simple, At, Inside
  <2>2. \A i \in Steps : ~InLog(i)'  BY <2>1 DEF Holding, InLog
  <2>3. plan' = plan \/ plan'.status \notin Final
    BY <1>6, <1>t DEF Began, Judged, PlanType, Final
  <2>4. QED  BY <1>a, <1>o, <2>1, <2>2, <2>3, LockHeld
<1>7. CASE Passed(e) \/ Rejected(e)
  <2> DEFINE i == run[e].next
  <2>1. /\ run[e].at = "steps" /\ lock' = lock /\ log' = log /\ plan' = plan
        /\ i \in Steps
    BY <1>7 DEF Passed, Rejected, At
  <2>2. /\ run'[e].at = "steps" /\ run'[e].next \in {i + 1, Len(kinds) + 1}
        /\ \A j \in Steps \ {i} : run'[e].plan.steps[j] = c.steps[j]
    BY <1>7, <2>1, MarkedPassed, Marked DEF Rejected, StepStatuses
  <2>3. \A j \in Steps : InLog(j)' => c.steps[j] = "accepted" /\ j < i
    BY <2>1 DEF Holding, Shows, InLog
  <2>4. \A j \in Steps : InLog(j)' =>
          run'[e].plan.steps[j] = "accepted" /\ j < run'[e].next
    BY <1>t, <2>1, <2>2, <2>3
  <2>5. run[e].at \in Inside /\ run'[e].at \in Inside  BY <2>1, <2>2 DEF Inside
  <2>6. QED  BY <1>a, <1>o, <2>1, <2>2, <2>4, <2>5, LockHeld
<1>8. CASE Accepted(e)
  <2> DEFINE i == run[e].next
  <2>1. /\ run[e].at = "steps" /\ lock' = lock /\ plan' = plan /\ i \in Steps
        /\ log' = Append(log, [by |-> e, step |-> i])
    BY <1>8 DEF Accepted, At
  <2>2. /\ run'[e].at = "steps" /\ run'[e].next = i + 1
        /\ run'[e].plan.steps[i] = "accepted"
        /\ \A j \in Steps \ {i} : run'[e].plan.steps[j] = c.steps[j]
    BY <1>8, Marked DEF Accepted, StepStatuses
  <2>3. ASSUME NEW j \in Steps, InLog(j)', j # i PROVE InLog(j)
    <3>1. /\ Len(log') = Len(log) + 1 /\ log'[Len(log) + 1].step = i
          /\ \A k \in 1..Len(log) : log'[k] = log[k]
      BY <2>1 DEF TypeOK
    <3>2. Len(log) \in Nat  BY DEF TypeOK
    <3>3. PICK k \in 1..Len(log') : log'[k].step = j  BY <2>3 DEF InLog
    <3>4. k \in 1..Len(log)  BY <2>3, <3>1, <3>2, <3>3
    <3>5. QED  BY <3>1, <3>3, <3>4 DEF InLog
  <2>4. \A j \in Steps : InLog(j) => c.steps[j] = "accepted" /\ j < i
    BY <2>1 DEF Holding, Shows
  <2>5. \A j \in Steps : InLog(j)' =>
          run'[e].plan.steps[j] = "accepted" /\ j < run'[e].next
    BY <1>t, <2>1, <2>2, <2>3, <2>4
  <2>6. run[e].at \in Inside /\ run'[e].at \in Inside  BY <2>1, <2>2 DEF Inside
  <2>7. QED  BY <1>a, <1>o, <2>1, <2>2, <2>5, <2>6, LockHeld
<1>9. QED  BY <1>1, <1>2, <1>3, <1>4, <1>5, <1>6, <1>7, <1>8, ExecuteMoves

LEMMA LockStep ==
  ASSUME TypeOK, TypeOK', EmptyInv, LockInv, [Next]_vars
  PROVE  LockInv'
<1>0. Steps' = Steps /\ EmptyInv'  BY EmptyStep, GateSame, GateStep
<1>1. CASE Steps = {}  BY <1>0, <1>1, NoStepsLock
<1>2. CASE expired'  BY <1>2 DEF LockInv
<1>3. ASSUME Steps # {}, ~expired' PROVE LockInv'
  <2>1. expired' = expired \/ LockExpires
    BY DEF Next, vars, LockExpires, Other, Execute, Read, Touch, TakeLock, Reread, Begin,
       Evidence, Refuse, Local, Accept, Reject, Store, Dies
  <2>2. ~LockExpires  BY <1>3 DEF LockExpires
  <2>3. OneInside /\ Holding /\ FinalInv  BY <1>3, <2>1, <2>2 DEF LockInv
  <2>4. CASE Other \/ UNCHANGED vars
    <3>1. plan' = plan /\ run' = run /\ lock' = lock  BY <2>4 DEF Other, vars
    <3>2. \A i \in Steps : InLog(i)' <=> InLog(i)
      <4>1. CASE log' = log  BY <4>1 DEF InLog
      <4>2. CASE log' = Append(log, [by |-> Nobody, step |-> 0])
        <5>1. /\ Len(log) \in Nat /\ Len(log') = Len(log) + 1
              /\ log'[Len(log) + 1].step = 0
              /\ \A k \in 1..Len(log) : log'[k] = log[k]
          BY <4>2 DEF TypeOK
        <5>2. 0 \notin Steps  BY StepsAre
        <5>3. QED  BY <5>1, <5>2 DEF InLog
      <4>3. QED  BY <2>4, <4>1, <4>2 DEF Other, vars
    <3>3. OneInside'  BY <2>3, <3>1 DEF OneInside, Inside
    <3>4. Holding'
      BY <1>0, <2>3, <3>1, <3>2 DEF Holding, Inside, Shows
    <3>5. FinalInv'
      BY <1>0, <2>3, <3>1, <3>2 DEF FinalInv, Stored, Inside, Final, Shows
    <3>6. QED  BY <3>3, <3>4, <3>5 DEF LockInv
  <2>5. QED  BY <1>0, <1>3, <2>2, <2>3, <2>4, LockExecute DEF Next
<1>4. QED  BY <1>1, <1>2, <1>3

-----------------------------------------------------------------------------
(***************************************************************************)
(* The theorems.                                                           *)
(***************************************************************************)
LEMMA PlanInit ==
  ASSUME Init
  PROVE  PlanInv
<1>1. TypeOK  BY TypeInit
<1>2. \A e \in Requests : /\ run[e].at = "idle" /\ run[e].next = 1 /\ run[e].revision = 0
                          /\ run[e].base = 0 /\ run[e].plan = plan
  BY DEF Init
<1>3. log = <<>> /\ plan.status = "draft" /\ \A i \in Steps : plan.steps[i] = "pending"
  BY DEF Init, Mark
<1>4. PlaceInv
  <2>1. Before(0) = {}  BY DEF Before
  <2>2. Cardinality(Before(0)) = 0  BY <2>1, FS_EmptySet
  <2>3. QED  BY <1>2, <1>3, <2>2 DEF PlaceInv
<1>5. AppliedOnBase  BY <1>3 DEF AppliedOnBase
<1>6. WalkInv /\ EmptyInv  BY <1>2 DEF WalkInv, EmptyInv
<1>7. OutcomeTrue  BY <1>2, <1>3 DEF OutcomeTrue
<1>8. LockInv
  <2>1. \A i : ~InLog(i)  BY <1>3 DEF InLog
  <2>2. OneInside  BY <1>2 DEF OneInside, Inside
  <2>3. Holding  BY <1>2, <2>1 DEF Holding, Inside
  <2>4. FinalInv  BY <1>2, <1>3 DEF FinalInv, Stored, Final
  <2>5. QED  BY <2>2, <2>3, <2>4 DEF LockInv
<1>9. QED  BY <1>1, <1>4, <1>5, <1>6, <1>7, <1>8 DEF PlanInv

LEMMA PlanStep ==
  ASSUME PlanInv, [Next]_vars
  PROVE  PlanInv'
<1>1. TypeOK'  BY TypeStep DEF PlanInv
<1>2. PlaceInv' /\ AppliedOnBase'  BY PlaceStep DEF PlanInv
<1>3. WalkInv' /\ EmptyInv'  BY WalkStep, EmptyStep DEF PlanInv
<1>4. OutcomeTrue'  BY OutcomeStep DEF PlanInv
<1>5. LockInv'  BY <1>1, LockStep DEF PlanInv
<1>6. QED  BY <1>1, <1>2, <1>3, <1>4, <1>5 DEF PlanInv

LEMMA PlanAlways == Spec => []PlanInv
  BY PlanInit, PlanStep, PTL DEF Spec

\* Every variable of a plan's execution keeps its type.
THEOREM PlanTypes == Spec => []TypeOK
<1>1. PlanInv => TypeOK  BY DEF PlanInv
<1>2. QED  BY <1>1, PlanAlways, PTL

\* Whatever overlaps, repeats or edits the project meanwhile: the commands of
\* an execution stand together, in order, right after the revision that the
\* client's composition was built on (the base_revision of the request).
THEOREM AppliedOnItsBase == Spec => []AppliedOnBase
<1>1. PlanInv => AppliedOnBase  BY DEF PlanInv
<1>2. QED  BY <1>1, PlanAlways, PTL

\* A step that a plan, or an answer, shows as accepted has been done, and so have
\* the notes of one that is shown as completed and its last edit, unless a seek,
\* play or pause comes after it (then no edit is sent): also after the lock ran
\* out and a stale copy was written over a newer one.
THEOREM OutcomeIsTrue == Spec => []OutcomeTrue
<1>1. PlanInv => OutcomeTrue  BY DEF PlanInv
<1>2. QED  BY <1>1, PlanAlways, PTL

\* As long as no lock has run out, a final plan shows as accepted exactly the
\* steps that are events of the project.
THEOREM OutcomeIsExact == Spec => []OutcomeExact
<1>1. PlanInv => OutcomeExact
  BY DEF PlanInv, LockInv, FinalInv, Stored, Shows, OutcomeTrue, OutcomeExact
<1>2. QED  BY <1>1, PlanAlways, PTL
=============================================================================
