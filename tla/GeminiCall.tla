----------------------------- MODULE GeminiCall -----------------------------
(***************************************************************************)
(* Calls of the Gemini API by any number of API instances: the spend cap   *)
(* (services/gemini_spend_cap.py), the cooldown after a 429                *)
(* (services/gemini_backpressure.py) and call_gemini, which goes through   *)
(* both (services/gemini_client.py).  All state is in Redis and every      *)
(* Redis call is a step of its own.                                        *)
(*                                                                         *)
(* A window is a day or an hour.  The kill switch and unlimited caps       *)
(* (0 in the code) are left out, and so is the expiry of a counter, which  *)
(* comes a minute after its window has passed.                             *)
(***************************************************************************)
EXTENDS Naturals, FiniteSets

CONSTANTS
  Callers,              \* calls that may be under way at once
  DayCap, HourCap,      \* GEMINI_DAILY_CALL_CAP, GEMINI_HOURLY_CALL_CAP
  HourLength, DayLength,
  MaxTries,             \* attempts of one call over transport errors
  HardDelay,            \* cooldown of a depleted quota
  BaseDelay, MaxDelay,  \* least and longest cooldown of a throttled call
  MaxFailures,          \* failures from which the cooldown grows no more
  MaxTime, MaxFaults    \* bounds: the clock; errors of Redis and dead instances

ASSUME GeminiAssumption ==
  /\ IsFiniteSet(Callers)
  /\ DayCap \in Nat \ {0} /\ HourCap \in Nat \ {0}
  /\ HourLength \in Nat \ {0} /\ DayLength \in Nat \ {0}
  /\ MaxTries \in Nat \ {0} /\ HardDelay \in Nat \ {0}
  /\ BaseDelay \in Nat \ {0} /\ MaxDelay \in Nat /\ BaseDelay <= MaxDelay
  /\ MaxFailures \in Nat \ {0} /\ MaxTime \in Nat /\ MaxFaults \in Nat

Day(t)  == <<"day", t \div DayLength>>
Hour(t) == <<"hour", t \div HourLength>>
Windows == {Day(t) : t \in 0..MaxTime} \union {Hour(t) : t \in 0..MaxTime}
Cap(w)  == IF w[1] = "day" THEN DayCap ELSE HourCap

VARIABLES
  now,        \* the clock, in seconds
  used,       \* gemini:spend:daily:* and gemini:spend:hourly:*
  hard,       \* gemini:backpressure:hard: blocked_until, and the end of the key
  transient,  \* gemini:backpressure:transient, the same
  failures,   \* gemini:backpressure:failures
  pc, at, tries, kind, level, \* each caller: its step, the time admit() read,
                              \* failed attempts, kind of its 429 and the count
                              \* of failures it got back
  cooldown,   \* each caller: the cooldown it is about to store
  admitted,   \* calls let through, by window
  faults      \* faults so far

cooldownVars == <<hard, transient, failures>>
callerVars   == <<at, tries, kind, level, cooldown>>
vars == <<now, used, cooldownVars, pc, callerVars, admitted, faults>>

Pcs == {"idle", "day", "dayBack", "hour", "hourBack", "dayComp",
        "hard", "dropHard", "soft", "dropSoft", "send", "record", "decide", "block", "clear"}

\* No key, and no cooldown to store.
NoKey      == [until |-> 0, ends |-> 0]
NoCooldown == [until |-> 0, delay |-> 0]

Init ==
  /\ now = 0 /\ faults = 0
  /\ used = [w \in Windows |-> 0] /\ admitted = [w \in Windows |-> 0]
  /\ hard = NoKey /\ transient = NoKey /\ failures = 0
  /\ pc = [c \in Callers |-> "idle"]
  /\ at = [c \in Callers |-> 0] /\ tries = [c \in Callers |-> 0]
  /\ kind = [c \in Callers |-> "hard"] /\ level = [c \in Callers |-> 0]
  /\ cooldown = [c \in Callers |-> NoCooldown]

-----------------------------------------------------------------------------
CallStep(c, from, to) == pc[c] = from /\ pc' = [pc EXCEPT ![c] = to]

(***************************************************************************)
(* admit(): count the day, count the hour, and take back what was counted  *)
(* when one of them is full.                                               *)
(***************************************************************************)
Begin(c) ==
  /\ CallStep(c, "idle", "day")
  /\ at' = [at EXCEPT ![c] = now] /\ tries' = [tries EXCEPT ![c] = 0]
  /\ UNCHANGED <<now, used, cooldownVars, kind, level, cooldown, admitted, faults>>

\* Mutant of CountDay: the counter is compared before it is incremented.
CountDayLate(c) ==
  LET w == Day(at[c]) IN
  /\ CallStep(c, "day", IF used[w] <= Cap(w) THEN "hour" ELSE "dayBack")
  /\ used' = [used EXCEPT ![w] = @ + 1]
  /\ UNCHANGED <<now, cooldownVars, callerVars, admitted, faults>>

CountDay(c) ==
  LET w == Day(at[c]) IN
  /\ CallStep(c, "day", IF used[w] < Cap(w) THEN "hour" ELSE "dayBack")
  /\ used' = [used EXCEPT ![w] = @ + 1]
  /\ UNCHANGED <<now, cooldownVars, callerVars, admitted, faults>>

TakesBack(c, w, from, to) ==
  /\ CallStep(c, from, to)
  /\ used' = [used EXCEPT ![w] = @ - 1]
  /\ UNCHANGED <<now, cooldownVars, callerVars, admitted, faults>>

ReturnDay(c) == TakesBack(c, Day(at[c]), "dayBack", "idle")

CountHour(c) ==
  LET w == Hour(at[c]) IN
  /\ used' = [used EXCEPT ![w] = @ + 1]
  /\ \/ /\ used[w] < Cap(w)
        /\ CallStep(c, "hour", "hard")
        /\ admitted' = [v \in Windows |->
             IF v \in {w, Day(at[c])} THEN admitted[v] + 1 ELSE admitted[v]]
     \/ /\ used[w] >= Cap(w)
        /\ CallStep(c, "hour", "hourBack")
        /\ UNCHANGED admitted
  /\ UNCHANGED <<now, cooldownVars, callerVars, faults>>

\* Mutant of ReturnHour: the day keeps the slot of a call the hour refused.
ReturnHourOnly(c) == TakesBack(c, Hour(at[c]), "hourBack", "idle")

ReturnHour(c)    == TakesBack(c, Hour(at[c]), "hourBack", "dayComp")
CompensateDay(c) == TakesBack(c, Day(at[c]), "dayComp", "idle")

(***************************************************************************)
(* check(): first the hard cooldown, then the transient one.  A cooldown   *)
(* that is over but still stored is deleted, in a later call.              *)
(***************************************************************************)
Checks(c, key, from, drop, next) ==
  /\ \/ key = NoKey                     /\ CallStep(c, from, next)
     \/ key.until > now                 /\ CallStep(c, from, "idle")
     \/ key # NoKey /\ key.until <= now /\ CallStep(c, from, drop)
  /\ UNCHANGED <<now, used, cooldownVars, callerVars, admitted, faults>>

CheckHard(c) == Checks(c, hard, "hard", "dropHard", "soft")
CheckSoft(c) == Checks(c, transient, "soft", "dropSoft", "send")

DropHard(c) ==
  /\ CallStep(c, "dropHard", "soft")
  /\ hard' = NoKey
  /\ UNCHANGED <<now, used, transient, failures, callerVars, admitted, faults>>

DropSoft(c) ==
  /\ CallStep(c, "dropSoft", "send")
  /\ transient' = NoKey
  /\ UNCHANGED <<now, used, hard, failures, callerVars, admitted, faults>>

(***************************************************************************)
(* call_gemini past both guards: attempts over transport errors, then the  *)
(* answer.  Any error but a transport error or a 429 ends the call.        *)
(***************************************************************************)
\* Mutant of Retries: the attempts are not bounded.
RetriesMore(c) ==
  /\ pc[c] = "send" /\ tries' = [tries EXCEPT ![c] = @ + 1]
  /\ UNCHANGED <<now, used, cooldownVars, pc, at, kind, level, cooldown, admitted, faults>>

Retries(c) ==
  /\ tries[c] + 1 < MaxTries
  /\ pc[c] = "send" /\ tries' = [tries EXCEPT ![c] = @ + 1]
  /\ UNCHANGED <<now, used, cooldownVars, pc, at, kind, level, cooldown, admitted, faults>>

Answered(c) ==
  /\ CallStep(c, "send", "clear")
  /\ UNCHANGED <<now, used, cooldownVars, callerVars, admitted, faults>>

GivesUp(c) ==
  /\ CallStep(c, "send", "idle")
  /\ UNCHANGED <<now, used, cooldownVars, callerVars, admitted, faults>>

Throttled(c) ==
  /\ CallStep(c, "send", "record")
  /\ \E k \in {"hard", "transient"} : kind' = [kind EXCEPT ![c] = k]
  /\ UNCHANGED <<now, used, cooldownVars, at, tries, level, cooldown, admitted, faults>>

Send(c) == Retries(c) \/ Answered(c) \/ GivesUp(c) \/ Throttled(c)

\* record_429: the failure is counted, in a call or two of Redis ...
Record(c) ==
  LET n == IF failures < MaxFailures THEN failures + 1 ELSE failures IN
  /\ CallStep(c, "record", "decide")
  /\ failures' = n /\ level' = [level EXCEPT ![c] = n]
  /\ UNCHANGED <<now, used, hard, transient, at, tries, kind, cooldown, admitted, faults>>

\* _delay_for: a throttled call's delay is doubled with every failure, raised to
\* the Retry-After of the answer, never above MaxDelay.
Delays(k, n) ==
  IF k = "hard" THEN {HardDelay}
  ELSE {d \in 1..MaxDelay : d >= BaseDelay * 2 ^ (n - 1) \/ d = MaxDelay}

\* ... then the clock is read, which fixes the end of the cooldown ...
Decide(c) ==
  /\ CallStep(c, "decide", "block")
  /\ \E d \in Delays(kind[c], level[c]) :
       cooldown' = [cooldown EXCEPT ![c] = [until |-> now + d, delay |-> d]]
  /\ UNCHANGED <<now, used, cooldownVars, at, tries, kind, level, admitted, faults>>

\* ... and the cooldown is stored, over whatever is stored there by then.  Its
\* key lasts for the delay from now on.
Stored(c) == [until |-> cooldown[c].until, ends |-> now + cooldown[c].delay]

Block(c) ==
  /\ CallStep(c, "block", "idle")
  /\ \/ kind[c] = "hard"      /\ hard' = Stored(c)      /\ UNCHANGED transient
     \/ kind[c] = "transient" /\ transient' = Stored(c) /\ UNCHANGED hard
  /\ cooldown' = [cooldown EXCEPT ![c] = NoCooldown]
  /\ UNCHANGED <<now, used, failures, at, tries, kind, level, admitted, faults>>

\* Mutant of Clear: a success clears the hard cooldown as well.
ClearBoth(c) ==
  /\ CallStep(c, "clear", "idle")
  /\ hard' = NoKey /\ transient' = NoKey /\ failures' = 0
  /\ UNCHANGED <<now, used, callerVars, admitted, faults>>

\* clear_after_success: one DEL of the transient cooldown and the failures.
Clear(c) ==
  /\ CallStep(c, "clear", "idle")
  /\ transient' = NoKey /\ failures' = 0
  /\ UNCHANGED <<now, used, hard, callerVars, admitted, faults>>

-----------------------------------------------------------------------------
\* An error of Redis outside a best-effort write, or the end of the instance:
\* the call ends where it is and takes nothing back.  (A write whose answer is
\* lost is the write followed by this, but for HourLost.)
Fail(c) ==
  /\ faults < MaxFaults /\ pc[c] # "idle"
  /\ pc' = [pc EXCEPT ![c] = "idle"] /\ faults' = faults + 1
  /\ UNCHANGED <<now, used, cooldownVars, callerVars, admitted>>

\* The hour is counted, and the answer or the expiry that is set next fails.
HourLost(c) ==
  /\ faults < MaxFaults /\ faults' = faults + 1
  /\ CallStep(c, "hour", "idle")
  /\ used' = [used EXCEPT ![Hour(at[c])] = @ + 1]
  /\ UNCHANGED <<now, cooldownVars, callerVars, admitted>>

\* A best-effort write that failed and is logged.
Shrug(c) ==
  /\ faults < MaxFaults /\ faults' = faults + 1
  /\ \/ CallStep(c, "dayBack", "idle") \/ CallStep(c, "hourBack", "dayComp")
     \/ CallStep(c, "dayComp", "idle") \/ CallStep(c, "dropHard", "soft")
     \/ CallStep(c, "dropSoft", "send") \/ CallStep(c, "clear", "idle")
  /\ UNCHANGED <<now, used, cooldownVars, callerVars, admitted>>

Admit(c) == Begin(c) \/ CountDay(c) \/ ReturnDay(c) \/ CountHour(c)
            \/ ReturnHour(c) \/ CompensateDay(c)
Check(c) == CheckHard(c) \/ DropHard(c) \/ CheckSoft(c) \/ DropSoft(c)
Call(c)  == Admit(c) \/ Check(c) \/ Send(c) \/ Record(c) \/ Decide(c) \/ Block(c) \/ Clear(c)

\* Redis drops a cooldown at the end of its key.  That is the end of the block
\* itself only if it was stored at once, and Redis's clock is finer than the
\* second the code compares: a cooldown that is over may still be read.
Ended(key) == key # NoKey /\ key.ends <= now

Lapse ==
  /\ \/ Ended(hard) /\ hard' = NoKey /\ UNCHANGED <<transient, failures>>
     \/ Ended(transient) /\ transient' = NoKey /\ UNCHANGED <<hard, failures>>
     \/ failures # 0 /\ failures' = 0 /\ UNCHANGED <<hard, transient>>
  /\ UNCHANGED <<now, used, pc, callerVars, admitted, faults>>

Tick ==
  /\ now < MaxTime /\ ~Ended(hard) /\ ~Ended(transient)
  /\ now' = now + 1
  /\ UNCHANGED <<used, cooldownVars, pc, callerVars, admitted, faults>>

Fault(c) == Fail(c) \/ HourLost(c) \/ Shrug(c)

Next == Lapse \/ Tick \/ \E c \in Callers : Call(c) \/ Fault(c)

Spec == Init /\ [][Next]_vars

-----------------------------------------------------------------------------
(***************************************************************************)
(* Properties.                                                             *)
(***************************************************************************)
TypeOK ==
  /\ now \in 0..MaxTime /\ faults \in 0..MaxFaults
  /\ used \in [Windows -> Nat] /\ admitted \in [Windows -> Nat]
  /\ hard \in [until : Nat, ends : Nat] /\ transient \in [until : Nat, ends : Nat]
  /\ failures \in 0..MaxFailures
  /\ pc \in [Callers -> Pcs] /\ at \in [Callers -> 0..MaxTime]
  /\ tries \in [Callers -> 0..MaxTries - 1]
  /\ kind \in [Callers -> {"hard", "transient"}]
  /\ level \in [Callers -> 0..MaxFailures]
  /\ cooldown \in [Callers -> [until : Nat, delay : Nat]]

\* No window lets more calls through than its cap, however many instances count,
\* overshoot and take back at once (gemini_spend_cap.py:194-261).
CapsHold == \A w \in Windows : admitted[w] <= Cap(w)

\* Callers that have counted w and are not decided yet.
Holders(w) ==
  {c \in Callers : \/ w = Day(at[c]) /\ pc[c] \in {"dayBack", "hour", "hourBack", "dayComp"}
                   \/ w = Hour(at[c]) /\ pc[c] = "hourBack"}

\* "a blocked hour does not silently eat the day budget"
\* (gemini_spend_cap.py:200): every slot that is counted belongs to a call that
\* was let through or to one still being decided; each fault loses one at most.
SlotsAccounted ==
  \A w \in Windows :
    \E lost \in 0..faults : used[w] = admitted[w] + Cardinality(Holders(w)) + lost

\* A hard 429 of caller c is stored later than the second in which it was decided.
StoresLate(c) == pc[c] = "block" /\ kind[c] = "hard" /\ cooldown[c].until < now + HardDelay

\* "Hard-quota ... must stay until TTL expires so one lucky success on another
\* instance cannot reopen a thundering herd" (gemini_backpressure.py:221): no
\* success, no throttled call, no end of a key, no dying instance and no hard 429
\* that is stored at once lifts or shortens a hard block that is in force.  Two
\* things may, because each acts on what it knew a call ago: a check that read an
\* older block as over and deletes what is there by then, and a hard 429 whose
\* SET arrives late, over a block that was decided after it.
HardOutlivesSuccess ==
  [][hard.until > now /\ hard'.until < hard.until =>
       \E c \in Callers :
         \/ pc[c] = "dropHard" /\ pc'[c] = "soft"
         \/ StoresLate(c) /\ pc'[c] = "idle" /\ hard'.until = cooldown[c].until]_vars
=============================================================================
