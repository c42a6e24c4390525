-------------------------- MODULE GeminiCallProofs --------------------------
(***************************************************************************)
(* What GeminiCall.tla keeps for every number of callers, every cap, every *)
(* length of the windows and any number of faults.                         *)
(***************************************************************************)
EXTENDS GeminiCall, FiniteSetTheorems, TLAPS

(***************************************************************************)
(* The invariant.  A caller that has passed the day and not the hour yet   *)
(* has the day's slot it will be admitted on.                              *)
(***************************************************************************)
Passed(w) == {c \in Callers : w = Day(at[c]) /\ pc[c] = "hour"}

PassInv == \A w \in Windows : admitted[w] + Cardinality(Passed(w)) <= Cap(w)

GeminiInv == TypeOK /\ SlotsAccounted /\ PassInv

LEMMA WindowFacts ==
  /\ \A t \in 0..MaxTime : Day(t) \in Windows /\ Hour(t) \in Windows
  /\ \A t, u \in 0..MaxTime : Day(t) # Hour(u)
  /\ \A w \in Windows : Cap(w) \in Nat
<1>1. \A t \in 0..MaxTime : Day(t) \in Windows /\ Hour(t) \in Windows
  BY DEF Windows
<1>2. \A t, u \in 0..MaxTime : Day(t) # Hour(u)
  BY DEF Day, Hour
<1>3. \A w \in Windows : Cap(w) \in Nat
  BY GeminiAssumption DEF GeminiAssumption, Cap
<1>4. QED
  BY <1>1, <1>2, <1>3

\* Two finite sets that differ in one element at most.
LEMMA CardinalityStep ==
  ASSUME NEW S, NEW T, NEW c, IsFiniteSet(S), S \ {c} = T \ {c}
  PROVE  /\ IsFiniteSet(T)
         /\ Cardinality(S) \in Nat /\ Cardinality(T) \in Nat
         /\ c \in S /\ c \in T => Cardinality(T) = Cardinality(S)
         /\ c \notin S /\ c \notin T => Cardinality(T) = Cardinality(S)
         /\ c \notin S /\ c \in T => Cardinality(T) = Cardinality(S) + 1
         /\ c \in S /\ c \notin T => Cardinality(S) = Cardinality(T) + 1
<1>1. CASE c \in S
  <2>1. S = (S \ {c}) \union {c} /\ IsFiniteSet(S \ {c})
    BY <1>1, FS_RemoveElement
  <2>2. Cardinality(S \ {c}) = Cardinality(S) - 1 /\ Cardinality(S) \in Nat
        /\ Cardinality(S \ {c}) \in Nat
    BY <1>1, <2>1, FS_RemoveElement, FS_CardinalityType
  <2>3. CASE c \in T
    <3>1. T = S
      BY <1>1, <2>3
    <3>2. QED
      BY <1>1, <2>2, <2>3, <3>1
  <2>4. CASE c \notin T
    <3>1. T = S \ {c}
      BY <2>4
    <3>2. QED
      BY <1>1, <2>1, <2>2, <2>4, <3>1
  <2>5. QED
    BY <2>3, <2>4
<1>2. CASE c \notin S
  <2>1. Cardinality(S) \in Nat
    BY FS_CardinalityType
  <2>2. CASE c \in T
    <3>1. T = S \union {c}
      BY <1>2, <2>2
    <3>2. IsFiniteSet(S \union {c}) /\ Cardinality(S \union {c}) = Cardinality(S) + 1
      BY <1>2, FS_AddElement
    <3>3. QED
      BY <1>2, <2>1, <2>2, <3>1, <3>2
  <2>3. CASE c \notin T
    <3>1. T = S
      BY <1>2, <2>3
    <3>2. QED
      BY <1>2, <2>1, <2>3, <3>1
  <2>4. QED
    BY <2>2, <2>3
<1>3. QED
  BY <1>1, <1>2

LEMMA HoldersFinite ==
  \A w : IsFiniteSet(Holders(w)) /\ IsFiniteSet(Passed(w))
<1>1. SUFFICES ASSUME NEW w PROVE IsFiniteSet(Holders(w)) /\ IsFiniteSet(Passed(w))
  OBVIOUS
<1>2. Holders(w) \subseteq Callers /\ Passed(w) \subseteq Callers /\ IsFiniteSet(Callers)
  BY GeminiAssumption DEF GeminiAssumption, Holders, Passed
<1>3. QED
  BY <1>2, FS_Subset

LEMMA PassedHold ==
  \A w : Cardinality(Passed(w)) <= Cardinality(Holders(w))
<1>1. SUFFICES ASSUME NEW w PROVE Cardinality(Passed(w)) <= Cardinality(Holders(w))
  OBVIOUS
<1>2. Passed(w) \subseteq Holders(w)
  BY DEF Passed, Holders
<1>3. QED
  BY <1>2, HoldersFinite, FS_Subset

\* A step of one caller changes the holders of a window by that caller at most.
Moves(c, to) ==
  /\ pc' = [pc EXCEPT ![c] = to]
  /\ \/ at' = at
     \/ pc[c] = "idle" /\ to = "day" /\ at' = [at EXCEPT ![c] = now]

InDay(c, w)  == w = Day(at[c]) /\ pc[c] \in {"dayBack", "hour", "hourBack", "dayComp"}
InHour(c, w) == w = Hour(at[c]) /\ pc[c] = "hourBack"

Counted(c, to, w) ==
  LET S == Holders(w)
      T == Holders(w)'
      P == Passed(w)
      Q == Passed(w)'
  IN /\ Cardinality(S) \in Nat /\ Cardinality(T) \in Nat
     /\ Cardinality(P) \in Nat /\ Cardinality(Q) \in Nat
     /\ (c \in S) <=> (InDay(c, w) \/ InHour(c, w))
     /\ (c \in T) <=> ((w = Day(at[c]) /\ to \in {"dayBack", "hour", "hourBack", "dayComp"})
                       \/ (w = Hour(at[c]) /\ to = "hourBack"))
     /\ (c \in P) <=> (w = Day(at[c]) /\ pc[c] = "hour")
     /\ (c \in Q) <=> (w = Day(at[c]) /\ to = "hour")
     /\ (c \in S <=> c \in T) => Cardinality(T) = Cardinality(S)
     /\ c \notin S /\ c \in T => Cardinality(T) = Cardinality(S) + 1
     /\ c \in S /\ c \notin T => Cardinality(S) = Cardinality(T) + 1
     /\ (c \in P <=> c \in Q) => Cardinality(Q) = Cardinality(P)
     /\ c \notin P /\ c \in Q => Cardinality(Q) = Cardinality(P) + 1
     /\ c \in P /\ c \notin Q => Cardinality(P) = Cardinality(Q) + 1

LEMMA MoveCounts ==
  ASSUME TypeOK, NEW c \in Callers, NEW to \in Pcs, Moves(c, to), NEW w \in Windows
  PROVE  Counted(c, to, w)
<1> DEFINE S == Holders(w)
           T == Holders(w)'
           P == Passed(w)
           Q == Passed(w)'
<1>1. /\ \A d \in Callers : d # c => pc'[d] = pc[d] /\ at'[d] = at[d]
      /\ pc'[c] = to /\ (at'[c] = at[c] \/ to = "day")
  BY DEF Moves, TypeOK
<1>2. S \ {c} = T \ {c}
  BY <1>1 DEF Holders
<1>3. P \ {c} = Q \ {c}
  BY <1>1 DEF Passed
<1>4. (c \in S) <=> (InDay(c, w) \/ InHour(c, w))
  BY DEF Holders, InDay, InHour
<1>5. (c \in T) <=> ((w = Day(at[c]) /\ to \in {"dayBack", "hour", "hourBack", "dayComp"})
                     \/ (w = Hour(at[c]) /\ to = "hourBack"))
  BY <1>1 DEF Holders
<1>6. (c \in P) <=> (w = Day(at[c]) /\ pc[c] = "hour")
  BY DEF Passed
<1>7. (c \in Q) <=> (w = Day(at[c]) /\ to = "hour")
  BY <1>1 DEF Passed
<1>8. IsFiniteSet(S) /\ IsFiniteSet(P)
  BY HoldersFinite
<1> HIDE DEF S, T, P, Q
<1>9. /\ Cardinality(S) \in Nat /\ Cardinality(T) \in Nat
      /\ (c \in S <=> c \in T) => Cardinality(T) = Cardinality(S)
      /\ c \notin S /\ c \in T => Cardinality(T) = Cardinality(S) + 1
      /\ c \in S /\ c \notin T => Cardinality(S) = Cardinality(T) + 1
  BY <1>2, <1>8, CardinalityStep
<1>10. /\ Cardinality(P) \in Nat /\ Cardinality(Q) \in Nat
       /\ (c \in P <=> c \in Q) => Cardinality(Q) = Cardinality(P)
       /\ c \notin P /\ c \in Q => Cardinality(Q) = Cardinality(P) + 1
       /\ c \in P /\ c \notin Q => Cardinality(P) = Cardinality(Q) + 1
  BY <1>3, <1>8, CardinalityStep
<1>11. QED
  BY <1>4, <1>5, <1>6, <1>7, <1>9, <1>10 DEF S, T, P, Q, Counted

(***************************************************************************)
(* Each step keeps the account of each window.                             *)
(***************************************************************************)
Account(w) ==
  /\ \E lost \in 0..faults : used[w] = admitted[w] + Cardinality(Holders(w)) + lost
  /\ admitted[w] + Cardinality(Passed(w)) <= Cap(w)

Counting == {"dayBack", "hour", "hourBack", "dayComp"}

LEMMA AccountFacts ==
  ASSUME GeminiInv, NEW c \in Callers
  PROVE  /\ Day(at[c]) \in Windows /\ Hour(at[c]) \in Windows
         /\ Day(at[c]) # Hour(at[c])
         /\ faults \in Nat
         /\ \A w \in Windows : /\ Account(w) /\ Cap(w) \in Nat
                               /\ used[w] \in Nat /\ admitted[w] \in Nat
<1>1. at[c] \in 0..MaxTime
  BY DEF GeminiInv, TypeOK
<1>2. \A w \in Windows : Account(w)
  BY DEF Account, GeminiInv, SlotsAccounted, PassInv
<1>3. QED
  BY <1>1, <1>2, WindowFacts DEF GeminiInv, TypeOK

LEMMA QuietMove ==
  ASSUME GeminiInv, NEW c \in Callers, NEW to \in Pcs, Moves(c, to),
         pc[c] \notin Counting, to \notin Counting,
         used' = used, admitted' = admitted, faults' \in Nat, faults <= faults'
  PROVE  \A w \in Windows : Account(w)'
<1>1. SUFFICES ASSUME NEW w \in Windows PROVE Account(w)'
  OBVIOUS
<1>2. Counted(c, to, w)
  BY MoveCounts DEF GeminiInv
<1>3. QED
  BY <1>2, AccountFacts DEF Account, Counted, Counting, InDay, InHour, Cap

LEMMA CountDayKeeps ==
  ASSUME GeminiInv, NEW c \in Callers, CountDay(c)
  PROVE  \A w \in Windows : Account(w)'
<1> DEFINE to == IF used[Day(at[c])] < Cap(Day(at[c])) THEN "hour" ELSE "dayBack"
<1>1. SUFFICES ASSUME NEW w \in Windows PROVE Account(w)'
  OBVIOUS
<1>2. pc[c] = "day" /\ Moves(c, to) /\ to \in Pcs
  BY DEF CountDay, CallStep, Moves, callerVars, Pcs
<1>3. Counted(c, to, w)
  BY <1>2, MoveCounts DEF GeminiInv
<1>4. /\ used'[w] = used[w] + (IF w = Day(at[c]) THEN 1 ELSE 0)
      /\ admitted' = admitted /\ faults' = faults
  BY AccountFacts DEF CountDay, GeminiInv, TypeOK
<1> HIDE DEF to
<1>5. CASE w = Day(at[c])
  <2>1. /\ Cardinality(Holders(w)') = Cardinality(Holders(w)) + 1
        /\ Cardinality(Holders(w)) \in Nat /\ Cardinality(Passed(w)) \in Nat
        /\ to = "hour" => Cardinality(Passed(w)') = Cardinality(Passed(w)) + 1
        /\ to = "dayBack" => Cardinality(Passed(w)') = Cardinality(Passed(w))
    BY <1>2, <1>3, <1>5, AccountFacts DEF Counted, InDay, InHour, to
  <2>2. (to = "hour" /\ used[w] < Cap(w)) \/ to = "dayBack"
    BY <1>5 DEF to
  <2>3. Cardinality(Passed(w)) <= Cardinality(Holders(w))
    BY PassedHold
  <2>4. QED
    BY <1>4, <1>5, <2>1, <2>2, <2>3, AccountFacts DEF Account, Cap
<1>6. CASE w # Day(at[c])
  <2>1. /\ Cardinality(Holders(w)') = Cardinality(Holders(w))
        /\ Cardinality(Passed(w)') = Cardinality(Passed(w))
    BY <1>2, <1>3, <1>6, AccountFacts DEF Counted, InDay, InHour, to
  <2>2. QED
    BY <1>4, <1>6, <2>1, AccountFacts DEF Account, Cap
<1>7. QED
  BY <1>5, <1>6

LEMMA TakesBackKeeps ==
  ASSUME GeminiInv, NEW c \in Callers, ReturnDay(c) \/ ReturnHour(c) \/ CompensateDay(c)
  PROVE  /\ \A w \in Windows : Account(w)'
         /\ used' \in [Windows -> Nat]
<1>1. ASSUME NEW v \in {Day(at[c]), Hour(at[c])}, NEW from \in Counting, NEW to \in Pcs,
             TakesBack(c, v, from, to),
             from = "hourBack" => v = Hour(at[c]) /\ to = "dayComp",
             from # "hourBack" => v = Day(at[c]) /\ to = "idle" /\ from # "hour"
      PROVE  (\A w \in Windows : Account(w)') /\ used' \in [Windows -> Nat]
  <2>1. pc[c] = from /\ Moves(c, to) /\ admitted' = admitted /\ faults' = faults
        /\ v \in Windows /\ used' = [used EXCEPT ![v] = @ - 1]
    BY <1>1, AccountFacts DEF TakesBack, CallStep, Moves, callerVars
  <2>2. ASSUME NEW w \in Windows PROVE Account(w)' /\ used'[w] \in Nat
    <3>1. Counted(c, to, w)
      BY <2>1, MoveCounts DEF GeminiInv
    <3>2. used'[w] = used[w] - (IF w = v THEN 1 ELSE 0)
      BY <2>1 DEF GeminiInv, TypeOK
    <3>3. QED
      BY <1>1, <2>1, <3>1, <3>2, AccountFacts
         DEF Account, Counted, InDay, InHour, Cap, Counting
  <2>3. used' \in [Windows -> Nat]
    BY <2>1, <2>2 DEF GeminiInv, TypeOK
  <2>4. QED
    BY <2>2, <2>3
<1>2. QED
  BY <1>1 DEF ReturnDay, ReturnHour, CompensateDay, Counting, Pcs

LEMMA CountHourKeeps ==
  ASSUME GeminiInv, NEW c \in Callers, CountHour(c)
  PROVE  \A w \in Windows : Account(w)'
<1> DEFINE open == used[Hour(at[c])] < Cap(Hour(at[c]))
           to   == IF open THEN "hard" ELSE "hourBack"
<1>1. SUFFICES ASSUME NEW w \in Windows PROVE Account(w)'
  OBVIOUS
<1>2. pc[c] = "hour" /\ Moves(c, to) /\ to \in Pcs
  BY AccountFacts DEF CountHour, CallStep, Moves, callerVars, Pcs
<1>3. Counted(c, to, w)
  BY <1>2, MoveCounts DEF GeminiInv
<1>4. /\ used'[w] = used[w] + (IF w = Hour(at[c]) THEN 1 ELSE 0)
      /\ faults' = faults
      /\ admitted'[w] = IF open /\ w \in {Hour(at[c]), Day(at[c])}
                        THEN admitted[w] + 1 ELSE admitted[w]
  BY AccountFacts DEF CountHour, GeminiInv, TypeOK
<1>a. to \in {"hard", "hourBack"} /\ Day(at[c]) # Hour(at[c])
  BY AccountFacts
<1> HIDE DEF to
<1>5. CASE w = Day(at[c])
  <2>1. /\ to = "hard" => Cardinality(Holders(w)) = Cardinality(Holders(w)') + 1
        /\ to = "hourBack" => Cardinality(Holders(w)') = Cardinality(Holders(w))
        /\ Cardinality(Passed(w)) = Cardinality(Passed(w)') + 1
        /\ Cardinality(Holders(w)') \in Nat /\ Cardinality(Passed(w)') \in Nat
    BY <1>2, <1>3, <1>5, <1>a DEF Counted, InDay, InHour
  <2>2. QED
    BY <1>4, <1>5, <2>1, AccountFacts DEF Account, Cap, to
<1>6. CASE w = Hour(at[c])
  <2>1. /\ to = "hard" => Cardinality(Holders(w)') = Cardinality(Holders(w))
        /\ to = "hourBack" => Cardinality(Holders(w)') = Cardinality(Holders(w)) + 1
        /\ Cardinality(Passed(w)') = Cardinality(Passed(w))
        /\ Cardinality(Holders(w)) \in Nat /\ Cardinality(Passed(w)) \in Nat
    BY <1>2, <1>3, <1>6, <1>a DEF Counted, InDay, InHour
  <2>2. Cardinality(Passed(w)) <= Cardinality(Holders(w))
    BY PassedHold
  <2>3. CASE open
    BY <1>4, <1>6, <2>1, <2>2, <2>3, AccountFacts DEF Account, Cap, to
  <2>4. CASE ~open
    BY <1>4, <1>6, <2>1, <2>2, <2>4, AccountFacts DEF Account, Cap, to
  <2>5. QED
    BY <2>3, <2>4
<1>7. CASE w # Day(at[c]) /\ w # Hour(at[c])
  <2>1. /\ Cardinality(Holders(w)') = Cardinality(Holders(w))
        /\ Cardinality(Passed(w)') = Cardinality(Passed(w))
    BY <1>3, <1>7 DEF Counted, InDay, InHour
  <2>2. QED
    BY <1>4, <1>7, <2>1, AccountFacts DEF Account, Cap
<1>8. QED
  BY <1>5, <1>6, <1>7

\* A fault costs a window one slot at most, and passes nobody.
Costs(w) ==
  /\ Cardinality(Holders(w)) \in Nat /\ Cardinality(Holders(w)') \in Nat
  /\ Cardinality(Passed(w)) \in Nat /\ Cardinality(Passed(w)') \in Nat
  /\ \E k \in {0, 1} : used'[w] + Cardinality(Holders(w)) = used[w] + Cardinality(Holders(w)') + k
  /\ Cardinality(Passed(w)') <= Cardinality(Passed(w))

LEMMA CostsKeep ==
  ASSUME GeminiInv, NEW c \in Callers, NEW w \in Windows, Costs(w),
         faults' = faults + 1, used'[w] \in Nat, admitted' = admitted
  PROVE  Account(w)'
<1>1. PICK lost \in 0..faults : used[w] = admitted[w] + Cardinality(Holders(w)) + lost
  BY AccountFacts DEF Account
<1>2. PICK k \in {0, 1} :
        used'[w] + Cardinality(Holders(w)) = used[w] + Cardinality(Holders(w)') + k
  BY DEF Costs
<1>3. lost + k \in 0..faults + 1
  BY AccountFacts
<1>4. used'[w] = admitted[w] + Cardinality(Holders(w)') + (lost + k)
  BY <1>1, <1>2, AccountFacts DEF Costs
<1>5. admitted[w] + Cardinality(Passed(w)') <= Cap(w)
  BY AccountFacts DEF Account, Costs
<1>6. QED
  BY <1>3, <1>4, <1>5 DEF Account, Cap

LEMMA FaultKeeps ==
  ASSUME GeminiInv, NEW c \in Callers, Fault(c)
  PROVE  \A w \in Windows : Account(w)'
<1>1. SUFFICES ASSUME NEW w \in Windows PROVE Account(w)'
  OBVIOUS
<1>2. faults' = faults + 1 /\ admitted' = admitted
  BY DEF Fault, Fail, HourLost, Shrug
<1>3. CASE Fail(c)
  <2>1. Moves(c, "idle") /\ "idle" \in Pcs /\ used' = used
    BY <1>3 DEF Fail, Moves, callerVars, Pcs
  <2>2. Counted(c, "idle", w)
    BY <2>1, MoveCounts DEF GeminiInv
  <2>3. Costs(w) /\ used'[w] \in Nat
    BY <2>1, <2>2, AccountFacts DEF Costs, Counted, InDay, InHour
  <2>4. QED
    BY <1>2, <2>3, CostsKeep
<1>4. CASE HourLost(c)
  <2>1. Moves(c, "idle") /\ "idle" \in Pcs /\ pc[c] = "hour"
    BY <1>4 DEF HourLost, CallStep, Moves, callerVars, Pcs
  <2>2. Counted(c, "idle", w)
    BY <2>1, MoveCounts DEF GeminiInv
  <2>3. used'[w] = used[w] + (IF w = Hour(at[c]) THEN 1 ELSE 0)
    BY <1>4 DEF HourLost, GeminiInv, TypeOK
  <2>4. Costs(w) /\ used'[w] \in Nat
    BY <2>1, <2>2, <2>3, AccountFacts DEF Costs, Counted, InDay, InHour
  <2>5. QED
    BY <1>2, <2>4, CostsKeep
<1>5. CASE Shrug(c)
  <2>1. PICK to \in {"idle", "dayComp", "soft", "send"} :
          /\ CallStep(c, pc[c], to) /\ used' = used
          /\ pc[c] = "hourBack" => to = "dayComp"
          /\ pc[c] # "hourBack" => to # "dayComp"
          /\ pc[c] # "hour"
    BY <1>5 DEF Shrug, CallStep
  <2>2. Moves(c, to) /\ to \in Pcs
    BY <1>5, <2>1 DEF Shrug, Moves, CallStep, callerVars, Pcs
  <2>3. Counted(c, to, w)
    BY <2>2, MoveCounts DEF GeminiInv
  <2>4. Costs(w) /\ used'[w] \in Nat
    BY <2>1, <2>3, AccountFacts DEF Costs, Counted, InDay, InHour
  <2>5. QED
    BY <1>2, <2>4, CostsKeep
<1>6. QED
  BY <1>3, <1>4, <1>5 DEF Fault

LEMMA OtherStepKeeps ==
  ASSUME GeminiInv, NEW c \in Callers,
         \/ Begin(c) \/ Check(c) \/ Send(c)
         \/ Record(c) \/ Decide(c) \/ Block(c) \/ Clear(c)
  PROVE  \A w \in Windows : Account(w)'
<1>1. ASSUME NEW to \in Pcs \ Counting, Moves(c, to), pc[c] \notin Counting,
             used' = used, admitted' = admitted, faults' = faults
      PROVE  \A w \in Windows : Account(w)'
  BY <1>1, AccountFacts, QuietMove
<1>2. CASE Begin(c)
  BY <1>1, <1>2 DEF Begin, CallStep, Moves, Pcs, Counting
<1>3. CASE Check(c)
  <2>1. PICK to \in {"idle", "dropHard", "soft", "dropSoft", "send"} :
          /\ Moves(c, to) /\ pc[c] \in {"hard", "dropHard", "soft", "dropSoft"}
          /\ used' = used /\ admitted' = admitted /\ faults' = faults
    BY <1>3 DEF Check, CheckHard, CheckSoft, Checks, DropHard, DropSoft,
                CallStep, Moves, callerVars
  <2>2. QED
    BY <1>1, <2>1 DEF Pcs, Counting
<1>4. CASE Retries(c)
  <2>1. /\ pc' = pc /\ at' = at /\ used' = used /\ admitted' = admitted
        /\ faults' = faults
    BY <1>4 DEF Retries
  <2>2. \A w \in Windows : Holders(w)' = Holders(w) /\ Passed(w)' = Passed(w)
    BY <2>1 DEF Holders, Passed
  <2>3. QED
    BY <2>1, <2>2, AccountFacts DEF Account, Cap
<1>5. CASE Answered(c) \/ GivesUp(c) \/ Throttled(c)
  BY <1>1, <1>5 DEF Answered, GivesUp, Throttled, CallStep, Moves, callerVars,
                    Pcs, Counting
<1>6. CASE Record(c) \/ Decide(c) \/ Block(c) \/ Clear(c)
  BY <1>1, <1>6 DEF Record, Decide, Block, Clear, CallStep, Moves, callerVars, Pcs, Counting
<1>7. QED
  BY <1>2, <1>3, <1>4, <1>5, <1>6 DEF Send

LEMMA AdmitTypes ==
  ASSUME GeminiInv, NEW c \in Callers, Admit(c)
  PROVE  TypeOK'
<1> USE GeminiAssumption DEF GeminiAssumption
<1>1. CASE Begin(c)
  BY <1>1 DEF GeminiInv, TypeOK, Begin, CallStep, Pcs, cooldownVars
<1>2. CASE CountDay(c)
  BY <1>2, AccountFacts
     DEF GeminiInv, TypeOK, CountDay, CallStep, Pcs, cooldownVars, callerVars
<1>3. CASE CountHour(c)
  <2>1. used' \in [Windows -> Nat] /\ admitted' \in [Windows -> Nat]
    BY <1>3, AccountFacts DEF GeminiInv, TypeOK, CountHour
  <2>2. pc' \in [Callers -> Pcs]
    BY <1>3 DEF GeminiInv, TypeOK, CountHour, CallStep, Pcs
  <2>3. QED
    BY <1>3, <2>1, <2>2 DEF GeminiInv, TypeOK, CountHour, cooldownVars, callerVars
<1>4. CASE ReturnDay(c) \/ ReturnHour(c) \/ CompensateDay(c)
  <2>1. used' \in [Windows -> Nat]
    BY <1>4, TakesBackKeeps
  <2>2. QED
    BY <1>4, <2>1 DEF GeminiInv, TypeOK, ReturnDay, ReturnHour, CompensateDay,
                      TakesBack, CallStep, Pcs, cooldownVars, callerVars
<1>5. QED
  BY <1>1, <1>2, <1>3, <1>4 DEF Admit

LEMMA CallTypes ==
  ASSUME TypeOK, NEW c \in Callers,
         Check(c) \/ Send(c) \/ Record(c) \/ Decide(c) \/ Block(c) \/ Clear(c)
  PROVE  TypeOK'
<1> USE GeminiAssumption DEF GeminiAssumption
<1>1. CASE CheckHard(c) \/ CheckSoft(c)
  BY <1>1 DEF TypeOK, CheckHard, CheckSoft, Checks, CallStep, Pcs, cooldownVars, callerVars
<1>2. CASE DropHard(c) \/ DropSoft(c)
  BY <1>2 DEF TypeOK, DropHard, DropSoft, CallStep, Pcs, callerVars, NoKey
<1>3. CASE Retries(c)
  BY <1>3 DEF TypeOK, Retries, cooldownVars
<1>4. CASE Answered(c) \/ GivesUp(c) \/ Throttled(c)
  BY <1>4 DEF TypeOK, Answered, GivesUp, Throttled, CallStep, Pcs, cooldownVars, callerVars
<1>5. CASE Record(c)
  BY <1>5 DEF TypeOK, Record, CallStep, Pcs
<1>6. CASE Decide(c)
  <2>1. PICK d \in Nat : cooldown' = [cooldown EXCEPT ![c] = [until |-> now + d, delay |-> d]]
    <3>1. \A d \in Delays(kind[c], level[c]) : d \in Nat
      <4>1. CASE kind[c] = "hard"
        BY <4>1 DEF Delays
      <4>2. CASE kind[c] # "hard"
        <5>1. Delays(kind[c], level[c]) \subseteq 1..MaxDelay
          BY <4>2, Zenon DEF Delays
        <5>2. QED
          BY <5>1
      <4>3. QED
        BY <4>1, <4>2
    <3>2. QED
      BY <1>6, <3>1 DEF Decide
  <2>2. cooldown' \in [Callers -> [until : Nat, delay : Nat]]
    BY <2>1 DEF TypeOK
  <2>3. QED
    BY <1>6, <2>2 DEF TypeOK, Decide, CallStep, Pcs, cooldownVars
<1>7. CASE Block(c)
  <2>1. Stored(c) \in [until : Nat, ends : Nat] /\ NoCooldown \in [until : Nat, delay : Nat]
    BY DEF TypeOK, Stored, NoCooldown
  <2>2. /\ hard' \in [until : Nat, ends : Nat] /\ transient' \in [until : Nat, ends : Nat]
        /\ cooldown' \in [Callers -> [until : Nat, delay : Nat]]
    BY <1>7, <2>1 DEF TypeOK, Block
  <2>3. QED
    BY <1>7, <2>2 DEF TypeOK, Block, CallStep, Pcs
<1>8. CASE Clear(c)
  BY <1>8 DEF TypeOK, Clear, CallStep, Pcs, callerVars, NoKey
<1>9. QED
  BY <1>1, <1>2, <1>3, <1>4, <1>5, <1>6, <1>7, <1>8 DEF Check, Send

LEMMA FaultTypes ==
  ASSUME TypeOK, NEW c \in Callers, Fault(c)
  PROVE  TypeOK'
<1>1. CASE Fail(c)
  BY <1>1, GeminiAssumption DEF GeminiAssumption, TypeOK, Fail, Pcs, cooldownVars, callerVars
<1>2. CASE HourLost(c)
  <2>1. used' \in [Windows -> Nat]
    <3> DEFINE w == Hour(at[c])
    <3>1. used \in [Windows -> Nat] /\ used' = [used EXCEPT ![w] = @ + 1]
      BY <1>2 DEF TypeOK, HourLost
    <3>2. \A v \in Windows : used[v] \in Nat /\ used[v] + 1 \in Nat
      BY <3>1
    <3> HIDE DEF w
    <3>3. QED
      BY <3>1, <3>2
  <2>2. QED
    BY <1>2, <2>1, GeminiAssumption
       DEF GeminiAssumption, TypeOK, HourLost, CallStep, Pcs, cooldownVars, callerVars
<1>3. CASE Shrug(c)
  BY <1>3, GeminiAssumption
     DEF GeminiAssumption, TypeOK, Shrug, CallStep, Pcs, cooldownVars, callerVars
<1>4. QED
  BY <1>1, <1>2, <1>3 DEF Fault

LEMMA ClockKeeps ==
  ASSUME GeminiInv, Lapse \/ Tick \/ UNCHANGED vars
  PROVE  TypeOK' /\ \A w \in Windows : Account(w)'
<1>1. TypeOK'
  BY GeminiAssumption
     DEF GeminiAssumption, GeminiInv, TypeOK, Lapse, Tick, NoKey, vars, cooldownVars, callerVars
<1>2. pc' = pc /\ at' = at /\ used' = used /\ admitted' = admitted /\ faults' = faults
  BY DEF Lapse, Tick, vars, callerVars
<1>3. \A w \in Windows : Holders(w)' = Holders(w) /\ Passed(w)' = Passed(w)
  BY <1>2 DEF Holders, Passed
<1>4. \A w \in Windows : Account(w)
  BY DEF GeminiInv, SlotsAccounted, PassInv, Account
<1>5. QED
  BY <1>1, <1>2, <1>3, <1>4 DEF Account, Cap

LEMMA InitKeeps ==
  ASSUME Init
  PROVE  GeminiInv
<1>1. TypeOK
  BY GeminiAssumption DEF GeminiAssumption, Init, TypeOK, Pcs, NoKey, NoCooldown
<1>2. \A w : Holders(w) = {} /\ Passed(w) = {}
  BY DEF Init, Holders, Passed
<1>3. Cardinality({}) = 0
  BY FS_EmptySet
<1>4. SlotsAccounted
  BY <1>2, <1>3 DEF Init, SlotsAccounted
<1>5. PassInv
  BY <1>2, <1>3, WindowFacts DEF Init, PassInv
<1>6. QED
  BY <1>1, <1>4, <1>5 DEF GeminiInv

LEMMA NextKeeps ==
  ASSUME GeminiInv, [Next]_vars
  PROVE  GeminiInv'
<1>1. TypeOK' /\ \A w \in Windows : Account(w)'
  <2>1. CASE Lapse \/ Tick \/ UNCHANGED vars
    BY <2>1, ClockKeeps
  <2>2. ASSUME NEW c \in Callers, Call(c)
        PROVE  TypeOK' /\ \A w \in Windows : Account(w)'
    <3>1. TypeOK
      BY DEF GeminiInv
    <3>2. CASE Admit(c)
      <4>1. TypeOK'
        BY <3>2, AdmitTypes
      <4>2. QED
        BY <3>2, <4>1, CountDayKeeps, CountHourKeeps, TakesBackKeeps, OtherStepKeeps
           DEF Admit
    <3>3. CASE Check(c) \/ Send(c) \/ Record(c) \/ Decide(c) \/ Block(c) \/ Clear(c)
      BY <3>1, <3>3, CallTypes, OtherStepKeeps
    <3>4. QED
      BY <2>2, <3>2, <3>3 DEF Call
  <2>3. ASSUME NEW c \in Callers, Fault(c)
        PROVE  TypeOK' /\ \A w \in Windows : Account(w)'
    BY <2>3, FaultTypes, FaultKeeps DEF GeminiInv
  <2>4. QED
    BY <2>1, <2>2, <2>3 DEF Next
<1>2. SlotsAccounted' /\ PassInv'
  BY <1>1 DEF Account, SlotsAccounted, PassInv
<1>3. QED
  BY <1>1, <1>2 DEF GeminiInv

LEMMA InvCaps ==
  ASSUME GeminiInv
  PROVE  CapsHold
<1>1. SUFFICES ASSUME NEW w \in Windows PROVE admitted[w] <= Cap(w)
  BY DEF CapsHold
<1>2. Cardinality(Passed(w)) \in Nat
  BY HoldersFinite, FS_CardinalityType
<1>3. admitted[w] + Cardinality(Passed(w)) <= Cap(w) /\ admitted[w] \in Nat
      /\ Cap(w) \in Nat
  BY WindowFacts DEF GeminiInv, PassInv, TypeOK
<1>4. QED
  BY <1>2, <1>3

(***************************************************************************)
(* The results.                                                            *)
(***************************************************************************)
\* GeminiInv is an inductive invariant.
THEOREM GeminiInvariance == Spec => []GeminiInv
<1>1. Init => GeminiInv
  BY InitKeeps
<1>2. GeminiInv /\ [Next]_vars => GeminiInv'
  BY NextKeeps
<1>3. QED
  BY <1>1, <1>2, PTL DEF Spec

\* Every variable keeps its type; the attempts of a call and the failures that
\* are counted stay bounded.
THEOREM GeminiTypes == Spec => []TypeOK
<1>1. GeminiInv => TypeOK
  BY DEF GeminiInv
<1>2. QED
  BY <1>1, GeminiInvariance, PTL

\* No window lets more calls through than its cap, for any number of callers.
THEOREM CapsKept == Spec => []CapsHold
<1>1. GeminiInv => CapsHold
  BY InvCaps
<1>2. QED
  BY <1>1, GeminiInvariance, PTL

\* Every slot that is counted is owned by a call, but for one lost to each fault.
THEOREM SlotsKept == Spec => []SlotsAccounted
<1>1. GeminiInv => SlotsAccounted
  BY DEF GeminiInv
<1>2. QED
  BY <1>1, GeminiInvariance, PTL

(***************************************************************************)
(* The hard block.  None reaches further than one decided now would, so    *)
(* that a hard 429 which shortens one was decided before; and none outlives *)
(* its key, so that the end of a key ends nothing that is in force.        *)
(***************************************************************************)
Bounded(key) == key.until <= now + HardDelay /\ key.until <= key.ends

Waiting(c) == pc[c] = "block" /\ kind[c] = "hard" =>
  cooldown[c].until <= now + HardDelay /\ cooldown[c].delay = HardDelay

HardInv == Bounded(hard) /\ \A c \in Callers : Waiting(c)

HardFalls(c) ==
  \/ pc[c] = "dropHard" /\ pc'[c] = "soft"
  \/ StoresLate(c) /\ pc'[c] = "idle" /\ hard'.until = cooldown[c].until

LEMMA HardFacts ==
  ASSUME TypeOK
  PROVE  /\ now \in Nat /\ HardDelay \in Nat \ {0}
         /\ hard.until \in Nat /\ hard.ends \in Nat
         /\ \A c \in Callers : cooldown[c].until \in Nat /\ cooldown[c].delay \in Nat
BY GeminiAssumption DEF GeminiAssumption, TypeOK

\* A step that leaves the hard block, the clock and the cooldowns about to be stored.
LEMMA HardStays ==
  ASSUME TypeOK, TypeOK', HardInv, hard' = hard, cooldown' = cooldown,
         now' = now \/ now' = now + 1,
         \A d \in Callers : pc'[d] = "block" => pc[d] = "block" /\ kind'[d] = kind[d]
  PROVE  HardInv' /\ ~(hard'.until < hard.until)
<1>1. now <= now' /\ now' \in Nat /\ now \in Nat /\ HardDelay \in Nat
      /\ hard.until \in Nat /\ hard.ends \in Nat
  BY HardFacts
<1>2. hard.until <= now' + HardDelay /\ hard.until <= hard.ends
  BY <1>1 DEF HardInv, Bounded
<1>3. ASSUME NEW d \in Callers PROVE Waiting(d)'
  <2>1. cooldown[d].until \in Nat
    BY HardFacts
  <2>2. QED
    BY <1>1, <2>1 DEF HardInv, Waiting
<1>4. QED
  BY <1>1, <1>2, <1>3 DEF HardInv, Bounded

LEMMA CallFalls ==
  ASSUME TypeOK, TypeOK', HardInv, NEW c \in Callers, Call(c) \/ Fault(c)
  PROVE  /\ HardInv'
         /\ hard.until > now /\ hard'.until < hard.until => HardFalls(c)
<1>1. CASE DropHard(c)
  <2>1. /\ hard' = NoKey /\ now' = now /\ cooldown' = cooldown /\ kind' = kind
        /\ pc[c] = "dropHard" /\ pc'[c] = "soft"
        /\ \A d \in Callers : pc'[d] = "block" => pc[d] = "block"
    BY <1>1 DEF DropHard, CallStep, callerVars, TypeOK
  <2>2. \A d \in Callers : Waiting(d)'
    BY <2>1 DEF HardInv, Waiting
  <2>3. Bounded(hard)'
    BY <2>1, HardFacts DEF Bounded, NoKey
  <2>4. QED
    BY <2>1, <2>2, <2>3 DEF HardInv, HardFalls
<1>2. CASE Decide(c)
  <2>1. PICK d \in Delays(kind[c], level[c]) :
          cooldown' = [cooldown EXCEPT ![c] = [until |-> now + d, delay |-> d]]
    BY <1>2 DEF Decide
  <2>2. now' = now /\ hard' = hard /\ kind' = kind
        /\ \A e \in Callers : e # c => pc'[e] = pc[e]
    BY <1>2 DEF Decide, CallStep, cooldownVars, TypeOK
  <2>3. ASSUME NEW e \in Callers PROVE Waiting(e)'
    <3>1. CASE e # c
      BY <2>1, <2>2, <3>1 DEF HardInv, Waiting
    <3>2. CASE e = c
      <4>1. kind[c] = "hard" => d = HardDelay
        BY DEF Delays
      <4>2. cooldown'[c].until = now + d /\ cooldown'[c].delay = d
        BY <2>1 DEF TypeOK
      <4>3. QED
        BY <2>2, <3>2, <4>1, <4>2, HardFacts DEF Waiting
    <3>3. QED
      BY <3>1, <3>2
  <2>4. QED
    BY <2>2, <2>3, HardFacts DEF HardInv, Bounded
<1>3. CASE Block(c)
  <2>1. /\ now' = now /\ kind' = kind /\ pc[c] = "block" /\ pc'[c] = "idle"
        /\ cooldown' = [cooldown EXCEPT ![c] = NoCooldown]
        /\ \A e \in Callers : e # c => pc'[e] = pc[e]
        /\ hard' = hard \/ (kind[c] = "hard" /\ hard' = Stored(c))
    BY <1>3 DEF Block, CallStep, TypeOK
  <2>2. ASSUME NEW e \in Callers PROVE Waiting(e)'
    BY <2>1 DEF HardInv, Waiting
  <2>3. CASE hard' = hard
    BY <2>1, <2>2, <2>3, HardFacts DEF HardInv, Bounded
  <2>4. CASE kind[c] = "hard" /\ hard' = Stored(c)
    <3>1. /\ hard'.until = cooldown[c].until /\ hard'.ends = now + cooldown[c].delay
          /\ cooldown[c].until <= now + HardDelay /\ cooldown[c].delay = HardDelay
      BY <2>1, <2>4 DEF Stored, HardInv, Waiting
    <3>2. Bounded(hard)'
      BY <2>1, <3>1, HardFacts DEF Bounded
    <3>3. ASSUME hard'.until < hard.until PROVE HardFalls(c)
      <4>1. cooldown[c].until < now + HardDelay
        BY <3>1, <3>3, HardFacts DEF HardInv, Bounded
      <4>2. QED
        BY <2>1, <2>4, <3>1, <4>1 DEF HardFalls, StoresLate
    <3>4. QED
      BY <2>2, <3>2, <3>3 DEF HardInv
  <2>5. QED
    BY <2>1, <2>3, <2>4
<1>4. CASE Admit(c) \/ Fault(c)
  <2>1. /\ now' = now /\ hard' = hard /\ cooldown' = cooldown /\ kind' = kind
        /\ \A d \in Callers : pc'[d] = "block" => pc[d] = "block"
    BY <1>4 DEF Admit, Begin, CountDay, ReturnDay, CountHour, ReturnHour, CompensateDay, TakesBack,
                Fault, Fail, HourLost, Shrug, CallStep, cooldownVars, callerVars, TypeOK
  <2>2. QED
    BY <2>1, HardStays
<1>5. CASE CheckHard(c) \/ CheckSoft(c) \/ DropSoft(c) \/ Send(c) \/ Record(c) \/ Clear(c)
  <2>1. /\ now' = now /\ hard' = hard /\ cooldown' = cooldown
        /\ \A d \in Callers : pc'[d] = "block" => pc[d] = "block" /\ kind'[d] = kind[d]
    <3>1. CASE CheckHard(c) \/ CheckSoft(c)
      BY <3>1 DEF CheckHard, CheckSoft, Checks, CallStep, cooldownVars, callerVars, TypeOK
    <3>2. CASE DropSoft(c) \/ Record(c) \/ Clear(c)
      BY <3>2 DEF DropSoft, Record, Clear, CallStep, callerVars, TypeOK
    <3>3. CASE Retries(c) \/ Answered(c) \/ GivesUp(c) \/ Throttled(c)
      BY <3>3 DEF Retries, Answered, GivesUp, Throttled, CallStep, cooldownVars, callerVars, TypeOK
    <3>4. QED
      BY <1>5, <3>1, <3>2, <3>3 DEF Send
  <2>2. QED
    BY <2>1, HardStays
<1>6. QED
  BY <1>1, <1>2, <1>3, <1>4, <1>5 DEF Call, Check

LEMMA HardMoves ==
  ASSUME TypeOK, TypeOK', HardInv, [Next]_vars
  PROVE  /\ HardInv'
         /\ hard.until > now /\ hard'.until < hard.until => \E c \in Callers : HardFalls(c)
<1>1. CASE Lapse /\ hard' # hard
  <2>1. /\ now' = now /\ hard' = NoKey /\ hard.ends <= now
        /\ pc' = pc /\ kind' = kind /\ cooldown' = cooldown
    BY <1>1 DEF Lapse, Ended, callerVars
  <2>2. HardInv' /\ hard.until <= now
    BY <2>1, HardFacts DEF HardInv, Bounded, Waiting, NoKey
  <2>3. QED
    BY <2>2, HardFacts
<1>2. CASE (Lapse /\ hard' = hard) \/ Tick \/ UNCHANGED vars
  <2>1. /\ hard' = hard /\ cooldown' = cooldown /\ pc' = pc /\ kind' = kind
        /\ now' = now \/ now' = now + 1
    BY <1>2 DEF Lapse, Tick, vars, cooldownVars, callerVars
  <2>2. QED
    BY <2>1, HardStays
<1>3. ASSUME NEW c \in Callers, Call(c) \/ Fault(c)
      PROVE  /\ HardInv'
             /\ hard.until > now /\ hard'.until < hard.until => HardFalls(c)
  BY <1>3, CallFalls
<1>4. QED
  BY <1>1, <1>2, <1>3 DEF Next

\* No success, throttled call, end of a key, dying instance or hard 429 stored at
\* once lifts or shortens a hard block in force, however many instances call; only
\* a check that read an older one as over may, or a hard 429 whose SET is late.
THEOREM HardBlockKept == Spec => HardOutlivesSuccess
<1>1. Init => HardInv
  <2>1. ASSUME Init PROVE HardInv
    BY <2>1, GeminiAssumption
       DEF GeminiAssumption, Init, HardInv, Bounded, Waiting, NoKey
  <2>2. QED
    BY <2>1
<1>2. TypeOK /\ TypeOK' /\ HardInv /\ [Next]_vars => HardInv'
  BY HardMoves
<1>3. Spec => []HardInv
  BY <1>1, <1>2, GeminiTypes, PTL DEF Spec
<1>4. TypeOK /\ TypeOK' /\ HardInv /\ [Next]_vars
        => [hard.until > now /\ hard'.until < hard.until =>
              \E c \in Callers :
                \/ pc[c] = "dropHard" /\ pc'[c] = "soft"
                \/ StoresLate(c) /\ pc'[c] = "idle" /\ hard'.until = cooldown[c].until]_vars
  BY HardMoves DEF HardFalls
<1>5. QED
  BY <1>3, <1>4, GeminiTypes, PTL DEF Spec, HardOutlivesSuccess
=============================================================================
